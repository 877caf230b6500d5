---------------------------- MODULE MCWriteCalls ----------------------------
(* Instances of WriteCalls for TLC.                                        *)
EXTENDS WriteCalls

\* The connection window is smaller than the windows of its streams.
NarrowParams ==
  [r \in Role |-> [maxData |-> 1, bidiLocal |-> 2, bidiRemote |-> 2, uniData |-> 2,
                   streams |-> [d \in Direction |-> 1]]]
=============================================================================
