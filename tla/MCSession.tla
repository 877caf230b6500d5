----------------------------- MODULE MCSession -----------------------------
(* Instances of Session for TLC.                                           *)
EXTENDS Session

Announce(data, stream, streams) ==
  [maxData |-> data, bidiLocal |-> stream, bidiRemote |-> stream, uniData |-> stream,
   streams |-> [d \in Direction |-> streams]]

\* The client receives no data: the server's limits are what it works with.
MCParams ==
  [r \in Role |-> IF r = 1 THEN Announce(1, 1, 1)
                  ELSE [Announce(1, 0, 0) EXCEPT !.streams["uni"] = 1]]

\* Equal to what is announced now, less of each kind, and more.
MCRemembered ==
  {Announce(1, 1, 1), Announce(0, 1, 1), Announce(1, 0, 1), Announce(1, 1, 0),
   Announce(2, 1, 1)}
=============================================================================
