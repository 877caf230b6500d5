----------------------------- MODULE MCCtrlLoop -----------------------------
(* Instances of CtrlLoop for TLC.                                          *)
EXTENDS CtrlLoop

\* Nothing may be sent before a limit is raised, so that streams block.
ZeroParams ==
  [r \in Role |-> [maxData |-> 0, bidiLocal |-> 0, bidiRemote |-> 0, uniData |-> 0,
                   streams |-> [d \in Direction |-> IF d = "bidi" THEN 1 ELSE 0]]]

\* The peer opens, resets, finishes and stops its streams, and pings.
Peer ==
  {StreamFr(s, 0, 0, TRUE) : s \in StreamIds}
  \cup {ResetStreamFr(s, 0) : s \in StreamIds}
  \cup {StopSendingFr(s) : s \in StreamIds}
  \cup {PingFr(0)}
=============================================================================
