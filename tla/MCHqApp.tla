------------------------------ MODULE MCHqApp ------------------------------
(* Instances of HqApp for TLC.                                             *)
EXTENDS HqApp

Announce(data, stream, streams) ==
  [maxData |-> data, bidiLocal |-> stream, bidiRemote |-> stream, uniData |-> 0,
   streams |-> [d \in Direction |-> IF d = "bidi" THEN streams ELSE 0]]

\* The server takes two requests at a time, which use up the connection window;
\* responses stop and go on in windows of one byte.
Limits(data) == [r \in Role |-> IF r = 1 THEN Announce(data, 2, 2) ELSE Announce(2, 1, 0)]

MCParams == Limits(4)

\* One limit or another is lower than what the server announces now.
MCRemembered == {Announce(4, 2, 1), Announce(1, 1, 2)}

\* Two requests use up the window of the connection.
TightParams == Limits(2)
TightRemembered == {Announce(2, 1, 2)}

\* A file, an empty file, and a status after which nothing is read.
MCResponses == {[len |-> 2, stop |-> FALSE], [len |-> 0, stop |-> FALSE],
                [len |-> 1, stop |-> TRUE]}
=============================================================================
