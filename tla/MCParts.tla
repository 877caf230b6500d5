------------------------------ MODULE MCParts -------------------------------
(* Instances of Parts for TLC; those of the codecs are in MCWriter.         *)
EXTENDS Parts, MCWriter

-----------------------------------------------------------------------------
(* Structures                                                              *)

\* Five bits for sixty-four: bursts and rates up to the largest integer.
BurstValues == 0..4 \cup {U64Max}
RateValues == {0, 1, 2, 3, 5, U64Max}

\* Eight entries, two of them with the same key: deep enough for the last
\* entry to have to move up when it fills a hole.
EntryKeys == [a \in Entries |-> IF a = 8 THEN 4 ELSE a]

\* Hashes of four bits: keys that collide at every size of the table, some at
\* its end, so that probes wrap around.
Hashes == [k \in Keys |-> CASE k = 1 -> 15 [] k = 2 -> 15 [] k = 3 -> 14
                             [] k = 4 -> 0 [] k = 5 -> 5 [] k = 6 -> 4]

-----------------------------------------------------------------------------
(* Reader                                                                  *)

\* The fields of each, as the states of dwnx_conn_read go through them.
Forms ==
  [t \in ToSet(<<0, 3, 4, 5>>) \cup 8..25 \cup {28, 29, 900, 901} |->
     CASE t = 0 -> << >>
       [] t = 3 -> <<"buf">>
       [] t = 4 -> <<"int", "int", "int">>
       [] t \in {5, 17, 21} -> <<"int", "int">>
       [] t \in 8..9 -> <<"int", "rest">>
       [] t \in 10..11 -> <<"int", "data">>
       [] t \in 12..13 -> <<"int", "int", "rest">>
       [] t \in 14..15 -> <<"int", "int", "data">>
       [] t = 24 -> <<"rest">>
       [] t = 25 -> <<"data">>
       [] t = 28 -> <<"int", "int", "buf">>
       [] t = 29 -> <<"int", "buf">>
       [] OTHER -> <<"int">>]

-----------------------------------------------------------------------------
(* Loop                                                                    *)

\* Nothing may be sent before a limit is raised, so that streams block.
ZeroParams ==
  [e \in Role |-> [maxData |-> 0, bidiLocal |-> 0, bidiRemote |-> 0, uniData |-> 0,
                   streams |-> [d \in Direction |-> IF d = "bidi" THEN 1 ELSE 0]]]

\* The peer opens, resets, finishes and stops its streams, and pings.
PeerOfLoop ==
  {StreamFr(s, 0, 0, TRUE) : s \in StreamIds} \cup {ResetStreamFr(s, 0) : s \in StreamIds}
  \cup {StopSendingFr(s) : s \in StreamIds} \cup {PingFr(0)}

-----------------------------------------------------------------------------
(* Idle                                                                    *)

IdleOf(client, server) == [client |-> client, server |-> server]

\* Only the server has a timeout, or both have, either the smaller one, one of
\* them not a whole number of milliseconds.
Timeouts == {IdleOf(0, 3), IdleOf(3, 4), IdleOf(4, 2)}
Records2 == [client |-> 2, server |-> 1]
=============================================================================
