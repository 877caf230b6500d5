------------------------------ MODULE MCWriter ------------------------------
(* Instances of RecordWriter for TLC.  Thirty-two stands for sixty-four:    *)
(* one byte says up to 31, two up to 4095; a record holds up to 4094 bytes. *)
EXTENDS RecordWriter

\* The types of frames, as in the code but for DATAGRAM (0x30 there) and the
\* types of QMux (eight bytes there).
Types ==
  [PADDING |-> 0, PARAMS |-> 3, RESET_STREAM |-> 4, STOP_SENDING |-> 5, STREAM |-> 8,
   MAX_DATA |-> 16, MAX_STREAM_DATA |-> 17, MAX_STREAMS_BIDI |-> 18, MAX_STREAMS_UNI |-> 19,
   DATA_BLOCKED |-> 20, STREAM_DATA_BLOCKED |-> 21, STREAMS_BLOCKED_BIDI |-> 22,
   STREAMS_BLOCKED_UNI |-> 23, DATAGRAM |-> 24, DATAGRAM_LEN |-> 25,
   CONNECTION_CLOSE |-> 28, CONNECTION_CLOSE_APP |-> 29,
   PING_REQUEST |-> 900, PING_RESPONSE |-> 901]

\* One id has two bytes (eight in the code).
Ids == [idle |-> 1, data |-> 4, bidiLocal |-> 5, bidiRemote |-> 6, uni |-> 7,
        streamsBidi |-> 8, streamsUni |-> 9, datagram |-> 30, recordSize |-> 1000]
ProhibitedIds == {0, 2, 3} \cup 10..16

Largest == 4 * Limit4 - 1
StreamsCap == Limit4 \div 4

\* Each field at its default, at the sizes of a varint, and not a multiple of a
\* millisecond; fields two by two.
FieldValues(f) ==
  IF f = "recordSize" THEN {DefaultMaxRecordSize, 0, Limit2} ELSE {0, 9, Limit1 - 1, Limit1, Limit2 + 5}
ParamChoices ==
  UNION {{[Default EXCEPT ![f] = v, ![g] = u] : v \in FieldValues(f), u \in FieldValues(g)} :
           f \in Field, g \in Field}

Ints == {0, Limit1 - 1, Limit1, Limit2}
Data(n) == [i \in 1..n |-> i % Byte]

\* Every type with every length of its integers and its data.
Frames1 ==
  {PlainFr(t, <<v>>) : t \in {16, 18, 23, 901}, v \in Ints}
  \cup {PlainFr(t, <<u, v>>) : t \in {5, 17, 21}, u \in {0, Limit1}, v \in {0, Limit2}}
  \cup {PlainFr(4, <<4, u, v>>) : u \in {0, Limit2}, v \in {0, Limit1}}
  \cup {StreamDataFr(4, v, f, Data(n)) : v \in Ints, f \in BOOLEAN, n \in {0, Limit1 - 1, Limit1}}
  \cup {FrameOf(28, <<u, v>>, FALSE, Data(n)) : u \in {0, Limit1}, v \in {0, Limit2}, n \in {0, Limit1}}
  \cup {FrameOf(29, <<u>>, FALSE, Data(n)) : u \in {0, Limit1}, n \in {0, 1}}
  \cup {FrameOf(t, << >>, FALSE, Data(n)) : t \in {24, 25}, n \in {0, Limit1}}
  \cup {FrameOf(0, << >>, FALSE, <<0, 0>>)}
  \cup {PlainFr(3, [Default EXCEPT !.idle = 15, !.data = v]) : v \in {0, Limit1}}

\* Parameters that take nine bytes with the frame around them.
SmallLocal == [Default EXCEPT !.data = 4, !.streamsBidi = Limit1]

\* Control frames that wait: none or several.
Queues ==
  {<< >>,
   <<PlainFr(16, <<Limit2>>), PlainFr(4, <<0, 5, Limit1>>), PlainFr(5, <<4, 5>>)>>}
StreamsQueues == {<< >>, <<PlainFr(18, <<Limit1>>)>>}
-----------------------------------------------------------------------------

\* The writer alone.
WriterAlone ==
  /\ WriterInit /\ ParamsInit
  /\ room = 0 /\ bytes = << >> /\ put = << >> /\ got = << >>
  /\ [][WriterNext /\ UNCHANGED <<paramVars, frameVars>>]_<<writerVars, paramVars, frameVars>>
=============================================================================
