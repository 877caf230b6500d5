------------------------------- MODULE MCQmux -------------------------------
(* Instances of Qmux for TLC: transport parameters and bounds.             *)
EXTENDS QmuxPair

Announce(data, bidiLocal, bidiRemote, uni, streams) ==
  [r \in Role |-> [maxData |-> data, bidiLocal |-> bidiLocal,
                   bidiRemote |-> bidiRemote, uniData |-> uni,
                   streams |-> [d \in Direction |-> streams]]]

\* Streams have windows of one byte; the connection window is not the limit.
SmallParams == Announce(2, 1, 1, 1, 1)

\* Both windows are one byte: both limits must be raised to go on.
TightParams == Announce(1, 1, 1, 1, 1)

\* Toward the client the connection is the limit, toward the server the streams,
\* of which the client may open none until it is told so.
MixedParams ==
  [r \in Role |-> IF r = 0 THEN Announce(1, 2, 2, 2, 1)[r]
                 ELSE [Announce(2, 1, 1, 1, 1)[r] EXCEPT !.streams["bidi"] = 0]]

NoDataParams == Announce(0, 0, 0, 0, 1)

Dirs == {Dir(s) : s \in StreamIds}

\* Every frame a peer can form within the bounds.
AnyFrame ==
  {StreamFr(s, off, len, fin) :
     s \in StreamIds, off \in Offset, len \in Offset, fin \in BOOLEAN}
  \cup {ResetStreamFr(s, v) : s \in StreamIds, v \in Offset}
  \cup {StopSendingFr(s) : s \in StreamIds}
  \cup {MaxDataFr(v) : v \in Offset}
  \cup {MaxStreamDataFr(s, v) : s \in StreamIds, v \in Offset}
  \cup {MaxStreamsFr(d, v) : d \in Dirs, v \in 0..(MaxStreams + 1)}
  \cup {DataBlockedFr(s, v) : s \in StreamIds, v \in Offset}
  \cup {StreamDataBlockedFr(s, v) : s \in StreamIds, v \in Offset}
  \cup {StreamsBlockedFr(d, v) : d \in Dirs, v \in 0..MaxStreams}
  \cup {PingFr(0), PongFr(0)}

\* The frames that open, end and limit streams.
StreamControl ==
  {StreamFr(s, 0, len, fin) : s \in StreamIds, len \in 0..1 \cap Offset, fin \in BOOLEAN}
  \cup {ResetStreamFr(s, v) : s \in StreamIds, v \in 0..1 \cap Offset}
  \cup {StopSendingFr(s) : s \in StreamIds}
  \cup {MaxStreamsFr(d, v) : d \in Dirs, v \in 0..MaxStreams}

\* Endpoint 1 plays either role: the stream is its own or its peer's.
AnyRoleSpec ==
  /\ \E r \in Role : conn = [e \in Ends |-> NewConn(r)]
  /\ wire = [e \in Ends |-> << >>]
  /\ [][Next]_vars
=============================================================================
