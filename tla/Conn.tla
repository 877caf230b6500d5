-------------------------------- MODULE Conn --------------------------------
(***************************************************************************)
(* The connection object of lib/dwnx_conn.c: streams, both levels of flow  *)
(* control, the transmission queue, the control frame writer and the       *)
(* record under construction.  A connection is a record c; every operator  *)
(* below maps the connection before a call of the C function it is named   *)
(* after to the connection after it.  Qmux turns these operators into      *)
(* actions.                                                                *)
(*                                                                         *)
(* Byte strings are abstracted to their lengths: a STREAM frame carries an *)
(* offset and a length.  Record capacity is abstracted to how many of the  *)
(* frames waiting to be written fit.  Transport parameters have been       *)
(* exchanged.                                                              *)
(***************************************************************************)
EXTENDS Integers, FiniteSets, Sequences

CONSTANTS
  StreamIds,     \* the stream ids that occur, a finite set
  MaxVarint,     \* DWNX_MAX_VARINT: no offset or limit exceeds it
  MaxStreams,    \* DWNX_MAX_STREAMS
  Params,        \* Params[r]: the transport parameters that role r announces
  GlitchBurst    \* settings.glitch_ratelim_burst

Role == {0, 1}             \* 0: client, 1: server
Direction == {"bidi", "uni"}

ASSUME StreamIdsAssumption == StreamIds \subseteq Nat /\ IsFiniteSet(StreamIds)
ASSUME LimitsAssumption ==
  MaxVarint \in Nat /\ MaxStreams \in Nat /\ GlitchBurst \in Nat

\* initial_max_data, initial_max_stream_data_* and initial_max_streams_* of
\* dwnx_transport_params.
ParamsType ==
  [maxData : 0..MaxVarint, bidiLocal : 0..MaxVarint, bidiRemote : 0..MaxVarint,
   uniData : 0..MaxVarint, streams : [Direction -> 0..MaxStreams]]

ASSUME ParamsAssumption == Params \in [Role -> ParamsType]

Flag == {"SHUT_RD", "SHUT_WR", "RESET_STREAM", "RESET_STREAM_RECVED",
         "STOP_SENDING", "SEND_STOP_SENDING", "SEND_RESET_STREAM",
         "STOP_SENDING_RECVED", "SEND_STREAM_DATA_BLOCKED", "ANY_SENT"}

Error == {"NONE", "PROTO", "STREAM_STATE", "STREAM_LIMIT", "FLOW_CONTROL",
          "FINAL_SIZE", "FRAME_ENCODING", "INTERNAL"}

NoBlocked == -1            \* UINT64_MAX in tx.last_blocked_offset
Idle == [id |-> -1, left |-> 0, fin |-> FALSE]

Lesser(a, b) == IF a < b THEN a ELSE b

-----------------------------------------------------------------------------
(* Stream identifiers                                                      *)

BidiStream(s) == (s \div 2) % 2 = 0
LocalStream(c, s) == s % 2 = c.role
Dir(s) == IF BidiStream(s) THEN "bidi" ELSE "uni"
OrdStreamId(s) == s \div 4 + 1
FirstStreamId(r, d) == IF d = "bidi" THEN r ELSE r + 2

CanRead(c, s) == BidiStream(s) \/ ~LocalStream(c, s)
CanWrite(c, s) == BidiStream(s) \/ LocalStream(c, s)

-----------------------------------------------------------------------------
(* Frames                                                                  *)

StreamFr(s, off, len, fin) ==
  [t |-> "STREAM", id |-> s, off |-> off, len |-> len, fin |-> fin]
ResetStreamFr(s, size)   == [t |-> "RESET_STREAM", id |-> s, size |-> size]
StopSendingFr(s)         == [t |-> "STOP_SENDING", id |-> s]
MaxDataFr(v)             == [t |-> "MAX_DATA", max |-> v]
MaxStreamDataFr(s, v)    == [t |-> "MAX_STREAM_DATA", id |-> s, max |-> v]
MaxStreamsFr(d, v)       == [t |-> "MAX_STREAMS", dir |-> d, max |-> v]
\* id is the stream whose turn it is: it gives the frame its place in the
\* record and is not sent.
DataBlockedFr(s, v)      == [t |-> "DATA_BLOCKED", id |-> s, max |-> v]
StreamDataBlockedFr(s, v) ==
  [t |-> "STREAM_DATA_BLOCKED", id |-> s, max |-> v]
StreamsBlockedFr(d, v)   == [t |-> "STREAMS_BLOCKED", dir |-> d, max |-> v]
PingFr(seq)              == [t |-> "QX_PING_REQUEST", seq |-> seq]
PongFr(seq)              == [t |-> "QX_PING_RESPONSE", seq |-> seq]

\* What an endpoint writes.
Frame ==
  [t : {"STREAM"}, id : StreamIds, off : 0..MaxVarint, len : 0..MaxVarint,
   fin : BOOLEAN]
  \cup [t : {"RESET_STREAM"}, id : StreamIds, size : 0..MaxVarint]
  \cup [t : {"STOP_SENDING"}, id : StreamIds]
  \cup [t : {"MAX_DATA"}, max : 0..MaxVarint]
  \cup [t : {"MAX_STREAM_DATA", "DATA_BLOCKED", "STREAM_DATA_BLOCKED"},
        id : StreamIds, max : 0..MaxVarint]
  \cup [t : {"MAX_STREAMS"}, dir : Direction, max : 0..MaxStreams]
  \cup [t : {"QX_PING_RESPONSE"}, seq : Nat]

\* What the decoder can make of the bytes of a peer.
PeerFrame ==
  Frame
  \cup [t : {"MAX_STREAMS", "STREAMS_BLOCKED"}, dir : Direction, max : Nat]
  \cup [t : {"QX_PING_REQUEST", "QX_PING_RESPONSE"}, seq : Nat]

-----------------------------------------------------------------------------
(* Creating, finding and closing streams                                   *)

InitialMaxRx(r, s) ==
  LET local == Params[r] IN
  IF BidiStream(s)
    THEN IF s % 2 = r THEN local.bidiLocal ELSE local.bidiRemote
    ELSE IF s % 2 = r THEN 0 ELSE local.uniData

InitialMaxTx(r, s) ==
  LET remote == Params[1 - r] IN
  IF BidiStream(s)
    THEN IF s % 2 = r THEN remote.bidiRemote ELSE remote.bidiLocal
    ELSE IF s % 2 = r THEN remote.uniData ELSE 0

\* The object create_stream makes.  A stream that does not exist (not in
\* c.live) keeps this value, so that a freed object leaves no trace.
NewStrm(r, s) ==
  [flags     |-> IF BidiStream(s) THEN {}
                 ELSE IF s % 2 = r THEN {"SHUT_RD"} ELSE {"SHUT_WR"},
   txOff     |-> 0,
   txMax     |-> InitialMaxTx(r, s),
   txBlocked |-> NoBlocked,
   rxLast    |-> 0,
   rxMax     |-> InitialMaxRx(r, s),
   rxUnsent  |-> InitialMaxRx(r, s)]

NewConn(r) ==
  [role     |-> r,
   live     |-> {},                       \* keys of the stream map
   strm     |-> [s \in StreamIds |-> NewStrm(r, s)],
   strmq    |-> {},                       \* streams in the transmission queue
   idtr     |-> {},                       \* remote ids ever opened
   next     |-> [d \in Direction |-> FirstStreamId(r, d)],
   txStreams |-> Params[1 - r].streams,
   rxStreams |-> Params[r].streams,
   rxUnsentStreams |-> Params[r].streams,
   txOff    |-> 0,
   txMax    |-> Params[1 - r].maxData,
   txBlocked |-> NoBlocked,
   rxOff    |-> 0,
   rxMax    |-> Params[r].maxData,
   rxUnsent |-> Params[r].maxData,
   ping     |-> -1,
   pong     |-> -1,
   glitch   |-> GlitchBurst,
   rd       |-> Idle,                     \* STREAM payload still to be read
   qre      |-> [started |-> FALSE, frames |-> << >>],  \* sets of frames, in order
   err      |-> "NONE"]

CreateStream(c, s) ==
  [c EXCEPT !.live = @ \cup {s}, !.strm[s] = NewStrm(c.role, s)]

ShouldCloseStream(x) ==
  {"SHUT_RD", "SHUT_WR"} \subseteq x.flags /\ "SEND_RESET_STREAM" \notin x.flags

CloseStream(c, s) ==
  [c EXCEPT !.live = @ \ {s}, !.strmq = @ \ {s},
            !.strm[s] = NewStrm(c.role, s)]

CloseStreamIfShutRdWr(c, s) ==
  IF ShouldCloseStream(c.strm[s]) THEN CloseStream(c, s) ELSE c

SetFlags(c, s, F) == [c EXCEPT !.strm[s].flags = @ \cup F]

PushIfNot(c, s) == [c EXCEPT !.strmq = @ \cup {s}]

\* conn_reset_stream and conn_stop_sending schedule a frame.
ScheduleReset(c, s) ==
  PushIfNot(SetFlags(c, s, {"SEND_RESET_STREAM", "RESET_STREAM"}), s)

ScheduleStopSending(c, s) == PushIfNot(SetFlags(c, s, {"SEND_STOP_SENDING"}), s)

\* The stream is found, or a remote stream seen for the first time is opened.
FindOrOpen(c, s) ==
  IF s \in c.live THEN c
  ELSE [CreateStream(c, s) EXCEPT !.idtr = @ \cup {s}]

\* Mutant: only local streams are taken for closed.
ClosedLocal(c, s) == s \notin c.live /\ LocalStream(c, s)

\* Not found, and it is not a remote stream seen for the first time.
Closed(c, s) == s \notin c.live /\ (LocalStream(c, s) \/ s \in c.idtr)

Fail(c, e) == [c EXCEPT !.err = e]

\* dwnx_ratelim_drain(&conn->glitch_rlim, 1, ts), time standing still.
DrainGlitch(c) ==
  IF c.glitch = 0 THEN Fail(c, "INTERNAL") ELSE [c EXCEPT !.glitch = @ - 1]

-----------------------------------------------------------------------------
(* Types                                                                   *)

Offset == 0..MaxVarint

StrmType ==
  [flags : SUBSET Flag, txOff : Offset, txMax : Offset,
   txBlocked : Offset \cup {NoBlocked},
   rxLast : Offset, rxMax : Offset, rxUnsent : Offset]

ConnType ==
  [role : Role, live : SUBSET StreamIds, strm : [StreamIds -> StrmType],
   strmq : SUBSET StreamIds, idtr : SUBSET StreamIds,
   next : [Direction -> Nat],
   txStreams : [Direction -> 0..MaxStreams],
   rxStreams : [Direction -> 0..MaxStreams],
   rxUnsentStreams : [Direction -> 0..MaxStreams],
   txOff : Offset, txMax : Offset, txBlocked : Offset \cup {NoBlocked},
   rxOff : Offset, rxMax : Offset, rxUnsent : Offset,
   ping : Nat \cup {-1}, pong : Nat \cup {-1}, glitch : 0..GlitchBurst,
   rd : {Idle} \cup [id : StreamIds, left : 1..MaxVarint, fin : BOOLEAN],
   qre : [started : BOOLEAN, frames : Seq(SUBSET Frame)],
   err : Error]

-----------------------------------------------------------------------------
(* Credit                                                                  *)

ShouldSendMaxStreamData(c, s) ==
  InitialMaxRx(c.role, s) < 4 * (c.strm[s].rxUnsent - c.strm[s].rxMax)

ShouldSendMaxData(c) == Params[c.role].maxData < 4 * (c.rxUnsent - c.rxMax)

\* Mutant: the stream is not queued.
ExtendMaxStreamOffsetQuiet(c, s, n) ==
  IF s \notin c.live THEN c
  ELSE [c EXCEPT !.strm[s].rxUnsent = Lesser(@ + n, MaxVarint)]

ExtendMaxStreamOffset(c, s, n) ==
  LET d == [c EXCEPT !.strm[s].rxUnsent = Lesser(@ + n, MaxVarint)] IN
  IF s \notin c.live THEN c
  ELSE IF /\ c.strm[s].flags \cap {"SHUT_RD", "STOP_SENDING"} = {}
          /\ ShouldSendMaxStreamData(d, s)
         THEN PushIfNot(d, s) ELSE d

\* Mutant: the window may outgrow a varint.
ExtendMaxOffsetUnbounded(c, n) == [c EXCEPT !.rxUnsent = @ + n]

ExtendMaxOffset(c, n) == [c EXCEPT !.rxUnsent = Lesser(@ + n, MaxVarint)]

ExtendMaxStreams(c, d, n) ==
  [c EXCEPT !.rxUnsentStreams[d] = Lesser(@ + n, MaxStreams)]

\* Mutant: the window of the stream is forgotten.
FcCreditsConnOnly(c, s) == c.txMax - c.txOff

FcCredits(c, s) ==
  Lesser(c.strm[s].txMax - c.strm[s].txOff, c.txMax - c.txOff)

=============================================================================
