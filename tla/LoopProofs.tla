----------------------------- MODULE LoopProofs -----------------------------
(***************************************************************************)
(* THEOREM LoopDoesOneStep: dwnx_conn_write_ctrl_frames, run statement by  *)
(* statement and stopped by whichever frame does not fit, does what the    *)
(* single step WriteCtrlFrames of ConnWrite does, for every queue of streams, *)
(* whatever was received, and any number of records.  The callback in the  *)
(* loop is taken to call nothing, and the peer to send frames.             *)
(*                                                                         *)
(* LoopIsOneStep speaks of the end of the loop and is not inductive.  LoopInv *)
(* says what the connection is at each statement, compared with the        *)
(* connection that the record was started with.  The frames written so far *)
(* are a front of the order in which all of them would be written, and in  *)
(* that order (SaidUpTo, InOrder); limits, and no other, are recorded as sent *)
(* when their frame is among them (Limits); the streams whose turns are over *)
(* are finished and precede those that wait, and of the stream whose turn it *)
(* is as much is done as the statements executed do (Midway, AtTurn).  Where *)
(* a frame does not fit, this is the single step with the frames that did  *)
(* (StepByStreams, TurnNobuf, AtEnd).                                      *)
(***************************************************************************)
EXTENDS CtrlLoop, WellFoundedInduction, SequenceTheorems, TLAPS

-----------------------------------------------------------------------------
(* The shape of a connection                                               *)

\* What every stream object is.
IsStrm(y) ==
  y = [flags |-> y.flags, txOff |-> y.txOff, txMax |-> y.txMax, txBlocked |-> y.txBlocked,
       rxLast |-> y.rxLast, rxMax |-> y.rxMax, rxUnsent |-> y.rxUnsent]

\* The fields of a connection.
IsConn(x) ==
  x = [role |-> x.role, live |-> x.live, strm |-> x.strm, strmq |-> x.strmq, idtr |-> x.idtr,
       next |-> x.next, txStreams |-> x.txStreams, rxStreams |-> x.rxStreams,
       rxUnsentStreams |-> x.rxUnsentStreams, txOff |-> x.txOff, txMax |-> x.txMax,
       txBlocked |-> x.txBlocked, rxOff |-> x.rxOff, rxMax |-> x.rxMax,
       rxUnsent |-> x.rxUnsent, ping |-> x.ping, pong |-> x.pong, glitch |-> x.glitch,
       rd |-> x.rd, qre |-> x.qre, err |-> x.err]

\* Nothing is said of offsets and limits: the loop only compares and copies them.
WellFormed(x) ==
  /\ IsConn(x)
  /\ x.strm = [s \in StreamIds |-> x.strm[s]]
  /\ \A s \in StreamIds : IsStrm(x.strm[s])
  /\ x.strmq \subseteq StreamIds
  /\ x.rxStreams = [d \in Direction |-> x.rxStreams[d]]
  /\ x.qre = [started |-> x.qre.started, frames |-> x.qre.frames]

\* A new stream is a stream object.
LEMMA NewStrmShape ==
  ASSUME NEW r, NEW s
  PROVE  IsStrm(NewStrm(r, s))
BY DEF IsStrm, NewStrm

\* A new connection has the shape.
LEMMA NewConnShape == WellFormed(NewConn(0))
<1> DEFINE x == NewConn(0)
<1>1. IsConn(x)
  BY DEF IsConn, NewConn
<1>2. /\ x.strm = [s \in StreamIds |-> NewStrm(0, s)] /\ x.strmq = {}
      /\ x.qre = [started |-> FALSE, frames |-> << >>] /\ x.rxStreams = Params[0].streams
  BY DEF NewConn
<1>3. x.rxStreams = [d \in Direction |-> x.rxStreams[d]]
  BY <1>2, ParamsAssumption DEF ParamsType, Role
<1> QED
  <2> HIDE DEF x
  <2>1. x.strm = [s \in StreamIds |-> x.strm[s]] /\ \A s \in StreamIds : IsStrm(x.strm[s])
    BY <1>2, NewStrmShape
  <2>2. x.qre = [started |-> x.qre.started, frames |-> x.qre.frames]
    BY <1>2
  <2> QED
    BY <1>1, <1>2, <1>3, <2>1, <2>2 DEF WellFormed, x

\* Stream s may be replaced by another object.
LEMMA StrmShape ==
  ASSUME NEW x, WellFormed(x), NEW s \in StreamIds, NEW y, IsStrm(y)
  PROVE  WellFormed([x EXCEPT !.strm[s] = y])
<1> DEFINE z == [x EXCEPT !.strm[s] = y]
<1>1. z = [x EXCEPT !.strm = [x.strm EXCEPT ![s] = y]]
  BY DEF WellFormed, IsConn
<1>2. IsConn(z) /\ z.strm = [x.strm EXCEPT ![s] = y] /\ z.strmq = x.strmq
      /\ z.rxStreams = x.rxStreams /\ z.qre = x.qre
  BY <1>1 DEF WellFormed, IsConn
<1> HIDE DEF z
<1>3. x.strm = [t \in StreamIds |-> x.strm[t]] /\ \A t \in StreamIds : IsStrm(x.strm[t])
  BY DEF WellFormed
<1>4. z.strm = [t \in StreamIds |-> IF t = s THEN y ELSE x.strm[t]]
  BY <1>2, <1>3
<1>5. /\ z.strm = [t \in StreamIds |-> z.strm[t]]
      /\ \A t \in StreamIds : IsStrm(z.strm[t])
  BY <1>3, <1>4
<1>6. /\ z.strmq \subseteq StreamIds /\ z.rxStreams = [d \in Direction |-> z.rxStreams[d]]
      /\ z.qre = [started |-> z.qre.started, frames |-> z.qre.frames]
  BY <1>2 DEF WellFormed
<1> HIDE DEF z
<1> QED
  BY <1>2, <1>5, <1>6 DEF WellFormed, z

\* Most fields may take any value.
LEMMA SetShape ==
  ASSUME NEW x, WellFormed(x), NEW v
  PROVE  /\ WellFormed([x EXCEPT !.live = v]) /\ WellFormed([x EXCEPT !.idtr = v])
         /\ WellFormed([x EXCEPT !.next = v]) /\ WellFormed([x EXCEPT !.txStreams = v])
         /\ WellFormed([x EXCEPT !.rxUnsentStreams = v]) /\ WellFormed([x EXCEPT !.rd = v])
         /\ WellFormed([x EXCEPT !.txMax = v]) /\ WellFormed([x EXCEPT !.rxOff = v])
         /\ WellFormed([x EXCEPT !.rxUnsent = v]) /\ WellFormed([x EXCEPT !.ping = v])
         /\ WellFormed([x EXCEPT !.glitch = v]) /\ WellFormed([x EXCEPT !.err = v])
         /\ WellFormed([x EXCEPT !.txBlocked = v])
         /\ (v \subseteq StreamIds => WellFormed([x EXCEPT !.strmq = v]))
<1> DEFINE Same(z) == /\ z.strm = x.strm /\ z.rxStreams = x.rxStreams /\ z.qre = x.qre
<1>1. ASSUME NEW z, IsConn(z), Same(z), z.strmq \subseteq StreamIds
      PROVE  WellFormed(z)
  BY <1>1 DEF WellFormed
<1>2. IsConn(x) /\ x.strmq \subseteq StreamIds
  BY DEF WellFormed
<1> DEFINE Kept(z) == IsConn(z) /\ Same(z) /\ z.strmq = x.strmq
<1>3. /\ \A z \in {[x EXCEPT !.live = v], [x EXCEPT !.idtr = v], [x EXCEPT !.next = v]} :
            Kept(z)
      /\ \A z \in {[x EXCEPT !.txStreams = v], [x EXCEPT !.rxUnsentStreams = v], [x EXCEPT !.rd = v]} :
            Kept(z)
      /\ \A z \in {[x EXCEPT !.txMax = v], [x EXCEPT !.rxOff = v], [x EXCEPT !.rxUnsent = v]} :
            Kept(z)
      /\ \A z \in {[x EXCEPT !.ping = v], [x EXCEPT !.glitch = v]} :
            Kept(z)
      /\ \A z \in {[x EXCEPT !.err = v], [x EXCEPT !.txBlocked = v]} :
            Kept(z)
  <2>1. \A z \in {[x EXCEPT !.live = v], [x EXCEPT !.idtr = v], [x EXCEPT !.next = v]} :
          Kept(z)
    BY <1>2 DEF IsConn
  <2>2. \A z \in {[x EXCEPT !.txStreams = v], [x EXCEPT !.rxUnsentStreams = v], [x EXCEPT !.rd = v]} :
          Kept(z)
    BY <1>2 DEF IsConn
  <2>3. \A z \in {[x EXCEPT !.txMax = v], [x EXCEPT !.rxOff = v], [x EXCEPT !.rxUnsent = v]} :
          Kept(z)
    BY <1>2 DEF IsConn
  <2>4. \A z \in {[x EXCEPT !.ping = v], [x EXCEPT !.glitch = v]} :
          Kept(z)
    BY <1>2 DEF IsConn
  <2>5. \A z \in {[x EXCEPT !.err = v], [x EXCEPT !.txBlocked = v]} :
          Kept(z)
    BY <1>2 DEF IsConn
  <2> HIDE DEF Kept
  <2> QED
    BY <2>1, <2>2, <2>3, <2>4, <2>5
<1>4. /\ IsConn([x EXCEPT !.strmq = v]) /\ Same([x EXCEPT !.strmq = v])
      /\ [x EXCEPT !.strmq = v].strmq = v
  BY <1>2 DEF IsConn
<1> HIDE DEF Same
<1>5. \A z : IsConn(z) /\ Same(z) /\ z.strmq = x.strmq => WellFormed(z)
  BY <1>1, <1>2
<1> QED
  BY <1>1, <1>3, <1>4, <1>5

\* So may the fields of a stream.
LEMMA StrmFieldShape ==
  ASSUME NEW x, WellFormed(x), NEW s \in StreamIds, NEW v
  PROVE  /\ WellFormed([x EXCEPT !.strm[s].flags = v])
         /\ WellFormed([x EXCEPT !.strm[s].txMax = v])
         /\ WellFormed([x EXCEPT !.strm[s].rxLast = v])
         /\ WellFormed([x EXCEPT !.strm[s].rxUnsent = v])
         /\ WellFormed([x EXCEPT !.strm[s].txBlocked = v])
<1> DEFINE y == x.strm[s]
<1>1. IsStrm(y)
  BY DEF WellFormed
<1>2. /\ IsStrm([y EXCEPT !.flags = v]) /\ IsStrm([y EXCEPT !.txMax = v])
      /\ IsStrm([y EXCEPT !.rxLast = v]) /\ IsStrm([y EXCEPT !.rxUnsent = v])
      /\ IsStrm([y EXCEPT !.txBlocked = v])
  <2> HIDE DEF y
  <2> QED
    BY <1>1 DEF IsStrm
<1>3. /\ WellFormed([x EXCEPT !.strm[s] = [y EXCEPT !.flags = v]])
      /\ WellFormed([x EXCEPT !.strm[s] = [y EXCEPT !.txMax = v]])
      /\ WellFormed([x EXCEPT !.strm[s] = [y EXCEPT !.rxLast = v]])
      /\ WellFormed([x EXCEPT !.strm[s] = [y EXCEPT !.rxUnsent = v]])
      /\ WellFormed([x EXCEPT !.strm[s] = [y EXCEPT !.txBlocked = v]])
  <2> HIDE DEF y
  <2> QED
    BY <1>2, StrmShape
<1> QED
  BY <1>3

\* Creating and closing a stream.
LEMMA CreateShape ==
  ASSUME NEW x, WellFormed(x), NEW s \in StreamIds
  PROVE  WellFormed(CreateStream(x, s)) /\ WellFormed(CloseStream(x, s))
<1>1. WellFormed([x EXCEPT !.strm[s] = NewStrm(x.role, s)])
  BY NewStrmShape, StrmShape
<1> DEFINE z == [x EXCEPT !.strm[s] = NewStrm(x.role, s)]
<1>2. z.live = x.live /\ z.strmq = x.strmq
  BY DEF WellFormed, IsConn
<1>3. x.strmq \ {s} \subseteq StreamIds
  BY DEF WellFormed
<1>4. CreateStream(x, s) = [z EXCEPT !.live = x.live \cup {s}]
  BY DEF CreateStream, WellFormed, IsConn
<1>5. CloseStream(x, s) = [[z EXCEPT !.live = x.live \ {s}] EXCEPT !.strmq = x.strmq \ {s}]
  BY DEF CloseStream, WellFormed, IsConn
<1>6. WellFormed(z)
  BY <1>1
<1> HIDE DEF z
<1>7. WellFormed([z EXCEPT !.live = x.live \cup {s}]) /\ WellFormed([z EXCEPT !.live = x.live \ {s}])
  BY <1>6, SetShape
<1>8. WellFormed([[z EXCEPT !.live = x.live \ {s}] EXCEPT !.strmq = x.strmq \ {s}])
  BY <1>3, <1>7, SetShape
<1> QED
  BY <1>4, <1>5, <1>7, <1>8

\* The operators on one stream that the calls and handlers are made of.
LEMMA StreamOpsShape ==
  ASSUME NEW x, WellFormed(x), NEW s \in StreamIds
  PROVE  /\ \A F : WellFormed(SetFlags(x, s, F))
         /\ WellFormed(PushIfNot(x, s)) /\ WellFormed(CloseStreamIfShutRdWr(x, s))
         /\ WellFormed(FindOrOpen(x, s)) /\ WellFormed(DrainGlitch(x))
<1>1. \A F : WellFormed(SetFlags(x, s, F))
  BY StrmFieldShape DEF SetFlags
<1>2. WellFormed(PushIfNot(x, s))
  <2>1. x.strmq \cup {s} \subseteq StreamIds
    BY DEF WellFormed
  <2> QED
    BY <2>1, SetShape DEF PushIfNot
<1>3. WellFormed(CloseStreamIfShutRdWr(x, s))
  BY CreateShape DEF CloseStreamIfShutRdWr
<1>4. WellFormed(FindOrOpen(x, s))
  BY CreateShape, SetShape DEF FindOrOpen
<1>5. WellFormed(DrainGlitch(x))
  BY SetShape DEF DrainGlitch, Fail
<1> QED
  BY <1>1, <1>2, <1>3, <1>4, <1>5

\* conn_reset_stream and conn_stop_sending
LEMMA ScheduleShape ==
  ASSUME NEW x, WellFormed(x), NEW s \in StreamIds
  PROVE  WellFormed(ScheduleReset(x, s)) /\ WellFormed(ScheduleStopSending(x, s))
BY StreamOpsShape DEF ScheduleReset, ScheduleStopSending

\* What a frame may be.
LEMMA FrameIds ==
  ASSUME NEW f \in PeerFrame
  PROVE  /\ f.t \in {"STREAM", "RESET_STREAM", "STOP_SENDING", "MAX_STREAM_DATA",
                     "STREAM_DATA_BLOCKED"} => f.id \in StreamIds
         /\ f.t \in {"STREAM", "RESET_STREAM", "STOP_SENDING", "MAX_DATA",
                     "MAX_STREAM_DATA", "MAX_STREAMS", "DATA_BLOCKED",
                     "STREAM_DATA_BLOCKED", "STREAMS_BLOCKED",
                     "QX_PING_REQUEST", "QX_PING_RESPONSE"}
BY DEF PeerFrame, Frame

\* The handlers of frames.
LEMMA RecvShape ==
  ASSUME NEW x, WellFormed(x), NEW f \in PeerFrame
  PROVE  WellFormed(Recv(x, f))
<1>1. CASE RecvError(x, f) # "NONE"
  BY <1>1, SetShape DEF Recv, Fail
<1>2. CASE RecvError(x, f) = "NONE"
  <2>1. Recv(x, f) = RecvAccepted(x, f)
    BY <1>2 DEF Recv
  <2>2. f.t # "QX_PING_RESPONSE"
    BY <1>2 DEF RecvError, RecvPingError
  <2>3. CASE f.t = "STREAM"
    <3> DEFINE a == FindOrOpen(x, f.id)
               a1 == [a EXCEPT !.rxOff = a.rxOff + f.len]
               a2 == [a1 EXCEPT !.strm[f.id].rxLast = f.off + f.len]
               rd == IF f.len = 0 THEN Idle ELSE [id |-> f.id, left |-> f.len, fin |-> f.fin]
               d == [a2 EXCEPT !.rd = rd]
    <3>1. f.id \in StreamIds /\ WellFormed(a)
      BY <2>3, FrameIds, StreamOpsShape
    <3>2. WellFormed(a1)
      <4> HIDE DEF a
      <4> QED
        BY <3>1, SetShape
    <3>3. WellFormed(a2)
      <4> HIDE DEF a1
      <4> QED
        BY <3>1, <3>2, StrmFieldShape
    <3>4. WellFormed(d)
      <4> HIDE DEF a2, rd
      <4> QED
        BY <3>3, SetShape
    <3>5. RecvStream(x, f) = IF f.len = 0 /\ f.fin
                               THEN CloseStreamIfShutRdWr(SetFlags(d, f.id, {"SHUT_RD"}), f.id)
                               ELSE d
      <4>1. d = [a EXCEPT !.rxOff = @ + f.len, !.strm[f.id].rxLast = f.off + f.len, !.rd = rd]
        <5> HIDE DEF a, rd
        <5> QED
          BY <3>1 DEF WellFormed, IsConn
      <4> QED
        BY <4>1 DEF RecvStream
    <3> HIDE DEF d
    <3> QED
      BY <2>1, <2>3, <3>1, <3>4, <3>5, StreamOpsShape DEF RecvAccepted
  <2>4. CASE f.t = "RESET_STREAM"
    <3>1. f.id \in StreamIds /\ WellFormed(FindOrOpen(x, f.id))
      BY <2>4, FrameIds, StreamOpsShape
    <3>2. WellFormed(SetFlags(FindOrOpen(x, f.id), f.id, {"SHUT_RD", "RESET_STREAM_RECVED"}))
      BY <3>1, StreamOpsShape
    <3> QED
      BY <2>1, <2>4, <3>1, <3>2, StreamOpsShape DEF RecvAccepted, RecvResetStream
  <2>5. CASE f.t = "STOP_SENDING"
    <3>1. f.id \in StreamIds /\ WellFormed(FindOrOpen(x, f.id)) /\ WellFormed(DrainGlitch(x))
      BY <2>5, FrameIds, StreamOpsShape
    <3>2. WellFormed(ScheduleReset(FindOrOpen(x, f.id), f.id))
      BY <3>1, ScheduleShape
    <3> QED
      BY <2>1, <2>5, <3>1, <3>2, StreamOpsShape DEF RecvAccepted, RecvStopSending
  <2>6. CASE f.t = "MAX_STREAM_DATA"
    <3>1. f.id \in StreamIds /\ WellFormed(FindOrOpen(x, f.id)) /\ WellFormed(DrainGlitch(x))
      BY <2>6, FrameIds, StreamOpsShape
    <3>2. WellFormed([FindOrOpen(x, f.id) EXCEPT !.strm[f.id].txMax = f.max])
      BY <3>1, StrmFieldShape
    <3> QED
      BY <2>1, <2>6, <3>1, <3>2, StreamOpsShape DEF RecvAccepted, RecvMaxStreamData
  <2>7. CASE f.t = "MAX_DATA"
    <3>1. WellFormed([x EXCEPT !.txMax = f.max])
      BY SetShape
    <3> QED
      BY <2>1, <2>7, <3>1 DEF RecvAccepted, RecvMaxData
  <2>8. CASE f.t = "MAX_STREAMS"
    <3> DEFINE v == [x.txStreams EXCEPT ![f.dir] = f.max]
    <3>1. RecvMaxStreams(x, f) = [x EXCEPT !.txStreams = v]
      BY DEF RecvMaxStreams
    <3> HIDE DEF v
    <3>2. WellFormed([x EXCEPT !.txStreams = v])
      BY SetShape
    <3> QED
      BY <2>1, <2>8, <3>1, <3>2 DEF RecvAccepted
  <2>9. CASE f.t = "QX_PING_REQUEST"
    <3>1. WellFormed(DrainGlitch(x))
      BY SetShape DEF DrainGlitch, Fail
    <3>2. WellFormed([DrainGlitch(x) EXCEPT !.ping = f.seq])
      BY <3>1, SetShape
    <3> QED
      BY <2>1, <2>9, <3>1, <3>2 DEF RecvAccepted, RecvPing
  <2>10. CASE f.t \in {"DATA_BLOCKED", "STREAM_DATA_BLOCKED", "STREAMS_BLOCKED"}
    BY <2>1, <2>10 DEF RecvAccepted
  <2> QED
    BY <2>2, <2>3, <2>4, <2>5, <2>6, <2>7, <2>8, <2>9, <2>10, FrameIds
<1> QED
  BY <1>1, <1>2

\* The calls of the application.
LEMMA CallShape ==
  ASSUME NEW x, WellFormed(x)
  PROVE  /\ \A d \in Direction : x.next[d] \in StreamIds => WellFormed(OpenStream(x, d))
         /\ \A d, n : WellFormed(ExtendMaxStreams(x, d, n))
         /\ \A n : WellFormed(ExtendMaxOffset(x, n))
         /\ \A s \in StreamIds : \A n : WellFormed(ExtendMaxStreamOffset(x, s, n))
         /\ \A s \in StreamIds : /\ WellFormed(ShutdownStreamRead(x, s))
                                 /\ WellFormed(ShutdownStream(x, s))
<1>1. ASSUME NEW d \in Direction, x.next[d] \in StreamIds
      PROVE  WellFormed(OpenStream(x, d))
  <2> DEFINE z == CreateStream(x, x.next[d])
             v == [z.next EXCEPT ![d] = z.next[d] + 4]
  <2>1. WellFormed(z)
    BY <1>1, CreateShape
  <2>2. OpenStream(x, d) = [z EXCEPT !.next = v]
    BY DEF OpenStream
  <2> HIDE DEF z, v
  <2>3. WellFormed([z EXCEPT !.next = v])
    BY <2>1, SetShape
  <2> QED
    BY <2>2, <2>3
<1>2. ASSUME NEW d, NEW n
      PROVE  WellFormed(ExtendMaxStreams(x, d, n))
  <2> DEFINE v == [x.rxUnsentStreams EXCEPT ![d] = Lesser(x.rxUnsentStreams[d] + n, MaxStreams)]
  <2>1. ExtendMaxStreams(x, d, n) = [x EXCEPT !.rxUnsentStreams = v]
    BY DEF ExtendMaxStreams
  <2> HIDE DEF v
  <2>2. WellFormed([x EXCEPT !.rxUnsentStreams = v])
    BY SetShape
  <2> QED
    BY <2>1, <2>2
<1>3. ASSUME NEW n
      PROVE  WellFormed(ExtendMaxOffset(x, n))
  <2> DEFINE v == Lesser(x.rxUnsent + n, MaxVarint)
  <2>1. ExtendMaxOffset(x, n) = [x EXCEPT !.rxUnsent = v]
    BY DEF ExtendMaxOffset
  <2> HIDE DEF v
  <2>2. WellFormed([x EXCEPT !.rxUnsent = v])
    BY SetShape
  <2> QED
    BY <2>1, <2>2
<1>4. ASSUME NEW s \in StreamIds, NEW n
      PROVE  WellFormed(ExtendMaxStreamOffset(x, s, n))
  <2> DEFINE v == Lesser(x.strm[s].rxUnsent + n, MaxVarint)
             z == [x EXCEPT !.strm[s].rxUnsent = v]
  <2>1. WellFormed(z)
    <3> HIDE DEF v
    <3> QED
      BY StrmFieldShape
  <2>2. ExtendMaxStreamOffset(x, s, n) \in {x, z, PushIfNot(z, s)}
    BY DEF ExtendMaxStreamOffset
  <2> HIDE DEF z
  <2>3. WellFormed(PushIfNot(z, s))
    BY <2>1, StreamOpsShape
  <2> QED
    BY <2>1, <2>2, <2>3
<1>5. ASSUME NEW s \in StreamIds
      PROVE  \A y : WellFormed(y) => /\ WellFormed(ShutdownStreamRead(y, s))
                                     /\ WellFormed(ShutdownStreamWrite(y, s))
  <2> SUFFICES ASSUME NEW y, WellFormed(y)
               PROVE  /\ WellFormed(ShutdownStreamRead(y, s))
                      /\ WellFormed(ShutdownStreamWrite(y, s))
    OBVIOUS
  <2>1. WellFormed(SetFlags(y, s, {"STOP_SENDING"})) /\ WellFormed(SetFlags(y, s, {"SHUT_WR"}))
    BY StreamOpsShape
  <2>2. /\ WellFormed(ScheduleStopSending(SetFlags(y, s, {"STOP_SENDING"}), s))
        /\ WellFormed(ScheduleReset(SetFlags(y, s, {"SHUT_WR"}), s))
    BY <2>1, ScheduleShape
  <2> QED
    BY <2>2 DEF ShutdownStreamRead, ShutdownStreamWrite
<1>6. ASSUME NEW s \in StreamIds
      PROVE  WellFormed(ShutdownStream(x, s))
  BY <1>5 DEF ShutdownStream
<1> QED
  BY <1>1, <1>2, <1>3, <1>4, <1>5, <1>6

\* A report that does not fit is queued.
LEMMA ReportShape ==
  ASSUME NEW x, WellFormed(x), NEW s \in StreamIds, BlockedReports(x, s) # {}
  PROVE  WellFormed(ReportBlocked(x, s, {}))
<1> DEFINE d == [x EXCEPT !.txBlocked = x.txBlocked, !.strm[s].txBlocked = x.strm[s].txBlocked,
                          !.qre.frames = x.qre.frames]
           e == [x EXCEPT !.strm[s].txBlocked = x.strm[s].txBlocked]
<1>1. WellFormed(e)
  BY StrmFieldShape
<1>2. e.txBlocked = x.txBlocked /\ e.qre = x.qre /\ IsConn(e)
      /\ e.qre = [started |-> e.qre.started, frames |-> e.qre.frames]
  BY <1>1 DEF WellFormed, IsConn
<1>3. d = [e EXCEPT !.txBlocked = e.txBlocked, !.qre.frames = e.qre.frames]
  BY <1>2 DEF WellFormed, IsConn
<1>4. d = e
  <2> HIDE DEF d, e
  <2> QED
    BY <1>2, <1>3 DEF IsConn
<1>5. ReportBlocked(x, s, {}) = PushIfNot(SetFlags(d, s, {"SEND_STREAM_DATA_BLOCKED"}), s)
  BY DEF ReportBlocked, Batch
<1>6. WellFormed(SetFlags(d, s, {"SEND_STREAM_DATA_BLOCKED"}))
  <2> HIDE DEF d
  <2> QED
    BY <1>1, <1>4, StreamOpsShape
<1> HIDE DEF d
<1> QED
  BY <1>5, <1>6, StreamOpsShape

\* The connection between two records.
LEMMA PrepareShape ==
  ASSUME PeerFrames \subseteq PeerFrame, WellFormed(c), Prepare
  PROVE  WellFormed(c')
<1>1. CASE \E f \in PeerFrames : ReadFrame(f)
  BY <1>1, RecvShape DEF ReadFrame
<1>2. CASE \E d \in Direction : OpenNext(d) \/ c' = ExtendMaxStreams(c, d, 1)
  BY <1>2, CallShape DEF OpenNext
<1>3. CASE \E s \in StreamIds :
             \/ Block(s) \/ c' = ShutdownStream(c, s)
             \/ CanRead(c, s) /\ c' = ShutdownStreamRead(c, s)
             \/ CanRead(c, s) /\ c' = ExtendMaxStreamOffset(c, s, 1)
  BY <1>3, CallShape, ReportShape DEF Block
<1>4. CASE c' = ExtendMaxOffset(c, 1)
  BY <1>4, CallShape
<1> QED
  BY <1>1, <1>2, <1>3, <1>4 DEF Prepare

-----------------------------------------------------------------------------
(* The frames and their places                                             *)

\* The frames of a stream are written on its turn, each at its place.
LEMMA StreamPlaces ==
  ASSUME NEW b, NEW s \in StreamIds
  PROVE  /\ \A f \in ResetFrames(b, s) : f.t = "RESET_STREAM" /\ Place(f) = <<1, s, 0>>
         /\ \A f \in StopFrames(b, s) : f.t = "STOP_SENDING" /\ Place(f) = <<1, s, 1>>
         /\ \A f \in CreditFrames(b, s) : f.t = "MAX_STREAM_DATA" /\ Place(f) = <<1, s, 2>>
         /\ \A f \in DataBlockedFrames(b, s) : f.t = "DATA_BLOCKED" /\ Place(f) = <<1, s, 3>>
         /\ \A f \in StreamDataBlockedFrames(b, s) :
              f.t = "STREAM_DATA_BLOCKED" /\ Place(f) = <<1, s, 4>>
<1>1. ASSUME NEW f \in ResetFrames(b, s)
      PROVE  f.t = "RESET_STREAM" /\ Place(f) = <<1, s, 0>>
  BY DEF ResetFrames, ResetStreamFr, Place
<1>2. ASSUME NEW f \in StopFrames(b, s)
      PROVE  f.t = "STOP_SENDING" /\ Place(f) = <<1, s, 1>>
  BY DEF StopFrames, StopSendingFr, Place
<1>3. ASSUME NEW f \in CreditFrames(b, s)
      PROVE  f.t = "MAX_STREAM_DATA" /\ Place(f) = <<1, s, 2>>
  BY DEF CreditFrames, MaxStreamDataFr, Place
<1>4. ASSUME NEW f \in DataBlockedFrames(b, s)
      PROVE  f.t = "DATA_BLOCKED" /\ Place(f) = <<1, s, 3>>
  BY DEF DataBlockedFrames, DataBlockedFr, Place
<1>5. ASSUME NEW f \in StreamDataBlockedFrames(b, s)
      PROVE  f.t = "STREAM_DATA_BLOCKED" /\ Place(f) = <<1, s, 4>>
  BY DEF StreamDataBlockedFrames, StreamDataBlockedFr, Place
<1> QED
  BY <1>1, <1>2, <1>3, <1>4, <1>5

\* The frames before and after the queue.
LEMMA OtherPlaces ==
  ASSUME NEW b
  PROVE  /\ \A f \in MaxDataFrames(b) : f.t = "MAX_DATA" /\ Place(f) = <<0, 0, 0>>
         /\ \A f \in PongFrames(b) : f.t = "QX_PING_RESPONSE" /\ Place(f) = <<0, 0, 1>>
         /\ \A f \in MaxStreamsFrames(b) :
              /\ f.t = "MAX_STREAMS" /\ f.dir \in Direction
              /\ f = MaxStreamsFr(f.dir, b.rxUnsentStreams[f.dir])
              /\ b.rxUnsentStreams[f.dir] > b.rxStreams[f.dir]
              /\ Place(f) = <<2, IF f.dir = "bidi" THEN 0 ELSE 1, 0>>
<1>1. ASSUME NEW f \in MaxDataFrames(b)
      PROVE  f.t = "MAX_DATA" /\ Place(f) = <<0, 0, 0>>
  BY DEF MaxDataFrames, MaxDataFr, Place
<1>2. ASSUME NEW f \in PongFrames(b)
      PROVE  f.t = "QX_PING_RESPONSE" /\ Place(f) = <<0, 0, 1>>
  BY DEF PongFrames, PongFr, Place
<1>3. ASSUME NEW f \in MaxStreamsFrames(b)
      PROVE  /\ f.t = "MAX_STREAMS" /\ f.dir \in Direction
             /\ f = MaxStreamsFr(f.dir, b.rxUnsentStreams[f.dir])
             /\ b.rxUnsentStreams[f.dir] > b.rxStreams[f.dir]
             /\ Place(f) = <<2, IF f.dir = "bidi" THEN 0 ELSE 1, 0>>
  BY DEF MaxStreamsFrames, MaxStreamsFr, Place
<1> QED
  BY <1>1, <1>2, <1>3

\* The frames of stream s with place k on its turn.
OnTurn(b, s, k) ==
  CASE k = 0 -> ResetFrames(b, s)
    [] k = 1 -> StopFrames(b, s)
    [] k = 2 -> CreditFrames(b, s)
    [] k = 3 -> {f \in DataBlockedFrames(b, s) :
                   s \in Reporting(b) /\ \A t \in Reporting(b) : s <= t}
    [] k = 4 -> {f \in StreamDataBlockedFrames(b, s) : s \in Reporting(b)}

\* Stream s has a frame with place k on its turn.
Says(b, s, k, f) == f \in OnTurn(b, s, k) /\ (k = 0 \/ ~ClosesOnReset(b, s))

\* A frame that a stream writes has one of five places.
LEMMA StreamFrameKinds ==
  ASSUME NEW b, NEW s \in StreamIds, NEW f
  PROVE  /\ f \in StreamFrames(b, s) <=> \E k \in 0..4 : Says(b, s, k, f)
         /\ \A k \in 0..4 : Says(b, s, k, f) => Place(f) = <<1, s, k>>
<1>1. 0..4 = {0, 1, 2, 3, 4}
  OBVIOUS
<1>2. /\ Says(b, s, 0, f) <=> f \in ResetFrames(b, s)
      /\ Says(b, s, 1, f) <=> f \in StopFrames(b, s) /\ ~ClosesOnReset(b, s)
      /\ Says(b, s, 2, f) <=> f \in CreditFrames(b, s) /\ ~ClosesOnReset(b, s)
      /\ Says(b, s, 3, f) <=> /\ f \in DataBlockedFrames(b, s) /\ ~ClosesOnReset(b, s)
                              /\ s \in Reporting(b) /\ \A t \in Reporting(b) : s <= t
      /\ Says(b, s, 4, f) <=> /\ f \in StreamDataBlockedFrames(b, s) /\ ~ClosesOnReset(b, s)
                              /\ s \in Reporting(b)
  BY DEF Says, OnTurn
<1>3. \A k \in 0..4 : Says(b, s, k, f) => Place(f) = <<1, s, k>>
  BY <1>1, <1>2, StreamPlaces
<1>4. f \in StreamFrames(b, s) <=> \E k \in 0..4 : Says(b, s, k, f)
  BY <1>1, <1>2 DEF StreamFrames, BlockedFrames
<1> QED
  BY <1>3, <1>4

\* The place of a frame, in three numbers.
LEMMA PlaceParts ==
  ASSUME NEW b, WellFormed(b), NEW f \in CtrlFrames(b)
  PROVE  \/ f \in MaxDataFrames(b) /\ Place(f) = <<0, 0, 0>>
         \/ f \in PongFrames(b) /\ Place(f) = <<0, 0, 1>>
         \/ \E s \in b.strmq, k \in 0..4 : Says(b, s, k, f) /\ Place(f) = <<1, s, k>>
         \/ f \in MaxStreamsFrames(b) /\ Place(f) = <<2, IF f.dir = "bidi" THEN 0 ELSE 1, 0>>
<1>1. b.strmq \subseteq StreamIds
  BY DEF WellFormed
<1>2. CASE f \in HeadFrames(b)
  BY <1>2, OtherPlaces DEF HeadFrames
<1>3. CASE f \in QueueFrames(b)
  <2>1. PICK s \in b.strmq : f \in StreamFrames(b, s)
    BY <1>3 DEF QueueFrames
  <2> QED
    BY <1>1, <2>1, StreamFrameKinds
<1>4. CASE f \in MaxStreamsFrames(b)
  BY <1>4, OtherPlaces
<1> QED
  BY <1>2, <1>3, <1>4 DEF CtrlFrames

\* And back.
LEMMA SaidInQueue ==
  ASSUME NEW b, WellFormed(b), NEW s \in b.strmq, NEW k \in 0..4, NEW f, Says(b, s, k, f)
  PROVE  f \in CtrlFrames(b) /\ f \in StreamFrames(b, s) /\ Place(f) = <<1, s, k>>
<1>1. s \in StreamIds
  BY DEF WellFormed
<1>2. f \in StreamFrames(b, s) /\ Place(f) = <<1, s, k>>
  BY <1>1, StreamFrameKinds
<1> QED
  BY <1>2 DEF CtrlFrames, QueueFrames

\* A frame that waits, at the place of a stream's turn, is said by the stream.
LEMMA SaidByPlace ==
  ASSUME NEW b, WellFormed(b), NEW s \in StreamIds, NEW k \in 0..4,
         NEW f \in CtrlFrames(b), Place(f) = <<1, s, k>>
  PROVE  s \in b.strmq /\ Says(b, s, k, f)
<1>1. \A j, v, w, x, y, z : <<j, v, w>> = <<x, y, z>> => j = x /\ v = y /\ w = z
  OBVIOUS
<1>2. 1 # 0 /\ 1 # 2
  OBVIOUS
<1>3. PICK t \in b.strmq, j \in 0..4 : Says(b, t, j, f) /\ Place(f) = <<1, t, j>>
  BY <1>1, <1>2, PlaceParts
<1> QED
  BY <1>1, <1>3

-----------------------------------------------------------------------------
(* What a stream is after the statements of its turn                       *)

\* The flags that the first n statements clear.
Gone(n) ==
  {F \in {"SEND_RESET_STREAM"} : n >= 1} \cup {F \in {"SEND_STOP_SENDING"} : n >= 4}
  \cup {F \in {"SEND_STREAM_DATA_BLOCKED"} : n >= 8}

\* Stream s after the first n statements of its turn: the RESET_STREAM, the
\* callback, the STOP_SENDING, its flag, the limit, the two reports, and the pop.
Turned(b, s, n) ==
  [b.strm[s] EXCEPT
     !.flags = @ \ Gone(n),
     !.rxMax = IF n >= 5 /\ NeedsCredit(b, s) THEN b.strm[s].rxUnsent ELSE @,
     !.txBlocked = IF n >= 7 /\ s \in Reporting(b) /\ StreamDataBlockedFrames(b, s) # {}
                     THEN b.strm[s].txOff ELSE @]

\* Stream s when its turn is over.
Finished(b, s) == IF ClosesOnReset(b, s) THEN NewStrm(b.role, s) ELSE Turned(b, s, 8)

\* W is what was written: all frames of the streams D, and of stream u those
\* before place k.
QueueCut(b, W, D, u, k) ==
  /\ W \subseteq CtrlFrames(b) /\ HeadFrames(b) \subseteq W
  /\ \A s \in b.strmq, j \in 0..4 : \A f :
       Says(b, s, j, f) => (f \in W <=> s \in D \/ (s = u /\ j < k))

\* What a stream says, kind by kind, is in W or not.
LEMMA CutKinds ==
  ASSUME NEW b, WellFormed(b), NEW W, NEW D, NEW u, NEW k \in 0..5, QueueCut(b, W, D, u, k),
         NEW s \in b.strmq
  PROVE  LET In(j) == s \in D \/ (s = u /\ j < k) IN
         /\ In(0) => ResetFrames(b, s) \subseteq W
         /\ ~In(0) => ResetFrames(b, s) \cap W = {}
         /\ ~ClosesOnReset(b, s) =>
              /\ In(1) => StopFrames(b, s) \subseteq W
              /\ ~In(1) => StopFrames(b, s) \cap W = {}
              /\ In(2) => CreditFrames(b, s) \subseteq W
              /\ ~In(2) => CreditFrames(b, s) \cap W = {}
              /\ In(4) /\ s \in Reporting(b) => StreamDataBlockedFrames(b, s) \subseteq W
         /\ ~In(4) \/ s \notin Reporting(b) => StreamDataBlockedFrames(b, s) \cap W = {}
<1> DEFINE In(j) == s \in D \/ (s = u /\ j < k)
<1>1. \A j \in 0..4 : \A f : Says(b, s, j, f) => (f \in W <=> In(j))
  BY DEF QueueCut
<1>2. 0 \in 0..4 /\ 1 \in 0..4 /\ 2 \in 0..4 /\ 4 \in 0..4 /\ s \in StreamIds
  BY DEF WellFormed
<1> HIDE DEF In
<1>3. \A f \in ResetFrames(b, s) : f \in W <=> In(0)
  BY <1>1, <1>2 DEF Says, OnTurn
<1>4. ASSUME ~ClosesOnReset(b, s)
      PROVE  /\ \A f \in StopFrames(b, s) : f \in W <=> In(1)
             /\ \A f \in CreditFrames(b, s) : f \in W <=> In(2)
             /\ s \in Reporting(b) => \A f \in StreamDataBlockedFrames(b, s) : f \in W <=> In(4)
  <2>1. \A f \in StopFrames(b, s) : Says(b, s, 1, f)
    BY <1>4 DEF Says, OnTurn
  <2>2. \A f \in CreditFrames(b, s) : Says(b, s, 2, f)
    BY <1>4 DEF Says, OnTurn
  <2>3. s \in Reporting(b) => \A f \in StreamDataBlockedFrames(b, s) : Says(b, s, 4, f)
    BY <1>4 DEF Says, OnTurn
  <2> QED
    BY <1>1, <1>2, <2>1, <2>2, <2>3
<1>5. ASSUME NEW f \in StreamDataBlockedFrames(b, s) \cap W
      PROVE  In(4) /\ s \in Reporting(b)
  <2>1. f \in CtrlFrames(b) /\ Place(f) = <<1, s, 4>>
    BY <1>2, StreamPlaces DEF QueueCut
  <2>2. Says(b, s, 4, f)
    BY <1>2, <2>1, SaidByPlace
  <2> QED
    BY <1>1, <1>2, <2>2 DEF Says, OnTurn
<1> QED
  BY <1>3, <1>4, <1>5 DEF In

\* A stream that reports is not closed on its turn.
LEMMA ReporterStays ==
  ASSUME NEW b, NEW s \in Reporting(b)
  PROVE  ~ClosesOnReset(b, s) /\ s \in b.strmq
BY DEF Reporting, ClosesOnReset

\* What one step makes of a stream, and what the statements do.
LEMMA SameTurn ==
  ASSUME NEW b, NEW W, NEW s, NEW n,
         Cleared(b, s, W) = Gone(n),
         CreditFrames(b, s) \cap W # {} <=> n >= 5 /\ NeedsCredit(b, s),
         StreamDataBlockedFrames(b, s) \cap W # {}
           <=> n >= 7 /\ s \in Reporting(b) /\ StreamDataBlockedFrames(b, s) # {}
  PROVE  AfterTurn(b, s, W) = Turned(b, s, n)
BY Zenon DEF AfterTurn, Turned

\* When all a stream says is written its turn is over.
LEMMA TurnOver ==
  ASSUME NEW b, WellFormed(b), NEW W, NEW D, NEW u, NEW k \in 0..5, QueueCut(b, W, D, u, k),
         NEW s \in b.strmq, s \in D
  PROVE  /\ StreamFrames(b, s) \subseteq W
         /\ Reached(b, s, W) /\ ~ClosesOnReset(b, s) => AfterTurn(b, s, W) = Turned(b, s, 8)
<1>0. s \in StreamIds
  BY DEF WellFormed
<1>1. StreamFrames(b, s) \subseteq W
  BY <1>0, StreamFrameKinds DEF QueueCut
<1>2. ASSUME Reached(b, s, W), ~ClosesOnReset(b, s)
      PROVE  AfterTurn(b, s, W) = Turned(b, s, 8)
  <2>1. /\ ResetFrames(b, s) \subseteq W /\ StopFrames(b, s) \subseteq W
        /\ CreditFrames(b, s) \subseteq W
        /\ s \in Reporting(b) => StreamDataBlockedFrames(b, s) \subseteq W
        /\ s \notin Reporting(b) => StreamDataBlockedFrames(b, s) \cap W = {}
    BY <1>2, CutKinds
  <2>2. s \in Popped(b, W)
    BY <1>1, <1>2 DEF Popped
  <2>3. Cleared(b, s, W) = {"SEND_RESET_STREAM", "SEND_STOP_SENDING", "SEND_STREAM_DATA_BLOCKED"}
    BY <1>2, <2>1, <2>2 DEF Cleared
  <2>4. CreditFrames(b, s) \cap W # {} <=> NeedsCredit(b, s)
    BY <2>1 DEF CreditFrames
  <2>5. StreamDataBlockedFrames(b, s) \cap W # {}
          <=> s \in Reporting(b) /\ StreamDataBlockedFrames(b, s) # {}
    BY <2>1
  <2>6. Gone(8) = {"SEND_RESET_STREAM", "SEND_STOP_SENDING", "SEND_STREAM_DATA_BLOCKED"}
    BY DEF Gone
  <2>7. 8 >= 5 /\ 8 >= 7
    OBVIOUS
  <2> QED
    BY <2>3, <2>4, <2>5, <2>6, <2>7, SameTurn
<1> QED
  BY <1>1, <1>2

\* The stream whose turn it is, when the frame at place k does not fit: n
\* statements have been executed.
LEMMA TurnCut ==
  ASSUME NEW b, WellFormed(b), NEW W, NEW D, NEW u \in b.strmq, NEW k \in 0..4,
         QueueCut(b, W, D, u, k), u \notin D, Reached(b, u, W),
         NEW f, Says(b, u, k, f), NEW n,
         \/ k = 0 /\ n = 0
         \/ k = 1 /\ n = 2
         \/ k \in 2..4 /\ n = k + 2
  PROVE  /\ ~(StreamFrames(b, u) \subseteq W) /\ AfterTurn(b, u, W) = Turned(b, u, n)
<1>1. f \in StreamFrames(b, u) /\ f \notin W
  BY SaidInQueue DEF QueueCut
<1>2. u \notin Popped(b, W)
  BY <1>1 DEF Popped
<1>3. /\ (k = 0 => n = 0) /\ (k = 1 => n = 2) /\ (k = 2 => n = 4) /\ (k = 3 => n = 5)
      /\ (k = 4 => n = 6) /\ k \in 0..5 /\ k \in {0, 1, 2, 3, 4}
  OBVIOUS
<1>4. StreamDataBlockedFrames(b, u) \cap W = {}
  BY <1>3, CutKinds
<1>5. CASE k = 0
  <2>1. f \in ResetFrames(b, u)
    BY <1>5 DEF Says, OnTurn
  <2>2. Cleared(b, u, W) = {}
    BY <1>1, <1>2, <2>1 DEF Cleared
  <2>3. CreditFrames(b, u) \cap W = {}
    <3>1. CASE ClosesOnReset(b, u)
      BY <3>1 DEF ClosesOnReset, CreditFrames, NeedsCredit
    <3>2. CASE ~ClosesOnReset(b, u)
      BY <1>3, <1>5, <3>2, CutKinds
    <3> QED
      BY <3>1, <3>2
  <2>4. Gone(n) = {} /\ ~(n >= 5) /\ ~(n >= 7)
    BY <1>3, <1>5 DEF Gone
  <2> QED
    BY <1>1, <1>4, <2>2, <2>3, <2>4, SameTurn
<1>6. CASE k # 0
  <2>1. ~ClosesOnReset(b, u) /\ ResetFrames(b, u) \subseteq W
    BY <1>3, <1>6, CutKinds DEF Says
  <2>2. CASE k = 1
    <3>1. f \in StopFrames(b, u)
      BY <2>2 DEF Says, OnTurn
    <3>2. Cleared(b, u, W) = {"SEND_RESET_STREAM"}
      BY <1>1, <1>2, <2>1, <3>1 DEF Cleared
    <3>3. CreditFrames(b, u) \cap W = {}
      BY <1>3, <2>1, <2>2, CutKinds
    <3>4. Gone(n) = {"SEND_RESET_STREAM"} /\ ~(n >= 5) /\ ~(n >= 7)
      BY <1>3, <2>2 DEF Gone
    <3> QED
      BY <1>1, <1>4, <3>2, <3>3, <3>4, SameTurn
  <2>3. CASE k \in 2..4
    <3>1. StopFrames(b, u) \subseteq W
      BY <1>3, <2>1, <2>3, CutKinds
    <3>2. Cleared(b, u, W) = {"SEND_RESET_STREAM", "SEND_STOP_SENDING"}
      BY <1>2, <2>1, <3>1 DEF Cleared
    <3>3. CreditFrames(b, u) \cap W # {} <=> k >= 3 /\ NeedsCredit(b, u)
      <4>1. /\ k >= 3 => CreditFrames(b, u) \subseteq W
            /\ k < 3 => CreditFrames(b, u) \cap W = {}
        BY <1>3, <2>1, <2>3, CutKinds
      <4> QED
        BY <2>3, <4>1 DEF CreditFrames
    <3>4. Gone(n) = {"SEND_RESET_STREAM", "SEND_STOP_SENDING"}
      BY <1>3, <2>3 DEF Gone
    <3>5. (n >= 5 <=> k >= 3) /\ ~(n >= 7)
      BY <1>3, <2>3
    <3> QED
      BY <1>1, <1>4, <3>2, <3>3, <3>4, <3>5, SameTurn
  <2> QED
    BY <1>3, <1>6, <2>2, <2>3
<1> QED
  BY <1>5, <1>6

\* A stream that the loop did not come to is as it was.
LEMMA TurnNotYet ==
  ASSUME NEW b, WellFormed(b), NEW W, NEW D, NEW u, NEW k \in 0..5, QueueCut(b, W, D, u, k),
         NEW s \in b.strmq, s \notin D, s # u, ~Reached(b, s, W)
  PROVE  AfterTurn(b, s, W) = b.strm[s]
<1>1. Cleared(b, s, W) = {}
  BY DEF Cleared, Popped
<1>2. CreditFrames(b, s) \cap W = {}
  <2>1. CASE ClosesOnReset(b, s)
    BY <2>1 DEF ClosesOnReset, CreditFrames, NeedsCredit
  <2>2. CASE ~ClosesOnReset(b, s)
    BY <2>2, CutKinds
  <2> QED
    BY <2>1, <2>2
<1>3. StreamDataBlockedFrames(b, s) \cap W = {}
  BY CutKinds
<1>4. s \in StreamIds /\ IsStrm(b.strm[s])
  BY DEF WellFormed
<1> QED
  BY <1>1, <1>2, <1>3, <1>4 DEF AfterTurn, IsStrm

\* One of the streams that report is the first.
LEMMA FirstReports ==
  ASSUME NEW b, WellFormed(b), NEW s \in Reporting(b)
  PROVE  \E t \in Reporting(b) : t <= s /\ \A r \in Reporting(b) : t <= r
<1> DEFINE R == {ss \in Nat \X Nat : ss[1] < ss[2]}
           U == Reporting(b)
<1>1. IsWellFoundedOn(R, Nat)
  BY NatLessThanWellFounded DEF OpToRel
<1>2. U \subseteq Nat /\ s \in U
  BY StreamIdsAssumption DEF WellFormed, Reporting
<1>3. PICK t \in U : \A y \in U : ~ (<<y, t>> \in R)
  <2> HIDE DEF U, R
  <2> QED
    BY <1>1, <1>2, WFMin
<1>4. \A y \in U : t <= y
  <2> HIDE DEF U
  <2>1. \A y \in U : y \in Nat /\ t \in Nat
    BY <1>2, <1>3
  <2>2. \A y \in U : y < t => <<y, t>> \in R
    BY <2>1
  <2>3. \A y \in U : ~(y < t)
    BY <1>3, <2>2
  <2> QED
    BY <2>1, <2>3
<1> QED
  BY <1>2, <1>4

\* The connection is at its limit and has not said so.
AtLimit(b) == b.txOff >= b.txMax /\ b.txOff # b.txBlocked

\* The first stream that reports is the one that reports for the connection.
LEMMA BlockedCut ==
  ASSUME NEW b, WellFormed(b), NEW W, NEW D, NEW u, NEW k \in 0..5, QueueCut(b, W, D, u, k),
         \A s, t \in b.strmq : s \in D \cup {u} /\ t < s => t \in D
  PROVE  (\E s \in b.strmq : DataBlockedFrames(b, s) \cap W # {})
           <=> AtLimit(b) /\ \E s \in Reporting(b) : s \in D \/ (s = u /\ 3 < k)
<1>0. 3 \in 0..4 /\ b.strmq \subseteq StreamIds /\ StreamIds \subseteq Nat
  BY StreamIdsAssumption DEF WellFormed
<1>1. ASSUME NEW s \in b.strmq, NEW f \in DataBlockedFrames(b, s) \cap W
      PROVE  AtLimit(b) /\ s \in Reporting(b) /\ (s \in D \/ (s = u /\ 3 < k))
  <2>1. f \in CtrlFrames(b) /\ Place(f) = <<1, s, 3>>
    BY <1>0, StreamPlaces DEF QueueCut
  <2>2. Says(b, s, 3, f)
    BY <1>0, <2>1, SaidByPlace
  <2> QED
    BY <1>0, <2>2 DEF QueueCut, Says, OnTurn, DataBlockedFrames, AtLimit
<1>2. ASSUME AtLimit(b), NEW s \in Reporting(b), s \in D \/ (s = u /\ 3 < k)
      PROVE  \E t \in b.strmq : DataBlockedFrames(b, t) \cap W # {}
  <2>1. PICK t \in Reporting(b) : t <= s /\ \A r \in Reporting(b) : t <= r
    BY FirstReports
  <2>2. s \in b.strmq /\ t \in b.strmq /\ ~ClosesOnReset(b, t) /\ s \in Nat /\ t \in Nat
    BY <1>0, ReporterStays
  <2>3. t \in D \/ (t = u /\ 3 < k)
    BY <1>2, <2>1, <2>2
  <2> DEFINE f == DataBlockedFr(t, b.txOff)
  <2>4. f \in DataBlockedFrames(b, t)
    BY <1>2 DEF DataBlockedFrames, AtLimit
  <2>5. Says(b, t, 3, f)
    <3> HIDE DEF f
    <3> QED
      BY <2>1, <2>2, <2>4 DEF Says, OnTurn
  <2> HIDE DEF f
  <2>6. f \in W
    BY <1>0, <2>2, <2>3, <2>5 DEF QueueCut
  <2> QED
    BY <2>2, <2>4, <2>6
<1> QED
  BY <1>1, <1>2

\* The connections x and b have the same fields, apart from those that
\* dwnx_conn_write_ctrl_frames writes.
SameRest(x, b) ==
  /\ x.role = b.role /\ x.idtr = b.idtr /\ x.next = b.next
  /\ x.txStreams = b.txStreams /\ x.rxUnsentStreams = b.rxUnsentStreams
  /\ x.txOff = b.txOff /\ x.txMax = b.txMax /\ x.rxOff = b.rxOff /\ x.rxUnsent = b.rxUnsent
  /\ x.ping = b.ping /\ x.glitch = b.glitch /\ x.rd = b.rd /\ x.err = b.err

\* A connection is one whatever is written into its fields.
LEMMA FieldWritten ==
  ASSUME NEW b, IsConn(b), NEW v
  PROVE  /\ IsConn([b EXCEPT !.live = v]) /\ IsConn([b EXCEPT !.strmq = v])
         /\ IsConn([b EXCEPT !.strm = v]) /\ IsConn([b EXCEPT !.rxMax = v])
         /\ IsConn([b EXCEPT !.pong = v]) /\ IsConn([b EXCEPT !.txBlocked = v])
         /\ IsConn([b EXCEPT !.rxStreams = v]) /\ IsConn([b EXCEPT !.qre = v])
BY DEF IsConn

\* Two connections with the same fields are equal.
LEMMA SameConn ==
  ASSUME NEW x, IsConn(x), NEW w, IsConn(w), NEW q, NEW started,
         SameRest(x, w), x.live = w.live, x.strmq = w.strmq, x.strm = w.strm,
         x.rxMax = w.rxMax, x.pong = w.pong, x.txBlocked = w.txBlocked,
         x.rxStreams = w.rxStreams,
         x.qre = [started |-> started, frames |-> x.qre.frames],
         w.qre = [started |-> started, frames |-> w.qre.frames]
  PROVE  [x EXCEPT !.qre.frames = q] = [w EXCEPT !.qre.frames = q]
<1> DEFINE p == [started |-> started, frames |-> q]
<1>1. ASSUME NEW y, NEW z, y = [started |-> started, frames |-> z]
      PROVE  [y EXCEPT !.frames = q] = p
  BY <1>1
<1>2. [x.qre EXCEPT !.frames = q] = p /\ [w.qre EXCEPT !.frames = q] = p
  BY <1>1
<1>3. /\ [x EXCEPT !.qre.frames = q] = [x EXCEPT !.qre = [x.qre EXCEPT !.frames = q]]
      /\ [w EXCEPT !.qre.frames = q] = [w EXCEPT !.qre = [w.qre EXCEPT !.frames = q]]
  BY Zenon
<1> HIDE DEF p
<1>4. [x EXCEPT !.qre = p] = [w EXCEPT !.qre = p]
  BY DEF IsConn, SameRest
<1> QED
  BY <1>2, <1>3, <1>4, Zenon

\* What SingleStep says, with the frames W.
Step(x, b, W) ==
  [x EXCEPT !.qre.frames = << >>] = [WriteCtrlFrames(b, W) EXCEPT !.qre.frames = << >>]

\* The streams that WriteCtrlFrames closes.
Freed(b, W) == {s \in Popped(b, W) : ClosesOnReset(b, s)}

\* The two connections of SingleStep are equal when their fields are.
LEMMA SingleStepByFields ==
  ASSUME NEW x, WellFormed(x), NEW b, WellFormed(b), NEW W, SameRest(x, b),
         x.qre.started = TRUE,
         x.live = b.live \ Freed(b, W),
         x.strmq = b.strmq \ Popped(b, W),
         \A s \in StreamIds : x.strm[s] = IF s \in Freed(b, W) THEN NewStrm(b.role, s)
                                          ELSE IF s \in b.strmq THEN AfterTurn(b, s, W)
                                          ELSE b.strm[s],
         x.rxMax = IF MaxDataFrames(b) \cap W # {} THEN b.rxUnsent ELSE b.rxMax,
         x.pong = IF PongFrames(b) \cap W # {} THEN b.ping ELSE b.pong,
         x.txBlocked = IF \E s \in b.strmq : DataBlockedFrames(b, s) \cap W # {}
                         THEN b.txOff ELSE b.txBlocked,
         \A d \in Direction : x.rxStreams[d] = IF MaxStreamsFr(d, b.rxUnsentStreams[d]) \in W
                                                 THEN b.rxUnsentStreams[d] ELSE b.rxStreams[d]
  PROVE  Step(x, b, W)
<1> DEFINE w == WriteCtrlFrames(b, W)
           F == Freed(b, W)
<1>0. IsConn(b) /\ IsConn(x)
  BY DEF WellFormed
<1>1. /\ w.live = b.live \ F /\ w.strmq = b.strmq \ Popped(b, W)
      /\ w.strm = [s \in StreamIds |-> IF s \in F THEN NewStrm(b.role, s)
                                       ELSE IF s \in b.strmq THEN AfterTurn(b, s, W)
                                       ELSE b.strm[s]]
      /\ w.rxMax = IF MaxDataFrames(b) \cap W # {} THEN b.rxUnsent ELSE b.rxMax
      /\ w.pong = IF PongFrames(b) \cap W # {} THEN b.ping ELSE b.pong
      /\ w.txBlocked = IF \E s \in b.strmq : DataBlockedFrames(b, s) \cap W # {}
                         THEN b.txOff ELSE b.txBlocked
      /\ w.rxStreams = [d \in Direction |-> IF MaxStreamsFr(d, b.rxUnsentStreams[d]) \in W
                                              THEN b.rxUnsentStreams[d] ELSE b.rxStreams[d]]
      /\ w.qre = [started |-> TRUE, frames |-> Batch(<< >>, W)]
      /\ SameRest(w, b)
      /\ IsConn(w)
  <2> DEFINE strm == [s \in StreamIds |-> IF s \in F THEN NewStrm(b.role, s)
                                          ELSE IF s \in b.strmq THEN AfterTurn(b, s, W)
                                          ELSE b.strm[s]]
             rxMax == IF MaxDataFrames(b) \cap W # {} THEN b.rxUnsent ELSE b.rxMax
             pong == IF PongFrames(b) \cap W # {} THEN b.ping ELSE b.pong
             txBlocked == IF \E s \in b.strmq : DataBlockedFrames(b, s) \cap W # {}
                            THEN b.txOff ELSE b.txBlocked
             rxStreams == [d \in Direction |-> IF MaxStreamsFr(d, b.rxUnsentStreams[d]) \in W
                                                 THEN b.rxUnsentStreams[d] ELSE b.rxStreams[d]]
             qre == [started |-> TRUE, frames |-> Batch(<< >>, W)]
             live == b.live \ F
             strmq == b.strmq \ Popped(b, W)
  <2>1. w = [b EXCEPT !.live = live, !.strmq = strmq, !.strm = strm, !.rxMax = rxMax,
                      !.pong = pong, !.txBlocked = txBlocked, !.rxStreams = rxStreams,
                      !.qre = qre]
    BY Zenon DEF WriteCtrlFrames, Freed
  <2> HIDE DEF live, strmq, strm, rxMax, pong, txBlocked, rxStreams, qre, w
  <2>2. w.live = live /\ w.strmq = strmq /\ w.strm = strm /\ w.rxMax = rxMax
    BY <1>0, <2>1 DEF IsConn
  <2>3. w.pong = pong /\ w.txBlocked = txBlocked /\ w.rxStreams = rxStreams /\ w.qre = qre
    BY <1>0, <2>1 DEF IsConn
  <2>4. SameRest(w, b)
    BY <1>0, <2>1 DEF IsConn, SameRest
  <2>5. IsConn(w)
    <3> DEFINE w1 == [b EXCEPT !.live = live]
               w2 == [w1 EXCEPT !.strmq = strmq]
               w3 == [w2 EXCEPT !.strm = strm]
               w4 == [w3 EXCEPT !.rxMax = rxMax]
               w5 == [w4 EXCEPT !.pong = pong]
               w6 == [w5 EXCEPT !.txBlocked = txBlocked]
               w7 == [w6 EXCEPT !.rxStreams = rxStreams]
               w8 == [w7 EXCEPT !.qre = qre]
    <3>1. IsConn(w8)
      BY <1>0, FieldWritten, Zenon
    <3>2. w = w8
      BY <2>1
    <3> QED
      BY <3>1, <3>2, Zenon
  <2> QED
    BY <2>2, <2>3, <2>4, <2>5, Zenon DEF live, strmq, strm, rxMax, pong, txBlocked, rxStreams, qre
<1> HIDE DEF w
<1>2. x.strm = w.strm
  <2>1. x.strm = [s \in StreamIds |-> x.strm[s]]
    BY DEF WellFormed
  <2> QED
    BY <1>1, <2>1
<1>3. x.rxStreams = w.rxStreams
  <2>1. x.rxStreams = [d \in Direction |-> x.rxStreams[d]]
    BY DEF WellFormed
  <2> QED
    BY <1>1, <2>1
<1>4. /\ x.live = w.live /\ x.strmq = w.strmq /\ x.rxMax = w.rxMax /\ x.pong = w.pong
      /\ x.txBlocked = w.txBlocked
  BY <1>1
<1>5. SameRest(x, w)
  BY <1>1 DEF SameRest
<1>6. PICK started : started = TRUE
  OBVIOUS
<1>7. x.qre = [started |-> started, frames |-> x.qre.frames]
  <2>1. x.qre = [started |-> x.qre.started, frames |-> x.qre.frames] /\ x.qre.started = started
    BY <1>6 DEF WellFormed
  <2> QED
    BY <2>1, Zenon
<1>8. w.qre = [started |-> started, frames |-> w.qre.frames]
  <2>1. w.qre = [started |-> started, frames |-> Batch(<< >>, W)]
    BY <1>1, <1>6, Zenon
  <2> QED
    BY <2>1
<1>9. [x EXCEPT !.qre.frames = << >>] = [w EXCEPT !.qre.frames = << >>]
  <2>1. IsConn(w)
    BY <1>1, Zenon
  <2> QED
    BY ONLY <1>0, <2>1, <1>2, <1>3, <1>4, <1>5, <1>7, <1>8, SameConn
<1> QED
  BY <1>9 DEF w, Step

-----------------------------------------------------------------------------
(* What was written so far                                                 *)

\* The frames before the place k on the turn of stream u, the turns of the
\* streams D being over.
SaidUpTo(b, D, u, k) ==
  HeadFrames(b) \cup {f \in QueueFrames(b) : \E s \in b.strmq, j \in 0..4 :
                        Says(b, s, j, f) /\ (s \in D \/ (s = u /\ j < k))}

\* A frame has one place.
LEMMA OnePlace ==
  ASSUME NEW b, WellFormed(b), NEW s \in b.strmq, NEW t \in b.strmq, NEW j \in 0..4,
         NEW k \in 0..4, NEW f, Says(b, s, j, f), Says(b, t, k, f)
  PROVE  s = t /\ j = k /\ f \in QueueFrames(b)
         /\ f \notin HeadFrames(b) /\ f \notin MaxStreamsFrames(b)
<1>1. Place(f) = <<1, s, j>> /\ Place(f) = <<1, t, k>> /\ f \in StreamFrames(b, s)
  BY SaidInQueue
<1>2. f \in QueueFrames(b)
  BY <1>1 DEF QueueFrames
<1>3. f \notin HeadFrames(b)
  BY <1>1, OtherPlaces DEF HeadFrames
<1>4. f \notin MaxStreamsFrames(b)
  BY <1>1, OtherPlaces
<1> QED
  BY <1>1, <1>2, <1>3, <1>4

\* With the frames of the queue that were written, all that say so are known.
LEMMA UpToCut ==
  ASSUME NEW b, WellFormed(b), NEW D, NEW u, NEW k \in 0..5,
         NEW M, M \subseteq MaxStreamsFrames(b)
  PROVE  QueueCut(b, SaidUpTo(b, D, u, k) \cup M, D, u, k)
<1> DEFINE W == SaidUpTo(b, D, u, k) \cup M
<1>1. W \subseteq CtrlFrames(b) /\ HeadFrames(b) \subseteq W
  BY DEF SaidUpTo, CtrlFrames
<1>2. ASSUME NEW s \in b.strmq, NEW j \in 0..4, NEW f, Says(b, s, j, f)
      PROVE  f \in W <=> s \in D \/ (s = u /\ j < k)
  <2>1. f \in QueueFrames(b) /\ f \notin HeadFrames(b) /\ f \notin M
    BY <1>2, OnePlace
  <2>2. \A t \in b.strmq, i \in 0..4 : Says(b, t, i, f) => s = t /\ i = j
    BY <1>2, OnePlace
  <2> QED
    BY <1>2, <2>1, <2>2 DEF SaidUpTo
<1> QED
  BY <1>1, <1>2 DEF QueueCut

\* One frame more.
LEMMA UpToNext ==
  ASSUME NEW b, NEW D, NEW u \in b.strmq, NEW k \in 0..4,
         \A f : Says(b, u, k, f) => f \in QueueFrames(b)
  PROVE  SaidUpTo(b, D, u, k + 1) = SaidUpTo(b, D, u, k) \cup {f \in QueueFrames(b) : Says(b, u, k, f)}
<1>1. \A j \in 0..4 : j < k + 1 <=> j < k \/ j = k
  OBVIOUS
<1> QED
  BY <1>1 DEF SaidUpTo

\* What a stream says comes from the queue.
LEMMA SaysInQueue ==
  ASSUME NEW b, WellFormed(b), NEW u \in b.strmq, NEW k \in 0..4
  PROVE  \A f : Says(b, u, k, f) => f \in QueueFrames(b)
BY OnePlace

\* The turn of stream u is over when all its frames are written; when it is
\* closed there is only one.
LEMMA UpToOver ==
  ASSUME NEW b, NEW D, NEW u \in b.strmq, NEW v, NEW k \in 0..5,
         k = 5 \/ (k = 1 /\ ClosesOnReset(b, u))
  PROVE  SaidUpTo(b, D \cup {u}, v, 0) = SaidUpTo(b, D, u, k)
<1>1. \A j \in 0..4 : \A f : Says(b, u, j, f) => j < k
  BY DEF Says
<1>2. \A j \in 0..4 : ~(j < 0)
  OBVIOUS
<1> QED
  BY <1>1, <1>2 DEF SaidUpTo

\* At the beginning of a turn it does not matter whose it is.
LEMMA UpToAny ==
  ASSUME NEW b, NEW D, NEW u, NEW v
  PROVE  SaidUpTo(b, D, u, 0) = SaidUpTo(b, D, v, 0)
<1>1. \A j \in 0..4 : ~(j < 0)
  OBVIOUS
<1> QED
  BY <1>1 DEF SaidUpTo

\* Before and after the queue.
LEMMA UpToEnds ==
  ASSUME NEW b, WellFormed(b), NEW u
  PROVE  /\ SaidUpTo(b, {}, u, 0) = HeadFrames(b)
         /\ SaidUpTo(b, b.strmq, u, 0) = HeadFrames(b) \cup QueueFrames(b)
<1>1. \A j \in 0..4 : ~(j < 0)
  OBVIOUS
<1>2. \A f \in QueueFrames(b) : \E s \in b.strmq, j \in 0..4 : Says(b, s, j, f)
  <2>1. b.strmq \subseteq StreamIds
    BY DEF WellFormed
  <2> QED
    BY <2>1, StreamFrameKinds DEF QueueFrames
<1> QED
  BY <1>1, <1>2 DEF SaidUpTo

-----------------------------------------------------------------------------
(* What was written is what comes before the next frame                    *)

\* By their places.
LEMMA BeforeByPlace ==
  ASSUME NEW g, NEW f, NEW i, NEW j, NEW k, NEW x, NEW y, NEW z,
         Place(g) = <<i, j, k>>, Place(f) = <<x, y, z>>
  PROVE  Before(g, f) <=> i < x \/ (i = x /\ j < y) \/ (i = x /\ j = y /\ k < z)
BY DEF Before

\* On the turn of a stream.
LEMMA BeforeInTurn ==
  ASSUME NEW b, WellFormed(b), NEW u \in b.strmq, NEW k \in 0..4, NEW f, Says(b, u, k, f),
         NEW D, \A s \in b.strmq : s \in D <=> s < u
  PROVE  SaidUpTo(b, D, u, k) = {g \in CtrlFrames(b) : Before(g, f)}
<1>0. Place(f) = <<1, u, k>> /\ b.strmq \subseteq Nat /\ u \in Nat
  BY SaidInQueue, StreamIdsAssumption DEF WellFormed
<1>1. SaidUpTo(b, D, u, k) \subseteq CtrlFrames(b)
  BY DEF SaidUpTo, CtrlFrames
<1>2. ASSUME NEW g \in CtrlFrames(b)
      PROVE  g \in SaidUpTo(b, D, u, k) <=> Before(g, f)
  <2>1. CASE g \in MaxDataFrames(b) /\ Place(g) = <<0, 0, 0>>
    <3>1. Before(g, f)
      BY <1>0, <2>1, BeforeByPlace
    <3> QED
      BY <2>1, <3>1 DEF SaidUpTo, HeadFrames
  <2>2. CASE g \in PongFrames(b) /\ Place(g) = <<0, 0, 1>>
    <3>1. Before(g, f)
      BY <1>0, <2>2, BeforeByPlace
    <3> QED
      BY <2>2, <3>1 DEF SaidUpTo, HeadFrames
  <2>3. CASE \E s \in b.strmq, j \in 0..4 : Says(b, s, j, g) /\ Place(g) = <<1, s, j>>
    <3>1. PICK s \in b.strmq, j \in 0..4 : Says(b, s, j, g) /\ Place(g) = <<1, s, j>>
      BY <2>3
    <3>2. Before(g, f) <=> s < u \/ (s = u /\ j < k)
      <4>1. Before(g, f) <=> 1 < 1 \/ (1 = 1 /\ s < u) \/ (1 = 1 /\ s = u /\ j < k)
        BY <1>0, <3>1, BeforeByPlace
      <4> QED
        BY <4>1
    <3>3. QueueCut(b, SaidUpTo(b, D, u, k), D, u, k)
      <4>1. k \in 0..5 /\ {} \subseteq MaxStreamsFrames(b)
        OBVIOUS
      <4> DEFINE M == {}
      <4>2. M \subseteq MaxStreamsFrames(b) /\ SaidUpTo(b, D, u, k) \cup M = SaidUpTo(b, D, u, k)
        OBVIOUS
      <4> HIDE DEF M
      <4>3. QueueCut(b, SaidUpTo(b, D, u, k) \cup M, D, u, k)
        BY <4>1, <4>2, UpToCut
      <4> QED
        BY <4>2, <4>3
    <3> QED
      BY <3>1, <3>2, <3>3 DEF QueueCut
  <2>4. CASE g \in MaxStreamsFrames(b) /\ Place(g) = <<2, IF g.dir = "bidi" THEN 0 ELSE 1, 0>>
    <3>1. ~Before(g, f)
      BY <1>0, <2>4, BeforeByPlace
    <3>2. g \notin HeadFrames(b)
      BY <2>4, OtherPlaces DEF HeadFrames
    <3>3. g \notin SaidUpTo(b, D, u, k)
      BY <2>4, <3>2, OnePlace DEF SaidUpTo
    <3> QED
      BY <3>1, <3>3
  <2> QED
    BY <2>1, <2>2, <2>3, <2>4, PlaceParts
<1> QED
  BY <1>1, <1>2

\* Before the queue.
LEMMA BeforeInHead ==
  ASSUME NEW b, WellFormed(b)
  PROVE  /\ \A f \in MaxDataFrames(b) : {g \in CtrlFrames(b) : Before(g, f)} = {}
         /\ \A f \in PongFrames(b) : {g \in CtrlFrames(b) : Before(g, f)} = MaxDataFrames(b)
<1>0. b.strmq \subseteq Nat
  BY StreamIdsAssumption DEF WellFormed
<1>1. ASSUME NEW g \in CtrlFrames(b), NEW f \in MaxDataFrames(b)
      PROVE  ~Before(g, f)
  <2>1. Place(f) = <<0, 0, 0>>
    BY OtherPlaces
  <2>2. \E i \in 0..2, j, k \in Nat : Place(g) = <<i, j, k>>
    BY <1>0, PlaceParts
  <2>3. PICK i \in 0..2, j \in Nat, k \in Nat : Place(g) = <<i, j, k>>
    BY <2>2
  <2> QED
    BY <2>1, <2>3, BeforeByPlace
<1>2. ASSUME NEW g \in CtrlFrames(b), NEW f \in PongFrames(b)
      PROVE  Before(g, f) <=> g \in MaxDataFrames(b)
  <2>1. Place(f) = <<0, 0, 1>>
    BY OtherPlaces
  <2>2. CASE g \in MaxDataFrames(b) /\ Place(g) = <<0, 0, 0>>
    BY <2>1, <2>2, BeforeByPlace
  <2>3. CASE g \notin MaxDataFrames(b)
    <3>1. \/ Place(g) = <<0, 0, 1>>
          \/ \E i \in 1..2, j, k \in Nat : Place(g) = <<i, j, k>>
      BY <1>0, <2>3, PlaceParts
    <3>2. CASE Place(g) = <<0, 0, 1>>
      BY <2>1, <2>3, <3>2, BeforeByPlace
    <3>3. CASE \E i \in 1..2, j, k \in Nat : Place(g) = <<i, j, k>>
      <4>1. PICK i \in 1..2, j \in Nat, k \in Nat : Place(g) = <<i, j, k>>
        BY <3>3
      <4> QED
        BY <2>1, <2>3, <4>1, BeforeByPlace
    <3> QED
      BY <3>1, <3>2, <3>3
  <2> QED
    BY <2>2, <2>3, OtherPlaces
<1>3. MaxDataFrames(b) \subseteq CtrlFrames(b)
  BY DEF CtrlFrames, HeadFrames
<1> QED
  BY <1>1, <1>2, <1>3

\* After the queue.
LEMMA BeforeInTail ==
  ASSUME NEW b, WellFormed(b), NEW f \in MaxStreamsFrames(b)
  PROVE  {g \in CtrlFrames(b) : Before(g, f)}
           = HeadFrames(b) \cup QueueFrames(b)
             \cup {g \in MaxStreamsFrames(b) : f.dir = "uni" /\ g.dir = "bidi"}
<1>0. b.strmq \subseteq StreamIds /\ StreamIds \subseteq Nat
  BY StreamIdsAssumption DEF WellFormed
<1>1. Place(f) = <<2, IF f.dir = "bidi" THEN 0 ELSE 1, 0>> /\ f.dir \in {"bidi", "uni"}
  BY OtherPlaces DEF Direction
<1>2. ASSUME NEW g \in HeadFrames(b) \cup QueueFrames(b)
      PROVE  Before(g, f)
  <2>1. \E i \in 0..1, j, k \in Nat : Place(g) = <<i, j, k>>
    <3>1. CASE g \in HeadFrames(b)
      BY <3>1, OtherPlaces DEF HeadFrames
    <3>2. CASE g \in QueueFrames(b)
      <4>1. PICK s \in b.strmq : g \in StreamFrames(b, s)
        BY <3>2 DEF QueueFrames
      <4>2. s \in StreamIds /\ s \in Nat
        BY <1>0
      <4>3. PICK k \in 0..4 : Says(b, s, k, g)
        BY <4>1, <4>2, StreamFrameKinds
      <4>4. Place(g) = <<1, s, k>>
        BY <4>2, <4>3, StreamFrameKinds
      <4> QED
        BY <4>2, <4>4
    <3> QED
      BY <1>2, <3>1, <3>2
  <2>2. PICK i \in 0..1, j \in Nat, k \in Nat : Place(g) = <<i, j, k>>
    BY <2>1
  <2> QED
    BY <1>1, <2>2, BeforeByPlace
<1>3. ASSUME NEW g \in MaxStreamsFrames(b)
      PROVE  Before(g, f) <=> f.dir = "uni" /\ g.dir = "bidi"
  <2>1. Place(g) = <<2, IF g.dir = "bidi" THEN 0 ELSE 1, 0>> /\ g.dir \in {"bidi", "uni"}
    BY OtherPlaces DEF Direction
  <2>2. PICK n \in 0..1, m \in 0..1 : /\ Place(g) = <<2, n, 0>> /\ Place(f) = <<2, m, 0>>
                                      /\ n = 0 <=> g.dir = "bidi"
                                      /\ m = 0 <=> f.dir = "bidi"
    BY <1>1, <2>1
  <2>3. Before(g, f) <=> n < m
    BY <2>2, BeforeByPlace
  <2> QED
    BY <1>1, <2>1, <2>2, <2>3
<1> QED
  BY <1>2, <1>3 DEF CtrlFrames

-----------------------------------------------------------------------------
(* The connection in the middle of the loop                                *)

\* The streams whose turn is over, x being the connection and b what it was
\* when the record was started.
Over(b, x) == b.strmq \ x.strmq

\* The loop has taken the streams in order; of stream u it has executed n
\* statements; the others are as they were.
Midway(x, b, u, n) ==
  /\ WellFormed(x) /\ WellFormed(b) /\ SameRest(x, b) /\ x.qre.started = TRUE
  /\ x.strmq \subseteq b.strmq /\ \A s \in Over(b, x), t \in x.strmq : s < t
  /\ \A s \in StreamIds : x.strm[s] = IF s \in Over(b, x) THEN Finished(b, s)
                                      ELSE IF s = u THEN Turned(b, s, n) ELSE b.strm[s]
  /\ x.live = b.live \ {s \in Over(b, x) : ClosesOnReset(b, s)}
  /\ x.txBlocked = IF AtLimit(b) /\ \E s \in Reporting(b) : s \in Over(b, x) \/ (s = u /\ n >= 6)
                     THEN b.txOff ELSE b.txBlocked

\* The limits of W are recorded as sent.
Limits(x, b, W) ==
  /\ x.rxMax = IF MaxDataFrames(b) \cap W # {} THEN b.rxUnsent ELSE b.rxMax
  /\ x.pong = IF PongFrames(b) \cap W # {} THEN b.ping ELSE b.pong
  /\ \A d \in Direction : x.rxStreams[d] = IF MaxStreamsFr(d, b.rxUnsentStreams[d]) \in W
                                             THEN b.rxUnsentStreams[d] ELSE b.rxStreams[d]

\* Stream by stream, the loop did what the single step does.
LEMMA StepByStreams ==
  ASSUME NEW x, NEW b, NEW u, NEW n \in Nat, NEW k \in 0..5, NEW W,
         Midway(x, b, u, n), Limits(x, b, W), QueueCut(b, W, Over(b, x), u, k),
         n >= 6 <=> 3 < k,
         \A s, t \in b.strmq : s \in Over(b, x) \cup {u} /\ t < s => t \in Over(b, x),
         \A s \in Over(b, x) : Reached(b, s, W),
         \A s \in x.strmq : s \notin Popped(b, W) /\ x.strm[s] = AfterTurn(b, s, W),
         u \in b.strmq \/ n = 0
  PROVE  Step(x, b, W)
<1> DEFINE D == Over(b, x)
<1>1. /\ WellFormed(x) /\ WellFormed(b) /\ SameRest(x, b) /\ x.qre.started = TRUE
      /\ x.strmq \subseteq b.strmq /\ b.strmq \subseteq StreamIds
  BY DEF Midway, WellFormed
<1>2. D \subseteq b.strmq /\ D = b.strmq \ x.strmq
  BY DEF Over
<1>3. \A s \in D : StreamFrames(b, s) \subseteq W /\ s \in Popped(b, W)
  <2> SUFFICES ASSUME NEW s \in D
               PROVE  StreamFrames(b, s) \subseteq W /\ s \in Popped(b, W)
    OBVIOUS
  <2>1. s \in b.strmq /\ s \in Over(b, x) /\ Reached(b, s, W)
    BY <1>2
  <2>2. StreamFrames(b, s) \subseteq W
    BY <1>1, <2>1, TurnOver
  <2> QED
    BY <2>1, <2>2 DEF Popped
<1>4. Popped(b, W) = D
  BY <1>1, <1>2, <1>3 DEF Popped
<1>5. Freed(b, W) = {s \in D : ClosesOnReset(b, s)}
  BY <1>4 DEF Freed
<1>6. x.live = b.live \ Freed(b, W) /\ x.strmq = b.strmq \ Popped(b, W)
  BY <1>1, <1>2, <1>4, <1>5 DEF Midway
<1>7. ASSUME NEW s \in StreamIds
      PROVE  x.strm[s] = IF s \in Freed(b, W) THEN NewStrm(b.role, s)
                         ELSE IF s \in b.strmq THEN AfterTurn(b, s, W) ELSE b.strm[s]
  <2>1. CASE s \in D
    <3>1. x.strm[s] = Finished(b, s)
      BY <2>1 DEF Midway
    <3>2. ~ClosesOnReset(b, s) => AfterTurn(b, s, W) = Turned(b, s, 8)
      BY <1>1, <1>2, <2>1, TurnOver
    <3> QED
      BY <1>2, <1>5, <2>1, <3>1, <3>2 DEF Finished
  <2>2. CASE s \in x.strmq
    BY <1>1, <1>2, <1>5, <2>2
  <2>3. CASE s \notin b.strmq
    <3>1. s \notin D /\ s \notin Freed(b, W)
      BY <1>2, <1>5, <2>3
    <3>2. x.strm[s] = IF s = u THEN Turned(b, s, n) ELSE b.strm[s]
      BY <3>1 DEF Midway
    <3>3. s = u => Turned(b, s, n) = b.strm[s]
      <4>1. SUFFICES ASSUME s = u
                     PROVE  Turned(b, s, n) = b.strm[s]
        OBVIOUS
      <4>2. n = 0
        BY <2>3, <4>1
      <4>3. Gone(n) = {} /\ ~(n >= 5) /\ ~(n >= 7) /\ IsStrm(b.strm[s])
        BY <1>1, <4>2 DEF Gone, WellFormed
      <4> QED
        BY <4>3 DEF Turned, IsStrm
    <3> QED
      BY <2>3, <3>1, <3>2, <3>3
  <2> QED
    BY <1>2, <2>1, <2>2, <2>3
<1>8. x.txBlocked = IF \E s \in b.strmq : DataBlockedFrames(b, s) \cap W # {}
                      THEN b.txOff ELSE b.txBlocked
  <2>1. (\E s \in b.strmq : DataBlockedFrames(b, s) \cap W # {})
          <=> AtLimit(b) /\ \E s \in Reporting(b) : s \in D \/ (s = u /\ 3 < k)
    BY <1>1, BlockedCut
  <2>2. x.txBlocked = IF AtLimit(b) /\ \E s \in Reporting(b) : s \in D \/ (s = u /\ n >= 6)
                        THEN b.txOff ELSE b.txBlocked
    BY DEF Midway
  <2> QED
    BY <2>1, <2>2
<1>9. /\ x.rxMax = IF MaxDataFrames(b) \cap W # {} THEN b.rxUnsent ELSE b.rxMax
      /\ x.pong = IF PongFrames(b) \cap W # {} THEN b.ping ELSE b.pong
      /\ \A d \in Direction : x.rxStreams[d] = IF MaxStreamsFr(d, b.rxUnsentStreams[d]) \in W
                                                 THEN b.rxUnsentStreams[d] ELSE b.rxStreams[d]
  BY DEF Limits
<1> HIDE DEF D
<1> QED
  BY <1>1, <1>6, <1>7, <1>8, <1>9, SingleStepByFields

\* Where the loop is on the turn of stream u, the streams before it are over.
LEMMA TurnsBefore ==
  ASSUME NEW x, NEW b, NEW u \in x.strmq, NEW n, Midway(x, b, u, n), \A t \in x.strmq : u <= t
  PROVE  /\ u \in b.strmq /\ b.strmq \subseteq Nat /\ u \notin Over(b, x)
         /\ \A s \in b.strmq : s \in Over(b, x) <=> s < u
<1>1. x.strmq \subseteq b.strmq /\ b.strmq \subseteq Nat /\ u \in x.strmq
  BY StreamIdsAssumption DEF Midway, WellFormed
<1>2. \A s \in b.strmq : s \in Over(b, x) => s < u
  BY <1>1 DEF Midway
<1>3. \A s \in b.strmq : s \notin Over(b, x) => u <= s
  BY DEF Over
<1>4. \A s \in b.strmq : s \in Nat /\ u \in Nat
  BY <1>1
<1> QED
  BY <1>1, <1>2, <1>3, <1>4 DEF Over

\* On the turn of a stream, when its frame at place k does not fit.
LEMMA NobufInTurn ==
  ASSUME NEW x, NEW b, NEW u \in x.strmq, NEW n, NEW k \in 0..4, NEW f,
         Midway(x, b, u, n), \A t \in x.strmq : u <= t,
         Limits(x, b, SaidUpTo(b, Over(b, x), u, k)),
         Says(b, u, k, f),
         \/ k = 0 /\ n = 0
         \/ k = 1 /\ n = 2
         \/ k \in 2..4 /\ n = k + 2
  PROVE  Step(x, b, SaidUpTo(b, Over(b, x), u, k))
<1> DEFINE D == Over(b, x)
           W == SaidUpTo(b, D, u, k)
<1>1. /\ WellFormed(b) /\ u \in b.strmq /\ b.strmq \subseteq Nat /\ u \notin D
      /\ \A s \in b.strmq : s \in D <=> s < u
      /\ x.strmq = b.strmq \ D
  <2>1. /\ u \in b.strmq /\ b.strmq \subseteq Nat /\ u \notin D
        /\ \A s \in b.strmq : s \in D <=> s < u
    BY TurnsBefore
  <2>2. WellFormed(b) /\ x.strmq \subseteq b.strmq
    BY DEF Midway
  <2> QED
    BY <2>1, <2>2 DEF Over
<1>2. QueueCut(b, W, D, u, k)
  <2> DEFINE M == {}
  <2>1. M \subseteq MaxStreamsFrames(b) /\ W \cup M = W /\ k \in 0..5
    OBVIOUS
  <2> HIDE DEF M, W
  <2>2. QueueCut(b, SaidUpTo(b, D, u, k) \cup M, D, u, k)
    BY <1>1, <2>1, UpToCut
  <2> QED
    BY <2>1, <2>2 DEF W
<1> HIDE DEF W
<1>3. /\ n \in Nat /\ k \in 0..5 /\ (n >= 6 <=> 3 < k)
  OBVIOUS
<1>4. HeadFrames(b) \subseteq W
  BY <1>2 DEF QueueCut
<1>5. \A s \in D : StreamFrames(b, s) \subseteq W
  <2>1. D \subseteq b.strmq
    BY DEF Over
  <2> QED
    BY <1>1, <1>2, <1>3, <2>1, TurnOver
<1>6. \A s \in b.strmq : s <= u => Reached(b, s, W)
  <2> SUFFICES ASSUME NEW s \in b.strmq, s <= u, NEW t \in b.strmq, t < s
               PROVE  StreamFrames(b, t) \subseteq W
    BY <1>4 DEF Reached
  <2>1. s \in Nat /\ t \in Nat /\ u \in Nat
    BY <1>1
  <2>2. t \in D
    BY <1>1, <2>1
  <2> QED
    BY <1>5, <2>2
<1>7. u <= u /\ u \in Nat /\ Reached(b, u, W)
  BY <1>1, <1>6
<1>8. ~(StreamFrames(b, u) \subseteq W) /\ AfterTurn(b, u, W) = Turned(b, u, n)
  BY <1>1, <1>2, <1>7, TurnCut
<1>9. \A s \in b.strmq : u < s => ~Reached(b, s, W)
  BY <1>1, <1>8 DEF Reached
<1>10. ASSUME NEW s \in x.strmq
       PROVE  s \notin Popped(b, W) /\ x.strm[s] = AfterTurn(b, s, W)
  <2>1. s \in b.strmq /\ s \notin D /\ s \in StreamIds
    BY <1>1 DEF WellFormed
  <2>2. x.strm[s] = IF s = u THEN Turned(b, s, n) ELSE b.strm[s]
    BY <2>1 DEF Midway
  <2>3. CASE s = u
    BY <1>8, <2>2, <2>3 DEF Popped
  <2>4. CASE s # u
    <3>1. u < s
      BY <1>1, <2>1, <2>4
    <3>2. ~Reached(b, s, W)
      BY <1>9, <2>1, <3>1
    <3>3. AfterTurn(b, s, W) = b.strm[s]
      BY <1>1, <1>2, <1>3, <2>1, <2>4, <3>2, TurnNotYet
    <3> QED
      BY <2>2, <2>4, <3>2, <3>3 DEF Popped
  <2> QED
    BY <2>3, <2>4
<1>11. \A s \in D : Reached(b, s, W)
  <2>1. \A s \in D : s \in b.strmq /\ s <= u
    BY <1>1 DEF Over
  <2> QED
    BY <1>6, <2>1
<1>12. \A s, t \in b.strmq : s \in D \cup {u} /\ t < s => t \in D
  <2>1. \A s \in b.strmq : s \in Nat
    BY <1>1
  <2> QED
    BY <1>1, <2>1
<1>13. Limits(x, b, W)
  BY DEF W
<1>14. Step(x, b, W)
  BY <1>1, <1>2, <1>3, <1>10, <1>11, <1>12, <1>13, StepByStreams
<1> QED
  BY <1>14 DEF W

\* After the queue, when the frames M of the others are written.
LEMMA StepInTail ==
  ASSUME NEW x, NEW b, NEW u, NEW M, M \subseteq MaxStreamsFrames(b),
         Midway(x, b, u, 0), x.strmq = {},
         Limits(x, b, HeadFrames(b) \cup QueueFrames(b) \cup M)
  PROVE  Step(x, b, HeadFrames(b) \cup QueueFrames(b) \cup M)
<1> DEFINE D == Over(b, x)
           W == HeadFrames(b) \cup QueueFrames(b) \cup M
<1>1. WellFormed(b) /\ D = b.strmq /\ 0 \in 0..5
  BY DEF Midway, Over
<1>2. QueueCut(b, W, D, u, 0)
  <2>1. SaidUpTo(b, D, u, 0) \cup M = W
    BY <1>1, UpToEnds
  <2>2. QueueCut(b, SaidUpTo(b, D, u, 0) \cup M, D, u, 0)
    BY <1>1, UpToCut
  <2> QED
    BY <2>1, <2>2
<1>3. \A s \in D : Reached(b, s, W)
  <2>1. HeadFrames(b) \subseteq W /\ \A t \in b.strmq : StreamFrames(b, t) \subseteq W
    BY DEF QueueFrames
  <2> QED
    BY <2>1 DEF Reached
<1> HIDE DEF W
<1>4. Limits(x, b, W)
  BY DEF W
<1>5. Step(x, b, W)
  <2>1. /\ 0 \in Nat /\ (0 >= 6 <=> 3 < 0)
        /\ \A s, t \in b.strmq : s \in D \cup {u} /\ t < s => t \in D
        /\ \A s \in x.strmq : s \notin Popped(b, W) /\ x.strm[s] = AfterTurn(b, s, W)
    BY <1>1
  <2> QED
    BY <1>1, <1>2, <1>3, <1>4, <2>1, StepByStreams
<1> QED
  BY <1>5 DEF W

\* Before the queue.
LEMMA StepInHead ==
  ASSUME NEW x, NEW b, NEW u, Midway(x, b, u, 0), x.strmq = b.strmq,
         NEW W, W \subseteq HeadFrames(b), W # HeadFrames(b), Limits(x, b, W)
  PROVE  Step(x, b, W)
<1>1. /\ WellFormed(b) /\ WellFormed(x) /\ SameRest(x, b) /\ x.qre.started = TRUE
      /\ Over(b, x) = {} /\ x.live = b.live /\ x.txBlocked = b.txBlocked
      /\ b.strmq \subseteq StreamIds
  <2>1. Over(b, x) = {} /\ ~(0 >= 6)
    BY DEF Over
  <2> QED
    BY <2>1 DEF Midway, WellFormed
<1>2. \A s : ~Reached(b, s, W)
  BY DEF Reached
<1>3. Popped(b, W) = {}
  BY <1>2 DEF Popped
<1>4. \A s \in b.strmq : /\ CreditFrames(b, s) \cap W = {}
                         /\ DataBlockedFrames(b, s) \cap W = {}
                         /\ StreamDataBlockedFrames(b, s) \cap W = {}
  <2>1. \A f \in W : f.t \in {"MAX_DATA", "QX_PING_RESPONSE"}
    BY OtherPlaces DEF HeadFrames
  <2> QED
    BY <1>1, <2>1, StreamPlaces
<1>5. ASSUME NEW s \in StreamIds
      PROVE  x.strm[s] = b.strm[s] /\ (s \in b.strmq => AfterTurn(b, s, W) = b.strm[s])
  <2>1. Gone(0) = {} /\ ~(0 >= 5) /\ ~(0 >= 7) /\ IsStrm(b.strm[s])
    BY <1>1 DEF Gone, WellFormed
  <2>2. Turned(b, s, 0) = b.strm[s]
    BY <2>1 DEF Turned, IsStrm
  <2>3. x.strm[s] = b.strm[s]
    BY <1>1, <2>2 DEF Midway
  <2>4. Cleared(b, s, W) = {}
    BY <1>2, <1>3 DEF Cleared
  <2>5. s \in b.strmq => AfterTurn(b, s, W) = b.strm[s]
    BY <1>4, <2>1, <2>4 DEF AfterTurn, IsStrm
  <2> QED
    BY <2>3, <2>5
<1>6. Freed(b, W) = {}
  BY <1>3 DEF Freed
<1>7. /\ x.live = b.live \ Freed(b, W) /\ x.strmq = b.strmq \ Popped(b, W)
      /\ \A s \in StreamIds : x.strm[s] = IF s \in Freed(b, W) THEN NewStrm(b.role, s)
                                          ELSE IF s \in b.strmq THEN AfterTurn(b, s, W)
                                          ELSE b.strm[s]
      /\ x.txBlocked = IF \E s \in b.strmq : DataBlockedFrames(b, s) \cap W # {}
                         THEN b.txOff ELSE b.txBlocked
  BY <1>1, <1>3, <1>4, <1>5, <1>6
<1>8. /\ x.rxMax = IF MaxDataFrames(b) \cap W # {} THEN b.rxUnsent ELSE b.rxMax
      /\ x.pong = IF PongFrames(b) \cap W # {} THEN b.ping ELSE b.pong
      /\ \A d \in Direction : x.rxStreams[d] = IF MaxStreamsFr(d, b.rxUnsentStreams[d]) \in W
                                                 THEN b.rxUnsentStreams[d] ELSE b.rxStreams[d]
  BY DEF Limits
<1> QED
  BY <1>1, <1>7, <1>8, SingleStepByFields

-----------------------------------------------------------------------------
(* Writing a frame                                                         *)

\* What is in the record.
Said(x) == UNION {x.qre.frames[i] : i \in DOMAIN x.qre.frames}

\* The frames in the record, W, come in their order.
InOrder(x, b, W) ==
  /\ x.qre.frames \in Seq(SUBSET CtrlFrames(b))
  /\ \A i, j \in DOMAIN x.qre.frames :
       i < j => \A f \in x.qre.frames[i], g \in x.qre.frames[j] : Before(f, g)
  /\ Said(x) = W

\* A frame is added to the record.
Added(x, f) == [x EXCEPT !.qre.frames = Append(@, {f})]

\* Writing one field of a record of two.
LEMMA RecordSet ==
  ASSUME NEW r, r = [started |-> r.started, frames |-> r.frames], NEW v
  PROVE  [r EXCEPT !.frames = v] = [started |-> r.started, frames |-> v]
<1>1. ASSUME NEW a, NEW w, r = [started |-> a, frames |-> w]
      PROVE  [r EXCEPT !.frames = v] = [started |-> a, frames |-> v]
  BY ONLY <1>1
<1>2. PICK a, w : a = r.started /\ w = r.frames
  OBVIOUS
<1>3. r = [started |-> a, frames |-> w]
  BY <1>2
<1>4. [r EXCEPT !.frames = v] = [started |-> a, frames |-> v]
  BY ONLY <1>1, <1>3
<1> QED
  BY ONLY <1>2, <1>4

\* The fields of the record, and the others.
LEMMA AddedFields ==
  ASSUME NEW x, WellFormed(x), NEW f
  PROVE  LET y == Added(x, f) IN
         /\ WellFormed(y) /\ SameRest(y, x)
         /\ y.live = x.live /\ y.strm = x.strm /\ y.strmq = x.strmq /\ y.rxMax = x.rxMax
         /\ y.pong = x.pong /\ y.txBlocked = x.txBlocked /\ y.rxStreams = x.rxStreams
         /\ y.qre.started = x.qre.started /\ y.qre.frames = Append(x.qre.frames, {f})
<1> DEFINE y == Added(x, f)
           q == [x.qre EXCEPT !.frames = Append(x.qre.frames, {f})]
<1>1. y = [x EXCEPT !.qre = q]
  BY DEF Added
<1>2. x.qre = [started |-> x.qre.started, frames |-> x.qre.frames] /\ IsConn(x)
  BY DEF WellFormed
<1>3. /\ q.started = x.qre.started /\ q.frames = Append(x.qre.frames, {f})
      /\ q = [started |-> q.started, frames |-> q.frames]
  <2> DEFINE v == Append(x.qre.frames, {f})
  <2>2. q = [started |-> x.qre.started, frames |-> v]
    <3> HIDE DEF v
    <3>1. [x.qre EXCEPT !.frames = v] = [started |-> x.qre.started, frames |-> v]
      BY <1>2, RecordSet
    <3> QED
      BY <3>1 DEF v
  <2> HIDE DEF q
  <2> QED
    BY <2>2
<1> HIDE DEF q, y
<1>4. IsConn(y)
  BY <1>1, <1>2, FieldWritten
<1>5. /\ SameRest(y, x)
      /\ y.live = x.live /\ y.strm = x.strm /\ y.strmq = x.strmq /\ y.rxMax = x.rxMax
      /\ y.pong = x.pong /\ y.txBlocked = x.txBlocked /\ y.rxStreams = x.rxStreams
      /\ y.qre = q
  BY <1>1, <1>2 DEF IsConn, SameRest
<1>6. WellFormed(y)
  BY <1>3, <1>4, <1>5 DEF WellFormed
<1> QED
  BY <1>3, <1>5, <1>6 DEF y

\* The loop is where it was.
LEMMA AddedMidway ==
  ASSUME NEW x, NEW b, NEW u, NEW n, NEW W, NEW f, Midway(x, b, u, n)
  PROVE  /\ Midway(Added(x, f), b, u, n) /\ Over(b, Added(x, f)) = Over(b, x)
         /\ Limits(x, b, W) => Limits(Added(x, f), b, W)
<1> DEFINE y == Added(x, f)
<1>1. WellFormed(x)
  BY DEF Midway
<1>2. /\ WellFormed(y) /\ SameRest(y, x)
      /\ y.live = x.live /\ y.strm = x.strm /\ y.strmq = x.strmq /\ y.rxMax = x.rxMax
      /\ y.pong = x.pong /\ y.txBlocked = x.txBlocked /\ y.rxStreams = x.rxStreams
      /\ y.qre.started = x.qre.started
  BY <1>1, AddedFields
<1> HIDE DEF y
<1>3. Over(b, y) = Over(b, x)
  BY <1>2 DEF Over
<1>4. SameRest(y, b)
  BY <1>2 DEF Midway, SameRest
<1>5. Midway(y, b, u, n)
  BY <1>2, <1>3, <1>4 DEF Midway
<1>6. Limits(x, b, W) => Limits(y, b, W)
  BY <1>2 DEF Limits
<1> QED
  BY <1>3, <1>5, <1>6 DEF y

\* The order is kept by a frame that comes after all that were written.
LEMMA AddedInOrder ==
  ASSUME NEW x, WellFormed(x), NEW b, NEW W, InOrder(x, b, W),
         NEW f \in CtrlFrames(b), \A g \in W : Before(g, f)
  PROVE  InOrder(Added(x, f), b, W \cup {f})
<1> DEFINE y == Added(x, f)
           F == x.qre.frames
           G == y.qre.frames
<1>1. G = Append(F, {f})
  BY AddedFields
<1>2. F \in Seq(SUBSET CtrlFrames(b)) /\ {f} \in SUBSET CtrlFrames(b)
  BY DEF InOrder
<1> HIDE DEF y, F, G
<1>3. /\ G \in Seq(SUBSET CtrlFrames(b)) /\ DOMAIN F = 1..Len(F) /\ Len(F) \in Nat
      /\ DOMAIN G = 1..(Len(F) + 1) /\ G[Len(F) + 1] = {f}
      /\ \A i \in 1..Len(F) : G[i] = F[i]
  BY <1>1, <1>2
<1>4. UNION {F[i] : i \in DOMAIN F} = W
  BY DEF InOrder, Said, F
<1>5. UNION {G[i] : i \in DOMAIN G} = W \cup {f}
  <2>1. \A g : (\E i \in DOMAIN G : g \in G[i]) <=> (\E i \in DOMAIN F : g \in F[i]) \/ g = f
    <3>1. \A i \in DOMAIN G : i \in DOMAIN F \/ i = Len(F) + 1
      BY <1>3
    <3>2. DOMAIN F \subseteq DOMAIN G /\ Len(F) + 1 \in DOMAIN G
      BY <1>3
    <3> QED
      BY <1>3, <3>1, <3>2
  <2> QED
    BY <1>4, <2>1
<1>6. ASSUME NEW i \in DOMAIN G, NEW j \in DOMAIN G, i < j, NEW g \in G[i], NEW h \in G[j]
      PROVE  Before(g, h)
  <2>1. i \in DOMAIN F /\ G[i] = F[i]
    BY <1>3, <1>6
  <2>2. g \in W
    BY <1>4, <2>1
  <2>3. CASE j \in DOMAIN F
    BY <1>3, <1>6, <2>1, <2>3 DEF InOrder, F
  <2>4. CASE j = Len(F) + 1
    BY <1>3, <2>2, <2>4
  <2> QED
    BY <1>3, <2>3, <2>4
<1> QED
  BY <1>3, <1>5, <1>6 DEF InOrder, Said, G, y

\* What is not written by another name.
LEMMA LimitsOfStream ==
  ASSUME NEW x, NEW b, WellFormed(b), NEW W, NEW V, V \subseteq QueueFrames(b)
  PROVE  Limits(x, b, W) <=> Limits(x, b, W \cup V)
<1>1. ASSUME NEW f \in V
      PROVE  f \notin MaxDataFrames(b) /\ f \notin PongFrames(b)
             /\ \A d \in Direction : f # MaxStreamsFr(d, b.rxUnsentStreams[d])
  <2>1. PICK s \in b.strmq : f \in StreamFrames(b, s)
    BY DEF QueueFrames
  <2>2. s \in StreamIds
    BY DEF WellFormed
  <2>3. PICK k \in 0..4 : Place(f) = <<1, s, k>>
    BY <2>1, <2>2, StreamFrameKinds
  <2>4. f \notin MaxDataFrames(b) /\ f \notin PongFrames(b)
    BY <2>3, OtherPlaces
  <2>5. ASSUME NEW d \in Direction
        PROVE  f # MaxStreamsFr(d, b.rxUnsentStreams[d])
    <3> DEFINE g == MaxStreamsFr(d, b.rxUnsentStreams[d])
    <3>1. g.t = "MAX_STREAMS" /\ Place(g) = <<2, IF g.dir = "bidi" THEN 0 ELSE 1, 0>>
      BY DEF MaxStreamsFr, Place
    <3> HIDE DEF g
    <3> QED
      BY <2>3, <3>1 DEF g
  <2> QED
    BY <2>4, <2>5
<1>2. /\ MaxDataFrames(b) \cap W = MaxDataFrames(b) \cap (W \cup V)
      /\ PongFrames(b) \cap W = PongFrames(b) \cap (W \cup V)
      /\ \A d \in Direction : MaxStreamsFr(d, b.rxUnsentStreams[d]) \in W
                                <=> MaxStreamsFr(d, b.rxUnsentStreams[d]) \in W \cup V
  BY <1>1
<1> QED
  BY <1>2 DEF Limits

-----------------------------------------------------------------------------
(* One statement more                                                      *)

\* Stream object z is y with other flags, limit and blocked offset.
IsNow(z, y, flags, rxMax, txBlocked) ==
  z = [flags |-> flags, txOff |-> y.txOff, txMax |-> y.txMax, txBlocked |-> txBlocked,
       rxLast |-> y.rxLast, rxMax |-> rxMax, rxUnsent |-> y.rxUnsent]

\* Its fields.
LEMMA NowFields ==
  ASSUME NEW y, NEW z, NEW f, NEW m, NEW t, IsNow(z, y, f, m, t)
  PROVE  /\ IsStrm(z) /\ z.flags = f /\ z.rxMax = m /\ z.txBlocked = t
         /\ z.txOff = y.txOff /\ z.txMax = y.txMax
         /\ z.rxLast = y.rxLast /\ z.rxUnsent = y.rxUnsent
<1>1. ASSUME NEW a, NEW u, NEW v, NEW w,
             z = [flags |-> f, txOff |-> a, txMax |-> u, txBlocked |-> t,
                  rxLast |-> v, rxMax |-> m, rxUnsent |-> w]
      PROVE  /\ z.flags = f /\ z.rxMax = m /\ z.txBlocked = t
             /\ z.txOff = a /\ z.txMax = u /\ z.rxLast = v /\ z.rxUnsent = w
  BY ONLY <1>1
<1>2. /\ z.flags = f /\ z.rxMax = m /\ z.txBlocked = t
      /\ z.txOff = y.txOff /\ z.txMax = y.txMax
      /\ z.rxLast = y.rxLast /\ z.rxUnsent = y.rxUnsent
  BY <1>1, Zenon DEF IsNow
<1>3. IsStrm(z)
  BY ONLY <1>2, IsNow(z, y, f, m, t), Zenon DEF IsNow, IsStrm
<1> QED
  BY <1>2, <1>3

\* Writing one field of it.
LEMMA NowSet ==
  ASSUME NEW y, NEW z, NEW f, NEW m, NEW t, IsNow(z, y, f, m, t), NEW v
  PROVE  /\ IsNow([z EXCEPT !.flags = v], y, v, m, t)
         /\ IsNow([z EXCEPT !.rxMax = v], y, f, v, t)
         /\ IsNow([z EXCEPT !.txBlocked = v], y, f, m, v)
BY DEF IsNow

\* The fields of a stream on its turn.
LEMMA TurnedFields ==
  ASSUME NEW b, WellFormed(b), NEW s \in StreamIds, NEW n
  PROVE  LET y == b.strm[s] IN
         /\ IsNow(y, y, y.flags, y.rxMax, y.txBlocked)
         /\ IsNow(Turned(b, s, n), y, y.flags \ Gone(n),
                  IF n >= 5 /\ NeedsCredit(b, s) THEN y.rxUnsent ELSE y.rxMax,
                  IF n >= 7 /\ s \in Reporting(b) /\ StreamDataBlockedFrames(b, s) # {}
                    THEN y.txOff ELSE y.txBlocked)
<1>2. PICK y : y = b.strm[s]
  OBVIOUS
<1>3. IsStrm(y)
  BY <1>2 DEF WellFormed
<1>5. IsNow(y, y, y.flags, y.rxMax, y.txBlocked)
  BY <1>3 DEF IsNow, IsStrm
<1>4. ASSUME NEW f, NEW m, NEW t
      PROVE  IsNow([y EXCEPT !.flags = f, !.rxMax = m, !.txBlocked = t], y, f, m, t)
  <2>1. IsNow([y EXCEPT !.flags = f], y, f, y.rxMax, y.txBlocked)
    BY <1>5, NowSet
  <2>2. IsNow([[y EXCEPT !.flags = f] EXCEPT !.rxMax = m], y, f, m, y.txBlocked)
    BY <2>1, NowSet
  <2>3. IsNow([[[y EXCEPT !.flags = f] EXCEPT !.rxMax = m] EXCEPT !.txBlocked = t], y, f, m, t)
    BY <2>2, NowSet
  <2>4. [y EXCEPT !.flags = f, !.rxMax = m, !.txBlocked = t]
          = [[[y EXCEPT !.flags = f] EXCEPT !.rxMax = m] EXCEPT !.txBlocked = t]
    OBVIOUS
  <2> QED
    BY ONLY <2>3, <2>4, Zenon
<1> DEFINE m == IF n >= 5 /\ NeedsCredit(b, s) THEN y.rxUnsent ELSE y.rxMax
           t == IF n >= 7 /\ s \in Reporting(b) /\ StreamDataBlockedFrames(b, s) # {}
                  THEN y.txOff ELSE y.txBlocked
           f == y.flags \ Gone(n)
<1>6. Turned(b, s, n) = [y EXCEPT !.flags = f, !.rxMax = m, !.txBlocked = t]
  BY ONLY <1>2, Zenon DEF Turned
<1> HIDE DEF f, m, t
<1>7. IsNow(Turned(b, s, n), y, f, m, t)
  <2> DEFINE g == [y EXCEPT !.flags = f, !.rxMax = m, !.txBlocked = t]
  <2>1. IsNow(g, y, f, m, t)
    BY ONLY <1>4
  <2>2. Turned(b, s, n) = g
    BY ONLY <1>6
  <2> HIDE DEF g
  <2> QED
    BY ONLY <2>1, <2>2
<1> QED
  BY ONLY <1>2, <1>5, <1>7, Zenon DEF f, m, t

\* The flags that are cleared, statement by statement.
LEMMA GoneNext ==
  /\ Gone(0) = {} /\ Gone(1) = {"SEND_RESET_STREAM"}
  /\ Gone(2) = Gone(1) /\ Gone(3) = Gone(1)
  /\ Gone(4) = Gone(1) \cup {"SEND_STOP_SENDING"}
  /\ Gone(5) = Gone(4) /\ Gone(6) = Gone(4) /\ Gone(7) = Gone(4)
  /\ Gone(8) = Gone(4) \cup {"SEND_STREAM_DATA_BLOCKED"}
BY DEF Gone

\* A stream on its turn, statement by statement.
LEMMA TurnedNext ==
  ASSUME NEW b, WellFormed(b), NEW s \in StreamIds
  PROVE  /\ Turned(b, s, 0) = b.strm[s]
         /\ Turned(b, s, 1) = [Turned(b, s, 0) EXCEPT !.flags = @ \ {"SEND_RESET_STREAM"}]
         /\ Turned(b, s, 2) = Turned(b, s, 1) /\ Turned(b, s, 3) = Turned(b, s, 2)
         /\ Turned(b, s, 4) = [Turned(b, s, 3) EXCEPT !.flags = @ \ {"SEND_STOP_SENDING"}]
         /\ Turned(b, s, 5) = IF NeedsCredit(b, s)
                                THEN [Turned(b, s, 4) EXCEPT !.rxMax = b.strm[s].rxUnsent]
                                ELSE Turned(b, s, 4)
         /\ Turned(b, s, 6) = Turned(b, s, 5)
         /\ Turned(b, s, 7) = IF s \in Reporting(b) /\ StreamDataBlockedFrames(b, s) # {}
                                THEN [Turned(b, s, 6) EXCEPT !.txBlocked = b.strm[s].txOff]
                                ELSE Turned(b, s, 6)
         /\ Turned(b, s, 8) = [Turned(b, s, 7) EXCEPT !.flags = @ \ {"SEND_STREAM_DATA_BLOCKED"}]
<1> DEFINE T(n) == Turned(b, s, n)
<1>1. PICK y : y = b.strm[s]
  OBVIOUS
<1> DEFINE m(n) == IF n >= 5 /\ NeedsCredit(b, s) THEN y.rxUnsent ELSE y.rxMax
           t(n) == IF n >= 7 /\ s \in Reporting(b) /\ StreamDataBlockedFrames(b, s) # {}
                     THEN y.txOff ELSE y.txBlocked
           f(n) == y.flags \ Gone(n)
<1>2. IsNow(y, y, y.flags, y.rxMax, y.txBlocked) /\ \A n : IsNow(T(n), y, f(n), m(n), t(n))
  BY <1>1, TurnedFields
<1>3. ASSUME NEW z, NEW n, IsNow(z, y, f(n), m(n), t(n))
      PROVE  z = T(n)
  <2> HIDE DEF T, f, m, t
  <2> QED
    BY <1>2, <1>3 DEF IsNow
<1>4. \A n : T(n).flags = f(n)
  <2> HIDE DEF T, f, m, t
  <2> QED
    BY <1>2, NowFields
<1>5. /\ m(0) = y.rxMax /\ m(1) = m(0) /\ m(2) = m(0) /\ m(3) = m(0) /\ m(4) = m(0)
      /\ m(5) = (IF NeedsCredit(b, s) THEN y.rxUnsent ELSE m(4))
      /\ m(6) = m(5) /\ m(7) = m(5) /\ m(8) = m(5)
  OBVIOUS
<1>6. /\ t(0) = y.txBlocked /\ t(1) = t(0) /\ t(2) = t(0) /\ t(3) = t(0) /\ t(4) = t(0)
      /\ t(5) = t(0) /\ t(6) = t(0)
      /\ t(7) = (IF s \in Reporting(b) /\ StreamDataBlockedFrames(b, s) # {} THEN y.txOff ELSE t(6))
      /\ t(8) = t(7)
  OBVIOUS
<1>7. /\ f(0) = y.flags /\ f(1) = f(0) \ {"SEND_RESET_STREAM"} /\ f(2) = f(1) /\ f(3) = f(2)
      /\ f(4) = f(3) \ {"SEND_STOP_SENDING"} /\ f(5) = f(4) /\ f(6) = f(5) /\ f(7) = f(6)
      /\ f(8) = f(7) \ {"SEND_STREAM_DATA_BLOCKED"}
  BY GoneNext
<1> HIDE DEF T, f, m, t
<1>8. T(0) = y
  BY <1>2, <1>3, <1>5, <1>6, <1>7
<1>9. T(1) = [T(0) EXCEPT !.flags = @ \ {"SEND_RESET_STREAM"}]
  <2>1. IsNow([T(0) EXCEPT !.flags = f(1)], y, f(1), m(1), t(1))
    BY <1>2, <1>5, <1>6, NowSet
  <2> QED
    BY <1>3, <1>4, <1>7, <2>1
<1>10. T(2) = T(1) /\ T(3) = T(2)
  BY <1>2, <1>3, <1>5, <1>6, <1>7
<1>11. T(4) = [T(3) EXCEPT !.flags = @ \ {"SEND_STOP_SENDING"}]
  <2>1. IsNow([T(3) EXCEPT !.flags = f(4)], y, f(4), m(4), t(4))
    BY <1>2, <1>5, <1>6, NowSet
  <2> QED
    BY <1>3, <1>4, <1>7, <2>1
<1>12. T(5) = IF NeedsCredit(b, s) THEN [T(4) EXCEPT !.rxMax = y.rxUnsent] ELSE T(4)
  <2>1. CASE NeedsCredit(b, s)
    <3>1. IsNow([T(4) EXCEPT !.rxMax = y.rxUnsent], y, f(5), m(5), t(5))
      <4>1. m(5) = y.rxUnsent /\ f(5) = f(4) /\ t(5) = t(4)
        BY <1>5, <1>6, <1>7, <2>1
      <4> QED
        BY <1>2, <4>1, NowSet
    <3> QED
      BY <1>3, <2>1, <3>1
  <2>2. CASE ~NeedsCredit(b, s)
    BY <1>2, <1>3, <1>5, <1>6, <1>7, <2>2
  <2> QED
    BY <2>1, <2>2
<1>13. T(6) = T(5)
  BY <1>2, <1>3, <1>5, <1>6, <1>7
<1>14. T(7) = IF s \in Reporting(b) /\ StreamDataBlockedFrames(b, s) # {}
                THEN [T(6) EXCEPT !.txBlocked = y.txOff] ELSE T(6)
  <2>1. CASE s \in Reporting(b) /\ StreamDataBlockedFrames(b, s) # {}
    <3>1. IsNow([T(6) EXCEPT !.txBlocked = y.txOff], y, f(7), m(7), t(7))
      <4>1. t(7) = y.txOff /\ f(7) = f(6) /\ m(7) = m(6)
        BY <1>5, <1>6, <1>7, <2>1
      <4> QED
        BY <1>2, <4>1, NowSet
    <3> QED
      BY <1>3, <2>1, <3>1
  <2>2. CASE ~(s \in Reporting(b) /\ StreamDataBlockedFrames(b, s) # {})
    BY <1>2, <1>3, <1>5, <1>6, <1>7, <2>2
  <2> QED
    BY <2>1, <2>2
<1>15. T(8) = [T(7) EXCEPT !.flags = @ \ {"SEND_STREAM_DATA_BLOCKED"}]
  <2>1. IsNow([T(7) EXCEPT !.flags = f(8)], y, f(8), m(8), t(8))
    BY <1>2, <1>5, <1>6, NowSet
  <2> QED
    BY <1>3, <1>4, <1>7, <2>1
<1> QED
  BY ONLY <1>1, <1>8, <1>9, <1>10, <1>11, <1>12, <1>13, <1>14, <1>15, Zenon DEF T

\* The frames that the statements look for are those that waited.
LEMMA TurnFrames ==
  ASSUME NEW x, NEW b, NEW u \in x.strmq, NEW n, Midway(x, b, u, n), \A t \in x.strmq : u <= t
  PROVE  /\ n = 0 => /\ \A f : f \in ResetFrames(x, u) <=> Says(b, u, 0, f)
                     /\ ClosesOnReset(x, u) <=> ClosesOnReset(b, u)
         /\ ~ClosesOnReset(b, u) =>
              /\ n = 2 => \A f : f \in StopFrames(x, u) <=> Says(b, u, 1, f)
              /\ n = 4 => /\ \A f : f \in CreditFrames(x, u) <=> Says(b, u, 2, f)
                          /\ CreditFrames(x, u) # {} <=> NeedsCredit(b, u)
              /\ n = 5 => \A f : f \in DataBlockedFrames(x, u) /\ u \in Reporting(x)
                                   <=> Says(b, u, 3, f)
              /\ n = 6 => \A f : f \in StreamDataBlockedFrames(x, u) /\ u \in Reporting(x)
                                   <=> Says(b, u, 4, f)
<1> DEFINE y == b.strm[u]
           z == x.strm[u]
<1>1. /\ u \in b.strmq /\ b.strmq \subseteq Nat /\ u \notin Over(b, x)
      /\ \A s \in b.strmq : s \in Over(b, x) <=> s < u
  BY TurnsBefore
<1>2. WellFormed(b) /\ SameRest(x, b) /\ u \in StreamIds
  BY <1>1 DEF Midway, WellFormed
<1>3. z = Turned(b, u, n)
  BY <1>1, <1>2 DEF Midway
<1>4. /\ z.flags = y.flags \ Gone(n)
      /\ z.rxMax = IF n >= 5 /\ NeedsCredit(b, u) THEN y.rxUnsent ELSE y.rxMax
      /\ z.txBlocked = IF n >= 7 /\ u \in Reporting(b) /\ StreamDataBlockedFrames(b, u) # {}
                         THEN y.txOff ELSE y.txBlocked
      /\ z.txOff = y.txOff /\ z.txMax = y.txMax /\ z.rxUnsent = y.rxUnsent
  <2> DEFINE m == IF n >= 5 /\ NeedsCredit(b, u) THEN y.rxUnsent ELSE y.rxMax
             t == IF n >= 7 /\ u \in Reporting(b) /\ StreamDataBlockedFrames(b, u) # {}
                    THEN y.txOff ELSE y.txBlocked
             f == y.flags \ Gone(n)
  <2>1. IsNow(z, y, f, m, t)
    BY <1>2, <1>3, TurnedFields
  <2> HIDE DEF f, m, t
  <2>2. z.flags = f /\ z.rxMax = m /\ z.txBlocked = t
        /\ z.txOff = y.txOff /\ z.txMax = y.txMax /\ z.rxUnsent = y.rxUnsent
    BY <2>1, NowFields
  <2> QED
    BY <2>2 DEF f, m, t
<1> HIDE DEF y, z
<1>5. /\ \A f : Says(b, u, 0, f) <=> f \in ResetFrames(b, u)
      /\ ~ClosesOnReset(b, u) =>
           /\ \A f : Says(b, u, 1, f) <=> f \in StopFrames(b, u)
           /\ \A f : Says(b, u, 2, f) <=> f \in CreditFrames(b, u)
           /\ \A f : Says(b, u, 3, f) <=> /\ f \in DataBlockedFrames(b, u) /\ u \in Reporting(b)
                                          /\ \A t \in Reporting(b) : u <= t
           /\ \A f : Says(b, u, 4, f) <=> f \in StreamDataBlockedFrames(b, u) /\ u \in Reporting(b)
  BY DEF Says, OnTurn
<1>6. ASSUME n = 0
      PROVE  ResetFrames(x, u) = ResetFrames(b, u) /\ (ClosesOnReset(x, u) <=> ClosesOnReset(b, u))
  <2>1. z.flags = y.flags
    BY <1>4, <1>6, GoneNext
  <2> QED
    BY <1>4, <2>1 DEF ResetFrames, ClosesOnReset, y, z
<1>7. ASSUME n = 2
      PROVE  StopFrames(x, u) = StopFrames(b, u)
  BY <1>4, <1>7, GoneNext DEF StopFrames, y, z
<1>8. ASSUME n = 4
      PROVE  /\ CreditFrames(x, u) = CreditFrames(b, u)
             /\ CreditFrames(x, u) # {} <=> NeedsCredit(b, u)
  <2>1. \A F \in {"SHUT_RD", "STOP_SENDING"} : F \in z.flags <=> F \in y.flags
    BY <1>4, <1>8, GoneNext
  <2>2. z.rxMax = y.rxMax /\ x.role = b.role
    BY <1>2, <1>4, <1>8 DEF SameRest
  <2>3. NeedsCredit(x, u) <=> NeedsCredit(b, u)
    BY <1>4, <2>1, <2>2 DEF NeedsCredit, ShouldSendMaxStreamData, y, z
  <2> QED
    BY <1>4, <2>3 DEF CreditFrames, y, z
<1>9. ASSUME n \in {5, 6}
      PROVE  u \in Reporting(x) <=> u \in Reporting(b)
  <2>1. \A F \in {"SEND_STREAM_DATA_BLOCKED", "SHUT_WR"} : F \in z.flags <=> F \in y.flags
    BY <1>4, <1>9, GoneNext
  <2> QED
    BY <1>1, <2>1 DEF Reporting, y, z
<1>10. ASSUME n = 5, NEW f
       PROVE  f \in DataBlockedFrames(x, u) /\ u \in Reporting(x)
                <=> /\ f \in DataBlockedFrames(b, u) /\ u \in Reporting(b)
                    /\ \A t \in Reporting(b) : u <= t
  <2>1. x.txOff = b.txOff /\ x.txMax = b.txMax
    BY <1>2 DEF SameRest
  <2>2. Reporting(b) \subseteq b.strmq
    BY DEF Reporting
  <2>3. (\A t \in Reporting(b) : u <= t) <=> ~\E s \in Reporting(b) : s \in Over(b, x)
    BY <1>1, <2>2
  <2>4. x.txBlocked = IF AtLimit(b) /\ \E s \in Reporting(b) : s \in Over(b, x)
                        THEN b.txOff ELSE b.txBlocked
    BY <1>10 DEF Midway
  <2>5. CASE \E s \in Reporting(b) : s \in Over(b, x)
    <3>1. DataBlockedFrames(x, u) = {}
      BY <2>1, <2>4, <2>5 DEF DataBlockedFrames, AtLimit
    <3> QED
      BY <2>3, <2>5, <3>1
  <2>6. CASE ~\E s \in Reporting(b) : s \in Over(b, x)
    <3>1. DataBlockedFrames(x, u) = DataBlockedFrames(b, u)
      BY <2>1, <2>4, <2>6 DEF DataBlockedFrames
    <3> QED
      BY <1>9, <1>10, <2>3, <2>6, <3>1
  <2> QED
    BY <2>5, <2>6
<1>11. ASSUME n = 6
       PROVE  StreamDataBlockedFrames(x, u) = StreamDataBlockedFrames(b, u)
  BY <1>4, <1>11 DEF StreamDataBlockedFrames, y, z
<1> QED
  <2>1. n = 0 => /\ \A f : f \in ResetFrames(x, u) <=> Says(b, u, 0, f)
                 /\ ClosesOnReset(x, u) <=> ClosesOnReset(b, u)
    BY <1>5, <1>6
  <2>2. ASSUME ~ClosesOnReset(b, u)
        PROVE  /\ n = 2 => \A f : f \in StopFrames(x, u) <=> Says(b, u, 1, f)
               /\ n = 4 => /\ \A f : f \in CreditFrames(x, u) <=> Says(b, u, 2, f)
                           /\ CreditFrames(x, u) # {} <=> NeedsCredit(b, u)
    BY <1>5, <1>7, <1>8, <2>2
  <2>3. ASSUME ~ClosesOnReset(b, u), n = 5
        PROVE  \A f : f \in DataBlockedFrames(x, u) /\ u \in Reporting(x) <=> Says(b, u, 3, f)
    BY <1>5, <1>10, <2>3
  <2>4. ASSUME ~ClosesOnReset(b, u), n = 6
        PROVE  \A f : f \in StreamDataBlockedFrames(x, u) /\ u \in Reporting(x) <=> Says(b, u, 4, f)
    BY <1>5, <1>9, <1>11, <2>4
  <2> QED
    BY <2>1, <2>2, <2>3, <2>4

\* The offset at which the connection has said that it is blocked.
Blocked(x, b, u, n) ==
  IF AtLimit(b) /\ \E s \in Reporting(b) : s \in Over(b, x) \/ (s = u /\ n >= 6)
    THEN b.txOff ELSE b.txBlocked

\* Between x and y a statement changed stream u, and what is said to be blocked.
Moved(y, x, u) ==
  /\ WellFormed(y) /\ SameRest(y, x) /\ y.live = x.live /\ y.strmq = x.strmq
  /\ y.rxMax = x.rxMax /\ y.pong = x.pong /\ y.rxStreams = x.rxStreams /\ y.qre = x.qre
  /\ \A s \in StreamIds : s # u => y.strm[s] = x.strm[s]

\* y is x with another stream u.
Replaced(y, x, u, w) == y = [x EXCEPT !.strm[u] = w]

\* A stream is replaced.
LEMMA MovedStrm ==
  ASSUME NEW x, WellFormed(x), NEW u \in StreamIds, NEW w, IsStrm(w),
         NEW y, Replaced(y, x, u, w)
  PROVE  Moved(y, x, u) /\ y.strm[u] = w /\ y.txBlocked = x.txBlocked
<1> DEFINE F == [x.strm EXCEPT ![u] = w]
<1>1. IsConn(x) /\ x.strm = [s \in StreamIds |-> x.strm[s]]
  BY DEF WellFormed
<1>2. WellFormed(y)
  BY StrmShape DEF Replaced
<1>3. F[u] = w /\ \A s \in StreamIds : s # u => F[s] = x.strm[s]
  BY <1>1
<1>4. y = [x EXCEPT !.strm = F]
  BY DEF Replaced
<1> HIDE DEF F
<1>5. /\ y.strm = F /\ SameRest(y, x) /\ y.live = x.live /\ y.strmq = x.strmq
      /\ y.rxMax = x.rxMax /\ y.pong = x.pong /\ y.rxStreams = x.rxStreams /\ y.qre = x.qre
      /\ y.txBlocked = x.txBlocked
  BY <1>1, <1>4 DEF IsConn, SameRest
<1> QED
  BY <1>2, <1>3, <1>5 DEF Moved

\* Its flags are written.
Clears(y, x, u, F) == y = [x EXCEPT !.strm[u].flags = @ \ F]

\* Writing flags of stream u changes nothing else.
LEMMA MovedFlags ==
  ASSUME NEW x, WellFormed(x), NEW u \in StreamIds, NEW F,
         NEW y, Clears(y, x, u, F)
  PROVE  /\ Moved(y, x, u) /\ y.strm[u] = [x.strm[u] EXCEPT !.flags = @ \ F]
         /\ y.txBlocked = x.txBlocked
<1> DEFINE w == [x.strm[u] EXCEPT !.flags = @ \ F]
<1>1. IsStrm(x.strm[u])
  BY DEF WellFormed
<1>2. IsStrm(w)
  BY <1>1 DEF IsStrm
<1>3. Replaced(y, x, u, w)
  BY Zenon DEF Replaced, Clears
<1> HIDE DEF w
<1>4. Moved(y, x, u) /\ y.strm[u] = w /\ y.txBlocked = x.txBlocked
  BY ONLY <1>2, <1>3, WellFormed(x), u \in StreamIds, MovedStrm
<1> QED
  BY <1>4 DEF w

\* Its limit is written.
SetsLimit(y, x, u, v) == y = [x EXCEPT !.strm[u].rxMax = v]

\* Writing the limit of stream u changes nothing else.
LEMMA MovedLimit ==
  ASSUME NEW x, WellFormed(x), NEW u \in StreamIds, NEW v,
         NEW y, SetsLimit(y, x, u, v)
  PROVE  /\ Moved(y, x, u) /\ y.strm[u] = [x.strm[u] EXCEPT !.rxMax = v]
         /\ y.txBlocked = x.txBlocked
<1> DEFINE w == [x.strm[u] EXCEPT !.rxMax = v]
<1>1. IsStrm(x.strm[u])
  BY DEF WellFormed
<1>2. IsStrm(w)
  BY <1>1 DEF IsStrm
<1>3. Replaced(y, x, u, w)
  BY Zenon DEF Replaced, SetsLimit
<1> HIDE DEF w
<1>4. Moved(y, x, u) /\ y.strm[u] = w /\ y.txBlocked = x.txBlocked
  BY ONLY <1>2, <1>3, WellFormed(x), u \in StreamIds, MovedStrm
<1> QED
  BY <1>4 DEF w

\* Its blocked offset is written.
SetsBlocked(y, x, u, v) == y = [x EXCEPT !.strm[u].txBlocked = v]

\* Writing the blocked offset of stream u changes nothing else.
LEMMA MovedBlocked ==
  ASSUME NEW x, WellFormed(x), NEW u \in StreamIds, NEW v,
         NEW y, SetsBlocked(y, x, u, v)
  PROVE  /\ Moved(y, x, u) /\ y.strm[u] = [x.strm[u] EXCEPT !.txBlocked = v]
         /\ y.txBlocked = x.txBlocked
<1> DEFINE w == [x.strm[u] EXCEPT !.txBlocked = v]
<1>1. IsStrm(x.strm[u])
  BY DEF WellFormed
<1>2. IsStrm(w)
  BY <1>1 DEF IsStrm
<1>3. Replaced(y, x, u, w)
  BY Zenon DEF Replaced, SetsBlocked
<1> HIDE DEF w
<1>4. Moved(y, x, u) /\ y.strm[u] = w /\ y.txBlocked = x.txBlocked
  BY ONLY <1>2, <1>3, WellFormed(x), u \in StreamIds, MovedStrm
<1> QED
  BY <1>4 DEF w

\* The blocked offset of the connection is written.
SetsConnBlocked(y, x, v) == y = [x EXCEPT !.txBlocked = v]

\* Writing the blocked offset of the connection changes no stream.
LEMMA MovedConn ==
  ASSUME NEW x, WellFormed(x), NEW u \in StreamIds, NEW v, NEW y, SetsConnBlocked(y, x, v)
  PROVE  Moved(y, x, u) /\ y.strm[u] = x.strm[u] /\ y.txBlocked = v
<1>1. WellFormed(y)
  BY SetShape DEF SetsConnBlocked
<1>2. /\ y.strm = x.strm /\ SameRest(y, x) /\ y.live = x.live /\ y.strmq = x.strmq
      /\ y.rxMax = x.rxMax /\ y.pong = x.pong /\ y.rxStreams = x.rxStreams /\ y.qre = x.qre
      /\ y.txBlocked = v
  BY DEF WellFormed, IsConn, SameRest, SetsConnBlocked
<1> QED
  BY <1>1, <1>2 DEF Moved

\* Nothing is written.
LEMMA NotMoved ==
  ASSUME NEW x, WellFormed(x), NEW u
  PROVE  Moved(x, x, u)
BY DEF Moved, SameRest

\* The loop is on the turn of stream u: n statements were executed, and the
\* frames before place k written.
AtTurn(x, b, u, n, k) ==
  /\ u \in x.strmq /\ \A t \in x.strmq : u <= t
  /\ Midway(x, b, u, n) /\ (n > 0 => ~ClosesOnReset(b, u))
  /\ Limits(x, b, SaidUpTo(b, Over(b, x), u, k))
  /\ InOrder(x, b, SaidUpTo(b, Over(b, x), u, k))

\* A statement that does not write.
LEMMA TurnMoved ==
  ASSUME NEW x, NEW b, NEW u, NEW n, NEW k, AtTurn(x, b, u, n, k),
         NEW m, m > 0 => ~ClosesOnReset(b, u),
         NEW y, Moved(y, x, u), y.strm[u] = Turned(b, u, m), y.txBlocked = Blocked(x, b, u, m)
  PROVE  AtTurn(y, b, u, m, k) /\ Over(b, y) = Over(b, x)
<1>1. Over(b, y) = Over(b, x)
  BY DEF Over, Moved
<1>2. u \in b.strmq /\ u \in StreamIds /\ u \notin Over(b, x)
  <2>1. u \in b.strmq /\ u \notin Over(b, x)
    BY TurnsBefore DEF AtTurn
  <2> QED
    BY <2>1 DEF AtTurn, Midway, WellFormed
<1>3. Midway(y, b, u, m)
  <2>1. /\ WellFormed(y) /\ WellFormed(b) /\ SameRest(y, b) /\ y.qre.started = TRUE
        /\ y.strmq \subseteq b.strmq /\ \A s \in Over(b, y), t \in y.strmq : s < t
    BY <1>1 DEF AtTurn, Midway, Moved, SameRest
  <2>2. \A s \in StreamIds : y.strm[s] = IF s \in Over(b, y) THEN Finished(b, s)
                                         ELSE IF s = u THEN Turned(b, u, m) ELSE b.strm[s]
    BY <1>1, <1>2 DEF AtTurn, Midway, Moved
  <2>3. y.live = b.live \ {s \in Over(b, y) : ClosesOnReset(b, s)}
    BY <1>1 DEF AtTurn, Midway, Moved
  <2> QED
    BY <1>1, <2>1, <2>2, <2>3 DEF Midway, Blocked
<1>4. \A W : (Limits(x, b, W) => Limits(y, b, W)) /\ (InOrder(x, b, W) => InOrder(y, b, W))
  BY DEF Limits, InOrder, Said, Moved
<1>5. u \in y.strmq /\ \A t \in y.strmq : u <= t
  BY DEF AtTurn, Moved
<1> QED
  BY <1>1, <1>3, <1>4, <1>5 DEF AtTurn

\* A stream has one frame for each place.
LEMMA OneFrame ==
  ASSUME NEW b, NEW u, NEW k \in 0..4, NEW f, NEW g, Says(b, u, k, f), Says(b, u, k, g)
  PROVE  f = g
<1>1. k \in {0, 1, 2, 3, 4}
  OBVIOUS
<1>2. CASE k = 0
  BY <1>2 DEF Says, OnTurn, ResetFrames
<1>3. CASE k = 1
  BY <1>3 DEF Says, OnTurn, StopFrames
<1>4. CASE k = 2
  BY <1>4 DEF Says, OnTurn, CreditFrames
<1>5. CASE k = 3
  BY <1>5 DEF Says, OnTurn, DataBlockedFrames
<1>6. CASE k = 4
  BY <1>6 DEF Says, OnTurn, StreamDataBlockedFrames
<1> QED
  BY <1>1, <1>2, <1>3, <1>4, <1>5, <1>6

\* Writing the frame at place k.
LEMMA TurnWrites ==
  ASSUME NEW x, NEW b, NEW u, NEW n, NEW k \in 0..4, AtTurn(x, b, u, n, k),
         NEW f, Says(b, u, k, f)
  PROVE  AtTurn(Added(x, f), b, u, n, k + 1) /\ Over(b, Added(x, f)) = Over(b, x)
<1> DEFINE y == Added(x, f)
           D == Over(b, x)
           W == SaidUpTo(b, D, u, k)
<1>1. /\ u \in b.strmq /\ b.strmq \subseteq Nat
      /\ \A s \in b.strmq : s \in D <=> s < u
      /\ WellFormed(x) /\ WellFormed(b)
  <2>1. Midway(x, b, u, n)
    BY DEF AtTurn
  <2>2. WellFormed(x) /\ WellFormed(b)
    BY <2>1 DEF Midway
  <2> QED
    BY <2>2, TurnsBefore DEF AtTurn
<1>2. Midway(y, b, u, n) /\ Over(b, y) = D
  BY AddedMidway DEF AtTurn
<1>3. y.strmq = x.strmq
  BY <1>1, AddedFields
<1>4. \A h : Says(b, u, k, h) => h \in QueueFrames(b)
  BY <1>1, SaysInQueue
<1>5. SaidUpTo(b, D, u, k + 1) = W \cup {f}
  <2>1. SaidUpTo(b, D, u, k + 1) = W \cup {h \in QueueFrames(b) : Says(b, u, k, h)}
    BY <1>1, <1>4, UpToNext
  <2>2. {h \in QueueFrames(b) : Says(b, u, k, h)} = {f}
    BY <1>4, OneFrame
  <2> QED
    BY <2>1, <2>2
<1>6. W = {g \in CtrlFrames(b) : Before(g, f)}
  BY <1>1, BeforeInTurn
<1>7. f \in CtrlFrames(b)
  BY <1>4 DEF CtrlFrames
<1>8. InOrder(x, b, W) /\ Limits(x, b, W)
  BY DEF AtTurn
<1> HIDE DEF W, y, D
<1>9. InOrder(y, b, W \cup {f})
  BY <1>1, <1>6, <1>7, <1>8, AddedInOrder DEF y
<1>10. Limits(y, b, W \cup {f})
  <2>1. Limits(x, b, W \cup {f})
    BY <1>1, <1>4, <1>8, LimitsOfStream
  <2> QED
    BY <2>1, AddedMidway DEF y, AtTurn
<1> QED
  BY <1>2, <1>3, <1>5, <1>9, <1>10 DEF AtTurn, y, D

\* There is no frame for place k.
LEMMA TurnSilent ==
  ASSUME NEW x, NEW b, NEW u, NEW n, NEW k \in 0..4, AtTurn(x, b, u, n, k),
         \A f : ~Says(b, u, k, f)
  PROVE  AtTurn(x, b, u, n, k + 1)
<1> DEFINE D == Over(b, x)
<1>1. u \in b.strmq
  BY TurnsBefore DEF AtTurn
<1>2. SaidUpTo(b, D, u, k + 1) = SaidUpTo(b, D, u, k)
  BY <1>1, UpToNext
<1> QED
  BY <1>2 DEF AtTurn

\* Between two turns: the frames of the streams whose turns are over are written.
AtTop(x, b) ==
  /\ Midway(x, b, 0, 0)
  /\ Limits(x, b, SaidUpTo(b, Over(b, x), 0, 0))
  /\ InOrder(x, b, SaidUpTo(b, Over(b, x), 0, 0))

\* Before its first statement a turn has not changed anything.
LEMMA MidwayAny ==
  ASSUME NEW x, NEW b, NEW u, NEW v, Midway(x, b, u, 0)
  PROVE  Midway(x, b, v, 0)
<1>1. WellFormed(b)
  BY DEF Midway
<1>2. \A s \in StreamIds : Turned(b, s, 0) = b.strm[s]
  BY <1>1, TurnedNext
<1>3. ~(0 >= 6)
  OBVIOUS
<1> QED
  BY <1>2, <1>3 DEF Midway

\* The loop takes the first stream of the queue.
LEMMA TurnBegins ==
  ASSUME NEW x, NEW b, AtTop(x, b), NEW u \in x.strmq, \A t \in x.strmq : u <= t
  PROVE  AtTurn(x, b, u, 0, 0)
<1>1. Midway(x, b, u, 0)
  BY MidwayAny DEF AtTop
<1>2. SaidUpTo(b, Over(b, x), u, 0) = SaidUpTo(b, Over(b, x), 0, 0)
  BY UpToAny
<1> QED
  BY <1>1, <1>2 DEF AtTop, AtTurn

\* Between x and y stream u left the queue, as it is at the end of its turn.
Left(y, x, b, u) ==
  /\ WellFormed(y) /\ SameRest(y, x) /\ y.strmq = x.strmq \ {u}
  /\ y.live = IF ClosesOnReset(b, u) THEN x.live \ {u} ELSE x.live
  /\ y.rxMax = x.rxMax /\ y.pong = x.pong /\ y.rxStreams = x.rxStreams
  /\ y.txBlocked = x.txBlocked /\ y.strm[u] = Finished(b, u)
  /\ \A s \in StreamIds : s # u => y.strm[s] = x.strm[s]
  /\ y.qre.started = x.qre.started /\ y.qre.frames = x.qre.frames

\* The turn of stream u is over.
LEMMA TurnEnds ==
  ASSUME NEW x, NEW b, NEW u, NEW n, NEW k \in 0..5, AtTurn(x, b, u, n, k),
         \/ k = 5 /\ n >= 6 /\ ~ClosesOnReset(b, u)
         \/ k = 1 /\ ClosesOnReset(b, u),
         NEW y, Left(y, x, b, u)
  PROVE  AtTop(y, b)
<1> DEFINE D == Over(b, x)
           E == Over(b, y)
<1>0. /\ WellFormed(y) /\ SameRest(y, x) /\ y.strmq = x.strmq \ {u}
      /\ y.live = IF ClosesOnReset(b, u) THEN x.live \ {u} ELSE x.live
      /\ y.rxMax = x.rxMax /\ y.pong = x.pong /\ y.rxStreams = x.rxStreams
      /\ y.txBlocked = x.txBlocked /\ y.strm[u] = Finished(b, u)
      /\ \A s \in StreamIds : s # u => y.strm[s] = x.strm[s]
      /\ y.qre.started = x.qre.started /\ y.qre.frames = x.qre.frames
  BY DEF Left
<1>1. Midway(x, b, u, n) /\ u \in x.strmq /\ \A t \in x.strmq : u <= t
  BY DEF AtTurn
<1>2. /\ u \in b.strmq /\ b.strmq \subseteq Nat /\ \A s \in b.strmq : s \in D <=> s < u
      /\ WellFormed(b) /\ x.strmq \subseteq b.strmq /\ u \in StreamIds
  <2>1. WellFormed(b) /\ x.strmq \subseteq b.strmq
    BY <1>1 DEF Midway
  <2>2. /\ u \in b.strmq /\ b.strmq \subseteq Nat /\ \A s \in b.strmq : s \in D <=> s < u
    BY <1>1, TurnsBefore
  <2> QED
    BY <2>1, <2>2 DEF WellFormed
<1>3. E = D \cup {u} /\ u \notin D
  BY <1>0, <1>1, <1>2 DEF Over
<1> HIDE DEF D, E
<1>4. /\ WellFormed(y) /\ SameRest(y, b) /\ y.qre.started = TRUE /\ y.strmq \subseteq b.strmq
  BY <1>0, <1>1, <1>2 DEF Midway, SameRest
<1>5. \A s \in E, t \in y.strmq : s < t
  <2> SUFFICES ASSUME NEW s \in E, NEW t \in y.strmq
               PROVE  s < t
    OBVIOUS
  <2>1. t \in x.strmq /\ t # u /\ u <= t /\ t \in Nat /\ u \in Nat
    BY <1>0, <1>1, <1>2
  <2>2. CASE s = u
    BY <2>1, <2>2
  <2>3. CASE s \in D
    BY <1>1, <2>1, <2>3 DEF Midway, D
  <2> QED
    BY <1>3, <2>2, <2>3
<1>6. \A s \in StreamIds : y.strm[s] = IF s \in E THEN Finished(b, s)
                                       ELSE IF s = 0 THEN Turned(b, 0, 0) ELSE b.strm[s]
  <2>1. \A s \in StreamIds : Turned(b, s, 0) = b.strm[s]
    BY <1>2, TurnedNext
  <2>2. \A s \in StreamIds : s # u => x.strm[s] = IF s \in D THEN Finished(b, s) ELSE b.strm[s]
    BY <1>1 DEF Midway, D
  <2> QED
    BY <1>0, <1>3, <2>1, <2>2
<1>7. y.live = b.live \ {s \in E : ClosesOnReset(b, s)}
  BY <1>0, <1>1, <1>3 DEF Midway, D
<1>8. y.txBlocked = IF AtLimit(b) /\ \E s \in Reporting(b) : s \in E \/ (s = 0 /\ 0 >= 6)
                      THEN b.txOff ELSE b.txBlocked
  <2>1. (\E s \in Reporting(b) : s \in E \/ (s = 0 /\ 0 >= 6))
          <=> (\E s \in Reporting(b) : s \in D \/ (s = u /\ n >= 6))
    <3>1. ~(0 >= 6) /\ \A s \in Reporting(b) : ~ClosesOnReset(b, s)
      BY ReporterStays
    <3> QED
      BY <1>3, <3>1
  <2> QED
    BY <1>0, <1>1, <2>1 DEF Midway, D
<1>9. Midway(y, b, 0, 0)
  BY <1>2, <1>4, <1>5, <1>6, <1>7, <1>8 DEF Midway, E
<1>10. SaidUpTo(b, E, 0, 0) = SaidUpTo(b, D, u, k)
  BY <1>2, <1>3, UpToOver
<1>11. \A W : (Limits(x, b, W) => Limits(y, b, W)) /\ (InOrder(x, b, W) => InOrder(y, b, W))
  BY <1>0 DEF Limits, InOrder, Said
<1> QED
  BY <1>9, <1>10, <1>11 DEF AtTop, AtTurn, D, E

\* What must be true when the function returns.
AtEnd(x, b) ==
  /\ WellFormed(x) /\ WellFormed(b) /\ Step(x, b, Said(x)) /\ InOrder(x, b, Said(x))
  /\ Said(x) \in FrontsOf(CtrlFrames(b))

\* On the turn of a stream, the frame at place k does not fit.
LEMMA TurnNobuf ==
  ASSUME NEW x, NEW b, NEW u, NEW n, NEW k \in 0..4, AtTurn(x, b, u, n, k),
         NEW f, Says(b, u, k, f),
         \/ k = 0 /\ n = 0
         \/ k = 1 /\ n = 2
         \/ k \in 2..4 /\ n = k + 2
  PROVE  AtEnd(x, b)
<1> DEFINE D == Over(b, x)
           W == SaidUpTo(b, D, u, k)
<1>1. /\ Midway(x, b, u, n) /\ u \in x.strmq /\ \A t \in x.strmq : u <= t
      /\ Limits(x, b, W) /\ InOrder(x, b, W)
  BY DEF AtTurn
<1>2. WellFormed(x) /\ WellFormed(b)
  BY <1>1 DEF Midway
<1>3. /\ u \in b.strmq /\ \A s \in b.strmq : s \in D <=> s < u
  BY <1>1, TurnsBefore
<1>4. Step(x, b, W)
  BY <1>1, NobufInTurn
<1>5. W = {g \in CtrlFrames(b) : Before(g, f)}
  BY <1>2, <1>3, BeforeInTurn
<1>6. f \in CtrlFrames(b)
  BY <1>2, <1>3, SaidInQueue
<1> HIDE DEF W
<1>7. Said(x) = W
  BY <1>1 DEF InOrder
<1> QED
  BY <1>1, <1>2, <1>4, <1>5, <1>6, <1>7 DEF AtEnd, FrontsOf

\* Clearing flags that are not set.
LEMMA FlagsNotSet ==
  ASSUME NEW z, IsStrm(z), NEW F, F \cap z.flags = {}
  PROVE  [z EXCEPT !.flags = @ \ F] = z
<1> DEFINE v == z.flags \ F
<1>1. v = z.flags
  OBVIOUS
<1>2. IsNow(z, z, z.flags, z.rxMax, z.txBlocked)
  BY DEF IsNow, IsStrm
<1> HIDE DEF v
<1>3. IsNow([z EXCEPT !.flags = v], z, v, z.rxMax, z.txBlocked)
  BY <1>2, NowSet
<1>4. [z EXCEPT !.flags = v] = z
  BY <1>1, <1>2, <1>3 DEF IsNow
<1> QED
  BY <1>4 DEF v

\* On a turn the stream is what its statements made of it.
LEMMA OnItsTurn ==
  ASSUME NEW x, NEW b, NEW u, NEW n, NEW k, AtTurn(x, b, u, n, k)
  PROVE  /\ WellFormed(x) /\ WellFormed(b) /\ SameRest(x, b)
         /\ Midway(x, b, u, n) /\ u \in x.strmq /\ (\A t \in x.strmq : u <= t)
         /\ u \in StreamIds /\ u \in b.strmq /\ u \notin Over(b, x)
         /\ x.strm[u] = Turned(b, u, n)
         /\ x.strm[u].flags = b.strm[u].flags \ Gone(n)
         /\ x.strm[u].txOff = b.strm[u].txOff /\ x.strm[u].rxUnsent = b.strm[u].rxUnsent
         /\ x.txBlocked = Blocked(x, b, u, n)
<1>1. Midway(x, b, u, n) /\ u \in x.strmq /\ \A t \in x.strmq : u <= t
  BY DEF AtTurn
<1>2. /\ WellFormed(x) /\ WellFormed(b) /\ SameRest(x, b)
      /\ x.txBlocked = Blocked(x, b, u, n)
  BY <1>1 DEF Midway, Blocked
<1>3. u \in b.strmq /\ u \notin Over(b, x)
  BY <1>1, TurnsBefore
<1>4. u \in StreamIds
  BY <1>2, <1>3 DEF WellFormed
<1>5. x.strm[u] = Turned(b, u, n)
  BY <1>1, <1>3, <1>4 DEF Midway
<1> DEFINE m == IF n >= 5 /\ NeedsCredit(b, u) THEN b.strm[u].rxUnsent ELSE b.strm[u].rxMax
           t == IF n >= 7 /\ u \in Reporting(b) /\ StreamDataBlockedFrames(b, u) # {}
                  THEN b.strm[u].txOff ELSE b.strm[u].txBlocked
           f == b.strm[u].flags \ Gone(n)
<1>6. IsNow(x.strm[u], b.strm[u], f, m, t)
  BY <1>2, <1>4, <1>5, TurnedFields
<1> HIDE DEF f, m, t
<1>7. x.strm[u].flags = f /\ x.strm[u].txOff = b.strm[u].txOff
      /\ x.strm[u].rxUnsent = b.strm[u].rxUnsent
  BY <1>6, NowFields
<1> QED
  BY <1>1, <1>2, <1>3, <1>4, <1>5, <1>7 DEF f

\* The connection says that it is blocked at one statement only.
LEMMA BlockedStays ==
  ASSUME NEW x, NEW b, NEW u, NEW n \in Nat, NEW m \in Nat, n >= 6 <=> m >= 6
  PROVE  Blocked(x, b, u, n) = Blocked(x, b, u, m)
BY DEF Blocked

-----------------------------------------------------------------------------
(* The statements of a turn                                                *)

\* RESET_STREAM, when the stream stays.
LEMMA ResetStays ==
  ASSUME NEW x, NEW b, NEW u, AtTurn(x, b, u, 0, 0),
         NEW d, Clears(d, x, u, {"SEND_RESET_STREAM"})
  PROVE  /\ ResetFrames(x, u) = {} => AtTurn(x, b, u, 1, 1)
         /\ ~ClosesOnReset(x, u) =>
              \A f \in ResetFrames(x, u) : AtTurn(Added(d, f), b, u, 1, 1)
         /\ ResetFrames(x, u) # {} => AtEnd(x, b)
<1> DEFINE R == {"SEND_RESET_STREAM"}
<1>1. /\ WellFormed(x) /\ WellFormed(b) /\ u \in StreamIds /\ Midway(x, b, u, 0)
      /\ x.strm[u] = Turned(b, u, 0)
      /\ x.txBlocked = Blocked(x, b, u, 0)
  BY OnItsTurn
<1>2. /\ \A f : f \in ResetFrames(x, u) <=> Says(b, u, 0, f)
      /\ ClosesOnReset(x, u) <=> ClosesOnReset(b, u)
  BY TurnFrames DEF AtTurn
<1>3. x.txBlocked = Blocked(x, b, u, 1)
  BY <1>1, BlockedStays
<1>4. Turned(b, u, 1) = [x.strm[u] EXCEPT !.flags = @ \ R]
  BY <1>1, TurnedNext
<1>5. ASSUME ResetFrames(x, u) = {}
      PROVE  AtTurn(x, b, u, 1, 1)
  <2>1. "SEND_RESET_STREAM" \notin x.strm[u].flags
    BY <1>5 DEF ResetFrames
  <2>2. ~ClosesOnReset(b, u)
    BY <1>2, <2>1 DEF ClosesOnReset
  <2>3. Turned(b, u, 1) = x.strm[u]
    <3>1. IsStrm(x.strm[u])
      BY <1>1 DEF WellFormed
    <3>2. PICK z : z = x.strm[u]
      OBVIOUS
    <3>3. R \cap z.flags = {} /\ IsStrm(z)
      BY <2>1, <3>1, <3>2
    <3>4. [z EXCEPT !.flags = @ \ R] = z
      BY ONLY <3>3, FlagsNotSet
    <3> QED
      BY <1>4, <3>2, <3>4, Zenon
  <2>4. Moved(x, x, u)
    BY <1>1, NotMoved
  <2>5. AtTurn(x, b, u, 1, 0)
    BY <1>3, <2>2, <2>3, <2>4, TurnMoved
  <2>6. \A f : ~Says(b, u, 0, f)
    BY <1>2, <1>5
  <2> QED
    BY <2>5, <2>6, TurnSilent
<1>6. ASSUME ~ClosesOnReset(x, u), NEW f \in ResetFrames(x, u)
      PROVE  AtTurn(Added(d, f), b, u, 1, 1)
  <2>1. Moved(d, x, u) /\ d.strm[u] = [x.strm[u] EXCEPT !.flags = @ \ R] /\ d.txBlocked = x.txBlocked
    BY ONLY <1>1, Clears(d, x, u, R), MovedFlags
  <2>2. AtTurn(d, b, u, 1, 0)
    BY <1>2, <1>3, <1>4, <1>6, <2>1, TurnMoved
  <2>3. Says(b, u, 0, f)
    BY <1>2, <1>6
  <2> QED
    BY <2>2, <2>3, TurnWrites
<1>7. ASSUME ResetFrames(x, u) # {}
      PROVE  AtEnd(x, b)
  <2>1. PICK f : Says(b, u, 0, f)
    BY <1>2, <1>7
  <2> QED
    BY <2>1, TurnNobuf
<1> QED
  BY <1>5, <1>6, <1>7

\* y is x after dwnx_conn_close_stream of u.
ClosedNow(y, x, u) == y = CloseStream(x, u)

\* What closing a stream changes.
LEMMA ClosedFields ==
  ASSUME NEW x, WellFormed(x), NEW u \in StreamIds, NEW y, ClosedNow(y, x, u)
  PROVE  /\ WellFormed(y) /\ SameRest(y, x) /\ y.live = x.live \ {u} /\ y.strmq = x.strmq \ {u}
         /\ y.rxMax = x.rxMax /\ y.pong = x.pong /\ y.rxStreams = x.rxStreams /\ y.qre = x.qre
         /\ y.txBlocked = x.txBlocked /\ y.strm[u] = NewStrm(x.role, u)
         /\ \A s \in StreamIds : s # u => y.strm[s] = x.strm[s]
<1> DEFINE z == NewStrm(x.role, u)
           F == [x.strm EXCEPT ![u] = z]
           L == x.live \ {u}
           Q == x.strmq \ {u}
<1>1. IsConn(x) /\ x.strm = [s \in StreamIds |-> x.strm[s]]
  BY DEF WellFormed
<1>2. WellFormed(y)
  BY CreateShape DEF ClosedNow
<1>3. F[u] = z /\ \A s \in StreamIds : s # u => F[s] = x.strm[s]
  BY <1>1
<1>4. y = [[[x EXCEPT !.live = L] EXCEPT !.strmq = Q] EXCEPT !.strm = F]
  BY DEF ClosedNow, CloseStream
<1> HIDE DEF F, L, Q
<1>5. LET w == [x EXCEPT !.live = L] IN
      /\ IsConn(w) /\ SameRest(w, x) /\ w.live = L /\ w.strmq = x.strmq /\ w.strm = x.strm
      /\ w.rxMax = x.rxMax /\ w.pong = x.pong /\ w.rxStreams = x.rxStreams /\ w.qre = x.qre
      /\ w.txBlocked = x.txBlocked
  BY <1>1 DEF IsConn, SameRest
<1> DEFINE w == [x EXCEPT !.live = L]
           v == [w EXCEPT !.strmq = Q]
<1>6. /\ IsConn(w) /\ SameRest(w, x) /\ w.live = L /\ w.strmq = x.strmq /\ w.strm = x.strm
      /\ w.rxMax = x.rxMax /\ w.pong = x.pong /\ w.rxStreams = x.rxStreams /\ w.qre = x.qre
      /\ w.txBlocked = x.txBlocked
  BY <1>5
<1> HIDE DEF w
<1>7. /\ IsConn(v) /\ SameRest(v, x) /\ v.live = L /\ v.strmq = Q /\ v.strm = x.strm
      /\ v.rxMax = x.rxMax /\ v.pong = x.pong /\ v.rxStreams = x.rxStreams /\ v.qre = x.qre
      /\ v.txBlocked = x.txBlocked
  BY <1>6 DEF IsConn, SameRest
<1>8. y = [v EXCEPT !.strm = F]
  BY <1>4 DEF w
<1> HIDE DEF v
<1>9. /\ SameRest(y, x) /\ y.live = L /\ y.strmq = Q /\ y.strm = F
      /\ y.rxMax = x.rxMax /\ y.pong = x.pong /\ y.rxStreams = x.rxStreams /\ y.qre = x.qre
      /\ y.txBlocked = x.txBlocked
  BY <1>7, <1>8 DEF IsConn, SameRest
<1> QED
  BY <1>2, <1>3, <1>9 DEF L, Q

\* RESET_STREAM, when the stream is closed.
LEMMA ResetCloses ==
  ASSUME NEW x, NEW b, NEW u, AtTurn(x, b, u, 0, 0), ClosesOnReset(x, u),
         NEW d, Clears(d, x, u, {"SEND_RESET_STREAM"}), NEW e, ClosedNow(e, d, u),
         NEW f \in ResetFrames(x, u)
  PROVE  AtTop(Added(e, f), b)
<1> DEFINE w == Added(x, f)
           y == Added(e, f)
<1>1. /\ WellFormed(x) /\ WellFormed(b) /\ SameRest(x, b) /\ u \in StreamIds
      /\ u \in b.strmq
  BY OnItsTurn
<1>2. Says(b, u, 0, f) /\ ClosesOnReset(b, u)
  BY TurnFrames DEF AtTurn
<1>3. AtTurn(w, b, u, 0, 1)
  BY <1>2, TurnWrites
<1>4. Moved(d, x, u) /\ d.strm[u] = [x.strm[u] EXCEPT !.flags = @ \ {"SEND_RESET_STREAM"}]
      /\ d.txBlocked = x.txBlocked
  BY ONLY <1>1, Clears(d, x, u, {"SEND_RESET_STREAM"}), MovedFlags
<1>5. /\ WellFormed(d) /\ SameRest(d, x) /\ d.live = x.live /\ d.strmq = x.strmq
      /\ d.rxMax = x.rxMax /\ d.pong = x.pong /\ d.rxStreams = x.rxStreams /\ d.qre = x.qre
      /\ d.txBlocked = x.txBlocked
      /\ \A s \in StreamIds : s # u => d.strm[s] = x.strm[s]
  BY <1>4 DEF Moved
<1>6. /\ WellFormed(e) /\ SameRest(e, d) /\ e.live = d.live \ {u} /\ e.strmq = d.strmq \ {u}
      /\ e.rxMax = d.rxMax /\ e.pong = d.pong /\ e.rxStreams = d.rxStreams /\ e.qre = d.qre
      /\ e.txBlocked = d.txBlocked /\ e.strm[u] = NewStrm(d.role, u)
      /\ \A s \in StreamIds : s # u => e.strm[s] = d.strm[s]
  BY <1>1, <1>5, ClosedFields
<1>7. /\ WellFormed(w) /\ SameRest(w, x)
      /\ w.live = x.live /\ w.strm = x.strm /\ w.strmq = x.strmq /\ w.rxMax = x.rxMax
      /\ w.pong = x.pong /\ w.txBlocked = x.txBlocked /\ w.rxStreams = x.rxStreams
      /\ w.qre.started = x.qre.started /\ w.qre.frames = Append(x.qre.frames, {f})
  BY <1>1, AddedFields
<1>8. /\ WellFormed(y) /\ SameRest(y, e)
      /\ y.live = e.live /\ y.strm = e.strm /\ y.strmq = e.strmq /\ y.rxMax = e.rxMax
      /\ y.pong = e.pong /\ y.txBlocked = e.txBlocked /\ y.rxStreams = e.rxStreams
      /\ y.qre.started = e.qre.started /\ y.qre.frames = Append(e.qre.frames, {f})
  BY <1>6, AddedFields
<1> HIDE DEF w, y
<1>9. SameRest(y, w) /\ d.role = b.role
  BY <1>1, <1>5, <1>6, <1>7, <1>8 DEF SameRest
<1>10. y.strm[u] = Finished(b, u)
  BY <1>2, <1>6, <1>8, <1>9 DEF Finished
<1>11. /\ y.strmq = w.strmq \ {u} /\ y.live = w.live \ {u}
       /\ y.rxMax = w.rxMax /\ y.pong = w.pong /\ y.rxStreams = w.rxStreams
       /\ y.txBlocked = w.txBlocked
       /\ \A s \in StreamIds : s # u => y.strm[s] = w.strm[s]
       /\ y.qre.started = w.qre.started /\ y.qre.frames = w.qre.frames
  BY <1>5, <1>6, <1>7, <1>8
<1>12. 1 \in 0..5
  OBVIOUS
<1>13. y.live = IF ClosesOnReset(b, u) THEN w.live \ {u} ELSE w.live
  BY <1>2, <1>11
<1>14. Left(y, w, b, u)
  BY <1>8, <1>9, <1>10, <1>11, <1>13 DEF Left
<1>15. AtTop(y, b)
  BY ONLY <1>2, <1>3, <1>12, <1>14, TurnEnds
<1> QED
  BY <1>15 DEF y

\* The stream_stop_sending callback, from which nothing is called.
LEMMA CallbackStep ==
  ASSUME NEW x, NEW b, NEW u, AtTurn(x, b, u, 1, 1)
  PROVE  AtTurn(x, b, u, 2, 1)
<1>1. WellFormed(x) /\ WellFormed(b) /\ u \in StreamIds /\ x.strm[u] = Turned(b, u, 1)
      /\ x.txBlocked = Blocked(x, b, u, 1)
  BY OnItsTurn
<1>2. x.strm[u] = Turned(b, u, 2) /\ x.txBlocked = Blocked(x, b, u, 2)
  BY <1>1, TurnedNext, BlockedStays
<1>3. Moved(x, x, u) /\ ~ClosesOnReset(b, u)
  BY <1>1, NotMoved DEF AtTurn
<1> QED
  BY <1>2, <1>3, TurnMoved

\* STOP_SENDING
LEMMA StopStep ==
  ASSUME NEW x, NEW b, NEW u, AtTurn(x, b, u, 2, 1)
  PROVE  /\ StopFrames(x, u) = {} => AtTurn(x, b, u, 3, 2)
         /\ \A f \in StopFrames(x, u) : AtTurn(Added(x, f), b, u, 3, 2)
         /\ StopFrames(x, u) # {} => AtEnd(x, b)
<1>1. WellFormed(x) /\ WellFormed(b) /\ u \in StreamIds /\ x.strm[u] = Turned(b, u, 2)
      /\ x.txBlocked = Blocked(x, b, u, 2)
  BY OnItsTurn
<1>2. x.strm[u] = Turned(b, u, 3) /\ x.txBlocked = Blocked(x, b, u, 3)
  BY <1>1, TurnedNext, BlockedStays
<1>3. Moved(x, x, u) /\ ~ClosesOnReset(b, u)
  BY <1>1, NotMoved DEF AtTurn
<1>4. AtTurn(x, b, u, 3, 1)
  BY <1>2, <1>3, TurnMoved
<1>5. \A f : f \in StopFrames(x, u) <=> Says(b, u, 1, f)
  BY <1>3, TurnFrames DEF AtTurn
<1>6. StopFrames(x, u) = {} => AtTurn(x, b, u, 3, 2)
  BY <1>4, <1>5, TurnSilent
<1>7. \A f \in StopFrames(x, u) : AtTurn(Added(x, f), b, u, 3, 2)
  BY <1>4, <1>5, TurnWrites
<1>8. StopFrames(x, u) # {} => AtEnd(x, b)
  BY <1>5, TurnNobuf
<1> QED
  BY <1>6, <1>7, <1>8

\* The flag of STOP_SENDING
LEMMA StopDoneStep ==
  ASSUME NEW x, NEW b, NEW u, AtTurn(x, b, u, 3, 2),
         NEW d, Clears(d, x, u, {"SEND_STOP_SENDING"})
  PROVE  AtTurn(d, b, u, 4, 2)
<1>1. WellFormed(x) /\ WellFormed(b) /\ u \in StreamIds /\ x.strm[u] = Turned(b, u, 3)
      /\ x.txBlocked = Blocked(x, b, u, 3)
  BY OnItsTurn
<1>2. Moved(d, x, u) /\ d.strm[u] = [x.strm[u] EXCEPT !.flags = @ \ {"SEND_STOP_SENDING"}]
      /\ d.txBlocked = x.txBlocked
  BY ONLY <1>1, Clears(d, x, u, {"SEND_STOP_SENDING"}), MovedFlags
<1>3. Turned(b, u, 4) = [x.strm[u] EXCEPT !.flags = @ \ {"SEND_STOP_SENDING"}]
  BY <1>1, TurnedNext
<1>4. d.txBlocked = Blocked(x, b, u, 4)
  BY <1>1, <1>2, BlockedStays
<1>5. ~ClosesOnReset(b, u)
  BY DEF AtTurn
<1> QED
  BY <1>2, <1>3, <1>4, <1>5, TurnMoved

\* MAX_STREAM_DATA
LEMMA CreditStep ==
  ASSUME NEW x, NEW b, NEW u, AtTurn(x, b, u, 4, 2),
         NEW d, SetsLimit(d, x, u, x.strm[u].rxUnsent)
  PROVE  /\ CreditFrames(x, u) = {} => AtTurn(x, b, u, 5, 3)
         /\ \A f \in CreditFrames(x, u) : AtTurn(Added(d, f), b, u, 5, 3)
         /\ CreditFrames(x, u) # {} => AtEnd(x, b)
<1>1. WellFormed(x) /\ WellFormed(b) /\ u \in StreamIds /\ x.strm[u] = Turned(b, u, 4)
      /\ x.strm[u].rxUnsent = b.strm[u].rxUnsent /\ x.txBlocked = Blocked(x, b, u, 4)
  BY OnItsTurn
<1>2. ~ClosesOnReset(b, u)
  BY DEF AtTurn
<1>3. /\ \A f : f \in CreditFrames(x, u) <=> Says(b, u, 2, f)
      /\ CreditFrames(x, u) # {} <=> NeedsCredit(b, u)
  <2>1. \A f : f \in CreditFrames(x, u) <=> Says(b, u, 2, f)
    BY <1>2, TurnFrames DEF AtTurn
  <2>2. CreditFrames(x, u) # {} <=> CreditFrames(b, u) # {}
    BY <1>2, <2>1 DEF Says, OnTurn
  <2> QED
    BY <2>1, <2>2 DEF CreditFrames
<1>4. x.txBlocked = Blocked(x, b, u, 5)
  BY <1>1, BlockedStays
<1>5. Turned(b, u, 5) = IF NeedsCredit(b, u) THEN [x.strm[u] EXCEPT !.rxMax = x.strm[u].rxUnsent]
                                             ELSE x.strm[u]
  <2>1. Turned(b, u, 5) = IF NeedsCredit(b, u)
                            THEN [Turned(b, u, 4) EXCEPT !.rxMax = b.strm[u].rxUnsent]
                            ELSE Turned(b, u, 4)
    BY <1>1, TurnedNext
  <2> QED
    BY ONLY <1>1, <2>1
<1>6. ASSUME CreditFrames(x, u) = {}
      PROVE  AtTurn(x, b, u, 5, 3)
  <2>1. Moved(x, x, u) /\ x.strm[u] = Turned(b, u, 5)
    BY <1>1, <1>3, <1>5, <1>6, NotMoved
  <2>2. AtTurn(x, b, u, 5, 2)
    BY <1>2, <1>4, <2>1, TurnMoved
  <2>3. \A f : ~Says(b, u, 2, f)
    BY <1>3, <1>6
  <2> QED
    BY <2>2, <2>3, TurnSilent
<1>7. ASSUME NEW f \in CreditFrames(x, u)
      PROVE  AtTurn(Added(d, f), b, u, 5, 3)
  <2>1. Moved(d, x, u) /\ d.strm[u] = [x.strm[u] EXCEPT !.rxMax = x.strm[u].rxUnsent]
        /\ d.txBlocked = x.txBlocked
    BY ONLY <1>1, SetsLimit(d, x, u, x.strm[u].rxUnsent), MovedLimit
  <2>2. Turned(b, u, 5) = [x.strm[u] EXCEPT !.rxMax = x.strm[u].rxUnsent]
    BY <1>3, <1>5
  <2>3. d.strm[u] = Turned(b, u, 5) /\ d.txBlocked = Blocked(x, b, u, 5)
    BY ONLY <1>4, <2>1, <2>2
  <2>4. AtTurn(d, b, u, 5, 2)
    BY <1>2, <2>1, <2>3, TurnMoved
  <2>5. Says(b, u, 2, f)
    BY <1>3
  <2> QED
    BY <2>4, <2>5, TurnWrites
<1>8. CreditFrames(x, u) # {} => AtEnd(x, b)
  BY <1>3, TurnNobuf
<1> QED
  BY <1>6, <1>7, <1>8

\* DATA_BLOCKED
LEMMA DataBlockedStep ==
  ASSUME NEW x, NEW b, NEW u, AtTurn(x, b, u, 5, 3),
         NEW d, SetsConnBlocked(d, x, x.txOff),
         NEW F, F = {f \in DataBlockedFrames(x, u) : u \in Reporting(x)}
  PROVE  /\ F = {} => AtTurn(x, b, u, 6, 4)
         /\ \A f \in F : AtTurn(Added(d, f), b, u, 6, 4)
         /\ F # {} => AtEnd(x, b)
<1>1. /\ WellFormed(x) /\ WellFormed(b) /\ SameRest(x, b) /\ u \in StreamIds
      /\ x.strm[u] = Turned(b, u, 5) /\ x.txBlocked = Blocked(x, b, u, 5)
  BY OnItsTurn
<1>2. ~ClosesOnReset(b, u)
  BY DEF AtTurn
<1>3. \A f : f \in F <=> Says(b, u, 3, f)
  <2>1. \A f : f \in DataBlockedFrames(x, u) /\ u \in Reporting(x) <=> Says(b, u, 3, f)
    BY <1>2, TurnFrames DEF AtTurn
  <2> QED
    BY <2>1
<1>4. x.strm[u] = Turned(b, u, 6)
  BY <1>1, TurnedNext
<1>5. \A f : Says(b, u, 3, f) <=> /\ f \in DataBlockedFrames(b, u) /\ u \in Reporting(b)
                                  /\ \A t \in Reporting(b) : u <= t
  BY <1>2 DEF Says, OnTurn
<1>6. ASSUME F = {}
      PROVE  AtTurn(x, b, u, 6, 4)
  <2>1. \A f : ~Says(b, u, 3, f)
    BY <1>3, <1>6
  <2>2. Blocked(x, b, u, 6) = Blocked(x, b, u, 5)
    <3>1. ASSUME AtLimit(b), u \in Reporting(b)
          PROVE  \E s \in Reporting(b) : s \in Over(b, x)
      <4>1. DataBlockedFr(u, b.txOff) \in DataBlockedFrames(b, u)
        BY <3>1 DEF DataBlockedFrames, AtLimit
      <4>2. PICK t \in Reporting(b) : ~(u <= t)
        BY <1>5, <2>1, <3>1, <4>1
      <4>3. t \in b.strmq
        BY ReporterStays
      <4>4. b.strmq \subseteq Nat /\ u \in b.strmq /\ \A s \in b.strmq : s \in Over(b, x) <=> s < u
        BY TurnsBefore DEF AtTurn
      <4> QED
        BY <4>2, <4>3, <4>4
    <3>2. (6 >= 6) /\ ~(5 >= 6)
      OBVIOUS
    <3> QED
      BY <3>1, <3>2 DEF Blocked
  <2>3. Moved(x, x, u)
    BY <1>1, NotMoved
  <2>4. AtTurn(x, b, u, 6, 3)
    BY <1>1, <1>2, <1>4, <2>2, <2>3, TurnMoved
  <2> QED
    BY <2>1, <2>4, TurnSilent
<1>7. ASSUME NEW f \in F
      PROVE  AtTurn(Added(d, f), b, u, 6, 4)
  <2>1. Says(b, u, 3, f)
    BY <1>3
  <2>2. AtLimit(b) /\ u \in Reporting(b)
    BY <1>5, <2>1 DEF DataBlockedFrames, AtLimit
  <2>3. Blocked(x, b, u, 6) = b.txOff
    BY <2>2 DEF Blocked
  <2>4. Moved(d, x, u) /\ d.strm[u] = x.strm[u] /\ d.txBlocked = x.txOff
    BY <1>1, MovedConn
  <2>5. d.strm[u] = Turned(b, u, 6) /\ d.txBlocked = Blocked(x, b, u, 6)
    BY <1>1, <1>4, <2>3, <2>4 DEF SameRest
  <2>6. AtTurn(d, b, u, 6, 3)
    BY <1>2, <2>4, <2>5, TurnMoved
  <2> QED
    BY <2>1, <2>6, TurnWrites
<1>8. F # {} => AtEnd(x, b)
  BY <1>3, TurnNobuf
<1> QED
  BY <1>6, <1>7, <1>8

\* STREAM_DATA_BLOCKED
LEMMA StreamDataBlockedStep ==
  ASSUME NEW x, NEW b, NEW u, AtTurn(x, b, u, 6, 4),
         NEW d, SetsBlocked(d, x, u, x.strm[u].txOff),
         NEW F, F = {f \in StreamDataBlockedFrames(x, u) : u \in Reporting(x)}
  PROVE  /\ F = {} => AtTurn(x, b, u, 7, 5)
         /\ \A f \in F : AtTurn(Added(d, f), b, u, 7, 5)
         /\ F # {} => AtEnd(x, b)
<1>1. WellFormed(x) /\ WellFormed(b) /\ u \in StreamIds /\ x.strm[u] = Turned(b, u, 6)
      /\ x.strm[u].txOff = b.strm[u].txOff /\ x.txBlocked = Blocked(x, b, u, 6)
  BY OnItsTurn
<1>2. ~ClosesOnReset(b, u)
  BY DEF AtTurn
<1>3. \A f : f \in F <=> Says(b, u, 4, f)
  <2>1. \A f : f \in StreamDataBlockedFrames(x, u) /\ u \in Reporting(x) <=> Says(b, u, 4, f)
    BY <1>2, TurnFrames DEF AtTurn
  <2> QED
    BY <2>1
<1>4. x.txBlocked = Blocked(x, b, u, 7)
  BY <1>1, BlockedStays
<1>5. F # {} <=> u \in Reporting(b) /\ StreamDataBlockedFrames(b, u) # {}
  BY <1>2, <1>3 DEF Says, OnTurn
<1>6. Turned(b, u, 7) = IF F # {} THEN [x.strm[u] EXCEPT !.txBlocked = x.strm[u].txOff]
                                  ELSE x.strm[u]
  <2>1. Turned(b, u, 7) = IF u \in Reporting(b) /\ StreamDataBlockedFrames(b, u) # {}
                            THEN [Turned(b, u, 6) EXCEPT !.txBlocked = b.strm[u].txOff]
                            ELSE Turned(b, u, 6)
    BY <1>1, TurnedNext
  <2> QED
    BY ONLY <1>1, <1>5, <2>1
<1>7. ASSUME F = {}
      PROVE  AtTurn(x, b, u, 7, 5)
  <2>1. Moved(x, x, u) /\ x.strm[u] = Turned(b, u, 7)
    BY <1>1, <1>6, <1>7, NotMoved
  <2>2. AtTurn(x, b, u, 7, 4)
    BY <1>2, <1>4, <2>1, TurnMoved
  <2>3. \A f : ~Says(b, u, 4, f)
    BY <1>3, <1>7
  <2> QED
    BY <2>2, <2>3, TurnSilent
<1>8. ASSUME NEW f \in F
      PROVE  AtTurn(Added(d, f), b, u, 7, 5)
  <2>1. Moved(d, x, u) /\ d.strm[u] = [x.strm[u] EXCEPT !.txBlocked = x.strm[u].txOff]
        /\ d.txBlocked = x.txBlocked
    BY ONLY <1>1, SetsBlocked(d, x, u, x.strm[u].txOff), MovedBlocked
  <2>2. Turned(b, u, 7) = [x.strm[u] EXCEPT !.txBlocked = x.strm[u].txOff]
    BY <1>6, <1>8
  <2>3. d.strm[u] = Turned(b, u, 7) /\ d.txBlocked = Blocked(x, b, u, 7)
    BY ONLY <1>4, <2>1, <2>2
  <2>4. AtTurn(d, b, u, 7, 4)
    BY <1>2, <2>1, <2>3, TurnMoved
  <2>5. Says(b, u, 4, f)
    BY <1>3
  <2> QED
    BY <2>4, <2>5, TurnWrites
<1>9. F # {} => AtEnd(x, b)
  BY <1>3, TurnNobuf
<1> QED
  BY <1>7, <1>8, <1>9

\* y is x without stream u in its queue.
Dequeued(y, x, u) == y = [x EXCEPT !.strmq = @ \ {u}]

\* dwnx_conn_tx_strmq_pop
LEMMA PopStep ==
  ASSUME NEW x, NEW b, NEW u, AtTurn(x, b, u, 7, 5),
         NEW d, Clears(d, x, u, {"SEND_STREAM_DATA_BLOCKED"}), NEW y, Dequeued(y, d, u)
  PROVE  AtTop(y, b)
<1>1. /\ WellFormed(x) /\ WellFormed(b) /\ u \in StreamIds /\ x.strm[u] = Turned(b, u, 7)
  BY OnItsTurn
<1>2. Moved(d, x, u) /\ d.strm[u] = [x.strm[u] EXCEPT !.flags = @ \ {"SEND_STREAM_DATA_BLOCKED"}]
      /\ d.txBlocked = x.txBlocked
  BY ONLY <1>1, Clears(d, x, u, {"SEND_STREAM_DATA_BLOCKED"}), MovedFlags
<1>3. ~ClosesOnReset(b, u)
  BY DEF AtTurn
<1>4. d.strm[u] = Finished(b, u)
  <2>1. Turned(b, u, 8) = [x.strm[u] EXCEPT !.flags = @ \ {"SEND_STREAM_DATA_BLOCKED"}]
    BY <1>1, TurnedNext
  <2>2. d.strm[u] = Turned(b, u, 8)
    BY ONLY <1>2, <2>1
  <2> QED
    BY <1>3, <2>2 DEF Finished
<1> DEFINE Q == d.strmq \ {u}
<1>5. y = [d EXCEPT !.strmq = Q] /\ WellFormed(d)
  BY <1>2 DEF Dequeued, Moved
<1>6. Q \subseteq StreamIds
  BY <1>5 DEF WellFormed
<1> HIDE DEF Q
<1>7. WellFormed(y)
  BY <1>5, <1>6, SetShape
<1>8. /\ SameRest(y, d) /\ y.live = d.live /\ y.strmq = Q /\ y.strm = d.strm
      /\ y.rxMax = d.rxMax /\ y.pong = d.pong /\ y.rxStreams = d.rxStreams /\ y.qre = d.qre
      /\ y.txBlocked = d.txBlocked
  BY <1>5 DEF WellFormed, IsConn, SameRest
<1>9. Left(y, x, b, u)
  BY <1>2, <1>3, <1>4, <1>7, <1>8 DEF Left, Moved, SameRest, Q
<1>10. 5 \in 0..5 /\ 7 >= 6
  OBVIOUS
<1> QED
  BY <1>3, <1>9, <1>10, TurnEnds

-----------------------------------------------------------------------------
(* Before and after the queue                                              *)

\* Between x and y a limit that is written outside the queue was recorded.
Recorded(y, x) ==
  /\ WellFormed(y) /\ SameRest(y, x) /\ y.live = x.live /\ y.strmq = x.strmq
  /\ y.strm = x.strm /\ y.txBlocked = x.txBlocked /\ y.qre = x.qre

\* The queue is as it was.
LEMMA RecordedStays ==
  ASSUME NEW x, NEW y, Recorded(y, x), NEW b, NEW u, NEW n, NEW W
  PROVE  /\ Midway(x, b, u, n) => Midway(y, b, u, n)
         /\ InOrder(x, b, W) => InOrder(y, b, W)
         /\ Over(b, y) = Over(b, x)
<1>1. Over(b, y) = Over(b, x)
  BY DEF Over, Recorded
<1>2. SameRest(x, b) => SameRest(y, b)
  BY DEF Recorded, SameRest
<1>3. Midway(x, b, u, n) => Midway(y, b, u, n)
  BY <1>1, <1>2 DEF Midway, Recorded
<1>4. InOrder(x, b, W) => InOrder(y, b, W)
  BY DEF InOrder, Said, Recorded
<1> QED
  BY <1>1, <1>3, <1>4

\* The limit of the connection is recorded.
SetsMaxData(y, x) == y = [x EXCEPT !.rxMax = x.rxUnsent]

\* Recording the limit of the connection changes nothing else.
LEMMA RecordsMaxData ==
  ASSUME NEW x, WellFormed(x), NEW y, SetsMaxData(y, x)
  PROVE  Recorded(y, x) /\ y.rxMax = x.rxUnsent /\ y.pong = x.pong /\ y.rxStreams = x.rxStreams
<1> DEFINE v == x.rxUnsent
<1>1. IsConn(x) /\ y = [x EXCEPT !.rxMax = v]
  BY DEF WellFormed, SetsMaxData
<1> HIDE DEF v
<1>2. IsConn(y)
  BY <1>1, FieldWritten
<1>3. /\ SameRest(y, x) /\ y.live = x.live /\ y.strmq = x.strmq /\ y.strm = x.strm
      /\ y.txBlocked = x.txBlocked /\ y.qre = x.qre
      /\ y.rxMax = v /\ y.pong = x.pong /\ y.rxStreams = x.rxStreams
  BY <1>1 DEF IsConn, SameRest
<1>4. WellFormed(y)
  BY <1>2, <1>3 DEF WellFormed
<1> QED
  BY <1>3, <1>4 DEF Recorded, v

\* The sequence number of the answer is recorded.
SetsPong(y, x) == y = [x EXCEPT !.pong = x.ping]

\* Recording the answer to a ping changes nothing else.
LEMMA RecordsPong ==
  ASSUME NEW x, WellFormed(x), NEW y, SetsPong(y, x)
  PROVE  Recorded(y, x) /\ y.pong = x.ping /\ y.rxMax = x.rxMax /\ y.rxStreams = x.rxStreams
<1> DEFINE v == x.ping
<1>1. IsConn(x) /\ y = [x EXCEPT !.pong = v]
  BY DEF WellFormed, SetsPong
<1> HIDE DEF v
<1>2. IsConn(y)
  BY <1>1, FieldWritten
<1>3. /\ SameRest(y, x) /\ y.live = x.live /\ y.strmq = x.strmq /\ y.strm = x.strm
      /\ y.txBlocked = x.txBlocked /\ y.qre = x.qre
      /\ y.pong = v /\ y.rxMax = x.rxMax /\ y.rxStreams = x.rxStreams
  BY <1>1 DEF IsConn, SameRest
<1>4. WellFormed(y)
  BY <1>2, <1>3 DEF WellFormed
<1> QED
  BY <1>3, <1>4 DEF Recorded, v

\* The number of streams is recorded.
SetsMaxStreams(y, x, d) == y = [x EXCEPT !.rxStreams[d] = x.rxUnsentStreams[d]]

\* Recording the number of streams of one direction changes nothing else.
LEMMA RecordsMaxStreams ==
  ASSUME NEW x, WellFormed(x), NEW d \in Direction, NEW y, SetsMaxStreams(y, x, d)
  PROVE  /\ Recorded(y, x) /\ y.rxMax = x.rxMax /\ y.pong = x.pong
         /\ \A e \in Direction : y.rxStreams[e] = IF e = d THEN x.rxUnsentStreams[d]
                                                           ELSE x.rxStreams[e]
<1> DEFINE v == x.rxUnsentStreams[d]
           F == [x.rxStreams EXCEPT ![d] = v]
<1>1. IsConn(x) /\ x.rxStreams = [e \in Direction |-> x.rxStreams[e]]
  BY DEF WellFormed
<1>2. y = [x EXCEPT !.rxStreams = F]
  BY DEF SetsMaxStreams
<1>3. /\ F = [e \in Direction |-> F[e]]
      /\ \A e \in Direction : F[e] = IF e = d THEN v ELSE x.rxStreams[e]
  BY <1>1
<1> HIDE DEF v, F
<1>4. IsConn(y)
  BY <1>1, <1>2, FieldWritten
<1>5. /\ SameRest(y, x) /\ y.live = x.live /\ y.strmq = x.strmq /\ y.strm = x.strm
      /\ y.txBlocked = x.txBlocked /\ y.qre = x.qre
      /\ y.pong = x.pong /\ y.rxMax = x.rxMax /\ y.rxStreams = F
  BY <1>1, <1>2 DEF IsConn, SameRest
<1>6. WellFormed(y)
  BY <1>3, <1>4, <1>5 DEF WellFormed
<1> QED
  BY <1>3, <1>5, <1>6 DEF Recorded, v

\* The frames of W were written, and no turn is on.
AtPlace(x, b, W) == Midway(x, b, 0, 0) /\ Limits(x, b, W) /\ InOrder(x, b, W)

\* One frame more, whose value is recorded.
LEMMA PlaceWrites ==
  ASSUME NEW x, NEW b, NEW W, AtPlace(x, b, W), NEW d, Recorded(d, x),
         NEW f \in CtrlFrames(b), W = {g \in CtrlFrames(b) : Before(g, f)},
         Limits(d, b, W \cup {f})
  PROVE  /\ AtPlace(Added(d, f), b, W \cup {f}) /\ Added(d, f).strmq = x.strmq
<1>1. Midway(d, b, 0, 0) /\ InOrder(d, b, W)
  BY RecordedStays DEF AtPlace
<1>2. WellFormed(d) /\ d.strmq = x.strmq
  BY DEF Recorded
<1>3. InOrder(Added(d, f), b, W \cup {f})
  BY <1>1, <1>2, AddedInOrder
<1>4. Midway(Added(d, f), b, 0, 0) /\ Limits(Added(d, f), b, W \cup {f})
  BY <1>1, AddedMidway
<1>5. Added(d, f).strmq = x.strmq
  BY <1>2, AddedFields
<1> QED
  BY <1>3, <1>4, <1>5 DEF AtPlace

\* Nothing of the frames that came before f is left out.
LEMMA PlaceEnds ==
  ASSUME NEW x, NEW b, NEW W, AtPlace(x, b, W), Step(x, b, W),
         \/ \E f \in CtrlFrames(b) : W = {g \in CtrlFrames(b) : Before(g, f)}
         \/ W = CtrlFrames(b)
  PROVE  AtEnd(x, b)
<1>1. Said(x) = W /\ WellFormed(x) /\ WellFormed(b) /\ InOrder(x, b, W)
  BY DEF AtPlace, InOrder, Midway
<1>2. W \in FrontsOf(CtrlFrames(b))
  BY DEF FrontsOf
<1> QED
  BY <1>1, <1>2 DEF AtEnd

\* The frames written outside the queue are told apart by their types.
LEMMA HeadTails ==
  ASSUME NEW b
  PROVE  /\ \A f \in MaxDataFrames(b) : f.t = "MAX_DATA"
         /\ \A f \in PongFrames(b) : f.t = "QX_PING_RESPONSE"
         /\ \A d, v : MaxStreamsFr(d, v).t = "MAX_STREAMS" /\ MaxStreamsFr(d, v).dir = d
         /\ MaxDataFrames(b) \subseteq CtrlFrames(b) /\ PongFrames(b) \subseteq CtrlFrames(b)
         /\ MaxStreamsFrames(b) \subseteq CtrlFrames(b)
<1>1. /\ \A f \in MaxDataFrames(b) : f.t = "MAX_DATA"
      /\ \A f \in PongFrames(b) : f.t = "QX_PING_RESPONSE"
  BY OtherPlaces
<1>2. \A d, v : MaxStreamsFr(d, v).t = "MAX_STREAMS" /\ MaxStreamsFr(d, v).dir = d
  BY DEF MaxStreamsFr
<1> QED
  BY <1>1, <1>2 DEF CtrlFrames, HeadFrames

\* y is x when a record was started.
Started(y, x) == y = [x EXCEPT !.qre = [started |-> TRUE, frames |-> << >>]]

\* The function begins.
LEMMA LoopBegins ==
  ASSUME NEW b, WellFormed(b), NEW x, Started(x, b)
  PROVE  AtPlace(x, b, {}) /\ x.strmq = b.strmq
<1> DEFINE q == [started |-> TRUE, frames |-> << >>]
<1>1. PICK t : t = TRUE
  OBVIOUS
<1>2. q.started = TRUE /\ q.frames = << >> /\ q = [started |-> q.started, frames |-> q.frames]
  <2>1. ASSUME NEW r, r = [started |-> t, frames |-> << >>]
        PROVE  r.started = t /\ r.frames = << >> /\ r = [started |-> r.started, frames |-> r.frames]
    BY <2>1
  <2>2. q = [started |-> t, frames |-> << >>]
    BY <1>1
  <2> HIDE DEF q
  <2>3. q.started = t /\ q.frames = << >> /\ q = [started |-> q.started, frames |-> q.frames]
    BY <2>1, <2>2
  <2> QED
    BY <1>1, <2>3
<1>3. IsConn(b) /\ x = [b EXCEPT !.qre = q]
  BY DEF WellFormed, Started
<1> HIDE DEF q
<1>4. IsConn(x)
  BY <1>3, FieldWritten
<1>5. /\ SameRest(x, b) /\ x.live = b.live /\ x.strmq = b.strmq /\ x.strm = b.strm
      /\ x.txBlocked = b.txBlocked /\ x.qre = q
      /\ x.pong = b.pong /\ x.rxMax = b.rxMax /\ x.rxStreams = b.rxStreams
  BY <1>3 DEF IsConn, SameRest
<1>6. WellFormed(x)
  BY <1>2, <1>4, <1>5 DEF WellFormed
<1>7. Over(b, x) = {}
  BY <1>5 DEF Over
<1>8. \A s \in StreamIds : Turned(b, s, 0) = b.strm[s]
  BY TurnedNext
<1>9. ~(0 >= 6)
  OBVIOUS
<1>10. x.qre.started = TRUE /\ x.qre.frames = << >>
  BY <1>2, <1>5
<1>11. Midway(x, b, 0, 0)
  BY <1>5, <1>6, <1>7, <1>8, <1>9, <1>10 DEF Midway
<1>12. Limits(x, b, {})
  BY <1>5 DEF Limits
<1>13. InOrder(x, b, {})
  <2>1. DOMAIN x.qre.frames = {}
    BY <1>10
  <2> QED
    BY <1>10, <2>1 DEF InOrder, Said
<1> QED
  BY <1>5, <1>11, <1>12, <1>13 DEF AtPlace

\* MAX_DATA
LEMMA MaxDataStep ==
  ASSUME NEW x, NEW b, AtPlace(x, b, {}), x.strmq = b.strmq, NEW d, SetsMaxData(d, x)
  PROVE  /\ MaxDataFrames(x) = {} => AtPlace(x, b, MaxDataFrames(b))
         /\ \A f \in MaxDataFrames(x) : /\ AtPlace(Added(d, f), b, MaxDataFrames(b))
                                        /\ Added(d, f).strmq = b.strmq
         /\ MaxDataFrames(x) # {} => AtEnd(x, b)
<1>1. WellFormed(x) /\ WellFormed(b) /\ SameRest(x, b)
      /\ x.rxMax = b.rxMax /\ x.pong = b.pong
      /\ \A e \in Direction : x.rxStreams[e] = b.rxStreams[e]
  BY DEF AtPlace, Midway, Limits
<1>2. MaxDataFrames(x) = MaxDataFrames(b)
  BY <1>1 DEF MaxDataFrames, ShouldSendMaxData, SameRest
<1>3. Recorded(d, x) /\ d.rxMax = b.rxUnsent /\ d.pong = b.pong /\ d.rxStreams = x.rxStreams
  BY <1>1, RecordsMaxData DEF SameRest
<1>4. \A f \in MaxDataFrames(b) : {g \in CtrlFrames(b) : Before(g, f)} = {}
  BY <1>1, BeforeInHead
<1>5. ASSUME NEW f \in MaxDataFrames(b)
      PROVE  MaxDataFrames(b) = {f}
  BY DEF MaxDataFrames
<1>6. ASSUME NEW f \in MaxDataFrames(b)
      PROVE  /\ AtPlace(Added(d, f), b, MaxDataFrames(b)) /\ Added(d, f).strmq = b.strmq
  <2>1. f \in CtrlFrames(b) /\ {} \cup {f} = MaxDataFrames(b) /\ f.t = "MAX_DATA"
    BY <1>5, HeadTails
  <2>2. Limits(d, b, {f})
    <3>1. PongFrames(b) \cap {f} = {} /\ \A e, v : MaxStreamsFr(e, v) \notin {f}
      BY <2>1, HeadTails
    <3> QED
      BY <1>1, <1>3, <2>1, <3>1 DEF Limits
  <2>3. {} = {g \in CtrlFrames(b) : Before(g, f)}
    BY <1>4
  <2>4. {} \cup {f} = {f}
    OBVIOUS
  <2>5. AtPlace(Added(d, f), b, {} \cup {f}) /\ Added(d, f).strmq = x.strmq
    BY <1>3, <2>1, <2>2, <2>3, <2>4, PlaceWrites
  <2> QED
    BY <2>1, <2>5
<1>7. ASSUME NEW f \in MaxDataFrames(b)
      PROVE  AtEnd(x, b)
  <2>1. MaxDataFrames(b) \subseteq HeadFrames(b) /\ {} # HeadFrames(b) /\ {} \subseteq HeadFrames(b)
    BY DEF HeadFrames
  <2>2. Midway(x, b, 0, 0) /\ Limits(x, b, {})
    BY DEF AtPlace
  <2>3. Step(x, b, {})
    BY <2>1, <2>2, StepInHead
  <2>4. f \in CtrlFrames(b) /\ {} = {g \in CtrlFrames(b) : Before(g, f)}
    BY <1>4, HeadTails
  <2> QED
    BY <2>3, <2>4, PlaceEnds
<1>8. MaxDataFrames(x) = {} => AtPlace(x, b, MaxDataFrames(b))
  BY <1>2
<1> QED
  BY <1>2, <1>6, <1>7, <1>8

\* QX_PING_RESPONSE
LEMMA PongStep ==
  ASSUME NEW x, NEW b, AtPlace(x, b, MaxDataFrames(b)), x.strmq = b.strmq,
         NEW d, SetsPong(d, x)
  PROVE  /\ PongFrames(x) = {} => AtTop(x, b)
         /\ \A f \in PongFrames(x) : AtTop(Added(d, f), b)
         /\ PongFrames(x) # {} => AtEnd(x, b)
<1> DEFINE W == MaxDataFrames(b)
<1>1. WellFormed(x) /\ WellFormed(b) /\ SameRest(x, b) /\ Midway(x, b, 0, 0)
  BY DEF AtPlace, Midway
<1>2. /\ Limits(x, b, W) /\ \A f \in W : f.t = "MAX_DATA"
      /\ PongFrames(b) \cap W = {} /\ \A e, v : MaxStreamsFr(e, v) \notin W
  BY HeadTails DEF AtPlace
<1>3. x.pong = b.pong
  BY <1>2 DEF Limits
<1>4. PongFrames(x) = PongFrames(b)
  BY <1>1, <1>3 DEF PongFrames, SameRest
<1>5. Recorded(d, x) /\ d.pong = b.ping /\ d.rxMax = x.rxMax /\ d.rxStreams = x.rxStreams
  BY <1>1, RecordsPong DEF SameRest
<1>6. \A f \in PongFrames(b) : {g \in CtrlFrames(b) : Before(g, f)} = W
  BY <1>1, BeforeInHead
<1>7. ASSUME NEW f \in PongFrames(b)
      PROVE  PongFrames(b) = {f}
  BY DEF PongFrames
<1>8. ASSUME NEW y, AtPlace(y, b, HeadFrames(b)), y.strmq = b.strmq
      PROVE  AtTop(y, b)
  <2>1. Over(b, y) = {}
    BY <1>8 DEF Over
  <2>2. SaidUpTo(b, Over(b, y), 0, 0) = HeadFrames(b)
    BY <1>1, <2>1, UpToEnds
  <2> QED
    BY <1>8, <2>2 DEF AtTop, AtPlace
<1>9. ASSUME PongFrames(b) = {}
      PROVE  AtTop(x, b)
  <2>1. HeadFrames(b) = W
    BY <1>9 DEF HeadFrames
  <2> QED
    BY <1>8, <2>1
<1>10. ASSUME NEW f \in PongFrames(b)
       PROVE  AtTop(Added(d, f), b)
  <2>1. f \in CtrlFrames(b) /\ W \cup {f} = HeadFrames(b) /\ f.t = "QX_PING_RESPONSE"
    BY <1>7, HeadTails DEF HeadFrames
  <2>2. Limits(d, b, W \cup {f})
    <3>1. /\ PongFrames(b) \cap (W \cup {f}) # {}
          /\ MaxDataFrames(b) \cap (W \cup {f}) = MaxDataFrames(b) \cap W
          /\ \A e, v : MaxStreamsFr(e, v) \in W \cup {f} <=> MaxStreamsFr(e, v) \in W
      BY <2>1, HeadTails
    <3> HIDE DEF W
    <3> QED
      BY <1>2, <1>5, <3>1 DEF Limits
  <2>3. W = {g \in CtrlFrames(b) : Before(g, f)}
    BY <1>6
  <2> HIDE DEF W
  <2>4. AtPlace(x, b, W)
    BY DEF W
  <2>5. AtPlace(Added(d, f), b, W \cup {f}) /\ Added(d, f).strmq = x.strmq
    BY <1>5, <2>1, <2>2, <2>3, <2>4, PlaceWrites
  <2> QED
    BY <1>8, <2>1, <2>5
<1>11. ASSUME NEW f \in PongFrames(b)
       PROVE  AtEnd(x, b)
  <2>1. W \subseteq HeadFrames(b) /\ W # HeadFrames(b)
    <3>1. f \in HeadFrames(b) /\ f \notin W
      BY <1>2 DEF HeadFrames
    <3> QED
      BY <3>1 DEF HeadFrames
  <2>2. Step(x, b, W)
    BY <1>1, <1>2, <2>1, StepInHead
  <2>3. f \in CtrlFrames(b) /\ W = {g \in CtrlFrames(b) : Before(g, f)}
    BY <1>6, HeadTails
  <2> QED
    BY <2>2, <2>3, PlaceEnds
<1> QED
  BY <1>4, <1>9, <1>10, <1>11

\* What is written when the queue is empty and the directions D had their turn.
TailCut(b, D) ==
  HeadFrames(b) \cup QueueFrames(b) \cup {f \in MaxStreamsFrames(b) : f.dir \in D}

\* The last stream has left the queue.
LEMMA QueueDone ==
  ASSUME NEW x, NEW b, AtTop(x, b), x.strmq = {}
  PROVE  AtPlace(x, b, TailCut(b, {}))
<1>1. WellFormed(b) /\ Over(b, x) = b.strmq
  BY DEF AtTop, Midway, Over
<1>2. SaidUpTo(b, Over(b, x), 0, 0) = TailCut(b, {})
  BY <1>1, UpToEnds DEF TailCut
<1> QED
  BY <1>2 DEF AtTop, AtPlace

\* The directions have their turns in this order.
DirTurn(d, D) ==
  /\ d \in Direction
  /\ \/ d = "bidi" /\ D = {}
     \/ d = "uni" /\ D = {"bidi"}

\* What a direction says on its turn.
DirFrames(x, d) == {f \in MaxStreamsFrames(x) : f.dir = d}

\* MAX_STREAMS of one direction
LEMMA MaxStreamsStep ==
  ASSUME NEW x, NEW b, NEW D, AtPlace(x, b, TailCut(b, D)), x.strmq = {},
         NEW d, DirTurn(d, D),
         NEW z, SetsMaxStreams(z, x, d),
         NEW F, F = DirFrames(x, d)
  PROVE  /\ F = {} => AtPlace(x, b, TailCut(b, D \cup {d}))
         /\ \A f \in F : /\ AtPlace(Added(z, f), b, TailCut(b, D \cup {d}))
                         /\ Added(z, f).strmq = {}
         /\ F # {} => AtEnd(x, b)
<1> DEFINE W == TailCut(b, D)
           M == {f \in MaxStreamsFrames(b) : f.dir \in D}
           w == MaxStreamsFr(d, b.rxUnsentStreams[d])
<1>1. /\ WellFormed(x) /\ WellFormed(b) /\ SameRest(x, b) /\ Midway(x, b, 0, 0)
      /\ Limits(x, b, W)
  BY DEF AtPlace, Midway
<1>0. /\ d \in Direction
      /\ \/ d = "bidi" /\ D = {}
         \/ d = "uni" /\ D = {"bidi"}
  BY DEF DirTurn
<1>2. w.t = "MAX_STREAMS" /\ w.dir = d /\ \A e, v : MaxStreamsFr(e, v).dir = e
  BY HeadTails
<1>3. w \notin HeadFrames(b) /\ w \notin QueueFrames(b) /\ w \notin M
  <2>1. w \notin HeadFrames(b)
    BY <1>2, HeadTails DEF HeadFrames
  <2>2. w \notin QueueFrames(b)
    <3> SUFFICES ASSUME NEW s \in b.strmq, w \in StreamFrames(b, s)
                 PROVE  FALSE
      BY DEF QueueFrames
    <3>1. s \in StreamIds
      BY <1>1 DEF WellFormed
    <3>2. PICK k \in 0..4 : Place(w) = <<1, s, k>>
      BY <3>1, StreamFrameKinds
    <3>3. Place(w) = <<2, IF d = "bidi" THEN 0 ELSE 1, 0>>
      BY <1>2 DEF Place
    <3> QED
      BY <3>2, <3>3
  <2>3. w \notin M
    BY <1>0, <1>2
  <2> QED
    BY <2>1, <2>2, <2>3
<1>4. w \notin W
  BY <1>3 DEF TailCut
<1>5. x.rxStreams[d] = b.rxStreams[d] /\ x.rxUnsentStreams = b.rxUnsentStreams
  BY <1>0, <1>1, <1>4 DEF Limits, SameRest
<1>6. F = {f \in MaxStreamsFrames(b) : f.dir = d}
      /\ F = {f \in {w} : b.rxUnsentStreams[d] > b.rxStreams[d]}
  <2> DEFINE G(y) == {f \in MaxStreamsFrames(y) : f.dir = d}
  <2>1. ASSUME NEW y
        PROVE  G(y) = {f \in {MaxStreamsFr(d, y.rxUnsentStreams[d])} :
                         y.rxUnsentStreams[d] > y.rxStreams[d]}
    BY <1>0, <1>2 DEF MaxStreamsFrames
  <2> HIDE DEF w
  <2>2. G(b) = {f \in {w} : b.rxUnsentStreams[d] > b.rxStreams[d]} /\ G(x) = G(b)
    BY <1>5, <2>1 DEF w
  <2> QED
    BY <2>2 DEF DirFrames
<1>7. /\ Recorded(z, x) /\ z.rxMax = x.rxMax /\ z.pong = x.pong
      /\ \A e \in Direction : z.rxStreams[e] = IF e = d THEN b.rxUnsentStreams[d] ELSE x.rxStreams[e]
  BY <1>0, <1>1, <1>5, RecordsMaxStreams
<1>8. TailCut(b, D \cup {d}) = W \cup F
  BY <1>6 DEF TailCut
<1>9. ASSUME F = {}
      PROVE  AtPlace(x, b, TailCut(b, D \cup {d}))
  BY <1>8, <1>9
<1>10. ASSUME NEW f \in F
       PROVE  /\ f = w /\ F = {f} /\ f \in CtrlFrames(b)
              /\ W = {g \in CtrlFrames(b) : Before(g, f)}
  <2>1. f = w /\ F = {f} /\ f \in MaxStreamsFrames(b) /\ f.dir = d
    BY <1>2, <1>6
  <2>2. {g \in CtrlFrames(b) : Before(g, f)}
           = HeadFrames(b) \cup QueueFrames(b)
             \cup {g \in MaxStreamsFrames(b) : f.dir = "uni" /\ g.dir = "bidi"}
    BY <1>1, <2>1, BeforeInTail
  <2> QED
    BY <1>0, <2>1, <2>2 DEF TailCut, CtrlFrames
<1>11. ASSUME NEW f \in F
       PROVE  AtPlace(Added(z, f), b, TailCut(b, D \cup {d})) /\ Added(z, f).strmq = {}
  <2>1. f = w /\ F = {f} /\ f \in CtrlFrames(b) /\ W = {g \in CtrlFrames(b) : Before(g, f)}
    BY <1>10
  <2>2. Limits(z, b, W \cup {f})
    <3>1. /\ PongFrames(b) \cap (W \cup {f}) = PongFrames(b) \cap W
          /\ MaxDataFrames(b) \cap (W \cup {f}) = MaxDataFrames(b) \cap W
          /\ w \in W \cup {f}
          /\ \A e, v : e # d => (MaxStreamsFr(e, v) \in W \cup {f} <=> MaxStreamsFr(e, v) \in W)
      BY <1>2, <2>1, HeadTails
    <3> HIDE DEF W
    <3>2. \A e \in Direction : z.rxStreams[e]
             = IF MaxStreamsFr(e, b.rxUnsentStreams[e]) \in W \cup {f}
                 THEN b.rxUnsentStreams[e] ELSE b.rxStreams[e]
      <4> SUFFICES ASSUME NEW e \in Direction
                   PROVE  z.rxStreams[e] = IF MaxStreamsFr(e, b.rxUnsentStreams[e]) \in W \cup {f}
                                             THEN b.rxUnsentStreams[e] ELSE b.rxStreams[e]
        OBVIOUS
      <4>1. CASE e = d
        BY <1>7, <3>1, <4>1
      <4>2. CASE e # d
        BY <1>1, <1>7, <3>1, <4>2 DEF Limits
      <4> QED
        BY <4>1, <4>2
    <3> QED
      BY <1>1, <1>7, <3>1, <3>2 DEF Limits
  <2> HIDE DEF W
  <2>3. AtPlace(x, b, W)
    BY DEF W
  <2>4. AtPlace(Added(z, f), b, W \cup {f}) /\ Added(z, f).strmq = x.strmq
    BY <1>7, <2>1, <2>2, <2>3, PlaceWrites
  <2>5. W \cup {f} = TailCut(b, D \cup {d})
    BY <1>8, <2>1
  <2> QED
    BY <2>4, <2>5
<1>12. ASSUME NEW f \in F
       PROVE  AtEnd(x, b)
  <2>1. f \in CtrlFrames(b) /\ W = {g \in CtrlFrames(b) : Before(g, f)}
    BY <1>10
  <2>2. M \subseteq MaxStreamsFrames(b) /\ W = HeadFrames(b) \cup QueueFrames(b) \cup M
    BY DEF TailCut
  <2>3. Step(x, b, HeadFrames(b) \cup QueueFrames(b) \cup M)
    <3> HIDE DEF M, W
    <3> QED
      BY <1>1, <2>2, StepInTail
  <2> HIDE DEF W, M
  <2>4. Step(x, b, W) /\ AtPlace(x, b, W)
    BY <2>2, <2>3 DEF W
  <2> QED
    BY <2>1, <2>4, PlaceEnds
<1> QED
  BY <1>9, <1>11, <1>12

\* The function returns, having written everything.
LEMMA LoopEnds ==
  ASSUME NEW x, NEW b, AtPlace(x, b, TailCut(b, {"bidi"} \cup {"uni"})), x.strmq = {}
  PROVE  AtEnd(x, b) /\ Said(x) = CtrlFrames(b)
<1> DEFINE M == MaxStreamsFrames(b)
<1>1. TailCut(b, {"bidi"} \cup {"uni"}) = CtrlFrames(b)
  <2>1. \A f \in MaxStreamsFrames(b) : f.dir \in {"bidi"} \cup {"uni"}
    BY OtherPlaces DEF Direction
  <2> QED
    BY <2>1 DEF TailCut, CtrlFrames
<1>2. /\ Midway(x, b, 0, 0) /\ Limits(x, b, CtrlFrames(b)) /\ AtPlace(x, b, CtrlFrames(b))
  BY <1>1 DEF AtPlace
<1>3. CtrlFrames(b) = HeadFrames(b) \cup QueueFrames(b) \cup M
  BY DEF CtrlFrames
<1>4. Step(x, b, CtrlFrames(b))
  BY <1>2, <1>3, StepInTail
<1>5. AtEnd(x, b)
  BY <1>2, <1>4, PlaceEnds
<1>6. Said(x) = CtrlFrames(b)
  BY <1>2 DEF AtPlace, InOrder
<1> QED
  BY <1>5, <1>6

-----------------------------------------------------------------------------
(* The loop                                                                *)

\* What is true of the connection at each statement.
LoopInv ==
  /\ WellFormed(start)
  /\ pc \in {"idle", "max_data", "pong", "top", "reset", "stop", "stop_frame", "stop_done",
             "credit", "data_blocked", "stream_data_blocked", "pop", "bidi", "uni", "done",
             "nobuf"}
  /\ pc = "idle" => WellFormed(c)
  /\ pc = "max_data" => AtPlace(c, start, {}) /\ c.strmq = start.strmq
  /\ pc = "pong" => AtPlace(c, start, MaxDataFrames(start)) /\ c.strmq = start.strmq
  /\ pc = "top" => AtTop(c, start)
  /\ pc = "reset" => AtTurn(c, start, cur, 0, 0)
  /\ pc = "stop" => AtTurn(c, start, cur, 1, 1)
  /\ pc = "stop_frame" => AtTurn(c, start, cur, 2, 1)
  /\ pc = "stop_done" => AtTurn(c, start, cur, 3, 2)
  /\ pc = "credit" => AtTurn(c, start, cur, 4, 2)
  /\ pc = "data_blocked" => AtTurn(c, start, cur, 5, 3)
  /\ pc = "stream_data_blocked" => AtTurn(c, start, cur, 6, 4)
  /\ pc = "pop" => AtTurn(c, start, cur, 7, 5)
  /\ pc = "bidi" => AtPlace(c, start, TailCut(start, {})) /\ c.strmq = {}
  /\ pc = "uni" => AtPlace(c, start, TailCut(start, {} \cup {"bidi"})) /\ c.strmq = {}
  /\ pc = "done" => AtEnd(c, start) /\ Said(c) = CtrlFrames(start)
  /\ pc = "nobuf" => AtEnd(c, start)

\* Before the first record there is nothing.
LEMMA LoopStarts == LoopInit => LoopInv
BY NewConnShape DEF LoopInit, LoopInv

\* Between records the connection keeps its shape.
LEMMA LoopPrepare ==
  ASSUME PeerFrames \subseteq PeerFrame, LoopInv, Prepare
  PROVE  LoopInv'
<1>1. pc = "idle" /\ pc' = pc /\ start' = start
  BY DEF Prepare
<1>2. WellFormed(c')
  BY <1>1, PrepareShape DEF LoopInv
<1> QED
  BY <1>1, <1>2 DEF LoopInv

\* The function is called.
LEMMA LoopStart ==
  ASSUME LoopInv, StartRecord
  PROVE  LoopInv'
<1>1. WellFormed(c) /\ start' = c /\ pc' = "max_data"
  BY DEF StartRecord, LoopInv
<1>2. Started(c', c)
  BY DEF StartRecord, Started
<1>3. AtPlace(c', c, {}) /\ c'.strmq = c.strmq
  BY <1>1, <1>2, LoopBegins
<1> QED
  BY <1>1, <1>3 DEF LoopInv

\* The three outcomes of a statement that may encode a frame.
LEMMA EncodeOutcomes ==
  ASSUME NEW here, NEW F, NEW d, NEW there, EncodeIfFits(here, F, d, there)
  PROVE  /\ pc = here /\ start' = start /\ cur' = cur
         /\ \/ F = {} /\ c' = c /\ pc' = there
            \/ \E f \in F : c' = Added(d, f) /\ pc' = there
            \/ F # {} /\ c' = c /\ pc' = "nobuf"
BY Zenon DEF EncodeIfFits, Added

\* MAX_DATA
LEMMA LoopMaxData ==
  ASSUME LoopInv, EncodeMaxData
  PROVE  LoopInv'
<1>1. PICK d : SetsMaxData(d, c) /\ EncodeIfFits("max_data", MaxDataFrames(c), d, "pong")
  BY Zenon DEF EncodeMaxData, SetsMaxData
<1>2. /\ pc = "max_data" /\ start' = start
      /\ \/ MaxDataFrames(c) = {} /\ c' = c /\ pc' = "pong"
         \/ \E f \in MaxDataFrames(c) : c' = Added(d, f) /\ pc' = "pong"
         \/ MaxDataFrames(c) # {} /\ c' = c /\ pc' = "nobuf"
  BY <1>1, EncodeOutcomes
<1>3. AtPlace(c, start, {}) /\ c.strmq = start.strmq /\ WellFormed(start)
  BY <1>2 DEF LoopInv
<1>4. \/ pc' = "pong" /\ AtPlace(c', start, MaxDataFrames(start)) /\ c'.strmq = start.strmq
      \/ pc' = "nobuf" /\ AtEnd(c', start)
  BY <1>1, <1>2, <1>3, MaxDataStep
<1> QED
  BY <1>2, <1>3, <1>4 DEF LoopInv

\* QX_PING_RESPONSE
LEMMA LoopPong ==
  ASSUME LoopInv, EncodePong
  PROVE  LoopInv'
<1>1. PICK d : SetsPong(d, c) /\ EncodeIfFits("pong", PongFrames(c), d, "top")
  BY Zenon DEF EncodePong, SetsPong
<1>2. /\ pc = "pong" /\ start' = start
      /\ \/ PongFrames(c) = {} /\ c' = c /\ pc' = "top"
         \/ \E f \in PongFrames(c) : c' = Added(d, f) /\ pc' = "top"
         \/ PongFrames(c) # {} /\ c' = c /\ pc' = "nobuf"
  BY <1>1, EncodeOutcomes
<1>3. AtPlace(c, start, MaxDataFrames(start)) /\ c.strmq = start.strmq /\ WellFormed(start)
  BY <1>2 DEF LoopInv
<1>4. \/ pc' = "top" /\ AtTop(c', start)
      \/ pc' = "nobuf" /\ AtEnd(c', start)
  BY <1>1, <1>2, <1>3, PongStep
<1> QED
  BY <1>2, <1>3, <1>4 DEF LoopInv

\* The next stream, or none.
LEMMA LoopTop ==
  ASSUME LoopInv, Top
  PROVE  LoopInv'
<1>1. pc = "top" /\ c' = c /\ start' = start /\ AtTop(c, start) /\ WellFormed(start)
  BY DEF Top, LoopInv
<1>2. CASE c.strmq = {}
  <2>1. pc' = "bidi" /\ AtPlace(c, start, TailCut(start, {}))
    BY <1>1, <1>2, QueueDone DEF Top
  <2> QED
    BY <1>1, <1>2, <2>1 DEF LoopInv
<1>3. CASE c.strmq # {}
  <2>1. pc' = "reset" /\ cur' \in c.strmq /\ \A s \in c.strmq : cur' <= s
    BY <1>3 DEF Top
  <2>2. AtTurn(c, start, cur', 0, 0)
    BY <1>1, <2>1, TurnBegins
  <2> QED
    BY <1>1, <2>1, <2>2 DEF LoopInv
<1> QED
  BY <1>2, <1>3

\* RESET_STREAM
LEMMA LoopReset ==
  ASSUME LoopInv, EncodeReset
  PROVE  LoopInv'
<1> DEFINE F == ResetFrames(c, cur)
           closing == F # {} /\ ShouldCloseStream(Unset("SEND_RESET_STREAM").strm[cur])
<1>1. PICK d, e : /\ Clears(d, c, cur, {"SEND_RESET_STREAM"}) /\ ClosedNow(e, d, cur)
                  /\ EncodeIfFits("reset", F, IF closing THEN e ELSE d, IF closing THEN "top" ELSE "stop")
                  /\ d = Unset("SEND_RESET_STREAM")
  <2> DEFINE d == Unset("SEND_RESET_STREAM")
  <2>1. Clears(d, c, cur, {"SEND_RESET_STREAM"}) /\ ClosedNow(CloseStream(d, cur), d, cur)
    BY Zenon DEF Clears, ClosedNow, Unset
  <2>2. EncodeIfFits("reset", F, IF closing THEN CloseStream(d, cur) ELSE d,
                           IF closing THEN "top" ELSE "stop")
    BY Zenon DEF EncodeReset
  <2> QED
    BY <2>1, <2>2, Zenon
<1>2. /\ pc = "reset" /\ start' = start /\ cur' = cur
      /\ \/ F = {} /\ c' = c /\ pc' = IF closing THEN "top" ELSE "stop"
         \/ \E f \in F : /\ c' = Added(IF closing THEN e ELSE d, f)
                         /\ pc' = IF closing THEN "top" ELSE "stop"
         \/ F # {} /\ c' = c /\ pc' = "nobuf"
  <2> DEFINE g == IF closing THEN e ELSE d
             t == IF closing THEN "top" ELSE "stop"
  <2>1. EncodeIfFits("reset", F, g, t)
    BY <1>1
  <2> HIDE DEF g, t, F, closing
  <2>2. /\ pc = "reset" /\ start' = start /\ cur' = cur
        /\ \/ F = {} /\ c' = c /\ pc' = t
           \/ \E f \in F : c' = Added(g, f) /\ pc' = t
           \/ F # {} /\ c' = c /\ pc' = "nobuf"
    BY ONLY <2>1, EncodeOutcomes, Zenon
  <2> QED
    BY <2>2 DEF g, t
<1>3. AtTurn(c, start, cur, 0, 0) /\ WellFormed(start)
  BY <1>2 DEF LoopInv
<1>4. WellFormed(c) /\ cur \in StreamIds
  BY <1>3, OnItsTurn
<1>5. F # {} => (closing <=> ClosesOnReset(c, cur))
  <2>1. d.strm[cur] = [c.strm[cur] EXCEPT !.flags = @ \ {"SEND_RESET_STREAM"}]
    BY ONLY <1>1, <1>4, MovedFlags
  <2>2. d.strm[cur].flags = c.strm[cur].flags \ {"SEND_RESET_STREAM"}
    <3>1. IsStrm(c.strm[cur])
      BY <1>4 DEF WellFormed
    <3>2. ASSUME NEW y, IsStrm(y)
          PROVE  [y EXCEPT !.flags = @ \ {"SEND_RESET_STREAM"}].flags = y.flags \ {"SEND_RESET_STREAM"}
      BY <3>2 DEF IsStrm
    <3> QED
      BY ONLY <2>1, <3>1, <3>2, Zenon
  <2>3. F # {} => "SEND_RESET_STREAM" \in c.strm[cur].flags
    BY DEF ResetFrames
  <2>4. closing <=> F # {} /\ ShouldCloseStream(d.strm[cur])
    BY <1>1
  <2> HIDE DEF F, closing
  <2> QED
    BY <2>2, <2>3, <2>4 DEF ShouldCloseStream, ClosesOnReset
<1>6. F = {} => ~closing
  OBVIOUS
<1> HIDE DEF closing
<1>7. CASE F = {} /\ c' = c /\ pc' = "stop"
  <2>1. AtTurn(c, start, cur, 1, 1)
    BY <1>1, <1>3, <1>7, ResetStays
  <2> QED
    BY <1>2, <1>3, <1>7, <2>1 DEF LoopInv
<1>8. CASE F # {} /\ c' = c /\ pc' = "nobuf"
  <2>1. AtEnd(c, start)
    BY <1>1, <1>3, <1>8, ResetStays
  <2> QED
    BY <1>2, <1>3, <1>8, <2>1 DEF LoopInv
<1>9. ASSUME NEW f \in F, closing, c' = Added(e, f), pc' = "top"
      PROVE  LoopInv'
  <2>1. AtTop(Added(e, f), start)
    BY <1>1, <1>3, <1>5, <1>9, ResetCloses
  <2> QED
    BY <1>2, <1>3, <1>9, <2>1 DEF LoopInv
<1>10. ASSUME NEW f \in F, ~closing, c' = Added(d, f), pc' = "stop"
       PROVE  LoopInv'
  <2>1. AtTurn(Added(d, f), start, cur, 1, 1)
    BY <1>1, <1>3, <1>5, <1>10, ResetStays
  <2> QED
    BY <1>2, <1>3, <1>10, <2>1 DEF LoopInv
<1> QED
  <2> HIDE DEF F
  <2> QED
    BY <1>2, <1>6, <1>7, <1>8, <1>9, <1>10

\* The callback, from which nothing is called.
LEMMA LoopCallback ==
  ASSUME ~Reentrant, LoopInv, CallStopSending
  PROVE  LoopInv'
<1>1. /\ pc = "stop" /\ pc' = "stop_frame" /\ c' = c /\ start' = start /\ cur' = cur
      /\ AtTurn(c, start, cur, 1, 1) /\ WellFormed(start)
  BY DEF CallStopSending, LoopInv
<1>2. AtTurn(c, start, cur, 2, 1)
  BY <1>1, CallbackStep
<1> QED
  BY <1>1, <1>2 DEF LoopInv

\* STOP_SENDING
LEMMA LoopStop ==
  ASSUME LoopInv, EncodeStop
  PROVE  LoopInv'
<1>1. /\ pc = "stop_frame" /\ start' = start /\ cur' = cur
      /\ \/ StopFrames(c, cur) = {} /\ c' = c /\ pc' = "stop_done"
         \/ \E f \in StopFrames(c, cur) : c' = Added(c, f) /\ pc' = "stop_done"
         \/ StopFrames(c, cur) # {} /\ c' = c /\ pc' = "nobuf"
  BY EncodeOutcomes, Zenon DEF EncodeStop
<1>2. AtTurn(c, start, cur, 2, 1) /\ WellFormed(start)
  BY <1>1 DEF LoopInv
<1>3. \/ pc' = "stop_done" /\ AtTurn(c', start, cur, 3, 2)
      \/ pc' = "nobuf" /\ AtEnd(c', start)
  BY <1>1, <1>2, StopStep
<1> QED
  BY <1>1, <1>2, <1>3 DEF LoopInv

\* Its flag
LEMMA LoopStopDone ==
  ASSUME LoopInv, StopDone
  PROVE  LoopInv'
<1>1. /\ pc = "stop_done" /\ pc' = "credit" /\ start' = start /\ cur' = cur
      /\ AtTurn(c, start, cur, 3, 2) /\ WellFormed(start)
  BY DEF StopDone, LoopInv
<1>2. Clears(c', c, cur, {"SEND_STOP_SENDING"})
  BY Zenon DEF StopDone, Unset, Clears
<1>3. AtTurn(c', start, cur, 4, 2)
  BY <1>1, <1>2, StopDoneStep
<1> QED
  BY <1>1, <1>3 DEF LoopInv

\* MAX_STREAM_DATA
LEMMA LoopCredit ==
  ASSUME LoopInv, EncodeCredit
  PROVE  LoopInv'
<1>1. PICK d : /\ SetsLimit(d, c, cur, c.strm[cur].rxUnsent)
               /\ EncodeIfFits("credit", CreditFrames(c, cur), d, "data_blocked")
  BY Zenon DEF EncodeCredit, SetsLimit
<1>2. /\ pc = "credit" /\ start' = start /\ cur' = cur
      /\ \/ CreditFrames(c, cur) = {} /\ c' = c /\ pc' = "data_blocked"
         \/ \E f \in CreditFrames(c, cur) : c' = Added(d, f) /\ pc' = "data_blocked"
         \/ CreditFrames(c, cur) # {} /\ c' = c /\ pc' = "nobuf"
  BY <1>1, EncodeOutcomes
<1>3. AtTurn(c, start, cur, 4, 2) /\ WellFormed(start)
  BY <1>2 DEF LoopInv
<1>4. \/ pc' = "data_blocked" /\ AtTurn(c', start, cur, 5, 3)
      \/ pc' = "nobuf" /\ AtEnd(c', start)
  BY <1>1, <1>2, <1>3, CreditStep
<1> QED
  BY <1>2, <1>3, <1>4 DEF LoopInv

\* DATA_BLOCKED
LEMMA LoopDataBlocked ==
  ASSUME LoopInv, EncodeDataBlocked
  PROVE  LoopInv'
<1>1. PICK d, F : /\ SetsConnBlocked(d, c, c.txOff)
                  /\ F = {f \in DataBlockedFrames(c, cur) : cur \in Reporting(c)}
                  /\ EncodeIfFits("data_blocked", F, d, "stream_data_blocked")
  BY Zenon DEF EncodeDataBlocked, SetsConnBlocked, MustReport
<1>2. /\ pc = "data_blocked" /\ start' = start /\ cur' = cur
      /\ \/ F = {} /\ c' = c /\ pc' = "stream_data_blocked"
         \/ \E f \in F : c' = Added(d, f) /\ pc' = "stream_data_blocked"
         \/ F # {} /\ c' = c /\ pc' = "nobuf"
  BY <1>1, EncodeOutcomes
<1>3. AtTurn(c, start, cur, 5, 3) /\ WellFormed(start)
  BY <1>2 DEF LoopInv
<1>4. /\ F = {} => AtTurn(c, start, cur, 6, 4)
      /\ \A f \in F : AtTurn(Added(d, f), start, cur, 6, 4)
      /\ F # {} => AtEnd(c, start)
  BY ONLY <1>1, <1>3, DataBlockedStep
<1>5. \/ pc' = "stream_data_blocked" /\ AtTurn(c', start, cur, 6, 4)
      \/ pc' = "nobuf" /\ AtEnd(c', start)
  BY ONLY <1>2, <1>4
<1> QED
  BY <1>2, <1>3, <1>5 DEF LoopInv

\* STREAM_DATA_BLOCKED
LEMMA LoopStreamDataBlocked ==
  ASSUME LoopInv, EncodeStreamDataBlocked
  PROVE  LoopInv'
<1>1. PICK d, F : /\ SetsBlocked(d, c, cur, c.strm[cur].txOff)
                  /\ F = {f \in StreamDataBlockedFrames(c, cur) : cur \in Reporting(c)}
                  /\ EncodeIfFits("stream_data_blocked", F, d, "pop")
  BY Zenon DEF EncodeStreamDataBlocked, SetsBlocked, MustReport
<1>2. /\ pc = "stream_data_blocked" /\ start' = start /\ cur' = cur
      /\ \/ F = {} /\ c' = c /\ pc' = "pop"
         \/ \E f \in F : c' = Added(d, f) /\ pc' = "pop"
         \/ F # {} /\ c' = c /\ pc' = "nobuf"
  BY <1>1, EncodeOutcomes
<1>3. AtTurn(c, start, cur, 6, 4) /\ WellFormed(start)
  BY <1>2 DEF LoopInv
<1>4. /\ F = {} => AtTurn(c, start, cur, 7, 5)
      /\ \A f \in F : AtTurn(Added(d, f), start, cur, 7, 5)
      /\ F # {} => AtEnd(c, start)
  BY ONLY <1>1, <1>3, StreamDataBlockedStep
<1>5. \/ pc' = "pop" /\ AtTurn(c', start, cur, 7, 5)
      \/ pc' = "nobuf" /\ AtEnd(c', start)
  BY ONLY <1>2, <1>4
<1> QED
  BY <1>2, <1>3, <1>5 DEF LoopInv

\* The stream is the top of the queue still, and leaves it.
LEMMA LoopPop ==
  ASSUME LoopInv, PopTop
  PROVE  LoopInv'
<1>1. /\ pc = "pop" /\ pc' = "top" /\ start' = start
      /\ AtTurn(c, start, cur, 7, 5) /\ WellFormed(start)
  BY DEF PopTop, LoopInv
<1>2. PICK d, top : /\ Clears(d, c, cur, {"SEND_STREAM_DATA_BLOCKED"})
                    /\ top \in c.strmq /\ \A s \in c.strmq : top <= s
                    /\ Dequeued(c', d, top)
  <2> DEFINE d == Unset("SEND_STREAM_DATA_BLOCKED")
  <2>1. Clears(d, c, cur, {"SEND_STREAM_DATA_BLOCKED"})
    BY Zenon DEF Unset, Clears
  <2>2. PICK top \in c.strmq : /\ \A s \in c.strmq : top <= s
                               /\ c' = [d EXCEPT !.strmq = @ \ {top}]
    BY DEF PopTop
  <2> HIDE DEF d
  <2>3. Dequeued(c', d, top)
    BY <2>2, Zenon DEF Dequeued
  <2> QED
    BY <2>1, <2>2, <2>3
<1>3. cur \in c.strmq /\ (\A s \in c.strmq : cur <= s) /\ c.strmq \subseteq Nat
  <2>1. WellFormed(c) /\ cur \in c.strmq /\ \A s \in c.strmq : cur <= s
    BY <1>1, OnItsTurn
  <2> QED
    BY <2>1, StreamIdsAssumption DEF WellFormed
<1>4. top = cur
  BY <1>2, <1>3
<1>5. AtTop(c', start)
  BY ONLY <1>1, <1>2, <1>4, PopStep
<1> QED
  BY <1>1, <1>5 DEF LoopInv

\* MAX_STREAMS of the one direction and of the other
LEMMA LoopMaxStreams ==
  ASSUME LoopInv, \/ EncodeMaxStreams("bidi", "bidi", "uni")
                  \/ EncodeMaxStreams("uni", "uni", "done")
  PROVE  LoopInv'
<1>1. ASSUME NEW d \in Direction, NEW there, EncodeMaxStreams(d, d, there)
      PROVE  \E z, F : /\ SetsMaxStreams(z, c, d)
                       /\ F = DirFrames(c, d)
                       /\ pc = d /\ start' = start
                       /\ \/ F = {} /\ c' = c /\ pc' = there
                          \/ \E f \in F : c' = Added(z, f) /\ pc' = there
                          \/ F # {} /\ c' = c /\ pc' = "nobuf"
  <2>1. PICK z, F : /\ SetsMaxStreams(z, c, d)
                    /\ F = DirFrames(c, d)
                    /\ EncodeIfFits(d, F, z, there)
    BY <1>1, Zenon DEF EncodeMaxStreams, SetsMaxStreams, DirFrames
  <2>2. /\ pc = d /\ start' = start
        /\ \/ F = {} /\ c' = c /\ pc' = there
           \/ \E f \in F : c' = Added(z, f) /\ pc' = there
           \/ F # {} /\ c' = c /\ pc' = "nobuf"
    BY ONLY <2>1, EncodeOutcomes
  <2> QED
    BY <2>1, <2>2, Zenon
<1>2. /\ WellFormed(start) /\ "bidi" \in Direction /\ "uni" \in Direction
      /\ DirTurn("bidi", {}) /\ DirTurn("uni", {"bidi"})
  <2>1. WellFormed(start) /\ "bidi" \in Direction /\ "uni" \in Direction
    BY DEF LoopInv, Direction
  <2>2. DirTurn("bidi", {}) /\ DirTurn("uni", {"bidi"})
    BY <2>1, Zenon DEF DirTurn
  <2> QED
    BY ONLY <2>1, <2>2
<1>3. CASE EncodeMaxStreams("bidi", "bidi", "uni")
  <2>1. PICK z, F : /\ SetsMaxStreams(z, c, "bidi")
                    /\ F = DirFrames(c, "bidi")
                    /\ pc = "bidi" /\ start' = start
                    /\ \/ F = {} /\ c' = c /\ pc' = "uni"
                       \/ \E f \in F : c' = Added(z, f) /\ pc' = "uni"
                       \/ F # {} /\ c' = c /\ pc' = "nobuf"
    BY ONLY <1>1, <1>2, <1>3
  <2>2. AtPlace(c, start, TailCut(start, {})) /\ c.strmq = {}
    BY <2>1 DEF LoopInv
  <2>3. /\ F = {} => AtPlace(c, start, TailCut(start, {} \cup {"bidi"}))
        /\ \A f \in F : /\ AtPlace(Added(z, f), start, TailCut(start, {} \cup {"bidi"}))
                        /\ Added(z, f).strmq = {}
        /\ F # {} => AtEnd(c, start)
    BY ONLY <1>2, <2>1, <2>2, MaxStreamsStep
  <2>4. \/ /\ pc' = "uni" /\ AtPlace(c', start, TailCut(start, {} \cup {"bidi"}))
           /\ c'.strmq = {}
        \/ pc' = "nobuf" /\ AtEnd(c', start)
    BY ONLY <2>1, <2>2, <2>3
  <2> QED
    BY <1>2, <2>1, <2>4 DEF LoopInv
<1>4. CASE EncodeMaxStreams("uni", "uni", "done")
  <2>1. PICK z, F : /\ SetsMaxStreams(z, c, "uni")
                    /\ F = DirFrames(c, "uni")
                    /\ pc = "uni" /\ start' = start
                    /\ \/ F = {} /\ c' = c /\ pc' = "done"
                       \/ \E f \in F : c' = Added(z, f) /\ pc' = "done"
                       \/ F # {} /\ c' = c /\ pc' = "nobuf"
    BY ONLY <1>1, <1>2, <1>4
  <2>2. {} \cup {"bidi"} = {"bidi"}
    OBVIOUS
  <2>3. AtPlace(c, start, TailCut(start, {"bidi"})) /\ c.strmq = {}
    BY <2>1, <2>2 DEF LoopInv
  <2>4. /\ F = {} => AtPlace(c, start, TailCut(start, {"bidi"} \cup {"uni"}))
        /\ \A f \in F : /\ AtPlace(Added(z, f), start, TailCut(start, {"bidi"} \cup {"uni"}))
                        /\ Added(z, f).strmq = {}
        /\ F # {} => AtEnd(c, start)
    BY ONLY <1>2, <2>1, <2>3, MaxStreamsStep
  <2>5. \/ /\ pc' = "done" /\ AtPlace(c', start, TailCut(start, {"bidi"} \cup {"uni"}))
           /\ c'.strmq = {}
        \/ pc' = "nobuf" /\ AtEnd(c', start)
    BY ONLY <2>1, <2>3, <2>4
  <2>6. pc' = "done" => AtEnd(c', start) /\ Said(c') = CtrlFrames(start)
    BY ONLY <2>5, LoopEnds
  <2> QED
    BY <1>2, <2>1, <2>5, <2>6 DEF LoopInv
<1> QED
  BY <1>3, <1>4

\* The record is finished.
LEMMA LoopReturn ==
  ASSUME LoopInv, ReturnRecord
  PROVE  LoopInv'
<1>1. /\ pc \in {"done", "nobuf"} /\ c' = FinishRecord(c) /\ start' = c' /\ pc' = "idle"
  BY DEF ReturnRecord
<1>2. WellFormed(c)
  BY <1>1 DEF LoopInv, AtEnd
<1>3. WellFormed(FinishRecord(c))
  <2> DEFINE q == [started |-> FALSE, frames |-> << >>]
  <2>1. q = [started |-> q.started, frames |-> q.frames]
    <3>1. PICK t : t = FALSE
      OBVIOUS
    <3>2. ASSUME NEW r, r = [started |-> t, frames |-> << >>]
          PROVE  r = [started |-> r.started, frames |-> r.frames]
      BY <3>2
    <3>3. q = [started |-> t, frames |-> << >>]
      BY <3>1
    <3> HIDE DEF q
    <3> QED
      BY <3>2, <3>3
  <2>2. PICK x : x = c
    OBVIOUS
  <2>3. IsConn(x) /\ FinishRecord(c) = [x EXCEPT !.qre = q]
    BY <1>2, <2>2 DEF FinishRecord, WellFormed
  <2> HIDE DEF q
  <2>4. PICK y : y = [x EXCEPT !.qre = q]
    OBVIOUS
  <2>5. /\ IsConn(y) /\ y.strmq = x.strmq /\ y.strm = x.strm /\ y.qre = q
        /\ y.rxStreams = x.rxStreams
    BY <2>3, <2>4, FieldWritten DEF IsConn
  <2>6. WellFormed(y)
    BY <1>2, <2>1, <2>2, <2>5 DEF WellFormed
  <2> QED
    BY <2>3, <2>4, <2>6
<1> QED
  BY <1>1, <1>3 DEF LoopInv

\* What the function did when it returns.
LEMMA LoopResult ==
  ASSUME LoopInv
  PROVE  SingleStep /\ WritesFront
<1>1. UNION FramesWritten = Said(c)
  BY DEF FramesWritten, Said
<1>2. ASSUME pc \in {"done", "nobuf"}
      PROVE  AtEnd(c, start)
  BY <1>2 DEF LoopInv
<1>3. SingleStep
  <2> SUFFICES ASSUME pc \in {"done", "nobuf"}
               PROVE  /\ Step(c, start, Said(c))
                      /\ \A i, j \in DOMAIN c.qre.frames :
                           i < j => \A f \in c.qre.frames[i], g \in c.qre.frames[j] : Before(f, g)
    BY <1>1 DEF SingleStep, Step
  <2> QED
    BY <1>2 DEF AtEnd, InOrder
<1>4. WritesFront
  <2>1. pc \in {"done", "nobuf"} => UNION FramesWritten \in FrontsOf(CtrlFrames(start))
    BY <1>1, <1>2 DEF AtEnd
  <2>2. pc = "done" => UNION FramesWritten = CtrlFrames(start)
    BY <1>1 DEF LoopInv
  <2> QED
    BY <2>1, <2>2 DEF WritesFront
<1> QED
  BY <1>3, <1>4

\* dwnx_conn_write_ctrl_frames, statement by statement and stopped by any frame
\* that does not fit, does what WriteCtrlFrames does in one step, writes the
\* frames in their order and leaves none out before the one that did not fit,
\* for every queue, every set of peer frames and any number of records.  That
\* the callback calls nothing is needed: the run ctrl_reentrant shows what it can
\* do otherwise.
THEOREM LoopDoesOneStep ==
  ASSUME ~Reentrant, PeerFrames \subseteq PeerFrame
  PROVE  LoopSpec => []LoopIsOneStep
<1>1. LoopInit => LoopInv
  BY LoopStarts
<1>2. LoopInv /\ [LoopNext]_loopVars => LoopInv'
  <2> SUFFICES ASSUME LoopInv, [LoopNext]_loopVars
               PROVE  LoopInv'
    OBVIOUS
  <2>1. CASE Prepare
    BY <2>1, LoopPrepare
  <2>2. CASE StartRecord
    BY <2>2, LoopStart
  <2>3. CASE EncodeMaxData
    BY <2>3, LoopMaxData
  <2>4. CASE EncodePong
    BY <2>4, LoopPong
  <2>5. CASE Top
    BY <2>5, LoopTop
  <2>6. CASE EncodeReset
    BY <2>6, LoopReset
  <2>7. CASE CallStopSending
    BY <2>7, LoopCallback
  <2>8. CASE EncodeStop
    BY <2>8, LoopStop
  <2>9. CASE StopDone
    BY <2>9, LoopStopDone
  <2>10. CASE EncodeCredit
    BY <2>10, LoopCredit
  <2>11. CASE EncodeDataBlocked
    BY <2>11, LoopDataBlocked
  <2>12. CASE EncodeStreamDataBlocked
    BY <2>12, LoopStreamDataBlocked
  <2>13. CASE PopTop
    BY <2>13, LoopPop
  <2>14. CASE EncodeMaxStreams("bidi", "bidi", "uni") \/ EncodeMaxStreams("uni", "uni", "done")
    BY <2>14, LoopMaxStreams
  <2>15. CASE ReturnRecord
    BY <2>15, LoopReturn
  <2>16. CASE UNCHANGED loopVars
    BY <2>16 DEF loopVars, LoopInv
  <2> QED
    BY <2>1, <2>2, <2>3, <2>4, <2>5, <2>6, <2>7, <2>8, <2>9, <2>10, <2>11, <2>12, <2>13, <2>14,
       <2>15, <2>16 DEF LoopNext
<1>3. LoopInv => LoopIsOneStep
  BY LoopResult DEF LoopIsOneStep
<1> QED
  BY <1>1, <1>2, <1>3, PTL DEF LoopSpec

=============================================================================
