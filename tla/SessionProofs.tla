--------------------------- MODULE SessionProofs ----------------------------
(***************************************************************************)
(* What early data may cost a connection: nothing.  A client and a server  *)
(* that start without the limits of the other are related to two that had  *)
(* them from the start.                                                    *)
(*                                                                         *)
(*   Own, Way    what is known of one endpoint and of what is on its way   *)
(*               to it at each point of the handshake: before it has read  *)
(*               the parameters of its peer it has read nothing, and these *)
(*               are the first frame on their way                          *)
(*   Lift        the connection as it will be when it is told the limits   *)
(*               of its peer; every call commutes with it, since a call    *)
(*               within smaller limits is one within larger limits         *)
(*   Agreed      the two lifted connections are Tied, whenever the server  *)
(*               announces no less than the client was promised            *)
(*   Both        what one side has counted as sent the other has counted   *)
(*               as received or it is on its way, whatever was promised    *)
(*                                                                         *)
(* A rejection starts again from two new connections: what                 *)
(* dwnx_conn_discard_early_data_state does not reset was not touched.      *)
(***************************************************************************)
EXTENDS Session, LinkProofs

USE StreamIdsAssumption, LimitsAssumption, ParamsAssumption

-----------------------------------------------------------------------------
(* One connection                                                          *)

\* Nothing is being written.
NoRecord == [started |-> FALSE, frames |-> << >>]

\* Calls of Session ask for nothing of a stream but its end, a record has room
\* for all there is to report, and no PING is sent.
PlainStrm(x) ==
  /\ x.flags \cap {"STOP_SENDING", "SEND_STOP_SENDING", "SEND_STREAM_DATA_BLOCKED"} = {}
  /\ x.rxUnsent = x.rxMax

Plain(c) ==
  /\ c.ping = -1 /\ c.pong = -1
  /\ \A s \in StreamIds : /\ PlainStrm(c.strm[s])
                          /\ s \notin c.live => c.strm[s] = NewStrm(c.role, s)

\* What a connection satisfies on its own.
Fit(c) == Good(c) /\ Sound(c) /\ Plain(c)

\* The frames that it writes.
PlainFrame ==
  {f \in Frame : f.t \in {"STREAM", "RESET_STREAM", "MAX_DATA", "MAX_STREAMS",
                          "DATA_BLOCKED", "STREAM_DATA_BLOCKED"}}

\* An end that works with the limits p and has read nothing.
Waiting(c, p) ==
  /\ c.err = "NONE" /\ c.idtr = {} /\ c.rxOff = 0 /\ c.glitch = GlitchBurst /\ c.rd = Idle
  /\ c.txMax = p.maxData /\ c.txStreams = p.streams
  /\ \A s \in c.live : c.strm[s].txMax = StreamWindow(p, s)

\* No stream of it has another window than the one it started with.
SameWindows(c, d) == \A s \in d.live : d.strm[s].txMax = c.strm[s].txMax

\* A stream with the window w.
Windowed(x, w) == [x EXCEPT !.txMax = w]

\* A call by the application.
OwnStep(c, d) ==
  /\ Fit(d) /\ d.role = c.role /\ d.live \subseteq c.live /\ SameWindows(c, d)
  /\ d.err = c.err /\ d.idtr = c.idtr /\ d.rxOff = c.rxOff /\ d.glitch = c.glitch
  /\ d.rd = c.rd /\ d.txMax = c.txMax /\ d.txStreams = c.txStreams

\* One stream changes, in what is allowed to.
LEMMA PlainTouch ==
  ASSUME NEW c, Good(c), Plain(c), NEW s \in StreamIds, s \in c.live, NEW d,
         Touches(c, d, s), d.ping = c.ping, d.pong = c.pong, PlainStrm(d.strm[s])
  PROVE  Plain(d)
BY DEF Plain, Touches, SameLimits

\* A new stream is plain.
LEMMA NewStrmPlain ==
  ASSUME NEW r \in Role, NEW s \in StreamIds
  PROVE  PlainStrm(NewStrm(r, s)) /\ NewStrm(r, s).txMax = InitialMaxTx(r, s)
BY DEF PlainStrm, NewStrm

\* A stream is freed.
LEMMA PlainClose ==
  ASSUME NEW c, Good(c), Plain(c), NEW s \in StreamIds
  PROVE  LET d == CloseStreamIfShutRdWr(c, s) IN
         /\ Plain(d) /\ SameWindows(c, d) /\ d.role = c.role /\ d.err = c.err
<1> DEFINE d == CloseStream(c, s)
<1>1. c \in ConnType /\ c.strm \in [StreamIds -> StrmType] /\ c.role \in Role
  BY DEF Good, ConnType
<1>2. /\ d.role = c.role /\ d.err = c.err /\ d.live = c.live \ {s}
      /\ d.ping = c.ping /\ d.pong = c.pong
      /\ d.strm = [c.strm EXCEPT ![s] = NewStrm(c.role, s)]
  BY <1>1 DEF ConnType, CloseStream
<1> HIDE DEF d
<1>3. d.strm[s] = NewStrm(c.role, s) /\ \A t \in StreamIds \ {s} : d.strm[t] = c.strm[t]
  BY <1>1, <1>2
<1>4. Plain(d)
  BY <1>1, <1>2, <1>3, NewStrmPlain DEF Plain
<1>5. SameWindows(c, d)
  BY <1>1, <1>2, <1>3 DEF SameWindows, Good, ConnType
<1> QED
  BY <1>2, <1>4, <1>5 DEF CloseStreamIfShutRdWr, SameWindows, d

\* A connection is its fields.
LEMMA AllFields ==
  ASSUME NEW a, a \in ConnType
  PROVE  a = [role |-> a.role, live |-> a.live, strm |-> a.strm, strmq |-> a.strmq,
              idtr |-> a.idtr, next |-> a.next, txStreams |-> a.txStreams,
              rxStreams |-> a.rxStreams, rxUnsentStreams |-> a.rxUnsentStreams,
              txOff |-> a.txOff, txMax |-> a.txMax, txBlocked |-> a.txBlocked,
              rxOff |-> a.rxOff, rxMax |-> a.rxMax, rxUnsent |-> a.rxUnsent,
              ping |-> a.ping, pong |-> a.pong, glitch |-> a.glitch, rd |-> a.rd,
              qre |-> a.qre, err |-> a.err]
BY DEF ConnType

\* Two connections with the same fields are the same.
LEMMA SameFields ==
  ASSUME NEW a, a \in ConnType, NEW b, b \in ConnType,
         a.role = b.role, a.live = b.live, a.strm = b.strm, a.strmq = b.strmq,
         a.idtr = b.idtr, a.next = b.next, a.txStreams = b.txStreams,
         a.rxStreams = b.rxStreams, a.rxUnsentStreams = b.rxUnsentStreams,
         a.txOff = b.txOff, a.txMax = b.txMax, a.txBlocked = b.txBlocked,
         a.rxOff = b.rxOff, a.rxMax = b.rxMax, a.rxUnsent = b.rxUnsent,
         a.ping = b.ping, a.pong = b.pong, a.glitch = b.glitch, a.rd = b.rd,
         a.qre = b.qre, a.err = b.err
  PROVE  a = b
<1>1. a = [role |-> a.role, live |-> a.live, strm |-> a.strm, strmq |-> a.strmq,
           idtr |-> a.idtr, next |-> a.next, txStreams |-> a.txStreams,
           rxStreams |-> a.rxStreams, rxUnsentStreams |-> a.rxUnsentStreams,
           txOff |-> a.txOff, txMax |-> a.txMax, txBlocked |-> a.txBlocked,
           rxOff |-> a.rxOff, rxMax |-> a.rxMax, rxUnsent |-> a.rxUnsent,
           ping |-> a.ping, pong |-> a.pong, glitch |-> a.glitch, rd |-> a.rd,
           qre |-> a.qre, err |-> a.err]
  BY AllFields
<1>2. b = [role |-> b.role, live |-> b.live, strm |-> b.strm, strmq |-> b.strmq,
           idtr |-> b.idtr, next |-> b.next, txStreams |-> b.txStreams,
           rxStreams |-> b.rxStreams, rxUnsentStreams |-> b.rxUnsentStreams,
           txOff |-> b.txOff, txMax |-> b.txMax, txBlocked |-> b.txBlocked,
           rxOff |-> b.rxOff, rxMax |-> b.rxMax, rxUnsent |-> b.rxUnsent,
           ping |-> b.ping, pong |-> b.pong, glitch |-> b.glitch, rd |-> b.rd,
           qre |-> b.qre, err |-> b.err]
  BY AllFields
<1> QED
  BY <1>1, <1>2, Zenon

-----------------------------------------------------------------------------
(* Reading                                                                 *)

\* The stream of a frame is found or opened.
LEMMA PlainOpen ==
  ASSUME NEW c, Good(c), Plain(c), NEW s \in StreamIds
  PROVE  LET b == FindOrOpen(c, s) IN
         /\ Good(b) /\ Plain(b) /\ b.strm = c.strm /\ b.live = c.live \cup {s}
         /\ b.role = c.role /\ b.err = c.err /\ b.ping = c.ping /\ b.pong = c.pong
         /\ b.rxOff = c.rxOff /\ b.qre = c.qre
<1> DEFINE b == [CreateStream(c, s) EXCEPT !.idtr = @ \cup {s}]
<1>1. c \in ConnType /\ c.strm \in [StreamIds -> StrmType] /\ c.live \subseteq StreamIds
  BY DEF Good, ConnType
<1>2. CASE s \in c.live
  BY <1>2 DEF FindOrOpen
<1>3. CASE s \notin c.live
  <2>1. /\ b.role = c.role /\ b.err = c.err /\ b.live = c.live \cup {s}
        /\ b.ping = c.ping /\ b.pong = c.pong /\ b.rxOff = c.rxOff /\ b.qre = c.qre
        /\ b.strm = [c.strm EXCEPT ![s] = NewStrm(c.role, s)]
    BY <1>1 DEF ConnType, CreateStream
  <2>2. b = FindOrOpen(c, s)
    BY <1>3 DEF FindOrOpen
  <2> HIDE DEF b
  <2>3. c.strm[s] = NewStrm(c.role, s)
    BY <1>3 DEF Plain
  <2>4. b.strm = c.strm
    BY <1>1, <2>1, <2>3
  <2>5. Plain(b)
    BY <2>1, <2>4 DEF Plain
  <2>6. Good(b)
    BY <2>2, FindOrOpenGood
  <2> QED
    BY <2>1, <2>2, <2>4, <2>5, <2>6
<1> QED
  BY <1>2, <1>3

\* Its end comes, after nothing that asks for more.
LEMMA PlainEnd ==
  ASSUME NEW c, Good(c), Plain(c), NEW s \in StreamIds, s \in c.live,
         NEW F \in SUBSET {"SHUT_RD", "SHUT_WR", "RESET_STREAM_RECVED", "ANY_SENT"}
  PROVE  LET d == SetFlags(c, s, F)
             e == CloseStreamIfShutRdWr(d, s)
         IN
         /\ Good(d) /\ Plain(d) /\ SameWindows(c, d) /\ d.role = c.role /\ d.err = c.err
         /\ d.live = c.live
         /\ Good(e) /\ Plain(e) /\ SameWindows(c, e) /\ e.role = c.role /\ e.err = c.err
<1> DEFINE d == SetFlags(c, s, F)
<1>1. F \in SUBSET Flag /\ c \in ConnType /\ c.strm \in [StreamIds -> StrmType]
  BY DEF Flag, Good, ConnType
<1>2. /\ Good(d) /\ Touches(c, d, s) /\ d.strm[s] = [c.strm[s] EXCEPT !.flags = @ \cup F]
  BY <1>1, SetFlagsGood, SetFlagsView
<1>3. d.role = c.role /\ d.err = c.err /\ d.ping = c.ping /\ d.pong = c.pong /\ d.live = c.live
  BY <1>1 DEF SetFlags, ConnType
<1> HIDE DEF d
<1>4. PlainStrm(d.strm[s]) /\ d.strm[s].txMax = c.strm[s].txMax
  <2>1. c.strm[s] \in StrmType /\ PlainStrm(c.strm[s])
    BY <1>1 DEF Plain
  <2> QED
    BY <1>2, <2>1 DEF StrmType, PlainStrm
<1>5. Plain(d)
  BY <1>2, <1>3, <1>4, PlainTouch
<1>6. SameWindows(c, d)
  BY <1>1, <1>2, <1>3, <1>4 DEF SameWindows, Touches, ConnType
<1>7. LET e == CloseStreamIfShutRdWr(d, s) IN
      Good(e) /\ Plain(e) /\ SameWindows(d, e) /\ e.role = d.role /\ e.err = d.err
  BY <1>2, <1>5, PlainClose, CloseStreamGood
<1>8. CloseStreamIfShutRdWr(d, s).live \subseteq d.live
  <2>1. CloseStream(d, s).live = d.live \ {s}
    <3>1. d \in ConnType
      BY <1>2 DEF Good
    <3> QED
      BY <3>1 DEF ConnType, CloseStream
  <2> QED
    BY <2>1 DEF CloseStreamIfShutRdWr
<1> QED
  BY <1>2, <1>3, <1>5, <1>6, <1>7, <1>8 DEF SameWindows, d

\* The fields of a frame that is read.
LEMMA PlainFrameView ==
  ASSUME NEW f \in PlainFrame
  PROVE  /\ f \in Frame /\ f \in PeerFrame
         /\ f.t \in {"STREAM", "RESET_STREAM", "MAX_DATA", "MAX_STREAMS",
                     "DATA_BLOCKED", "STREAM_DATA_BLOCKED"}
         /\ f.t \in {"STREAM", "RESET_STREAM"} => f.id \in StreamIds
         /\ f.t = "STREAM" => f.len \in Nat /\ f.off \in Nat /\ f.fin \in BOOLEAN
         /\ f.t = "MAX_DATA" => f.max \in Offset
         /\ f.t = "MAX_STREAMS" => f.dir \in Direction /\ f.max \in 0..MaxStreams
<1>1. f \in Frame /\ f.t \in {"STREAM", "RESET_STREAM", "MAX_DATA", "MAX_STREAMS",
                              "DATA_BLOCKED", "STREAM_DATA_BLOCKED"}
  BY DEF PlainFrame
<1> QED
  BY <1>1, FrameFields DEF PeerFrame, Offset

\* conn_recv_stream, conn_recv_reset_stream, conn_recv_max_data,
\* conn_recv_max_streams and the blocked reports.
LEMMA RecvPlain ==
  ASSUME NEW c, Good(c), Plain(c), NEW f \in PlainFrame, c.err = "NONE"
  PROVE  LET d == Recv(c, f) IN
         /\ Plain(d) /\ d.role = c.role /\ SameWindows(c, d) /\ d.err # "INTERNAL"
         /\ d.err = "NONE" => RecvError(c, f) = "NONE" /\ d = RecvAccepted(c, f)
<1> DEFINE s == f.id
           b == FindOrOpen(c, s)
<1>1. /\ f.t \in {"STREAM", "RESET_STREAM", "MAX_DATA", "MAX_STREAMS",
                  "DATA_BLOCKED", "STREAM_DATA_BLOCKED"}
      /\ f.t \in {"STREAM", "RESET_STREAM"} => f.id \in StreamIds
      /\ f.t = "STREAM" => f.fin \in BOOLEAN
  BY PlainFrameView
<1>2. c \in ConnType /\ c.strm \in [StreamIds -> StrmType]
  BY DEF Good, ConnType
<1>3. ASSUME NEW x
      PROVE  LET d == Fail(c, x) IN
             Plain(d) /\ d.role = c.role /\ SameWindows(c, d) /\ d.err = x
  <2> DEFINE d == Fail(c, x)
  <2>1. /\ d.role = c.role /\ d.err = x /\ d.live = c.live /\ d.strm = c.strm
        /\ d.ping = c.ping /\ d.pong = c.pong
    BY <1>2 DEF ConnType, Fail
  <2> HIDE DEF d
  <2> QED
    BY <2>1 DEF Plain, SameWindows, d
<1>4. RecvError(c, f) # "INTERNAL"
  BY <1>1 DEF RecvError, RecvStreamError, RecvResetStreamError, RecvMaxDataError,
     RecvMaxStreamsError, RecvDataBlockedError, RecvStreamDataBlockedError, StreamIdError
<1> DEFINE a == RecvAccepted(c, f)
<1>5. ASSUME RecvError(c, f) = "NONE"
      PROVE  Plain(a) /\ a.role = c.role /\ SameWindows(c, a) /\ a.err = "NONE"
  <2>1. CASE f.t = "STREAM"
    <3> DEFINE x == [b.strm[s] EXCEPT !.rxLast = f.off + f.len]
               r == IF f.len = 0 THEN Idle ELSE [id |-> s, left |-> f.len, fin |-> f.fin]
               d == [b EXCEPT !.rxOff = @ + f.len, !.strm[s].rxLast = f.off + f.len,
                              !.rd = IF f.len = 0 THEN Idle
                                     ELSE [id |-> s, left |-> f.len, fin |-> f.fin]]
    <3>1. /\ Good(b) /\ Plain(b) /\ b.strm = c.strm /\ b.live = c.live \cup {s}
          /\ b.role = c.role /\ b.err = c.err /\ s \in StreamIds
      BY <1>1, <2>1, PlainOpen
    <3> HIDE DEF b
    <3>2. b \in ConnType /\ b.strm \in [StreamIds -> StrmType] /\ b.strm[s] \in StrmType
      BY <3>1 DEF Good, ConnType
    <3>3. /\ d.role = b.role /\ d.err = b.err /\ d.live = b.live
          /\ d.ping = b.ping /\ d.pong = b.pong /\ d.strm = [b.strm EXCEPT ![s] = x]
      BY <3>2 DEF ConnType
    <3>4. PlainStrm(x) /\ x.txMax = b.strm[s].txMax /\ x.flags = b.strm[s].flags
      BY <3>1, <3>2 DEF Plain, PlainStrm, StrmType
    <3>5. a = IF f.len = 0 /\ f.fin
                THEN CloseStreamIfShutRdWr(SetFlags(d, s, {"SHUT_RD"}), s) ELSE d
      BY <2>1 DEF RecvAccepted, RecvStream, b
    <3> HIDE DEF x
    <3>6. d.strm[s] = x /\ \A t \in StreamIds \ {s} : d.strm[t] = b.strm[t]
      BY <3>1, <3>2, <3>3
    <3> HIDE DEF d
    <3>7. Plain(d) /\ SameWindows(c, d)
      <4>1. b.live \subseteq StreamIds
        BY <3>1 DEF Good, ConnType
      <4>2. s \in d.live /\ Plain(b) /\ b.strm = c.strm
        BY <3>1, <3>3
      <4>3. ASSUME NEW t \in StreamIds
            PROVE  PlainStrm(d.strm[t]) /\ (t \notin d.live => d.strm[t] = NewStrm(d.role, t))
        BY <3>3, <3>4, <3>6, <4>2, <4>3 DEF Plain
      <4>4. Plain(d)
        BY <3>3, <4>2, <4>3 DEF Plain
      <4>5. \A t \in d.live : d.strm[t].txMax = c.strm[t].txMax
        BY <3>3, <3>4, <3>6, <4>1, <4>2
      <4> QED
        BY <4>4, <4>5 DEF SameWindows
    <3>8. CASE ~(f.len = 0 /\ f.fin)
      BY <3>1, <3>3, <3>5, <3>7, <3>8
    <3>9. CASE f.len = 0 /\ f.fin
      <4>1. Good(d)
        <5> DEFINE y == [b EXCEPT !.strm[s] = x]
        <5>1. x \in StrmType /\ StrmCredit(x)
          <6>1. f.off = b.strm[s].rxLast /\ f.off + f.len = f.off
            BY <1>5, <2>1, <3>9, PlainFrameView DEF RecvError, RecvStreamError, StreamIdError, b
          <6>2. x = b.strm[s]
            BY <3>2, <6>1 DEF x, StrmType
          <6> QED
            BY <3>1, <3>2, <6>2, Fields
        <5>2. Good(y)
          BY <3>1, <5>1, StrmUpdateGood
        <5>3. d = [y EXCEPT !.rd = Idle]
          <6>1. b.rxOff + f.len = b.rxOff
            BY <3>1, <3>9, Numbers
          <6>2. d = [b EXCEPT !.rxOff = b.rxOff, !.strm = [b.strm EXCEPT ![s] = x], !.rd = Idle]
            BY <3>9, <6>1 DEF d, x
          <6>3. [y EXCEPT !.rd = Idle] = [b EXCEPT !.strm = [b.strm EXCEPT ![s] = x], !.rd = Idle]
            BY <3>2 DEF ConnType
          <6> QED
            BY <3>2, <6>2, <6>3 DEF ConnType
        <5> HIDE DEF y
        <5> QED
          BY <5>2, <5>3, PayloadGood
      <4>2. {"SHUT_RD"} \in SUBSET {"SHUT_RD", "SHUT_WR", "RESET_STREAM_RECVED", "ANY_SENT"}
        OBVIOUS
      <4>3. Plain(a) /\ SameWindows(d, a) /\ a.role = d.role /\ a.err = d.err
        <5>1. s \in d.live /\ a = CloseStreamIfShutRdWr(SetFlags(d, s, {"SHUT_RD"}), s)
          BY <3>1, <3>3, <3>5, <3>9
        <5> HIDE DEF a
        <5> QED
          BY <3>1, <3>7, <4>1, <4>2, <5>1, PlainEnd
      <4>4. \A t \in StreamIds : d.strm[t].txMax = c.strm[t].txMax
        BY <3>1, <3>4, <3>6
      <4>5. a.live \subseteq StreamIds
        <5>1. a = RecvStream(c, f) /\ RecvStreamError(c, f) = "NONE"
          BY <1>5, <2>1 DEF RecvAccepted, RecvError
        <5>2. Good(RecvStream(c, f))
          BY <2>1, <5>1, PlainFrameView, RecvStreamGood
        <5> HIDE DEF a
        <5> QED
          BY <5>1, <5>2, Fields
      <4> HIDE DEF a
      <4> QED
        BY <3>1, <3>3, <4>3, <4>4, <4>5 DEF SameWindows
    <3> QED
      BY <3>8, <3>9
  <2>2. CASE f.t = "RESET_STREAM"
    <3>1. /\ Good(b) /\ Plain(b) /\ b.strm = c.strm /\ b.live = c.live \cup {s}
          /\ b.role = c.role /\ b.err = c.err /\ s \in StreamIds
      BY <1>1, <2>2, PlainOpen
    <3>2. a = CloseStreamIfShutRdWr(SetFlags(b, s, {"SHUT_RD", "RESET_STREAM_RECVED"}), s)
      BY <2>2 DEF RecvAccepted, RecvResetStream
    <3> HIDE DEF b, a
    <3>3. {"SHUT_RD", "RESET_STREAM_RECVED"}
            \in SUBSET {"SHUT_RD", "SHUT_WR", "RESET_STREAM_RECVED", "ANY_SENT"}
      OBVIOUS
    <3>4. Plain(a) /\ SameWindows(b, a) /\ a.role = b.role /\ a.err = b.err
      BY <3>1, <3>2, <3>3, PlainEnd
    <3> QED
      BY <3>1, <3>4 DEF SameWindows
  <2>3. CASE f.t \in {"MAX_DATA", "MAX_STREAMS"}
    <3>1. /\ a.role = c.role /\ a.err = c.err /\ a.live = c.live /\ a.strm = c.strm
          /\ a.ping = c.ping /\ a.pong = c.pong
      BY <1>2, <2>3 DEF ConnType, RecvAccepted, RecvMaxData, RecvMaxStreams
    <3> HIDE DEF a
    <3> QED
      BY <3>1 DEF Plain, SameWindows
  <2>4. CASE f.t \in {"DATA_BLOCKED", "STREAM_DATA_BLOCKED"}
    BY <2>4 DEF RecvAccepted, SameWindows
  <2> QED
    BY <1>1, <2>1, <2>2, <2>3, <2>4
<1> QED
  BY <1>3, <1>4, <1>5 DEF Recv

\* conn_recv_stream_data.
LEMMA PayloadPlain ==
  ASSUME NEW c, Good(c), Sound(c), Plain(c), NEW n \in 1..c.rd.left
  PROVE  LET d == RecvStreamData(c, n) IN
         /\ Plain(d) /\ d.role = c.role /\ SameWindows(c, d) /\ d.err = c.err
<1> DEFINE s == c.rd.id
           d == [c EXCEPT !.rd = Rest(@, n)]
<1>1. c.rd # Idle /\ c.rd \in [id : StreamIds, left : 1..MaxVarint, fin : BOOLEAN]
  BY Fields DEF Idle
<1>2. s \in StreamIds /\ s \in c.live
  BY <1>1, PayloadId DEF Sound, SoundBut
<1>3. c \in ConnType
  BY DEF Good
<1>4. /\ d.role = c.role /\ d.err = c.err /\ d.live = c.live /\ d.strm = c.strm
      /\ d.ping = c.ping /\ d.pong = c.pong
  BY <1>3 DEF ConnType
<1>5. Good(d)
  BY <1>1, RestType, PayloadGood
<1>6. Plain(d) /\ SameWindows(c, d)
  BY <1>4 DEF Plain, SameWindows
<1>7. RecvStreamData(c, n) = IF c.rd.fin /\ n = c.rd.left
                               THEN CloseStreamIfShutRdWr(SetFlags(d, s, {"SHUT_RD"}), s) ELSE d
  BY <1>2 DEF RecvStreamData, Plain, PlainStrm
<1> HIDE DEF d
<1>8. LET e == CloseStreamIfShutRdWr(SetFlags(d, s, {"SHUT_RD"}), s) IN
      Plain(e) /\ SameWindows(d, e) /\ e.role = d.role /\ e.err = d.err
  <2>1. {"SHUT_RD"} \in SUBSET {"SHUT_RD", "SHUT_WR", "RESET_STREAM_RECVED", "ANY_SENT"}
    OBVIOUS
  <2>2. s \in d.live
    BY <1>2, <1>4
  <2> QED
    BY <1>2, <1>5, <1>6, <2>1, <2>2, PlainEnd
<1> QED
  BY <1>4, <1>6, <1>7, <1>8 DEF SameWindows

-----------------------------------------------------------------------------
(* Calls                                                                   *)

\* The fields that a call of the application leaves alone.
LEMMA OwnFields ==
  ASSUME NEW c, c \in ConnType, NEW s \in StreamIds, NEW F \in SUBSET Flag
  PROVE  /\ \A d \in {SetFlags(c, s, F), PushIfNot(c, s)} :
              /\ d.role = c.role /\ d.err = c.err /\ d.idtr = c.idtr /\ d.rxOff = c.rxOff
              /\ d.glitch = c.glitch /\ d.rd = c.rd /\ d.txMax = c.txMax
              /\ d.txStreams = c.txStreams /\ d.ping = c.ping /\ d.pong = c.pong
              /\ d.live = c.live
         /\ PushIfNot(c, s).strm = c.strm
         /\ SetFlags(c, s, F).strm = [c.strm EXCEPT ![s] = [c.strm[s] EXCEPT !.flags = @ \cup F]]
BY DEF ConnType, SetFlags, PushIfNot

\* dwnx_conn_shutdown_stream_write.
LEMMA ShutdownOwn ==
  ASSUME NEW c, Fit(c), NEW s \in StreamIds
  PROVE  OwnStep(c, ShutdownStreamWrite(c, s))
<1> DEFINE F == {"SHUT_WR"}
           G == {"SEND_RESET_STREAM", "RESET_STREAM"}
           a == SetFlags(c, s, F)
           b == SetFlags(a, s, G)
           d == PushIfNot(b, s)
<1>1. Good(c) /\ Sound(c) /\ Plain(c) /\ c \in ConnType /\ F \in SUBSET Flag /\ G \in SUBSET Flag
  BY DEF Fit, Good, Flag
<1>2. CASE s \notin c.live \/ "SHUT_WR" \in c.strm[s].flags
  BY <1>2 DEF ShutdownStreamWrite, OwnStep, Fit, SameWindows
<1>3. CASE s \in c.live /\ "SHUT_WR" \notin c.strm[s].flags
  <2>1. d = ShutdownStreamWrite(c, s)
    BY <1>3 DEF ShutdownStreamWrite, ScheduleReset
  <2>2. Good(d) /\ Sound(d)
    BY <1>1, <2>1, ShutdownGood, ShutdownSound
  <2>3. Good(a) /\ a \in ConnType
    <3>1. Good(a)
      BY <1>1, SetFlagsGood
    <3> QED
      BY <3>1 DEF Good
  <2>4. Good(b) /\ b \in ConnType
    <3>1. Good(b)
      BY <1>1, <2>3, SetFlagsGood
    <3> QED
      BY <3>1 DEF Good
  <2> HIDE DEF F, G
  <2>5. /\ a.role = c.role /\ a.err = c.err /\ a.idtr = c.idtr /\ a.rxOff = c.rxOff
        /\ a.glitch = c.glitch /\ a.rd = c.rd /\ a.txMax = c.txMax
        /\ a.txStreams = c.txStreams /\ a.ping = c.ping /\ a.pong = c.pong /\ a.live = c.live
        /\ a.strm = [c.strm EXCEPT ![s] = [c.strm[s] EXCEPT !.flags = @ \cup F]]
    BY <1>1, OwnFields
  <2> HIDE DEF a
  <2>6. /\ b.role = a.role /\ b.err = a.err /\ b.idtr = a.idtr /\ b.rxOff = a.rxOff
        /\ b.glitch = a.glitch /\ b.rd = a.rd /\ b.txMax = a.txMax
        /\ b.txStreams = a.txStreams /\ b.ping = a.ping /\ b.pong = a.pong /\ b.live = a.live
        /\ b.strm = [a.strm EXCEPT ![s] = [a.strm[s] EXCEPT !.flags = @ \cup G]]
    BY <1>1, <2>3, OwnFields
  <2> HIDE DEF b
  <2>7. /\ d.role = b.role /\ d.err = b.err /\ d.idtr = b.idtr /\ d.rxOff = b.rxOff
        /\ d.glitch = b.glitch /\ d.rd = b.rd /\ d.txMax = b.txMax
        /\ d.txStreams = b.txStreams /\ d.ping = b.ping /\ d.pong = b.pong /\ d.live = b.live
        /\ d.strm = b.strm
    BY <1>1, <2>4, OwnFields
  <2> HIDE DEF d
  <2>8. c.strm \in [StreamIds -> StrmType] /\ c.live \subseteq StreamIds
    BY <1>1 DEF ConnType
  <2>9. /\ \A t \in StreamIds \ {s} : d.strm[t] = c.strm[t]
        /\ PlainStrm(d.strm[s]) /\ d.strm[s].txMax = c.strm[s].txMax
    <3>1. PlainStrm(c.strm[s]) /\ c.strm[s] \in StrmType
      BY <1>1, <2>8 DEF Plain
    <3> DEFINE x == [c.strm[s] EXCEPT !.flags = @ \cup F]
               y == [x EXCEPT !.flags = @ \cup G]
    <3>2. x.flags = c.strm[s].flags \cup F /\ x.txMax = c.strm[s].txMax
          /\ x.rxUnsent = c.strm[s].rxUnsent /\ x.rxMax = c.strm[s].rxMax
          /\ y.flags = c.strm[s].flags \cup F \cup G /\ y.txMax = c.strm[s].txMax
          /\ y.rxUnsent = c.strm[s].rxUnsent /\ y.rxMax = c.strm[s].rxMax
      BY <3>1 DEF StrmType
    <3>3. PlainStrm(y)
      BY <3>1, <3>2 DEF PlainStrm, F, G
    <3>4. a.strm[s] = x /\ \A t \in StreamIds \ {s} : a.strm[t] = c.strm[t]
      BY <2>5, <2>8
    <3>5. a.strm \in [StreamIds -> StrmType]
      BY <2>3 DEF ConnType
    <3> HIDE DEF x
    <3>6. b.strm[s] = y /\ \A t \in StreamIds \ {s} : b.strm[t] = a.strm[t]
      BY <2>6, <3>4, <3>5
    <3> HIDE DEF y
    <3> QED
      BY <2>7, <3>2, <3>3, <3>4, <3>6
  <2>10. Plain(d)
    <3>1. d.role = c.role /\ d.live = c.live /\ d.ping = c.ping /\ d.pong = c.pong
      BY <2>5, <2>6, <2>7
    <3> QED
      BY <1>1, <1>3, <2>9, <3>1 DEF Plain
  <2> QED
    BY <2>1, <2>2, <2>5, <2>6, <2>7, <2>8, <2>9, <2>10 DEF OwnStep, Fit, SameWindows
<1> QED
  BY <1>2, <1>3

\* dwnx_conn_extend_max_offset, dwnx_conn_extend_max_streams_bidi and its
\* sibling.
LEMMA ExtendOwn ==
  ASSUME NEW c, Fit(c), NEW n \in Nat, NEW i \in Direction
  PROVE  OwnStep(c, ExtendMaxOffset(c, n)) /\ OwnStep(c, ExtendMaxStreams(c, i, n))
<1>1. Good(c) /\ Sound(c) /\ Plain(c) /\ c \in ConnType
  BY DEF Fit, Good
<1>2. ASSUME NEW d, d \in {ExtendMaxOffset(c, n), ExtendMaxStreams(c, i, n)}
      PROVE  OwnStep(c, d)
  <2>1. Good(d) /\ Sound(d)
    BY <1>1, <1>2, ExtendGood, ExtendSound
  <2>2. /\ d.role = c.role /\ d.err = c.err /\ d.idtr = c.idtr /\ d.rxOff = c.rxOff
        /\ d.glitch = c.glitch /\ d.rd = c.rd /\ d.txMax = c.txMax
        /\ d.txStreams = c.txStreams /\ d.ping = c.ping /\ d.pong = c.pong
        /\ d.live = c.live /\ d.strm = c.strm
    BY <1>1, <1>2 DEF ConnType, ExtendMaxOffset, ExtendMaxStreams
  <2>3. Plain(d)
    BY <1>1, <2>2 DEF Plain
  <2> QED
    BY <2>1, <2>2, <2>3 DEF OwnStep, Fit, SameWindows
<1> QED
  BY <1>2

\* dwnx_qre_final.
LEMMA FinishOwn ==
  ASSUME NEW c, Fit(c)
  PROVE  OwnStep(c, FinishRecord(c)) /\ FinishRecord(c).qre = NoRecord
<1> DEFINE d == FinishRecord(c)
<1>1. Good(c) /\ Sound(c) /\ Plain(c) /\ c \in ConnType
  BY DEF Fit, Good
<1>2. Good(d) /\ Sound(d)
  BY <1>1, FinishRecordGood, FinishRecordSound
<1>3. /\ d.role = c.role /\ d.err = c.err /\ d.idtr = c.idtr /\ d.rxOff = c.rxOff
      /\ d.glitch = c.glitch /\ d.rd = c.rd /\ d.txMax = c.txMax
      /\ d.txStreams = c.txStreams /\ d.ping = c.ping /\ d.pong = c.pong
      /\ d.live = c.live /\ d.strm = c.strm /\ d.qre = NoRecord
  BY <1>1 DEF ConnType, FinishRecord, NoRecord
<1> HIDE DEF d
<1>4. Plain(d)
  BY <1>1, <1>3 DEF Plain
<1> QED
  BY <1>2, <1>3, <1>4 DEF OwnStep, Fit, SameWindows, d

-----------------------------------------------------------------------------
(* Writing                                                                 *)

\* Streams that end when their RESET_STREAM is written.
Freeing(c) == {s \in c.strmq : ClosesOnReset(c, s)}

\* A stream whose RESET_STREAM was written.
ResetSent(x) == [x EXCEPT !.flags = @ \ {"SEND_RESET_STREAM"}]

\* What waits to be written.
LEMMA WaitingFrames ==
  ASSUME NEW c, Fit(c)
  PROVE  /\ \A s \in c.strmq : StreamFrames(c, s) = ResetFrames(c, s)
         /\ \A s \in c.strmq : CreditFrames(c, s) = {} /\ StopFrames(c, s) = {}
         /\ PongFrames(c) = {}
         /\ CtrlFrames(c) = MaxDataFrames(c) \cup (UNION {ResetFrames(c, s) : s \in c.strmq})
                            \cup MaxStreamsFrames(c)
<1>1. Good(c) /\ Plain(c) /\ c.strmq \subseteq StreamIds
  BY Fields DEF Fit
<1>2. ASSUME NEW s \in c.strmq
      PROVE  /\ StreamFrames(c, s) = ResetFrames(c, s)
             /\ CreditFrames(c, s) = {} /\ StopFrames(c, s) = {}
  <2> DEFINE x == c.strm[s]
  <2>1. /\ x.flags \cap {"STOP_SENDING", "SEND_STOP_SENDING", "SEND_STREAM_DATA_BLOCKED"} = {}
        /\ x.rxUnsent = x.rxMax /\ s \in StreamIds
    BY <1>1 DEF Plain, PlainStrm
  <2>2. InitialMaxRx(c.role, s) \in Nat
    <3>1. NewStrm(c.role, s) \in StrmType
      BY <1>1, <2>1, Fields, NewStrmGood
    <3>2. NewStrm(c.role, s).rxMax = InitialMaxRx(c.role, s)
      BY DEF NewStrm
    <3> QED
      BY <3>1, <3>2 DEF StrmType, Offset
  <2>3. x.rxUnsent \in Nat /\ x.rxMax \in Nat
    BY <1>1, <2>1, Numbers
  <2>4. ~NeedsCredit(c, s)
    BY <2>1, <2>2, <2>3 DEF NeedsCredit, ShouldSendMaxStreamData
  <2>5. s \notin Reporting(c)
    BY <2>1 DEF Reporting
  <2>6. StopFrames(c, s) = {}
    BY <2>1 DEF StopFrames
  <2>7. CreditFrames(c, s) = {}
    BY <2>4 DEF CreditFrames
  <2>8. BlockedFrames(c, s) = {}
    BY <2>5 DEF BlockedFrames
  <2> QED
    BY <2>6, <2>7, <2>8 DEF StreamFrames
<1>3. PongFrames(c) = {}
  BY <1>1 DEF PongFrames, Plain
<1> DEFINE Q == UNION {ResetFrames(c, s) : s \in c.strmq}
<1>4. QueueFrames(c) = Q
  BY <1>2 DEF QueueFrames
<1> HIDE DEF Q
<1>5. CtrlFrames(c) = MaxDataFrames(c) \cup Q \cup MaxStreamsFrames(c)
  BY <1>3, <1>4 DEF CtrlFrames, HeadFrames
<1>6. CtrlFrames(c) = MaxDataFrames(c) \cup (UNION {ResetFrames(c, s) : s \in c.strmq})
                       \cup MaxStreamsFrames(c)
  BY ONLY <1>5, Zenon DEF Q
<1>7. \A s \in c.strmq : /\ StreamFrames(c, s) = ResetFrames(c, s)
                          /\ CreditFrames(c, s) = {} /\ StopFrames(c, s) = {}
  <2> TAKE s \in c.strmq
  <2> QED
    BY ONLY <1>2, s \in c.strmq
<1> QED
  BY ONLY <1>3, <1>6, <1>7

\* dwnx_conn_write_ctrl_frames, when there is room for all.
LEMMA CtrlView ==
  ASSUME NEW c, Fit(c)
  PROVE  LET out == CtrlFrames(c)
             d == WithCtrl(c)
         IN
         /\ out \in SUBSET PlainFrame
         /\ \A f \in out : f.t \in {"RESET_STREAM", "MAX_DATA", "MAX_STREAMS"}
         /\ d.live = c.live \ Freeing(c) /\ d.strmq = {}
         /\ d.strm = [s \in StreamIds |-> IF s \in Freeing(c) THEN NewStrm(c.role, s)
                                          ELSE IF s \in c.strmq THEN ResetSent(c.strm[s])
                                          ELSE c.strm[s]]
         /\ d.rxMax = IF MaxDataFrames(c) \cap out # {} THEN c.rxUnsent ELSE c.rxMax
         /\ d.rxStreams = [i \in Direction |->
                             IF MaxStreamsFr(i, c.rxUnsentStreams[i]) \in out
                               THEN c.rxUnsentStreams[i] ELSE c.rxStreams[i]]
         /\ d.qre = [started |-> TRUE, frames |-> Batch(<< >>, out)]
         /\ d.role = c.role /\ d.idtr = c.idtr /\ d.next = c.next
         /\ d.txStreams = c.txStreams /\ d.rxUnsentStreams = c.rxUnsentStreams
         /\ d.txOff = c.txOff /\ d.txMax = c.txMax /\ d.txBlocked = c.txBlocked
         /\ d.rxOff = c.rxOff /\ d.rxUnsent = c.rxUnsent /\ d.ping = c.ping
         /\ d.pong = c.pong /\ d.glitch = c.glitch /\ d.rd = c.rd /\ d.err = c.err
<1> DEFINE out == CtrlFrames(c)
<1>1. Good(c) /\ Plain(c) /\ c \in ConnType /\ c.strmq \subseteq StreamIds
  BY DEF Fit, Good, ConnType
<1>2. /\ \A s \in c.strmq : StreamFrames(c, s) = ResetFrames(c, s)
      /\ \A s \in c.strmq : CreditFrames(c, s) = {} /\ StopFrames(c, s) = {}
      /\ PongFrames(c) = {} /\ out \in SUBSET Frame
      /\ out = MaxDataFrames(c) \cup (UNION {ResetFrames(c, s) : s \in c.strmq})
                 \cup MaxStreamsFrames(c)
  <2>1. out \in SUBSET Frame
    BY <1>1, FramesType
  <2> QED
    BY <2>1, WaitingFrames
<1>3. \A f \in out : f.t \in {"RESET_STREAM", "MAX_DATA", "MAX_STREAMS"}
  <2>1. \A f \in MaxDataFrames(c) : f.t = "MAX_DATA"
    BY DEF MaxDataFrames, MaxDataFr
  <2>2. \A f \in MaxStreamsFrames(c) : f.t = "MAX_STREAMS"
    BY DEF MaxStreamsFrames, MaxStreamsFr
  <2>3. \A s : \A f \in ResetFrames(c, s) : f.t = "RESET_STREAM"
    BY DEF ResetFrames, ResetStreamFr
  <2>4. \A f \in UNION {ResetFrames(c, s) : s \in c.strmq} : f.t = "RESET_STREAM"
    BY ONLY <2>3
  <2> DEFINE Q == UNION {ResetFrames(c, s) : s \in c.strmq}
  <2>5. out = MaxDataFrames(c) \cup Q \cup MaxStreamsFrames(c)
    BY ONLY <1>2, Zenon
  <2>6. \A f \in Q : f.t = "RESET_STREAM"
    BY ONLY <2>4
  <2> HIDE DEF Q, out
  <2> QED
    BY ONLY <2>1, <2>2, <2>5, <2>6
<1>4. out \in SUBSET PlainFrame
  <2>1. out \in SUBSET Frame
    BY <1>2
  <2> SUFFICES ASSUME NEW f \in out PROVE f \in PlainFrame
    OBVIOUS
  <2>2. f \in Frame /\ f.t \in {"RESET_STREAM", "MAX_DATA", "MAX_STREAMS"}
    BY <2>1, <1>3
  <2> HIDE DEF out
  <2> QED
    BY <2>2 DEF PlainFrame
<1>5. \A s : DataBlockedFrames(c, s) \cap out = {} /\ StreamDataBlockedFrames(c, s) \cap out = {}
  BY <1>3 DEF DataBlockedFrames, StreamDataBlockedFrames, DataBlockedFr, StreamDataBlockedFr
<1>6. \A s \in c.strmq : Reached(c, s, out) /\ StreamFrames(c, s) \subseteq out
  BY <1>2 DEF Reached, HeadFrames
<1>7. Popped(c, out) = c.strmq
  BY <1>6 DEF Popped
<1>8. \A s \in c.strmq : AfterTurn(c, s, out) = ResetSent(c.strm[s])
  <2> TAKE s \in c.strmq
  <2> DEFINE x == c.strm[s]
  <2>1. x.flags \cap {"STOP_SENDING", "SEND_STOP_SENDING", "SEND_STREAM_DATA_BLOCKED"} = {}
    BY <1>1 DEF Plain, PlainStrm
  <2>2. Cleared(c, s, out) = {"SEND_RESET_STREAM", "SEND_STOP_SENDING", "SEND_STREAM_DATA_BLOCKED"}
    BY <1>2, <1>6, <1>7 DEF Cleared
  <2>3. x.flags \ Cleared(c, s, out) = x.flags \ {"SEND_RESET_STREAM"}
    BY <2>1, <2>2
  <2>4. x \in StrmType
    BY <1>1 DEF ConnType
  <2>5. AfterTurn(c, s, out) = [x EXCEPT !.flags = @ \ Cleared(c, s, out),
                                         !.rxMax = @, !.txBlocked = @]
    BY <1>2, <1>5 DEF AfterTurn
  <2> QED
    BY <2>3, <2>4, <2>5 DEF ResetSent, StrmType
<1>9. {s \in Popped(c, out) : ClosesOnReset(c, s)} = Freeing(c)
  BY <1>7 DEF Freeing
<1> HIDE DEF out
<1> DEFINE d == [c EXCEPT
     !.live  = @ \ Freeing(c),
     !.strmq = @ \ c.strmq,
     !.strm  = [s \in StreamIds |-> IF s \in Freeing(c) THEN NewStrm(c.role, s)
                                    ELSE IF s \in c.strmq THEN ResetSent(c.strm[s])
                                    ELSE c.strm[s]],
     !.rxMax = IF MaxDataFrames(c) \cap out # {} THEN c.rxUnsent ELSE @,
     !.pong  = @,
     !.txBlocked = @,
     !.rxStreams = [i \in Direction |->
                      IF MaxStreamsFr(i, c.rxUnsentStreams[i]) \in out
                        THEN c.rxUnsentStreams[i] ELSE c.rxStreams[i]],
     !.qre = [started |-> TRUE, frames |-> Batch(<< >>, out)]]
<1>10. WriteCtrlFrames(c, out) = d
  <2>1. PongFrames(c) \cap out = {} /\ ~ \E s \in c.strmq : DataBlockedFrames(c, s) \cap out # {}
    BY <1>2, <1>5
  <2>2. [s \in StreamIds |-> IF s \in Freeing(c) THEN NewStrm(c.role, s)
                             ELSE IF s \in c.strmq THEN AfterTurn(c, s, out) ELSE c.strm[s]]
        = [s \in StreamIds |-> IF s \in Freeing(c) THEN NewStrm(c.role, s)
                               ELSE IF s \in c.strmq THEN ResetSent(c.strm[s]) ELSE c.strm[s]]
    BY <1>8
  <2> QED
    BY <1>7, <1>9, <2>1, <2>2 DEF WriteCtrlFrames
<1>11. WithCtrl(c) = d
  BY <1>10 DEF WithCtrl, out
<1>12. /\ d.live = c.live \ Freeing(c) /\ d.strmq = {}
       /\ d.rxMax = IF MaxDataFrames(c) \cap out # {} THEN c.rxUnsent ELSE c.rxMax
       /\ d.qre = [started |-> TRUE, frames |-> Batch(<< >>, out)]
       /\ d.role = c.role /\ d.idtr = c.idtr /\ d.next = c.next
       /\ d.txStreams = c.txStreams /\ d.rxUnsentStreams = c.rxUnsentStreams
       /\ d.txOff = c.txOff /\ d.txMax = c.txMax /\ d.txBlocked = c.txBlocked
       /\ d.rxOff = c.rxOff /\ d.rxUnsent = c.rxUnsent /\ d.ping = c.ping
       /\ d.pong = c.pong /\ d.glitch = c.glitch /\ d.rd = c.rd /\ d.err = c.err
  BY <1>1 DEF ConnType
<1>13. /\ d.strm = [s \in StreamIds |-> IF s \in Freeing(c) THEN NewStrm(c.role, s)
                                        ELSE IF s \in c.strmq THEN ResetSent(c.strm[s])
                                        ELSE c.strm[s]]
       /\ d.rxStreams = [i \in Direction |->
                           IF MaxStreamsFr(i, c.rxUnsentStreams[i]) \in out
                             THEN c.rxUnsentStreams[i] ELSE c.rxStreams[i]]
  BY <1>1 DEF ConnType
<1> HIDE DEF d
<1> QED
  BY <1>3, <1>4, <1>11, <1>12, <1>13 DEF out

-----------------------------------------------------------------------------
(* The limits that the server announces, and those that were remembered    *)

\* Every stream has the window that was announced for it.
Settled(c) == \A s \in StreamIds : c.strm[s].txMax = InitialMaxTx(c.role, s)

\* The connection c, if it had known the limits of its peer from the start.
Lift(c, m, n) ==
  [c EXCEPT !.txMax = m, !.txStreams = n,
            !.strm = [s \in StreamIds |-> [c.strm[s] EXCEPT !.txMax = InitialMaxTx(c.role, s)]]]

\* They are no lower than those it works with.
Below(c, m, n) ==
  /\ m \in Offset /\ c.txMax <= m
  /\ n \in [Direction -> 0..MaxStreams] /\ \A d \in Direction : c.txStreams[d] <= n[d]
  /\ \A s \in c.live : c.strm[s].txMax <= InitialMaxTx(c.role, s)

\* The limits of a stream are varints.
LEMMA WindowType ==
  ASSUME NEW r \in Role, NEW s \in StreamIds
  PROVE  InitialMaxTx(r, s) \in Offset /\ InitialMaxTx(r, s) \in Nat
<1>1. NewStrm(r, s) \in StrmType /\ NewStrm(r, s).txMax = InitialMaxTx(r, s)
  BY NewStrmGood, NewStrmPlain
<1> QED
  BY <1>1 DEF StrmType, Offset

\* The fields of such a connection.
LEMMA LiftStreams ==
  ASSUME NEW c, c \in ConnType, NEW m, NEW n
  PROVE  Lift(c, m, n).strm = [s \in StreamIds |->
                                 [c.strm[s] EXCEPT !.txMax = InitialMaxTx(c.role, s)]]
BY DEF Lift, ConnType

\* Those that are not about its streams.
LEMMA LiftView ==
  ASSUME NEW c, c \in ConnType, NEW m, NEW n
  PROVE  LET d == Lift(c, m, n) IN
         /\ d.txMax = m /\ d.txStreams = n
         /\ d.role = c.role /\ d.live = c.live /\ d.strmq = c.strmq /\ d.idtr = c.idtr
         /\ d.next = c.next /\ d.rxStreams = c.rxStreams
         /\ d.rxUnsentStreams = c.rxUnsentStreams /\ d.txOff = c.txOff
         /\ d.txBlocked = c.txBlocked /\ d.rxOff = c.rxOff /\ d.rxMax = c.rxMax
         /\ d.rxUnsent = c.rxUnsent /\ d.ping = c.ping /\ d.pong = c.pong
         /\ d.glitch = c.glitch /\ d.rd = c.rd /\ d.qre = c.qre /\ d.err = c.err
BY DEF Lift, ConnType

\* The fields of its streams.
LEMMA LiftStrm ==
  ASSUME NEW c, c \in ConnType, NEW m, NEW n, NEW s \in StreamIds
  PROVE  LET x == c.strm[s]  y == Lift(c, m, n).strm[s] IN
         /\ y = [x EXCEPT !.txMax = InitialMaxTx(c.role, s)]
         /\ y.txMax = InitialMaxTx(c.role, s)
         /\ y.flags = x.flags /\ y.txOff = x.txOff /\ y.rxLast = x.rxLast
         /\ y.rxMax = x.rxMax /\ y.rxUnsent = x.rxUnsent /\ y.txBlocked = x.txBlocked
<1>1. c.strm[s] \in StrmType
  BY DEF ConnType
<1> DEFINE z == Lift(c, m, n).strm
<1>2. Lift(c, m, n).strm[s] = [c.strm[s] EXCEPT !.txMax = InitialMaxTx(c.role, s)]
  <2>1. z = [t \in StreamIds |-> [c.strm[t] EXCEPT !.txMax = InitialMaxTx(c.role, t)]]
    BY LiftStreams
  <2> HIDE DEF z
  <2>2. z[s] = [c.strm[s] EXCEPT !.txMax = InitialMaxTx(c.role, s)]
    BY ONLY <2>1, s \in StreamIds
  <2> QED
    BY <2>2 DEF z
<1> QED
  BY <1>1, <1>2 DEF StrmType

\* A stream that is not in the map is lifted to itself.
LEMMA LiftNew ==
  ASSUME NEW r \in Role, NEW s \in StreamIds
  PROVE  [NewStrm(r, s) EXCEPT !.txMax = InitialMaxTx(r, s)] = NewStrm(r, s)
<1>1. NewStrm(r, s) \in StrmType /\ NewStrm(r, s).txMax = InitialMaxTx(r, s)
  BY NewStrmGood, NewStrmPlain
<1> QED
  BY <1>1 DEF StrmType

\* Nothing but limits of the sender change.
LEMMA LiftFit ==
  ASSUME NEW c, Fit(c), NEW m, NEW n, Below(c, m, n)
  PROVE  LET d == Lift(c, m, n) IN
         /\ Fit(d) /\ Settled(d) /\ Kept(c, d) /\ d \in ConnType
<1> DEFINE d == Lift(c, m, n)
<1>1. Good(c) /\ Sound(c) /\ Plain(c) /\ c \in ConnType /\ c.role \in Role
  BY Fields DEF Fit, Good
<1>2. \A s \in StreamIds : c.strm[s].txMax <= InitialMaxTx(c.role, s)
  <2> TAKE s \in StreamIds
  <2>1. CASE s \in c.live
    BY <2>1 DEF Below
  <2>2. CASE s \notin c.live
    <3>1. c.strm[s].txMax = InitialMaxTx(c.role, s)
      BY <1>1, <2>2, NewStrmPlain DEF Plain
    <3> QED
      BY <1>1, <3>1, WindowType
  <2> QED
    BY <2>1, <2>2
<1>3. \A s \in StreamIds : /\ d.strm[s].txMax = InitialMaxTx(c.role, s)
                           /\ d.strm[s] = [c.strm[s] EXCEPT !.txMax = InitialMaxTx(c.role, s)]
                           /\ d.strm[s].txOff = c.strm[s].txOff
                           /\ d.strm[s].flags = c.strm[s].flags
                           /\ d.strm[s].rxLast = c.strm[s].rxLast
                           /\ d.strm[s].rxMax = c.strm[s].rxMax
                           /\ d.strm[s].rxUnsent = c.strm[s].rxUnsent
  BY <1>1, LiftStrm
<1>4. \A s \in StreamIds : d.strm[s] \in StrmType /\ StrmCredit(d.strm[s])
  <2> TAKE s \in StreamIds
  <2>1. c.strm[s] \in StrmType /\ StrmCredit(c.strm[s])
    BY <1>1, Fields
  <2>2. InitialMaxTx(c.role, s) \in Offset /\ InitialMaxTx(c.role, s) \in Nat
    BY <1>1, WindowType
  <2>3. d.strm[s] = [c.strm[s] EXCEPT !.txMax = InitialMaxTx(c.role, s)]
    BY <1>1, LiftStrm
  <2>4. d.strm[s] \in StrmType
    BY <2>1, <2>2, <2>3 DEF StrmType
  <2>5. c.strm[s].txOff <= InitialMaxTx(c.role, s)
    BY <1>1, <1>2, <2>2, Numbers
  <2> HIDE DEF d
  <2>6. StrmCredit(d.strm[s])
    BY <1>3, <2>1, <2>5 DEF StrmCredit
  <2> QED
    BY <2>4, <2>6
<1>5. d.strm = [s \in StreamIds |-> d.strm[s]]
  <2>1. d.strm = [s \in StreamIds |-> [c.strm[s] EXCEPT !.txMax = InitialMaxTx(c.role, s)]]
    BY <1>1, LiftStreams
  <2> HIDE DEF d
  <2> QED
    BY ONLY <2>1
<1>6. d.strm \in [StreamIds -> StrmType]
  BY <1>4, <1>5
<1>7. d \in ConnType
  <2>1. d = [c EXCEPT !.txMax = m, !.txStreams = n, !.strm = d.strm]
    BY <1>1, LiftView DEF Lift
  <2> HIDE DEF d
  <2> QED
    BY <1>1, <1>6, <2>1 DEF ConnType, Below
<1>8. /\ d.txMax = m /\ d.txStreams = n /\ d.role = c.role /\ d.live = c.live
      /\ d.strmq = c.strmq /\ d.idtr = c.idtr /\ d.next = c.next
      /\ d.rxStreams = c.rxStreams /\ d.rxUnsentStreams = c.rxUnsentStreams
      /\ d.txOff = c.txOff /\ d.rxOff = c.rxOff /\ d.rxMax = c.rxMax
      /\ d.rxUnsent = c.rxUnsent /\ d.ping = c.ping /\ d.pong = c.pong /\ d.rd = c.rd
  BY <1>1, LiftView
<1> HIDE DEF d
<1>9. Good(d)
  <2>1. d.txOff <= d.txMax
    BY <1>1, <1>8, Numbers DEF Below, Offset
  <2>2. d.rxOff <= d.rxMax /\ d.rxMax <= d.rxUnsent
    BY <1>1, <1>8, Fields
  <2> QED
    BY <1>4, <1>7, <2>1, <2>2 DEF Good, ConnCredit
<1>10. WithinStreamLimits(d) /\ Kept(c, d)
  <2>1. WithinStreamLimits(c) /\ \A i \in Direction : c.rxStreams[i] <= c.rxUnsentStreams[i]
    BY <1>1 DEF Sound, SoundBut, WithinStreamLimits
  <2>2. \A i \in Direction : /\ c.txStreams[i] <= d.txStreams[i]
                             /\ c.rxStreams[i] <= d.rxStreams[i]
                             /\ d.rxStreams[i] <= d.rxUnsentStreams[i]
    BY <1>1, <1>8, <2>1, Numbers DEF Below
  <2> QED
    BY <1>1, <1>8, <1>9, <2>1, <2>2, LimitsKept
<1>11. Sound(d)
  <2>1. d.strmq \subseteq d.live
    BY <1>1, <1>8 DEF Sound, SoundBut
  <2>2. \A s \in d.live : s \in StreamIds /\ s \in c.live
    BY <1>1, <1>8, Fields
  <2>3. \A s \in d.live : Asks(d.role, s, d.strm[s]) => s \in d.strmq
    BY <1>1, <1>8, <1>3, <2>2 DEF Sound, SoundBut, Asks
  <2>4. \A s \in d.live : ~ShouldCloseStream(d.strm[s])
    BY <1>1, <1>8, <1>3, <2>2 DEF Sound, SoundBut, ShouldCloseStream
  <2>5. PayloadOpen(d)
    <3>1. CASE c.rd = Idle
      BY <1>8, <3>1 DEF PayloadOpen
    <3>2. CASE c.rd # Idle
      <4>1. c.rd.id \in StreamIds
        BY <1>1, <3>2, PayloadId DEF Sound, SoundBut
      <4> QED
        BY <1>1, <1>8, <1>3, <4>1 DEF Sound, SoundBut, PayloadOpen
    <3> QED
      BY <3>1, <3>2
  <2>6. NextLocal(d)
    BY <1>1, <1>8 DEF Sound, SoundBut, NextLocal
  <2> QED
    BY <1>10, <2>1, <2>3, <2>4, <2>5, <2>6 DEF Sound, SoundBut
<1>12. Plain(d)
  <2>1. \A s \in StreamIds : PlainStrm(d.strm[s])
    BY <1>1, <1>3 DEF Plain, PlainStrm
  <2>2. \A s \in StreamIds : s \notin d.live => d.strm[s] = NewStrm(d.role, s)
    BY <1>1, <1>8, <1>3, LiftNew DEF Plain
  <2> QED
    BY <1>1, <1>8, <2>1, <2>2 DEF Plain
<1>13. Settled(d)
  BY <1>8, <1>3 DEF Settled
<1> QED
  BY <1>7, <1>9, <1>10, <1>11, <1>12, <1>13 DEF Fit, d

-----------------------------------------------------------------------------
(* Writing, one connection                                                 *)

\* A call that follows another.
LEMMA OwnTwice ==
  ASSUME NEW c, NEW d, OwnStep(c, d), NEW e, OwnStep(d, e)
  PROVE  OwnStep(c, e)
BY DEF OwnStep, SameWindows

\* The control frames, all of them.
LEMMA CtrlOwn ==
  ASSUME NEW c, Fit(c)
  PROVE  /\ OwnStep(c, WithCtrl(c)) /\ WithCtrl(c).qre.started
         /\ WithCtrl(c).qre.frames = Batch(<< >>, CtrlFrames(c))
         /\ WithCtrl(c).qre.frames \in Seq(SUBSET PlainFrame)
<1> DEFINE out == CtrlFrames(c)
           d == WithCtrl(c)
<1>1. Good(c) /\ Sound(c) /\ Plain(c) /\ c \in ConnType /\ c.live \subseteq StreamIds
  BY DEF Fit, Good, ConnType
<1>2. out \in SUBSET PlainFrame /\ out \in SUBSET Frame
  BY CtrlView DEF PlainFrame
<1>3. Good(d) /\ Sound(d)
  BY <1>1, <1>2, WriteCtrlFramesGood, WriteCtrlFramesSound DEF WithCtrl
<1>4. d.strm = [s \in StreamIds |-> IF s \in Freeing(c) THEN NewStrm(c.role, s)
                                    ELSE IF s \in c.strmq THEN ResetSent(c.strm[s])
                                    ELSE c.strm[s]]
  BY CtrlView
<1>5. /\ d.live = c.live \ Freeing(c) /\ d.role = c.role /\ d.err = c.err
      /\ d.idtr = c.idtr /\ d.rxOff = c.rxOff /\ d.glitch = c.glitch /\ d.rd = c.rd
      /\ d.txMax = c.txMax /\ d.txStreams = c.txStreams
      /\ d.ping = c.ping /\ d.pong = c.pong
      /\ d.qre = [started |-> TRUE, frames |-> Batch(<< >>, out)]
  BY CtrlView
<1> HIDE DEF d, out
<1>6. \A s \in StreamIds : PlainStrm(d.strm[s])
  <2> TAKE s \in StreamIds
  <2>1. PlainStrm(c.strm[s]) /\ PlainStrm(NewStrm(c.role, s)) /\ c.strm[s] \in StrmType
    BY <1>1, NewStrmPlain, Fields DEF Plain
  <2>2. PlainStrm(ResetSent(c.strm[s]))
    BY <2>1 DEF PlainStrm, ResetSent, StrmType
  <2> QED
    BY <1>4, <2>1, <2>2
<1>7. \A s \in StreamIds : s \notin d.live => d.strm[s] = NewStrm(d.role, s)
  <2>1. c.strmq \subseteq c.live
    BY <1>1 DEF Sound, SoundBut
  <2> QED
    BY <1>1, <1>4, <1>5, <2>1 DEF Plain
<1>8. SameWindows(c, d)
  <2> SUFFICES ASSUME NEW s \in d.live
               PROVE  d.strm[s].txMax = c.strm[s].txMax
    BY DEF SameWindows
  <2>1. s \in StreamIds /\ s \notin Freeing(c)
    BY <1>1, <1>5
  <2>2. ResetSent(c.strm[s]).txMax = c.strm[s].txMax
    BY <1>1, <2>1, Fields DEF ResetSent, StrmType
  <2> QED
    BY <1>4, <2>1, <2>2
<1>9. Batch(<< >>, out) \in Seq(SUBSET PlainFrame)
  <2>1. << >> \in Seq(SUBSET PlainFrame)
    OBVIOUS
  <2>2. Append(<< >>, out) \in Seq(SUBSET PlainFrame)
    BY ONLY <1>2, <2>1
  <2> QED
    BY <2>1, <2>2 DEF Batch
<1> QED
  BY <1>1, <1>3, <1>5, <1>6, <1>7, <1>8, <1>9 DEF OwnStep, Fit, Plain, d, out

\* A stream that is over leaves the map, and nothing else changes.
LEMMA CloseOwn ==
  ASSUME NEW c, Good(c), Plain(c), NEW s \in StreamIds, SoundBut(c, {s})
  PROVE  OwnStep(c, CloseStreamIfShutRdWr(c, s))
<1> DEFINE d == CloseStreamIfShutRdWr(c, s)
<1>1. c \in ConnType
  BY DEF Good
<1>2. Plain(d) /\ SameWindows(c, d) /\ d.role = c.role /\ d.err = c.err
  BY PlainClose
<1>3. Good(d) /\ Sound(d)
  BY CloseStreamGood, CloseSound
<1>4. /\ d.idtr = c.idtr /\ d.rxOff = c.rxOff /\ d.glitch = c.glitch
      /\ d.rd = c.rd /\ d.txMax = c.txMax /\ d.txStreams = c.txStreams
      /\ d.live \subseteq c.live
  BY <1>1 DEF ConnType, CloseStreamIfShutRdWr, CloseStream
<1> QED
  BY <1>2, <1>3, <1>4 DEF OwnStep, Fit

\* A STREAM frame.
LEMMA DataOwn ==
  ASSUME NEW c, Fit(c), NEW s \in StreamIds, s \in c.live, NEW len \in Nat, NEW w \in Nat,
         NEW fin \in BOOLEAN, w <= FcCredits(c, s)
  PROVE  LET d == WriteData(c, s, len, w, fin)
             F == {StreamFr(s, c.strm[s].txOff, w, fin /\ w = len)}
         IN
         /\ OwnStep(c, d) /\ F \in SUBSET PlainFrame
         /\ d.qre.started = c.qre.started /\ d.qre.frames = Append(c.qre.frames, F)
         /\ w # len => d.live = c.live
<1> DEFINE last == fin /\ w = len
           x == c.strm[s]
           F == {StreamFr(s, c.strm[s].txOff, w, last)}
           d == [c EXCEPT
                   !.txOff = @ + w,
                   !.strm[s] = Sent(@, w),
                   !.qre.frames = Append(@, {StreamFr(s, c.strm[s].txOff, w, last)})]
           G == {"SHUT_WR"}
           b == SetFlags(d, s, G)
           e == WriteData(c, s, len, w, fin)
<1>1. e = IF last THEN CloseStreamIfShutRdWr(b, s) ELSE d
  BY DEF WriteData
<1>2. last \in BOOLEAN /\ (w # len => ~last)
  OBVIOUS
<1>3. Good(c) /\ Sound(c) /\ Plain(c) /\ c \in ConnType /\ x \in StrmType
  BY Fields DEF Fit, Good
<1> HIDE DEF last
<1>4. Good(d)
  BY <1>2, <1>3, StreamFrameGood
<1>5. Good(e) /\ Sound(e) /\ (w # len => e.live = c.live)
  BY <1>3, WriteDataGood, WriteDataSound
<1>6. F \in SUBSET PlainFrame
  <2>1. x.txOff \in Nat /\ x.txMax \in 0..MaxVarint /\ c.txOff \in Nat /\ c.txMax \in Nat
        /\ x.txOff <= x.txMax
    BY <1>3, Numbers DEF StrmType, Offset
  <2>2. w <= x.txMax - x.txOff
    BY <2>1 DEF FcCredits, Lesser
  <2>3. w \in 0..MaxVarint /\ x.txOff \in 0..MaxVarint
    BY <2>1, <2>2
  <2>4. StreamFr(s, x.txOff, w, last) \in Frame
    BY <1>2, <2>3 DEF Frame, StreamFr
  <2>5. StreamFr(s, x.txOff, w, last).t = "STREAM"
    BY DEF StreamFr
  <2> QED
    BY <2>4, <2>5 DEF PlainFrame
<1>7. /\ Touches(c, d, s) /\ d.strmq = c.strmq /\ d.rd = c.rd /\ d.live = c.live
      /\ d.strm[s] = Sent(x, w) /\ d.role = c.role /\ d.err = c.err /\ d.idtr = c.idtr
      /\ d.rxOff = c.rxOff /\ d.glitch = c.glitch /\ d.txMax = c.txMax
      /\ d.txStreams = c.txStreams /\ d.ping = c.ping /\ d.pong = c.pong
      /\ d.qre.started = c.qre.started /\ d.qre.frames = Append(c.qre.frames, F)
      /\ d \in ConnType
  BY <1>3, <1>4 DEF Touches, SameLimits, ConnType, Good
<1> HIDE DEF d, x, F
<1>8. /\ d.strm[s].txMax = x.txMax /\ PlainStrm(d.strm[s])
      /\ d.strm[s].flags \ {"ANY_SENT"} = x.flags \ {"ANY_SENT"}
      /\ d.strm[s].rxMax = x.rxMax /\ d.strm[s].rxUnsent = x.rxUnsent
      /\ d.strm[s].rxLast = x.rxLast
  <2>1. PlainStrm(x)
    BY <1>3 DEF Plain, x
  <2> QED
    BY <1>3, <1>7, <2>1 DEF StrmType, Sent, PlainStrm
<1>9. Sound(d)
  BY <1>3, <1>7, <1>8, StrmAlike DEF x
<1>10. Plain(d)
  BY <1>3, <1>7, <1>8, PlainTouch
<1>11. SameWindows(c, d)
  BY <1>3, <1>7, <1>8, Fields DEF SameWindows, Touches, x
<1>12. OwnStep(c, d)
  BY <1>4, <1>7, <1>9, <1>10, <1>11 DEF OwnStep, Fit
<1>13. G \in SUBSET Flag
       /\ G \in SUBSET {"SHUT_RD", "SHUT_WR", "RESET_STREAM_RECVED", "ANY_SENT"}
  BY DEF Flag
<1>14. /\ G \cap {"SEND_RESET_STREAM", "SEND_STOP_SENDING",
              "SEND_STREAM_DATA_BLOCKED"} = {}
       /\ "SHUT_RD" \notin G
  OBVIOUS
<1> HIDE DEF G
<1>15. Good(b) /\ Plain(b) /\ SameWindows(d, b)
  BY <1>4, <1>7, <1>10, <1>13, PlainEnd
<1>16. SoundBut(b, {s})
  <2>1. SoundBut(d, {})
    BY <1>9 DEF Sound
  <2>2. SoundBut(b, {} \cup {s})
    BY <1>4, <1>13, <1>14, <2>1, SetFlagsSound
  <2>3. {} \cup {s} = {s}
    OBVIOUS
  <2> QED
    BY <2>2, <2>3
<1>17. /\ b.role = d.role /\ b.err = d.err /\ b.idtr = d.idtr /\ b.rxOff = d.rxOff
       /\ b.glitch = d.glitch /\ b.rd = d.rd /\ b.txMax = d.txMax
       /\ b.txStreams = d.txStreams /\ b.live = d.live
  <2>1. d \in ConnType /\ G \in SUBSET Flag
    BY <1>7, <1>13
  <2>2. \A z \in {b, PushIfNot(d, s)} :
          /\ z.role = d.role /\ z.err = d.err /\ z.idtr = d.idtr /\ z.rxOff = d.rxOff
          /\ z.glitch = d.glitch /\ z.rd = d.rd /\ z.txMax = d.txMax
          /\ z.txStreams = d.txStreams /\ z.ping = d.ping /\ z.pong = d.pong
          /\ z.live = d.live
    BY ONLY <2>1, OwnFields, s \in StreamIds
  <2> QED
    BY <2>2
<1>18. b.qre = d.qre /\ CloseStreamIfShutRdWr(b, s).qre = b.qre
  BY <1>4, <1>13, <1>15, FramesUntouched
<1>19. OwnStep(b, CloseStreamIfShutRdWr(b, s))
  BY <1>15, <1>16, CloseOwn
<1> HIDE DEF b
<1>20. OwnStep(c, CloseStreamIfShutRdWr(b, s))
  BY <1>12, <1>15, <1>17, <1>19 DEF OwnStep, SameWindows
<1> HIDE DEF e
<1>21. /\ OwnStep(c, e) /\ F \in SUBSET PlainFrame
       /\ e.qre.started = c.qre.started /\ e.qre.frames = Append(c.qre.frames, F)
       /\ w # len => e.live = c.live
  <2>1. CASE last
    <3>1. e = CloseStreamIfShutRdWr(b, s)
      BY <1>1, <2>1
    <3> QED
      BY <1>5, <1>6, <1>7, <1>18, <1>20, <3>1
  <2>2. CASE ~last
    <3>1. e = d
      BY <1>1, <2>2
    <3> QED
      BY <1>5, <1>6, <1>7, <1>12, <3>1
  <2> QED
    BY <2>1, <2>2
<1> QED
  BY <1>21 DEF e, F, last

\* The reports of a blocked stream, for which a record has room.
LEMMA ReportOwn ==
  ASSUME NEW c, Fit(c), NEW s \in StreamIds, s \in c.live
  PROVE  LET out == BlockedReports(c, s)
             d == ReportBlocked(c, s, out)
         IN
         /\ OwnStep(c, d) /\ out \in SUBSET PlainFrame
         /\ Touches(c, d, s) /\ d.txOff = c.txOff /\ d.rxMax = c.rxMax
         /\ d.strm[s].flags = c.strm[s].flags /\ d.strm[s].txOff = c.strm[s].txOff
         /\ d.strm[s].rxLast = c.strm[s].rxLast /\ d.strm[s].rxMax = c.strm[s].rxMax
         /\ d.qre.started = c.qre.started /\ d.qre.frames = Batch(c.qre.frames, out)
<1> DEFINE out == BlockedReports(c, s)
           x == c.strm[s]
           u == IF StreamDataBlockedFrames(c, s) \cap out # {} THEN c.strm[s].txOff
                ELSE c.strm[s].txBlocked
           d == [c EXCEPT
                   !.txBlocked = IF DataBlockedFrames(c, s) \cap out # {} THEN c.txOff ELSE @,
                   !.strm[s].txBlocked = IF StreamDataBlockedFrames(c, s) \cap out # {}
                                           THEN c.strm[s].txOff ELSE @,
                   !.qre.frames = Batch(@, out)]
<1>1. ReportBlocked(c, s, out) = d
  BY DEF ReportBlocked
<1>2. Good(c) /\ Sound(c) /\ Plain(c) /\ c \in ConnType /\ x \in StrmType
  BY Fields DEF Fit, Good
<1>3. out \in SUBSET PlainFrame /\ out \in SUBSET Frame
  <2>1. c.txOff \in 0..MaxVarint /\ x.txOff \in 0..MaxVarint
    BY <1>2, Fields DEF StrmType, Offset
  <2>2. DataBlockedFr(s, c.txOff) \in PlainFrame
    BY <2>1 DEF PlainFrame, Frame, DataBlockedFr
  <2>3. StreamDataBlockedFr(s, x.txOff) \in PlainFrame
    BY <2>1 DEF PlainFrame, Frame, StreamDataBlockedFr
  <2>4. out \in SUBSET PlainFrame
    BY <2>2, <2>3 DEF BlockedReports, DataBlockedFrames, StreamDataBlockedFrames
  <2> QED
    BY <2>4 DEF PlainFrame
<1>4. Good(d)
  BY <1>2, <1>3, ReportsGood
<1>5. /\ Touches(c, d, s) /\ d.strmq = c.strmq /\ d.rd = c.rd /\ d.live = c.live
      /\ d.strm[s] = [x EXCEPT !.txBlocked = u] /\ d.role = c.role /\ d.err = c.err
      /\ d.idtr = c.idtr /\ d.rxOff = c.rxOff /\ d.glitch = c.glitch /\ d.txMax = c.txMax
      /\ d.txStreams = c.txStreams /\ d.ping = c.ping /\ d.pong = c.pong
      /\ d.txOff = c.txOff /\ d.rxMax = c.rxMax
      /\ d.qre.started = c.qre.started /\ d.qre.frames = Batch(c.qre.frames, out)
  BY <1>2 DEF Touches, SameLimits, ConnType
<1> HIDE DEF d, u, x, out
<1>6. /\ d.strm[s].flags = x.flags /\ d.strm[s].rxMax = x.rxMax
      /\ d.strm[s].rxUnsent = x.rxUnsent /\ d.strm[s].rxLast = x.rxLast
      /\ d.strm[s].txMax = x.txMax /\ d.strm[s].txOff = x.txOff
  BY <1>2, <1>5 DEF StrmType
<1>7. Sound(d)
  BY <1>2, <1>5, <1>6, StrmAlike DEF x
<1>8. PlainStrm(d.strm[s])
  BY <1>2, <1>6 DEF Plain, PlainStrm, x
<1>9. Plain(d)
  BY <1>2, <1>5, <1>8, PlainTouch
<1>10. SameWindows(c, d)
  BY <1>2, <1>5, <1>6, Fields DEF SameWindows, Touches, x
<1> QED
  <2>1. OwnStep(c, d)
    BY <1>4, <1>5, <1>7, <1>9, <1>10 DEF OwnStep, Fit
  <2> QED
    BY <1>1, <1>3, <1>5, <1>6, <2>1 DEF out, x

\* dwnx_conn_writev_stream: the data that flow control allows, and the reports
\* of what it does not.
LEMMA WithDataOwn ==
  ASSUME NEW c, Fit(c), NEW s \in StreamIds, s \in c.live, NEW len \in Nat, NEW fin \in BOOLEAN,
         c.qre.frames \in Seq(SUBSET PlainFrame)
  PROVE  LET d == WithData(c, s, len, fin) IN
         OwnStep(c, d) /\ d.qre.frames \in Seq(SUBSET PlainFrame)
<1> DEFINE w == Lesser(len, FcCredits(c, s))
           b == WriteData(c, s, len, w, fin)
           F == {StreamFr(s, c.strm[s].txOff, w, fin /\ w = len)}
<1>1. Good(c)
  BY DEF Fit
<1>2. FcCredits(c, s) \in Nat
  <2>1. /\ c.txMax \in Nat /\ c.txOff \in Nat /\ c.txOff <= c.txMax
        /\ c.strm[s].txMax \in Nat /\ c.strm[s].txOff \in Nat
        /\ c.strm[s].txOff <= c.strm[s].txMax
    BY <1>1, Numbers
  <2> QED
    BY <2>1 DEF FcCredits, Lesser
<1>3. w \in Nat /\ w <= FcCredits(c, s)
  BY <1>2 DEF Lesser
<1>4. WithData(c, s, len, fin) = IF w = len THEN b
                                 ELSE IF w = 0 THEN ReportBlocked(c, s, BlockedReports(c, s))
                                 ELSE ReportBlocked(b, s, BlockedReports(b, s))
  BY DEF WithData
<1> HIDE DEF w
<1>5. /\ OwnStep(c, b) /\ F \in SUBSET PlainFrame /\ b.qre.frames = Append(c.qre.frames, F)
      /\ (w # len => b.live = c.live)
  BY ONLY Fit(c), s \in StreamIds, s \in c.live, len \in Nat, fin \in BOOLEAN, <1>3, DataOwn
     DEF b, F
<1> HIDE DEF b, F
<1>6. b.qre.frames \in Seq(SUBSET PlainFrame)
  BY <1>5
<1>7. ASSUME NEW q \in Seq(SUBSET PlainFrame), NEW G \in SUBSET PlainFrame
      PROVE  Batch(q, G) \in Seq(SUBSET PlainFrame)
  <2>1. Append(q, G) \in Seq(SUBSET PlainFrame)
    OBVIOUS
  <2> QED
    BY <2>1 DEF Batch
<1>8. CASE w = len
  BY <1>4, <1>5, <1>6, <1>8
<1>9. CASE w # len /\ w = 0
  <2>1. WithData(c, s, len, fin) = ReportBlocked(c, s, BlockedReports(c, s))
    BY <1>4, <1>9
  <2>2. /\ OwnStep(c, ReportBlocked(c, s, BlockedReports(c, s)))
        /\ BlockedReports(c, s) \in SUBSET PlainFrame
        /\ ReportBlocked(c, s, BlockedReports(c, s)).qre.frames
             = Batch(c.qre.frames, BlockedReports(c, s))
    BY ReportOwn
  <2> QED
    BY <1>7, <2>1, <2>2
<1>10. CASE w # len /\ w # 0
  <2>1. WithData(c, s, len, fin) = ReportBlocked(b, s, BlockedReports(b, s))
    BY <1>4, <1>10
  <2>2. Fit(b) /\ s \in b.live
    BY <1>5, <1>10 DEF OwnStep
  <2>3. /\ OwnStep(b, ReportBlocked(b, s, BlockedReports(b, s)))
        /\ BlockedReports(b, s) \in SUBSET PlainFrame
        /\ ReportBlocked(b, s, BlockedReports(b, s)).qre.frames
             = Batch(b.qre.frames, BlockedReports(b, s))
    BY <2>2, ReportOwn
  <2> QED
    BY <1>5, <1>6, <1>7, <2>1, <2>3, OwnTwice
<1> QED
  BY <1>8, <1>9, <1>10

-----------------------------------------------------------------------------
(* A stream that is opened                                                 *)

\* A window is a varint.
LEMMA StreamWindowType ==
  ASSUME NEW p \in ParamsType, NEW s
  PROVE  StreamWindow(p, s) \in Offset
BY DEF StreamWindow, ParamsType, Offset

\* For a stream of its own, an endpoint starts with the window that the peer
\* announces.
LEMMA LocalWindow ==
  ASSUME NEW c, Good(c), NEW s \in StreamIds, LocalStream(c, s)
  PROVE  InitialMaxTx(c.role, s) = StreamWindow(Params[1 - c.role], s)
BY DEF InitialMaxTx, StreamWindow, LocalStream

\* The parameters of each side.
LEMMA RoleParams ==
  ASSUME NEW r \in Role
  PROVE  Params[r] \in ParamsType /\ 1 - r \in Role /\ Params[1 - r] \in ParamsType
<1>1. 1 - r \in Role
  BY DEF Role
<1> QED
  BY <1>1

\* dwnx_conn_open_bidi_stream and its sibling, under the parameters p.
LEMMA OpenOwn ==
  ASSUME NEW c, Fit(c), NEW i \in Direction, c.next[i] \in StreamIds, StreamsLeft(c, i),
         NEW p \in ParamsType, NEW s, s = c.next[i], NEW d, d = OpenUnder(c, i, p)
  PROVE  /\ Fit(d) /\ LocalStream(c, s) /\ s \notin c.live
         /\ d.live = c.live \cup {s} /\ d.strm[s].txMax = StreamWindow(p, s)
         /\ d.strm[s] = Windowed(c.strm[s], StreamWindow(p, s))
         /\ \A t \in StreamIds \ {s} : d.strm[t] = c.strm[t]
         /\ d.next[i] = s + 4 /\ \A j \in Direction \ {i} : d.next[j] = c.next[j]
         /\ d.role = c.role /\ d.strmq = c.strmq /\ d.idtr = c.idtr
         /\ d.txStreams = c.txStreams /\ d.rxStreams = c.rxStreams
         /\ d.rxUnsentStreams = c.rxUnsentStreams /\ d.txOff = c.txOff /\ d.txMax = c.txMax
         /\ d.txBlocked = c.txBlocked /\ d.rxOff = c.rxOff /\ d.rxMax = c.rxMax
         /\ d.rxUnsent = c.rxUnsent /\ d.ping = c.ping /\ d.pong = c.pong
         /\ d.glitch = c.glitch /\ d.rd = c.rd /\ d.qre = c.qre /\ d.err = c.err
<1> DEFINE b == OpenStream(c, i)
           W == StreamWindow(p, s)
           x == [NewStrm(c.role, s) EXCEPT !.txMax = W]
           z == [b EXCEPT !.strm[s] = x]
<1>1. Good(c) /\ Sound(c) /\ Plain(c) /\ c \in ConnType /\ c.role \in Role
  BY Fields DEF Fit, Good
<1>2. Good(b) /\ Sound(b) /\ b \in ConnType
  BY <1>1, OpenStreamGood, OpenStreamSound DEF Good
<1>3. LocalStream(c, s) /\ s \notin c.live /\ s \in StreamIds
  BY <1>1, NextLocalFacts
<1>4. c.strm[s] = NewStrm(c.role, s)
  BY <1>1, <1>3 DEF Plain
<1>5. /\ b.live = c.live \cup {s} /\ b.strm = [c.strm EXCEPT ![s] = NewStrm(c.role, s)]
      /\ b.next = [c.next EXCEPT ![i] = s + 4]
      /\ b.role = c.role /\ b.strmq = c.strmq /\ b.idtr = c.idtr
      /\ b.txStreams = c.txStreams /\ b.rxStreams = c.rxStreams
      /\ b.rxUnsentStreams = c.rxUnsentStreams /\ b.txOff = c.txOff /\ b.txMax = c.txMax
      /\ b.txBlocked = c.txBlocked /\ b.rxOff = c.rxOff /\ b.rxMax = c.rxMax
      /\ b.rxUnsent = c.rxUnsent /\ b.ping = c.ping /\ b.pong = c.pong
      /\ b.glitch = c.glitch /\ b.rd = c.rd /\ b.qre = c.qre /\ b.err = c.err
  BY <1>1 DEF OpenStream, CreateStream, ConnType
<1> HIDE DEF b
<1>6. W \in Offset /\ NewStrm(c.role, s) \in StrmType /\ StrmCredit(NewStrm(c.role, s))
  BY <1>1, <1>3, StreamWindowType, NewStrmGood
<1>7. NewStrm(c.role, s).txOff = 0 /\ PlainStrm(NewStrm(c.role, s))
  BY <1>1, <1>3, NewStrmPlain DEF NewStrm
<1> HIDE DEF W
<1>8. b.strm[s] = NewStrm(c.role, s) /\ \A t \in StreamIds \ {s} : b.strm[t] = c.strm[t]
  BY <1>1, <1>3, <1>5 DEF ConnType
<1>9. /\ x.txMax = W /\ x.flags = b.strm[s].flags /\ x.rxMax = b.strm[s].rxMax
      /\ x.rxUnsent = b.strm[s].rxUnsent /\ x.rxLast = b.strm[s].rxLast
      /\ PlainStrm(x) /\ x \in StrmType /\ StrmCredit(x)
      /\ x = [c.strm[s] EXCEPT !.txMax = W]
  BY <1>4, <1>6, <1>7, <1>8 DEF StrmType, StrmCredit, PlainStrm, Offset
<1> HIDE DEF x
<1>10. OpenUnder(c, i, p) = z
  <2>1. [b.strm[s] EXCEPT !.txMax = W] = x
    BY <1>8 DEF x
  <2>2. OpenUnder(c, i, p) = [b EXCEPT !.strm[s].txMax = W]
    BY DEF OpenUnder, b, W
  <2>3. [b EXCEPT !.strm[s].txMax = W] = [b EXCEPT !.strm[s] = [b.strm[s] EXCEPT !.txMax = W]]
    OBVIOUS
  <2> QED
    BY <2>1, <2>2, <2>3
<1>11. Good(z) /\ z \in ConnType
  <2>1. Good(z)
    BY <1>2, <1>3, <1>9, StrmUpdateGood
  <2> QED
    BY <2>1 DEF Good
<1>12. /\ z.live = b.live /\ z.strm = [b.strm EXCEPT ![s] = x] /\ z.next = b.next
       /\ z.role = b.role /\ z.strmq = b.strmq /\ z.idtr = b.idtr
       /\ z.txStreams = b.txStreams /\ z.rxStreams = b.rxStreams
       /\ z.rxUnsentStreams = b.rxUnsentStreams /\ z.txOff = b.txOff /\ z.txMax = b.txMax
       /\ z.txBlocked = b.txBlocked /\ z.rxOff = b.rxOff /\ z.rxMax = b.rxMax
       /\ z.rxUnsent = b.rxUnsent /\ z.ping = b.ping /\ z.pong = b.pong
       /\ z.glitch = b.glitch /\ z.rd = b.rd /\ z.qre = b.qre /\ z.err = b.err
  BY <1>2 DEF ConnType
<1> HIDE DEF z
<1>13. z.strm[s] = x /\ \A t \in StreamIds \ {s} : z.strm[t] = b.strm[t]
  BY <1>2, <1>3, <1>12 DEF ConnType
<1>14. Touches(b, z, s)
  BY <1>12, <1>13 DEF Touches, SameLimits
<1>15. Sound(z)
  BY <1>2, <1>3, <1>9, <1>12, <1>13, <1>14, StrmAlike
<1>16. Plain(z)
  <2>1. \A t \in StreamIds : PlainStrm(z.strm[t])
    BY <1>1, <1>8, <1>9, <1>13 DEF Plain
  <2>2. z.live = c.live \cup {s} /\ z.role = c.role
    BY <1>5, <1>12
  <2>3. \A t \in StreamIds : t \notin z.live => z.strm[t] = NewStrm(z.role, t)
    BY <1>1, <1>8, <1>13, <2>2 DEF Plain
  <2> QED
    BY <1>1, <1>5, <1>12, <2>1, <2>3 DEF Plain
<1>17. /\ Fit(z) /\ LocalStream(c, s) /\ s \notin c.live
       /\ z.live = c.live \cup {s} /\ z.strm[s].txMax = W
       /\ \A t \in StreamIds \ {s} : z.strm[t] = c.strm[t]
       /\ z.strm[s] = Windowed(c.strm[s], W)
  <2>1. Fit(z)
    BY <1>11, <1>15, <1>16 DEF Fit
  <2>2. z.live = c.live \cup {s}
    BY <1>5, <1>12
  <2>3. z.strm[s].txMax = W /\ z.strm[s] = Windowed(c.strm[s], W)
    BY <1>9, <1>13 DEF Windowed
  <2>4. \A t \in StreamIds \ {s} : z.strm[t] = c.strm[t]
    BY <1>8, <1>13
  <2> QED
    BY <1>3, <2>1, <2>2, <2>3, <2>4
<1>18. /\ z.next = [c.next EXCEPT ![i] = s + 4]
       /\ z.role = c.role /\ z.strmq = c.strmq /\ z.idtr = c.idtr
       /\ z.txStreams = c.txStreams /\ z.rxStreams = c.rxStreams
       /\ z.rxUnsentStreams = c.rxUnsentStreams /\ z.txOff = c.txOff /\ z.txMax = c.txMax
       /\ z.txBlocked = c.txBlocked /\ z.rxOff = c.rxOff /\ z.rxMax = c.rxMax
       /\ z.rxUnsent = c.rxUnsent /\ z.ping = c.ping /\ z.pong = c.pong
       /\ z.glitch = c.glitch /\ z.rd = c.rd /\ z.qre = c.qre /\ z.err = c.err
  BY <1>5, <1>12
<1>19. d = z /\ W = StreamWindow(p, s)
  BY <1>10 DEF W
<1>20. z.next[i] = s + 4 /\ \A j \in Direction \ {i} : z.next[j] = c.next[j]
  BY <1>1, <1>18 DEF ConnType
<1> QED
  BY ONLY <1>17, <1>18, <1>19, <1>20

-----------------------------------------------------------------------------
(* Transport parameters that are read                                      *)

\* Nothing is known of the peer.
NoLimits ==
  [maxData |-> 0, bidiLocal |-> 0, bidiRemote |-> 0, uniData |-> 0, streams |-> NoStreams]

\* Which is less than any promise.
LEMMA NothingPromised ==
  /\ NoLimits \in ParamsType
  /\ \A q \in ParamsType : KeepsPromise(NoLimits, q)
BY DEF NoLimits, NoStreams, ParamsType, KeepsPromise

\* A stream that the peer did not open is the endpoint's own.
LEMMA OwnStreams ==
  ASSUME NEW c, Fit(c), c.idtr = {}, NEW s \in c.live
  PROVE  s \in StreamIds /\ LocalStream(c, s)
<1>1. c.live \subseteq StreamIds
  BY Fields DEF Fit
<1>2. Used(c, s)
  BY DEF Fit, Sound, SoundBut, WithinStreamLimits
<1> QED
  BY <1>1, <1>2 DEF Used

\* Nothing is lost by the limits that are announced.
LEMMA BelowAnnounced ==
  ASSUME NEW c, Fit(c), NEW p \in ParamsType, Waiting(c, p),
         NEW q, q = Params[1 - c.role], KeepsPromise(p, q)
  PROVE  /\ Below(c, q.maxData, q.streams)
         /\ \A s \in c.live : InitialMaxTx(c.role, s) = StreamWindow(q, s)
<1>1. Good(c) /\ c.role \in Role /\ q \in ParamsType
  BY Fields, RoleParams DEF Fit
<1>2. \A s \in c.live : InitialMaxTx(c.role, s) = StreamWindow(q, s)
  BY <1>1, OwnStreams, LocalWindow DEF Waiting
<1>3. \A s \in c.live : c.strm[s].txMax <= InitialMaxTx(c.role, s)
  <2> TAKE s \in c.live
  <2>1. c.strm[s].txMax = StreamWindow(p, s)
    BY DEF Waiting
  <2>2. StreamWindow(p, s) <= StreamWindow(q, s)
    BY DEF StreamWindow, KeepsPromise
  <2> QED
    BY <1>2, <2>1, <2>2
<1>4. /\ q.maxData \in Offset /\ c.txMax <= q.maxData
      /\ q.streams \in [Direction -> 0..MaxStreams]
      /\ \A d \in Direction : c.txStreams[d] <= q.streams[d]
  BY <1>1 DEF ParamsType, Offset, Waiting, KeepsPromise
<1> QED
  BY <1>2, <1>3, <1>4 DEF Below

\* conn_recv_transport_params: the limits are taken, and every stream of early
\* data gets the window that is announced.
LEMMA ParamsTaken ==
  ASSUME NEW c, Fit(c), NEW p \in ParamsType, Waiting(c, p),
         NEW q, q = Params[1 - c.role], KeepsPromise(p, q)
  PROVE  /\ Raised(WithLimits(c, q), q) = Lift(c, q.maxData, q.streams)
         /\ c.live = {} => WithLimits(c, q) = Lift(c, q.maxData, q.streams)
<1> DEFINE b == WithLimits(c, q)
           W(s) == [c.strm[s] EXCEPT !.txMax = InitialMaxTx(c.role, s)]
<1>1. Good(c) /\ Plain(c) /\ c \in ConnType /\ c.role \in Role /\ q \in ParamsType
  BY Fields, RoleParams DEF Fit, Good
<1>2. b = [c EXCEPT !.txMax = q.maxData, !.txStreams = q.streams]
  BY DEF WithLimits
<1>3. b.live = c.live /\ b.strm = c.strm /\ c.strm = [s \in StreamIds |-> c.strm[s]]
  BY <1>1, <1>2 DEF ConnType
<1>4. \A s \in StreamIds \ c.live : c.strm[s] = W(s)
  BY <1>1, LiftNew DEF Plain
<1>5. \A s \in c.live : IF c.strm[s].txMax < StreamWindow(q, s)
                          THEN [c.strm[s] EXCEPT !.txMax = StreamWindow(q, s)] = W(s)
                          ELSE c.strm[s] = W(s)
  <2> TAKE s \in c.live
  <2>1. /\ InitialMaxTx(c.role, s) = StreamWindow(q, s)
        /\ c.strm[s].txMax <= InitialMaxTx(c.role, s)
    BY BelowAnnounced DEF Below
  <2>2. s \in StreamIds /\ c.strm[s] \in StrmType
    BY <1>1 DEF ConnType
  <2>3. c.strm[s].txMax \in Nat /\ InitialMaxTx(c.role, s) \in Nat
    BY <1>1, <2>2, WindowType, Numbers
  <2>4. CASE c.strm[s].txMax < StreamWindow(q, s)
    BY <2>1, <2>4
  <2>5. CASE ~(c.strm[s].txMax < StreamWindow(q, s))
    <3>1. c.strm[s].txMax = InitialMaxTx(c.role, s)
      BY <2>1, <2>3, <2>5
    <3>2. c.strm[s] = W(s)
      BY <2>2, <3>1 DEF StrmType
    <3> QED
      BY <2>5, <3>2
  <2> QED
    BY <2>4, <2>5
<1> HIDE DEF b, W
<1>6. [s \in StreamIds |->
         IF s \in b.live /\ b.strm[s].txMax < StreamWindow(q, s)
           THEN [b.strm[s] EXCEPT !.txMax = StreamWindow(q, s)] ELSE b.strm[s]]
      = [s \in StreamIds |-> W(s)]
  <2>1. ASSUME NEW s \in StreamIds
        PROVE  (IF s \in b.live /\ b.strm[s].txMax < StreamWindow(q, s)
                  THEN [b.strm[s] EXCEPT !.txMax = StreamWindow(q, s)] ELSE b.strm[s]) = W(s)
    <3>1. CASE s \in c.live
      BY <1>3, <1>5, <3>1
    <3>2. CASE s \notin c.live
      BY <1>3, <1>4, <3>2
    <3> QED
      BY <3>1, <3>2
  <2> QED
    BY <2>1
<1>7. Raised(b, q) = [b EXCEPT !.strm = [s \in StreamIds |-> W(s)]]
  BY <1>6 DEF Raised
<1> DEFINE Z == [s \in StreamIds |-> W(s)]
<1>8. Lift(c, q.maxData, q.streams) = [c EXCEPT !.txMax = q.maxData, !.txStreams = q.streams,
                                                !.strm = Z]
  BY DEF Lift, W
<1>9. c.live = {} => c.strm = Z
  BY <1>3, <1>4
<1> HIDE DEF Z
<1>10. [b EXCEPT !.strm = Z] = [c EXCEPT !.txMax = q.maxData, !.txStreams = q.streams,
                                         !.strm = Z]
  BY <1>1, <1>2 DEF ConnType
<1>11. c.live = {} => b = [c EXCEPT !.txMax = q.maxData, !.txStreams = q.streams, !.strm = Z]
  <2>1. b = [c EXCEPT !.txMax = q.maxData, !.txStreams = q.streams, !.strm = c.strm]
    BY <1>1, <1>2 DEF ConnType
  <2> QED
    BY <1>9, <2>1
<1> QED
  BY <1>7, <1>8, <1>10, <1>11 DEF b, Z

-----------------------------------------------------------------------------
(* The invariant of one endpoint                                           *)

Seen(e) == "SEEN" \in flags[e]

\* The limits that an endpoint works with before it is told those of its peer.
Limits(e) == IF "EARLY_SET" \in flags[e] THEN early ELSE NoLimits

\* The transport parameters are on their way to e.
Introduced(e) == "SENT" \in flags[Peer(e)] /\ ~Seen(e)

\* The frames behind them.
Flow(e) == IF Introduced(e) THEN Tail(wire[e]) ELSE wire[e]

\* c may be the connection of e.
Own(c, e) ==
  /\ Fit(c) /\ c.role = e /\ c.qre = NoRecord
  /\ ~Seen(e) => /\ Waiting(c, Limits(e))
                 /\ "EARLY_SET" \notin flags[e] => c.live = {}
                 /\ e = 1 => c = Fresh(1)
  /\ Seen(e) /\ c.err = "NONE" => Settled(c)

\* What the client and the server know of the handshake.
Handshake ==
  /\ conn = [e \in Ends |-> conn[e]] /\ wire = [e \in Ends |-> wire[e]]
  /\ flags \in [Ends -> SUBSET ConnFlag] /\ early \in ParamsType
  /\ tls \in {"hello", "accepted", "rejected"} /\ told \in BOOLEAN
  /\ "EARLY_SET" \notin flags[1]
  /\ ~told => ~Seen(0)
  /\ Seen(1) => told \/ tls = "accepted"

\* Transport parameters come first, and once.
Way(e) ==
  /\ Flow(e) \in Seq(SUBSET PlainFrame)
  /\ wire[e] = IF Introduced(e) THEN <<{ParamsFr}>> \o Flow(e) ELSE Flow(e)
  /\ "SENT" \notin flags[Peer(e)] => wire[e] = << >> /\ ~Seen(e)

\* The server says nothing but its parameters until it has read the client's.
Silent == ~Seen(1) => Flow(0) = << >>

StartInv ==
  /\ Handshake /\ Silent
  /\ \A e \in Ends : Way(e) /\ Own(conn[e], e)

USE RememberedAssumption

\* A sequence with one more element in front.
LEMMA InFront ==
  ASSUME NEW S, NEW a, NEW u \in Seq(S)
  PROVE  /\ <<a>> \o u # << >> /\ Head(<<a>> \o u) = a /\ Tail(<<a>> \o u) = u
         /\ << >> \o u = u
         /\ \A v \in Seq(S) : /\ (<<a>> \o u) \o v = <<a>> \o (u \o v)
                              /\ << >> \o (<<a>> \o v) = <<a>> \o v
                              /\ u \o v \in Seq(S)
<1> DEFINE T == S \cup {a}
<1>1. u \in Seq(T) /\ <<a>> \in Seq(T)
  OBVIOUS
<1>2. \A v \in Seq(S) : v \in Seq(T)
  OBVIOUS
<1> HIDE DEF T
<1>3. <<a>> \o u # << >> /\ Head(<<a>> \o u) = a /\ Tail(<<a>> \o u) = u
  BY <1>1
<1>4. << >> \o u = u
  OBVIOUS
<1>5. ASSUME NEW v \in Seq(S)
      PROVE  /\ (<<a>> \o u) \o v = <<a>> \o (u \o v)
             /\ << >> \o (<<a>> \o v) = <<a>> \o v
             /\ u \o v \in Seq(S)
  <2>1. v \in Seq(T)
    BY <1>2
  <2>2. (<<a>> \o u) \o v = <<a>> \o (u \o v)
    BY <1>1, <2>1
  <2>3. << >> \o (<<a>> \o v) = <<a>> \o v
    BY <1>1, <2>1
  <2> QED
    BY <2>2, <2>3
<1> QED
  BY <1>3, <1>4, <1>5

\* And in front of two sequences.
LEMMA InFrontOfTwo ==
  ASSUME NEW S, NEW a, NEW u \in Seq(S), NEW v \in Seq(S)
  PROVE  /\ u \o v \in Seq(S)
         /\ (<<a>> \o u) \o v = <<a>> \o (u \o v)
         /\ << >> \o (<<a>> \o v) = <<a>> \o v
<1> DEFINE T == S \cup {a}
<1>1. u \in Seq(T) /\ v \in Seq(T) /\ <<a>> \in Seq(T)
  OBVIOUS
<1> HIDE DEF T
<1>2. u \o v \in Seq(S)
  OBVIOUS
<1>3. (<<a>> \o u) \o v = <<a>> \o (u \o v)
  BY <1>1
<1>4. << >> \o (<<a>> \o v) = <<a>> \o v
  BY <1>1
<1> QED
  BY <1>2, <1>3, <1>4

\* A step of the application keeps what is known of its connection.
LEMMA OwnKept ==
  ASSUME NEW e, NEW c, Own(c, e), NEW d, OwnStep(c, d), d.qre = NoRecord,
         e = 1 /\ ~Seen(e) => d = Fresh(1)
  PROVE  Own(d, e)
<1>1. Fit(d) /\ d.role = e
  BY DEF Own, OwnStep
<1>2. Good(d) /\ Plain(d) /\ d.role \in Role /\ d.live \subseteq StreamIds
  BY <1>1, Fields DEF Fit
<1>3. ~Seen(e) => Waiting(d, Limits(e)) /\ ("EARLY_SET" \notin flags[e] => d.live = {})
  BY DEF Own, OwnStep, SameWindows, Waiting
<1>4. ASSUME Seen(e), d.err = "NONE" PROVE Settled(d)
  <2>1. Settled(c) /\ c.role = d.role
    BY <1>4 DEF Own, OwnStep
  <2> SUFFICES ASSUME NEW s \in StreamIds PROVE d.strm[s].txMax = InitialMaxTx(d.role, s)
    BY DEF Settled
  <2>2. CASE s \in d.live
    BY <2>1, <2>2 DEF Settled, OwnStep, SameWindows
  <2>3. CASE s \notin d.live
    BY <1>2, <2>3, NewStrmPlain DEF Plain
  <2> QED
    BY <2>2, <2>3
<1> QED
  BY <1>1, <1>3, <1>4 DEF Own

-----------------------------------------------------------------------------
(* The steps                                                               *)

\* Both endpoints.
LEMMA TheEnds ==
  ASSUME Ends = Role
  PROVE  /\ 0 \in Ends /\ 1 \in Ends /\ Peer(0) = 1 /\ Peer(1) = 0
         /\ \A e \in Ends : e \in {0, 1}
BY DEF Role, Peer

\* A call that writes nothing.
LEMMA CallStart ==
  ASSUME Ends = Role, StartInv, NEW e \in Ends, NEW d, Own(d, e),
         conn' = [conn EXCEPT ![e] = d], UNCHANGED <<wire, flags, early, tls, told>>
  PROVE  StartInv'
<1>1. DOMAIN conn = Ends
  BY DEF StartInv, Handshake
<1>2. conn'[e] = d /\ \A g \in Ends \ {e} : conn'[g] = conn[g]
  BY <1>1
<1>3. Handshake'
  <2>1. conn' = [g \in Ends |-> conn'[g]]
    BY <1>1
  <2> QED
    BY <2>1 DEF StartInv, Handshake, Seen
<1>4. \A g : Seen(g)' = Seen(g) /\ Limits(g)' = Limits(g) /\ Flow(g)' = Flow(g)
  BY DEF Seen, Limits, Flow, Introduced
<1>5. Silent'
  BY <1>4 DEF StartInv, Silent
<1>6. \A g \in Ends : Way(g)'
  BY <1>4 DEF StartInv, Way, Introduced
<1>7. \A g \in Ends : Own(conn'[g], g)
  BY <1>2 DEF StartInv
<1>8. ASSUME NEW g \in Ends PROVE Own(conn[g], g)'
  <2>1. Own(conn'[g], g)
    BY <1>7
  <2> QED
    BY <1>4, <2>1 DEF Own
<1> QED
  BY <1>3, <1>5, <1>6, <1>8 DEF StartInv

\* Shutting down streams and extending windows.
LEMMA EarlyCallStart ==
  ASSUME Ends = Role, StartInv, NEW e \in Ends, EarlyCall(e)
  PROVE  StartInv'
<1> DEFINE c == conn[e]
<1>1. Own(c, e) /\ Fit(c) /\ Good(c) /\ c.qre = NoRecord /\ e # 1
  <2>1. Own(c, e) /\ e = 0
    BY DEF StartInv, EarlyCall
  <2> QED
    BY <2>1 DEF Own, Fit
<1>2. /\ UNCHANGED <<wire, flags, early, tls, told>>
      /\ \/ \E s \in StreamIds : conn' = [conn EXCEPT ![e] = ShutdownStreamWrite(c, s)]
         \/ \E n \in 1..MaxExtend : conn' = [conn EXCEPT ![e] = ExtendMaxOffset(c, n)]
         \/ \E i \in Direction : conn' = [conn EXCEPT ![e] = ExtendMaxStreams(c, i, 1)]
  BY DEF EarlyCall, ShutdownWrite, ExtendConn, ExtendStreams
<1> SUFFICES ASSUME NEW d, conn' = [conn EXCEPT ![e] = d], OwnStep(c, d), d.qre = c.qre
             PROVE  StartInv'
  <2>1. \A s \in StreamIds : /\ OwnStep(c, ShutdownStreamWrite(c, s))
                             /\ ShutdownStreamWrite(c, s).qre = c.qre
    BY <1>1, ShutdownOwn, CallsRecord
  <2>2. \A n \in 1..MaxExtend : /\ OwnStep(c, ExtendMaxOffset(c, n))
                                /\ ExtendMaxOffset(c, n).qre = c.qre
    <3> TAKE n \in 1..MaxExtend
    <3>1. n \in Nat /\ "bidi" \in Direction
      BY DEF Direction
    <3> QED
      BY <1>1, <3>1, ExtendOwn, CallsRecord
  <2>3. \A i \in Direction : /\ OwnStep(c, ExtendMaxStreams(c, i, 1))
                             /\ ExtendMaxStreams(c, i, 1).qre = c.qre
    <3>1. 1 \in Nat
      OBVIOUS
    <3> QED
      BY <1>1, <3>1, ExtendOwn, CallsRecord
  <2> HIDE DEF c
  <2> QED
    BY <1>2, <2>1, <2>2, <2>3
<1> HIDE DEF c
<1>3. Own(d, e)
  BY <1>1, OwnKept
<1> QED
  BY <1>2, <1>3, CallStart

\* dwnx_conn_open_bidi_stream and its sibling.
LEMMA OpenStart ==
  ASSUME Ends = Role, StartInv, NEW e \in Ends, NEW i \in Direction, OpenLocal(e, i)
  PROVE  StartInv'
<1> DEFINE c == conn[e]
           p == RemoteParams(e)
           d == OpenUnder(c, i, p)
           s == c.next[i]
<1>1. /\ Own(c, e) /\ Fit(c) /\ Good(c) /\ c.qre = NoRecord /\ Plain(c) /\ c.role = e
      /\ c.err = "NONE" /\ e \in Role /\ early \in ParamsType
  BY DEF StartInv, Own, Fit, OpenLocal, Running, Handshake
<1>2. /\ s \in StreamIds /\ StreamsLeft(c, i) /\ conn' = [conn EXCEPT ![e] = d]
      /\ UNCHANGED <<wire, flags, early, tls, told>>
  BY DEF OpenLocal
<1>3. p \in ParamsType
  BY <1>1, RoleParams DEF RemoteParams, Peer
<1> HIDE DEF c, p
<1>0. s = c.next[i] /\ d = OpenUnder(c, i, p)
  OBVIOUS
<1> HIDE DEF d, s
<1>4. /\ Fit(d) /\ LocalStream(c, s)
      /\ d.live = c.live \cup {s} /\ d.strm[s].txMax = StreamWindow(p, s)
      /\ \A t \in StreamIds \ {s} : d.strm[t] = c.strm[t]
      /\ d.role = c.role /\ d.idtr = c.idtr /\ d.txStreams = c.txStreams
      /\ d.txMax = c.txMax /\ d.rxOff = c.rxOff /\ d.glitch = c.glitch /\ d.rd = c.rd
      /\ d.qre = c.qre /\ d.err = c.err
  <2>1. Fit(c) /\ i \in Direction /\ c.next[i] \in StreamIds /\ StreamsLeft(c, i)
    BY <1>0, <1>1, <1>2
  <2> QED
    BY ONLY <2>1, <1>0, <1>3, OpenOwn
<1>5. ASSUME ~Seen(e)
      PROVE  Waiting(d, Limits(e)) /\ "EARLY_SET" \in flags[e] /\ e # 1
  <2>1. Waiting(c, Limits(e)) /\ c.live \subseteq StreamIds
    BY <1>1, <1>5, Fields DEF Own
  <2>2. "EARLY_SET" \in flags[e]
    <3> SUFFICES ASSUME "EARLY_SET" \notin flags[e] PROVE FALSE
      OBVIOUS
    <3>1. c.txStreams[i] = 0
      BY <2>1 DEF Waiting, Limits, NoLimits, NoStreams
    <3>2. c.next[i] \in Nat
      BY <1>1, Fields
    <3>3. OrdStreamId(c.next[i]) >= 1
      BY <3>2 DEF OrdStreamId
    <3> QED
      BY <1>2, <3>1, <3>2, <3>3 DEF StreamsLeft, OrdStreamId
  <2>3. Limits(e) = early /\ p = early
    BY <1>5, <2>2 DEF Limits, p, RemoteParams, Seen
  <2>4. e # 1
    BY <2>2 DEF StartInv, Handshake
  <2> QED
    BY <1>4, <2>1, <2>2, <2>3, <2>4 DEF Waiting
<1>6. ASSUME Seen(e)
      PROVE  Settled(d)
  <2>1. Settled(c)
    BY <1>1, <1>6 DEF Own
  <2>2. p = Params[1 - c.role]
    BY <1>1, <1>6 DEF p, RemoteParams, Seen, Peer
  <2>3. d.strm[s].txMax = InitialMaxTx(d.role, s)
    BY <1>1, <1>2, <1>4, <2>2, LocalWindow
  <2> QED
    BY <1>4, <2>1, <2>3 DEF Settled
<1>7. Own(d, e)
  BY <1>1, <1>4, <1>5, <1>6 DEF Own
<1> QED
  BY <1>2, <1>7, CallStart

\* The client loads what it remembers of the server.
LEMMA SetEarlyStart ==
  ASSUME Ends = Role, StartInv, SetEarlyParams
  PROVE  StartInv'
<1> DEFINE c == conn[0]
           b == [c EXCEPT !.txMax = early.maxData]
           d == WithLimits(c, early)
<1>1. /\ flags[0] = {} /\ tls = "hello" /\ conn' = [conn EXCEPT ![0] = d]
      /\ flags' = [flags EXCEPT ![0] = {"EARLY_SET"}] /\ UNCHANGED <<wire, early, tls, told>>
  BY DEF SetEarlyParams
<1>2. 0 \in Ends /\ 1 \in Ends /\ Peer(0) = 1 /\ Peer(1) = 0 /\ \A e \in Ends : e \in {0, 1}
  BY TheEnds
<1>3. DOMAIN conn = Ends /\ DOMAIN flags = Ends /\ early \in ParamsType
  BY DEF StartInv, Handshake
<1>4. /\ Own(c, 0) /\ Fit(c) /\ Good(c) /\ Sound(c) /\ Plain(c) /\ c \in ConnType /\ c.role = 0
      /\ c.qre = NoRecord
  BY <1>2 DEF StartInv, Own, Fit, Good
<1>5. Waiting(c, NoLimits) /\ c.live = {}
  BY <1>1, <1>4 DEF Own, Seen, Limits
<1>6. c.txMax = 0 /\ c.txOff = 0 /\ \A i \in Direction : c.txStreams[i] = 0
  <2>1. c.txMax = 0 /\ c.txStreams = NoStreams
    BY <1>5 DEF Waiting, NoLimits
  <2> QED
    BY <1>4, <2>1, Numbers DEF NoStreams
<1>7. Good(b) /\ Sound(b)
  <2>1. early.maxData \in Offset /\ c.txOff <= early.maxData
    BY <1>3, <1>6 DEF ParamsType, Offset
  <2> QED
    BY <1>4, <2>1, TxMaxGood, OtherAlike, AlikeSound DEF Sound
<1>8. /\ d = [b EXCEPT !.txStreams = early.streams]
      /\ d.txStreams = early.streams /\ d.txMax = early.maxData
      /\ d.role = c.role /\ d.idtr = c.idtr /\ d.next = c.next /\ d.live = c.live
      /\ d.strmq = c.strmq /\ d.strm = c.strm /\ d.rd = c.rd
      /\ d.rxStreams = c.rxStreams /\ d.rxUnsentStreams = c.rxUnsentStreams
      /\ d.ping = c.ping /\ d.pong = c.pong /\ d.rxOff = c.rxOff /\ d.glitch = c.glitch
      /\ d.err = c.err /\ d.qre = c.qre
      /\ b.role = c.role /\ b.idtr = c.idtr /\ b.next = c.next /\ b.live = c.live
      /\ b.strmq = c.strmq /\ b.strm = c.strm /\ b.rd = c.rd
      /\ b.rxStreams = c.rxStreams /\ b.rxUnsentStreams = c.rxUnsentStreams
      /\ b.txStreams = c.txStreams
  BY <1>4 DEF WithLimits, ConnType
<1> HIDE DEF b, d
<1>9. Good(d)
  <2>1. early.streams \in [Direction -> 0..MaxStreams]
    BY <1>3 DEF ParamsType
  <2> QED
    BY <1>7, <1>8, <2>1, StreamLimitsGood
<1>10. Sound(d)
  <2>1. \A i \in Direction : b.rxStreams[i] <= b.rxUnsentStreams[i]
    BY <1>7 DEF Sound, SoundBut, WithinStreamLimits
  <2>2. early.streams \in [Direction -> 0..MaxStreams]
    BY <1>3 DEF ParamsType
  <2>3. \A i \in Direction : /\ b.txStreams[i] <= d.txStreams[i]
                             /\ b.rxStreams[i] <= d.rxStreams[i]
                             /\ d.rxStreams[i] <= d.rxUnsentStreams[i]
    <3> TAKE i \in Direction
    <3>1. c.rxStreams[i] \in Nat /\ early.streams[i] \in Nat
      BY <1>4, <2>2, Numbers, LimitsAssumption
    <3>2. /\ b.rxStreams[i] = c.rxStreams[i] /\ d.rxStreams[i] = c.rxStreams[i]
          /\ d.rxUnsentStreams[i] = b.rxUnsentStreams[i]
          /\ b.txStreams[i] = 0 /\ d.txStreams[i] = early.streams[i]
      BY ONLY <1>6, <1>8, i \in Direction
    <3> QED
      BY ONLY <2>1, <3>1, <3>2, i \in Direction
  <2>4. /\ d.role = b.role /\ d.idtr = b.idtr /\ d.next = b.next /\ d.live = b.live
        /\ d.strmq = b.strmq /\ d.strm = b.strm /\ d.rd = b.rd
    BY ONLY <1>8
  <2> QED
    BY ONLY <1>7, <1>9, <2>3, <2>4, LimitsGrow
<1>11. Plain(d)
  BY <1>4, <1>8 DEF Plain
<1>12. Waiting(d, early)
  BY <1>5, <1>8 DEF Waiting
<1>13. /\ conn'[0] = d /\ conn'[1] = conn[1]
       /\ flags'[0] = {"EARLY_SET"} /\ flags'[1] = flags[1]
  BY <1>1, <1>2, <1>3
<1>14. /\ ~Seen(0) /\ ~Seen(0)' /\ Seen(1)' = Seen(1)
       /\ Introduced(0)' = Introduced(0) /\ Introduced(1)' = Introduced(1)
       /\ Flow(0)' = Flow(0) /\ Flow(1)' = Flow(1)
  BY <1>1, <1>2, <1>13 DEF Seen, Introduced, Flow
<1>15. Handshake'
  <2>1. conn' = [g \in Ends |-> conn'[g]] /\ wire' = [g \in Ends |-> wire'[g]]
    BY <1>1, <1>3 DEF StartInv, Handshake
  <2>2. flags' \in [Ends -> SUBSET ConnFlag]
    BY <1>1, <1>3 DEF StartInv, Handshake, ConnFlag
  <2> QED
    BY <1>1, <1>13, <1>14, <2>1, <2>2 DEF StartInv, Handshake
<1>16. Silent'
  BY <1>14 DEF StartInv, Silent
<1>17. Way(0)' /\ Way(1)'
  <2>1. Way(0) /\ Way(1)
    BY <1>2 DEF StartInv
  <2>2. "SENT" \notin flags[0]
    BY <1>1
  <2>3. Way(0)'
    BY <1>1, <1>2, <1>13, <1>14, <2>1 DEF Way
  <2>4. Way(1)'
    BY <1>1, <1>2, <1>13, <1>14, <2>1, <2>2 DEF Way
  <2> QED
    BY <2>3, <2>4
<1>18. Own(conn[0], 0)'
  <2>1. Limits(0)' = early
    BY <1>1, <1>13 DEF Limits
  <2> QED
    BY <1>4, <1>8, <1>9, <1>10, <1>11, <1>12, <1>13, <1>14, <2>1 DEF Own, Fit
<1>19. Own(conn[1], 1)'
  <2>1. Own(conn[1], 1)
    BY <1>2 DEF StartInv
  <2>2. Limits(1)' = Limits(1)
    BY <1>1, <1>13 DEF Limits
  <2> QED
    BY <1>13, <1>14, <2>1, <2>2 DEF Own
<1> QED
  BY <1>2, <1>15, <1>16, <1>17, <1>18, <1>19 DEF StartInv

\* A connection as dwnx_conn_client_new and dwnx_conn_server_new make it.
LEMMA FreshFit ==
  ASSUME NEW r \in Role, NEW c, c = Fresh(r)
  PROVE  /\ Fit(c) /\ c.role = r /\ c.live = {} /\ c.qre = NoRecord /\ c.err = "NONE"
         /\ Waiting(c, NoLimits)
<1> DEFINE a == NewConn(r)
           b == [a EXCEPT !.txMax = 0]
<1>1. Good(a) /\ a \in ConnType
  BY InitGood DEF Good
<1>2. a.txOff = 0 /\ 0 \in Offset
  BY DEF NewConn, Offset
<1>3. Good(b) /\ b \in ConnType
  <2> HIDE DEF a
  <2>1. Good(b)
    BY <1>1, <1>2, TxMaxGood
  <2> QED
    BY <2>1 DEF Good
<1>4. c = [b EXCEPT !.txStreams = NoStreams]
  BY DEF Fresh
<1>5. Good(c) /\ c \in ConnType
  <2> HIDE DEF b
  <2>1. NoStreams \in [Direction -> 0..MaxStreams]
    BY DEF NoStreams
  <2>2. Good([b EXCEPT !.txStreams = NoStreams])
    BY ONLY <1>3, <2>1, StreamLimitsGood
  <2>3. Good(c)
    BY ONLY <1>4, <2>2
  <2> QED
    BY <2>3 DEF Good
<1>6. /\ c.role = r /\ c.live = {} /\ c.strmq = {} /\ c.idtr = {} /\ c.rd = Idle
      /\ c.next = [i \in Direction |-> FirstStreamId(r, i)]
      /\ c.rxStreams = c.rxUnsentStreams /\ c.qre = NoRecord /\ c.err = "NONE"
      /\ c.rxOff = 0 /\ c.glitch = GlitchBurst /\ c.ping = -1 /\ c.pong = -1
      /\ c.txMax = 0 /\ c.txStreams = NoStreams
      /\ c.strm = [s \in StreamIds |-> NewStrm(r, s)]
  BY DEF Fresh, NewConn, NoRecord
<1>7. Sound(c)
  BY <1>5, <1>6, NewSound
<1>8. Plain(c)
  BY <1>6, NewStrmPlain DEF Plain
<1>9. Waiting(c, NoLimits)
  BY <1>6 DEF Waiting, NoLimits
<1> QED
  BY <1>5, <1>6, <1>7, <1>8, <1>9 DEF Fit

\* dwnx_conn_discard_early_data_state.
LEMMA DiscardFresh ==
  ASSUME NEW c, Fit(c), NEW p, Waiting(c, p), c.qre = NoRecord
  PROVE  Discard(c) = Fresh(c.role)
<1> DEFINE d == Discard(c)
           r == c.role
           b == Fresh(r)
<1>1. c \in ConnType /\ r \in Role /\ c.ping = -1 /\ c.pong = -1
  BY Fields DEF Fit, Good, Plain
<1>2. /\ c.idtr = {} /\ c.rxOff = 0 /\ c.glitch = GlitchBurst /\ c.rd = Idle /\ c.err = "NONE"
      /\ c.qre = NoRecord
  BY DEF Waiting
<1>3. /\ d.live = {} /\ d.strmq = {} /\ d.strm = NewConn(r).strm
      /\ d.next = [i \in Direction |-> FirstStreamId(r, i)]
      /\ d.txStreams = NoStreams /\ d.rxStreams = Params[r].streams
      /\ d.rxUnsentStreams = Params[r].streams
      /\ d.txOff = 0 /\ d.txMax = 0 /\ d.txBlocked = NoBlocked
      /\ d.rxMax = Params[r].maxData /\ d.rxUnsent = Params[r].maxData
      /\ d.role = r /\ d.idtr = c.idtr /\ d.rxOff = c.rxOff /\ d.ping = c.ping
      /\ d.pong = c.pong /\ d.glitch = c.glitch /\ d.rd = c.rd /\ d.qre = c.qre /\ d.err = c.err
  BY <1>1 DEF Discard, ConnType
<1>4. d = [role |-> d.role, live |-> d.live, strm |-> d.strm, strmq |-> d.strmq,
           idtr |-> d.idtr, next |-> d.next, txStreams |-> d.txStreams,
           rxStreams |-> d.rxStreams, rxUnsentStreams |-> d.rxUnsentStreams,
           txOff |-> d.txOff, txMax |-> d.txMax, txBlocked |-> d.txBlocked,
           rxOff |-> d.rxOff, rxMax |-> d.rxMax, rxUnsent |-> d.rxUnsent,
           ping |-> d.ping, pong |-> d.pong, glitch |-> d.glitch, rd |-> d.rd,
           qre |-> d.qre, err |-> d.err]
  <2> DEFINE S == NewConn(r).strm
             N == [i \in Direction |-> FirstStreamId(r, i)]
             M == Params[r].maxData
             L == Params[r].streams
  <2>1. d = [c EXCEPT !.live = {}, !.strmq = {}, !.strm = S,
            !.txStreams = NoStreams, !.txOff = 0, !.txMax = 0, !.txBlocked = NoBlocked,
            !.rxUnsent = M, !.rxMax = M, !.rxUnsentStreams = L, !.rxStreams = L, !.next = N]
    BY DEF Discard
  <2> HIDE DEF S, N, M, L, d, r
  <2> QED
    BY ONLY <1>1, <2>1 DEF ConnType
<1>5. /\ b.live = {} /\ b.strmq = {} /\ b.strm = NewConn(r).strm
      /\ b.next = [i \in Direction |-> FirstStreamId(r, i)]
      /\ b.txStreams = NoStreams /\ b.rxStreams = Params[r].streams
      /\ b.rxUnsentStreams = Params[r].streams
      /\ b.txOff = 0 /\ b.txMax = 0 /\ b.txBlocked = NoBlocked
      /\ b.rxMax = Params[r].maxData /\ b.rxUnsent = Params[r].maxData
      /\ b.role = r /\ b.idtr = {} /\ b.rxOff = 0 /\ b.ping = -1
      /\ b.pong = -1 /\ b.glitch = GlitchBurst /\ b.rd = Idle /\ b.qre = NoRecord
      /\ b.err = "NONE"
  BY DEF Fresh, NewConn, NoRecord
<1>6. b \in ConnType
  BY <1>1, FreshFit DEF Fit, Good
<1> HIDE DEF b
<1>7. b = [role |-> b.role, live |-> b.live, strm |-> b.strm, strmq |-> b.strmq,
           idtr |-> b.idtr, next |-> b.next, txStreams |-> b.txStreams,
           rxStreams |-> b.rxStreams, rxUnsentStreams |-> b.rxUnsentStreams,
           txOff |-> b.txOff, txMax |-> b.txMax, txBlocked |-> b.txBlocked,
           rxOff |-> b.rxOff, rxMax |-> b.rxMax, rxUnsent |-> b.rxUnsent,
           ping |-> b.ping, pong |-> b.pong, glitch |-> b.glitch, rd |-> b.rd,
           qre |-> b.qre, err |-> b.err]
  BY <1>6, AllFields
<1> HIDE DEF d, r
<1>8. /\ d.role = b.role /\ d.live = b.live /\ d.strm = b.strm /\ d.strmq = b.strmq
      /\ d.idtr = b.idtr /\ d.next = b.next /\ d.txStreams = b.txStreams
      /\ d.rxStreams = b.rxStreams /\ d.rxUnsentStreams = b.rxUnsentStreams
      /\ d.txOff = b.txOff /\ d.txMax = b.txMax /\ d.txBlocked = b.txBlocked
      /\ d.rxOff = b.rxOff /\ d.rxMax = b.rxMax /\ d.rxUnsent = b.rxUnsent
      /\ d.ping = b.ping /\ d.pong = b.pong /\ d.glitch = b.glitch /\ d.rd = b.rd
      /\ d.qre = b.qre /\ d.err = b.err
  BY ONLY <1>1, <1>2, <1>3, <1>5
<1>9. d = b
  BY ONLY <1>4, <1>7, <1>8, Zenon
<1> QED
  BY <1>9 DEF d, b, r

\* TLS on the server decides.
LEMMA AnswerStart ==
  ASSUME Ends = Role, StartInv, Answer
  PROVE  StartInv'
<1>1. /\ UNCHANGED <<conn, wire, flags, early, told>> /\ tls = "hello"
      /\ tls' \in {"accepted", "rejected"}
  BY DEF Answer
<1>2. \A g : /\ Seen(g)' = Seen(g) /\ Limits(g)' = Limits(g) /\ Flow(g)' = Flow(g)
             /\ Introduced(g)' = Introduced(g)
  BY <1>1 DEF Seen, Limits, Flow, Introduced
<1>3. Handshake'
  BY <1>1, <1>2 DEF StartInv, Handshake
<1>4. Silent'
  BY <1>2 DEF StartInv, Silent
<1>5. \A g \in Ends : Way(g)'
  BY <1>1, <1>2 DEF StartInv, Way
<1>6. \A g \in Ends : Own(conn[g], g)'
  BY <1>1, <1>2 DEF StartInv, Own
<1> QED
  BY <1>3, <1>4, <1>5, <1>6 DEF StartInv

\* The client learns of it.  When its early data was rejected it starts again.
LEMMA ToldStart ==
  ASSUME Ends = Role, StartInv, Told
  PROVE  /\ StartInv'
         /\ tls = "rejected" => /\ conn'[0] = Fresh(0) /\ flags'[0] = {"REJECTED"}
                                /\ ~Seen(0)' /\ ~Seen(1)'
                                /\ conn'[1] = conn[1] /\ Flow(1)' = << >> /\ Flow(0)' = Flow(0)
         /\ tls # "rejected" => UNCHANGED <<conn, wire, flags, early>>
<1>1. tls # "hello" /\ ~told /\ told' = TRUE /\ UNCHANGED <<early, tls>>
  BY DEF Told
<1>2. 0 \in Ends /\ 1 \in Ends /\ Peer(0) = 1 /\ Peer(1) = 0 /\ \A e \in Ends : e \in {0, 1}
  BY TheEnds
<1>3. DOMAIN conn = Ends /\ DOMAIN flags = Ends /\ DOMAIN wire = Ends /\ ~Seen(0)
  BY <1>1 DEF StartInv, Handshake
<1>4. CASE tls # "rejected"
  <2>1. UNCHANGED <<conn, wire, flags, early, tls>>
    BY <1>1, <1>4 DEF Told
  <2>2. \A g : /\ Seen(g)' = Seen(g) /\ Limits(g)' = Limits(g) /\ Flow(g)' = Flow(g)
               /\ Introduced(g)' = Introduced(g)
    BY <2>1 DEF Seen, Limits, Flow, Introduced
  <2>3. Handshake'
    BY <1>1, <2>1, <2>2 DEF StartInv, Handshake
  <2>4. Silent'
    BY <2>2 DEF StartInv, Silent
  <2>5. \A g \in Ends : Way(g)'
    BY <2>1, <2>2 DEF StartInv, Way
  <2>6. \A g \in Ends : Own(conn[g], g)'
    BY <2>1, <2>2 DEF StartInv, Own
  <2> QED
    BY <1>4, <2>1, <2>3, <2>4, <2>5, <2>6 DEF StartInv
<1>5. CASE tls = "rejected"
  <2> DEFINE c == conn[0]
  <2>1. /\ conn' = [conn EXCEPT ![0] = Discard(c)]
        /\ flags' = [flags EXCEPT ![0] = (flags[0] \ {"EARLY_SET", "SENT"}) \cup {"REJECTED"}]
        /\ wire' = [wire EXCEPT ![1] = << >>]
    BY <1>5 DEF Told
  <2>2. ~Seen(0) /\ ~Seen(1)
    BY <1>1, <1>5 DEF StartInv, Handshake
  <2>3. Own(c, 0) /\ Own(conn[1], 1)
    BY <1>2 DEF StartInv
  <2>4. Discard(c) = Fresh(0)
    BY <2>2, <2>3, DiscardFresh DEF Own
  <2>5. flags'[0] = {"REJECTED"}
    <3>1. flags[0] \subseteq ConnFlag /\ "SEEN" \notin flags[0]
      BY <1>2, <2>2 DEF StartInv, Handshake, Seen
    <3>2. (flags[0] \ {"EARLY_SET", "SENT"}) \cup {"REJECTED"} = {"REJECTED"}
      BY <3>1 DEF ConnFlag
    <3> QED
      BY <1>2, <1>3, <2>1, <3>2
  <2>6. /\ conn'[0] = Fresh(0) /\ conn'[1] = conn[1] /\ flags'[1] = flags[1]
        /\ wire'[0] = wire[0] /\ wire'[1] = << >>
    BY <1>2, <1>3, <2>1, <2>4
  <2>7. /\ ~Seen(0)' /\ ~Seen(1)' /\ Introduced(0)' = Introduced(0) /\ ~Introduced(1)'
        /\ Flow(0)' = Flow(0) /\ Flow(1)' = << >>
    BY <1>2, <2>2, <2>5, <2>6 DEF Seen, Introduced, Flow
  <2>8. Handshake'
    <3>1. conn' = [g \in Ends |-> conn'[g]] /\ wire' = [g \in Ends |-> wire'[g]]
      BY <1>3, <2>1 DEF StartInv, Handshake
    <3>2. flags' \in [Ends -> SUBSET ConnFlag]
      <4>1. flags \in [Ends -> SUBSET ConnFlag]
        BY DEF StartInv, Handshake
      <4>2. (flags[0] \ {"EARLY_SET", "SENT"}) \cup {"REJECTED"} \in SUBSET ConnFlag
        BY <1>2, <4>1 DEF ConnFlag
      <4> QED
        BY <2>1, <4>1, <4>2
    <3> QED
      BY <1>1, <2>6, <2>7, <3>1, <3>2 DEF StartInv, Handshake
  <2>9. Silent'
    BY <2>2, <2>7 DEF StartInv, Silent
  <2>10. Way(0)' /\ Way(1)'
    <3>1. Way(0) /\ Way(1)
      BY <1>2 DEF StartInv
    <3>2. Way(0)'
      BY <1>2, <2>6, <2>7, <3>1 DEF Way
    <3>3. Way(1)'
      <4>1. << >> \in Seq(SUBSET PlainFrame)
        OBVIOUS
      <4> QED
        BY <1>2, <2>6, <2>7, <4>1 DEF Way
    <3> QED
      BY <3>2, <3>3
  <2>11. Own(conn[0], 0)'
    <3>1. Limits(0)' = NoLimits
      BY <2>5 DEF Limits
    <3>2. 0 \in Role
      BY DEF Role
    <3> QED
      BY <2>6, <2>7, <3>1, <3>2, FreshFit DEF Own
  <2>12. Own(conn[1], 1)'
    <3>1. Limits(1)' = Limits(1)
      BY <1>1, <2>6 DEF Limits
    <3> QED
      BY <2>2, <2>3, <2>6, <2>7, <3>1 DEF Own
  <2>13. StartInv'
    BY <1>2, <2>8, <2>9, <2>10, <2>11, <2>12 DEF StartInv
  <2> QED
    BY <1>5, <2>5, <2>6, <2>7, <2>13
<1> QED
  BY <1>4, <1>5

\* Transport parameters are read: they are the first frame, and the only one
\* of their kind.
LEMMA ReadFirstView ==
  ASSUME Ends = Role, StartInv, NEW e \in Ends, ReadFirst(e)
  PROVE  LET c == conn[e]
             d == conn'[e]
             q == Params[1 - e]
         IN
         /\ ~Seen(e) /\ Introduced(e) /\ Seen(e)' /\ c.err = "NONE" /\ Fit(c)
         /\ \/ "EARLY_SET" \in flags[e] /\ ~KeepsPromise(early, q) /\ d = Fail(c, "PROTO")
            \/ d = Lift(c, q.maxData, q.streams) /\ Below(c, q.maxData, q.streams)
         /\ wire' = [wire EXCEPT ![e] = Flow(e)]
         /\ conn' = [conn EXCEPT ![e] = d]
         /\ flags' = [flags EXCEPT ![e] = flags[e] \cup {"SEEN"}]
         /\ UNCHANGED <<early, tls, told>> /\ CanReceive(e)
<1> DEFINE c == conn[e]
           q == Params[1 - e]
           p == Limits(e)
<1>1. /\ c.err = "NONE" /\ CanReceive(e) /\ wire[e] # << >>
      /\ "SEEN" \notin flags[e] \/ Head(wire[e]) = {ParamsFr}
      /\ conn' = [conn EXCEPT ![e] = IF "SEEN" \notin flags[e] /\ Head(wire[e]) = {ParamsFr}
                                       THEN RecvTransportParams(e, c) ELSE Fail(c, "PROTO")]
      /\ flags' = [flags EXCEPT ![e] = flags[e] \cup {"SEEN"}]
      /\ wire' = [wire EXCEPT ![e] = Tail(wire[e])]
      /\ UNCHANGED <<early, tls, told>>
  BY DEF ReadFirst, Running
<1>2. Own(c, e) /\ Way(e) /\ early \in ParamsType
  BY DEF StartInv, Handshake
<1>3. DOMAIN conn = Ends /\ DOMAIN flags = Ends /\ DOMAIN wire = Ends
  BY DEF StartInv, Handshake
<1>4. ParamsFr \notin PlainFrame
  BY DEF ParamsFr, PlainFrame
<1>5. ~Seen(e)
  <2> SUFFICES ASSUME Seen(e) PROVE FALSE
    OBVIOUS
  <2>1. wire[e] \in Seq(SUBSET PlainFrame)
    BY <1>2 DEF Way, Introduced
  <2>2. Head(wire[e]) \in SUBSET PlainFrame
    BY <1>1, <2>1
  <2>3. Head(wire[e]) = {ParamsFr}
    BY <1>1 DEF Seen
  <2> QED
    BY <1>4, <2>2, <2>3
<1>6. Introduced(e)
  BY <1>1, <1>2, <1>5 DEF Way, Introduced
<1>7. Head(wire[e]) = {ParamsFr} /\ Tail(wire[e]) = Flow(e)
  <2>1. wire[e] = <<{ParamsFr}>> \o Flow(e) /\ Flow(e) \in Seq(SUBSET PlainFrame)
    BY <1>2, <1>6 DEF Way
  <2> QED
    BY <2>1, InFront
<1>8. conn' = [conn EXCEPT ![e] = RecvTransportParams(e, c)]
  BY <1>1, <1>5, <1>7 DEF Seen
<1>9. conn'[e] = RecvTransportParams(e, c) /\ conn' = [conn EXCEPT ![e] = conn'[e]]
  BY <1>3, <1>8
<1>10. Seen(e)'
  BY <1>1, <1>3 DEF Seen
<1>11. Fit(c) /\ Waiting(c, p) /\ c.role = e /\ e \in Role /\ (e = 1 => c = Fresh(1))
  BY <1>2, <1>5 DEF Own
<1>12. q \in ParamsType /\ Peer(e) = 1 - e
  BY <1>11, RoleParams DEF Peer
<1>13. p \in ParamsType
  BY <1>2, NothingPromised DEF Limits
<1>14. CASE "EARLY_SET" \in flags[e] /\ ~KeepsPromise(early, q)
  <2>1. RecvTransportParams(e, c) = Fail(c, "PROTO")
    BY <1>12, <1>14 DEF RecvTransportParams
  <2> QED
    BY <1>1, <1>5, <1>6, <1>7, <1>9, <1>10, <1>11, <1>14, <2>1
<1>15. CASE ~("EARLY_SET" \in flags[e] /\ ~KeepsPromise(early, q))
  <2>1. KeepsPromise(p, q)
    BY <1>12, <1>15, NothingPromised DEF Limits
  <2>2. RecvTransportParams(e, c) = IF e = 0 THEN Raised(WithLimits(c, q), q)
                                    ELSE WithLimits(c, q)
    BY <1>12, <1>15 DEF RecvTransportParams
  <2>3. q = Params[1 - c.role]
    BY <1>11
  <2> HIDE DEF c, p, q
  <2>4. /\ Raised(WithLimits(c, q), q) = Lift(c, q.maxData, q.streams)
        /\ c.live = {} => WithLimits(c, q) = Lift(c, q.maxData, q.streams)
    BY <1>11, <1>13, <2>1, <2>3, ParamsTaken
  <2>5. Below(c, q.maxData, q.streams)
    BY <1>11, <1>13, <2>1, <2>3, BelowAnnounced
  <2>6. e # 0 => c.live = {}
    <3>1. e # 0 => e = 1
      BY <1>11 DEF Role
    <3>2. 1 \in Role
      BY DEF Role
    <3> QED
      BY <1>11, <3>1, <3>2, FreshFit
  <2>7. RecvTransportParams(e, c) = Lift(c, q.maxData, q.streams)
    BY <2>2, <2>4, <2>6
  <2> QED
    BY <1>1, <1>5, <1>6, <1>7, <1>9, <1>10, <1>11, <2>5, <2>7 DEF c, q
<1> QED
  BY <1>14, <1>15

\* So the connection knows the limits of its peer, or has failed.
LEMMA ReadFirstStart ==
  ASSUME Ends = Role, StartInv, NEW e \in Ends, ReadFirst(e)
  PROVE  /\ StartInv' /\ Flow(e)' = Flow(e) /\ Flow(Peer(e))' = Flow(Peer(e))
         /\ Seen(Peer(e))' = Seen(Peer(e)) /\ conn'[Peer(e)] = conn[Peer(e)]
<1> DEFINE c == conn[e]
           d == conn'[e]
           q == Params[1 - e]
           g == Peer(e)
<1>1. /\ ~Seen(e) /\ Introduced(e) /\ Seen(e)' /\ c.err = "NONE" /\ Fit(c)
      /\ \/ "EARLY_SET" \in flags[e] /\ ~KeepsPromise(early, q) /\ d = Fail(c, "PROTO")
         \/ d = Lift(c, q.maxData, q.streams) /\ Below(c, q.maxData, q.streams)
      /\ wire' = [wire EXCEPT ![e] = Flow(e)]
      /\ conn' = [conn EXCEPT ![e] = d]
      /\ flags' = [flags EXCEPT ![e] = flags[e] \cup {"SEEN"}]
      /\ UNCHANGED <<early, tls, told>> /\ CanReceive(e)
  BY ReadFirstView
<1>2. /\ g \in Ends /\ g # e /\ Peer(g) = e /\ \A i \in Ends : i \in {e, g}
  BY TheEnds
<1>3. DOMAIN conn = Ends /\ DOMAIN flags = Ends /\ DOMAIN wire = Ends
  BY DEF StartInv, Handshake
<1> HIDE DEF g
<1>4. /\ conn'[g] = conn[g] /\ flags'[g] = flags[g] /\ wire'[g] = wire[g]
      /\ flags'[e] = flags[e] \cup {"SEEN"} /\ wire'[e] = Flow(e)
  BY <1>1, <1>2, <1>3
<1>5. /\ Seen(g)' = Seen(g) /\ ~Introduced(e)' /\ Introduced(g)' = Introduced(g)
      /\ Flow(e)' = Flow(e) /\ Flow(g)' = Flow(g) /\ Limits(g)' = Limits(g)
  <2>1. "SENT" \in flags'[e] <=> "SENT" \in flags[e]
    BY <1>4
  <2>2. Seen(g)' = Seen(g) /\ ~Introduced(e)' /\ Introduced(g)' = Introduced(g)
    BY <1>1, <1>2, <1>4, <2>1 DEF Seen, Introduced
  <2> QED
    BY <1>1, <1>4, <2>2 DEF Flow, Limits
<1>6. Handshake'
  <2>1. conn' = [i \in Ends |-> conn'[i]] /\ wire' = [i \in Ends |-> wire'[i]]
    BY <1>1, <1>3 DEF StartInv, Handshake
  <2>2. flags' \in [Ends -> SUBSET ConnFlag]
    <3>1. flags \in [Ends -> SUBSET ConnFlag]
      BY DEF StartInv, Handshake
    <3>2. flags[e] \cup {"SEEN"} \in SUBSET ConnFlag
      BY <3>1 DEF ConnFlag
    <3> QED
      BY <1>1, <3>1, <3>2
  <2>3. "EARLY_SET" \notin flags'[1]
    <3>1. "EARLY_SET" \notin flags[1]
      BY DEF StartInv, Handshake
    <3>2. 1 \in Ends
      BY TheEnds
    <3>3. 1 = e \/ 1 = g
      BY <1>2, <3>2
    <3> QED
      BY <1>4, <3>1, <3>3
  <2>4. ~told' => ~Seen(0)'
    <3>1. 0 \in {e, g}
      BY <1>2, TheEnds
    <3>2. CASE e = 0
      BY <1>1, <3>2 DEF CanReceive
    <3>3. CASE g = 0
      BY <1>1, <1>5, <3>3 DEF StartInv, Handshake
    <3> QED
      BY <3>1, <3>2, <3>3
  <2>5. Seen(1)' => told' \/ tls' = "accepted"
    <3>1. 1 \in {e, g}
      BY <1>2, TheEnds
    <3>2. CASE e = 1
      BY <1>1, <3>2 DEF CanReceive
    <3>3. CASE g = 1
      BY <1>1, <1>5, <3>3 DEF StartInv, Handshake
    <3> QED
      BY <3>1, <3>2, <3>3
  <2> QED
    BY <1>1, <2>1, <2>2, <2>3, <2>4, <2>5 DEF StartInv, Handshake
<1>7. Silent'
  <2>1. 1 \in {e, g} /\ 0 \in {e, g}
    BY <1>2, TheEnds
  <2> QED
    BY <1>1, <1>2, <1>5, <2>1 DEF StartInv, Silent
<1>8. Way(e)' /\ Way(g)'
  <2>1. Way(e) /\ Way(g) /\ "SENT" \in flags[g]
    BY <1>1, <1>2 DEF StartInv, Introduced, g
  <2>2. Way(e)'
    BY <1>2, <1>4, <1>5, <2>1 DEF Way, g
  <2>3. "SENT" \in flags'[e] <=> "SENT" \in flags[e]
    BY <1>4
  <2>4. Way(g)'
    BY <1>2, <1>4, <1>5, <2>1, <2>3 DEF Way
  <2> QED
    BY <2>2, <2>4
<1>9. Own(conn[g], g)'
  <2>1. Own(conn[g], g)
    BY <1>2 DEF StartInv
  <2> QED
    BY <1>4, <1>5, <2>1 DEF Own
<1>10. Own(conn[e], e)'
  <2>1. Own(c, e) /\ Good(c) /\ Sound(c) /\ Plain(c) /\ c \in ConnType /\ c.qre = NoRecord
        /\ c.role = e
    BY <1>1 DEF StartInv, Own, Fit, Good
  <2>0. conn'[e] = d
    OBVIOUS
  <2>2. CASE d = Fail(c, "PROTO")
    <3> HIDE DEF c, d
    <3>1. Good(d) /\ Sound(d)
      <4>1. "PROTO" \in Error /\ d = [c EXCEPT !.err = "PROTO"]
        BY <2>2 DEF Fail, Error
      <4> QED
        BY <2>1, <4>1, SetGood, OtherAlike, AlikeSound DEF Sound
    <3>2. /\ d.role = c.role /\ d.qre = c.qre /\ d.err = "PROTO" /\ d.ping = c.ping
          /\ d.pong = c.pong /\ d.strm = c.strm /\ d.live = c.live
      BY <2>1, <2>2 DEF Fail, ConnType
    <3>3. Fit(d)
      BY <2>1, <3>1, <3>2 DEF Fit, Plain
    <3>4. d.err # "NONE"
      BY <3>2
    <3> QED
      BY <1>1, <2>0, <2>1, <3>2, <3>3, <3>4 DEF Own
  <2>3. CASE d = Lift(c, q.maxData, q.streams) /\ Below(c, q.maxData, q.streams)
    <3> HIDE DEF c, d
    <3>1. Fit(d) /\ Settled(d)
      BY <1>1, <2>3, LiftFit
    <3>2. d.role = c.role /\ d.qre = c.qre
      BY <2>1, <2>3, LiftView
    <3> QED
      BY <1>1, <2>0, <2>1, <3>1, <3>2 DEF Own
  <2> QED
    BY <1>1, <2>2, <2>3
<1>11. \A i \in Ends : Way(i)' /\ Own(conn[i], i)'
  BY <1>2, <1>8, <1>9, <1>10
<1> QED
  BY <1>4, <1>5, <1>6, <1>7, <1>11 DEF StartInv, g

\* What is left of plain frames when one of them was read.
LEMMA AfterPlain ==
  ASSUME NEW w \in Seq(SUBSET PlainFrame), w # << >>, NEW f \in Head(w)
  PROVE  f \in PlainFrame /\ After(w, f) \in Seq(SUBSET PlainFrame)
<1>1. Head(w) \in SUBSET PlainFrame /\ Tail(w) \in Seq(SUBSET PlainFrame)
  OBVIOUS
<1>2. 1 \in 1..Len(w) /\ w[1] = Head(w)
  BY EmptySeq
<1>3. Head(w) \ {f} \in SUBSET PlainFrame
  BY <1>1
<1>4. [w EXCEPT ![1] = Head(w) \ {f}] \in Seq(SUBSET PlainFrame)
  BY <1>2, <1>3, ExceptSeq
<1> QED
  BY <1>1, <1>2, <1>4 DEF After

\* Every stream keeps the window that was announced for it.
LEMMA StaysSettled ==
  ASSUME NEW c, NEW d, Settled(c), Good(d), Plain(d), SameWindows(c, d), d.role = c.role
  PROVE  Settled(d)
<1>1. d.role \in Role
  BY Fields
<1> SUFFICES ASSUME NEW s \in StreamIds PROVE d.strm[s].txMax = InitialMaxTx(d.role, s)
  BY DEF Settled
<1>2. CASE s \in d.live
  BY <1>2 DEF Settled, SameWindows
<1>3. CASE s \notin d.live
  BY <1>1, <1>3, NewStrmPlain DEF Plain
<1> QED
  BY <1>2, <1>3

\* A step of an endpoint that knows its peer, from what is on its way.
LEMMA SeenStart ==
  ASSUME Ends = Role, StartInv, NEW e \in Ends, Seen(e),
         NEW d, Fit(d), d.role = e, d.qre = NoRecord, d.err = "NONE" => Settled(d),
         NEW w \in Seq(SUBSET PlainFrame), e = 0 /\ ~Seen(1) => w = << >>,
         conn' = [conn EXCEPT ![e] = d], wire' = [wire EXCEPT ![e] = w],
         UNCHANGED <<flags, early, tls, told>>
  PROVE  /\ StartInv' /\ Flow(e)' = w /\ Flow(Peer(e))' = Flow(Peer(e))
         /\ \A g \in Ends : Seen(g)' = Seen(g)
         /\ conn'[e] = d /\ conn'[Peer(e)] = conn[Peer(e)]
<1> DEFINE g == Peer(e)
<1>1. /\ g \in Ends /\ g # e /\ Peer(g) = e /\ \A i \in Ends : i \in {e, g}
  BY TheEnds
<1>2. DOMAIN conn = Ends /\ DOMAIN wire = Ends
  BY DEF StartInv, Handshake
<1> HIDE DEF g
<1>3. conn'[g] = conn[g] /\ wire'[g] = wire[g] /\ conn'[e] = d /\ wire'[e] = w
  BY <1>1, <1>2
<1>4. \A i : Seen(i)' = Seen(i) /\ Introduced(i)' = Introduced(i) /\ Limits(i)' = Limits(i)
  BY DEF Seen, Introduced, Limits
<1>5. Flow(e)' = w /\ Flow(g)' = Flow(g) /\ ~Introduced(e)
  BY <1>3, <1>4 DEF Flow, Introduced
<1>6. Handshake'
  <2>1. conn' = [i \in Ends |-> conn'[i]] /\ wire' = [i \in Ends |-> wire'[i]]
    BY <1>2
  <2> QED
    BY <1>4, <2>1 DEF StartInv, Handshake
<1>7. Silent'
  <2>1. 0 \in {e, g}
    BY <1>1, TheEnds
  <2> QED
    BY <1>4, <1>5, <2>1 DEF StartInv, Silent
<1>8. Way(e)' /\ Way(g)'
  <2>1. Way(e) /\ Way(g)
    BY <1>1 DEF StartInv
  <2>2. "SENT" \in flags[g]
    BY <2>1 DEF Way, g
  <2>3. Way(e)'
    BY <1>3, <1>4, <1>5, <2>2 DEF Way, g
  <2>4. Way(g)'
    BY <1>3, <1>4, <1>5, <2>1 DEF Way
  <2> QED
    BY <2>3, <2>4
<1>9. Own(conn[g], g)' /\ Own(conn[e], e)'
  <2>1. Own(conn[g], g)
    BY <1>1 DEF StartInv
  <2> QED
    BY <1>3, <1>4, <2>1 DEF Own
<1>10. \A i \in Ends : Way(i)' /\ Own(conn[i], i)'
  BY <1>1, <1>8, <1>9
<1> QED
  BY <1>3, <1>4, <1>5, <1>6, <1>7, <1>10 DEF StartInv, g

\* Another frame is read, or payload.
LEMMA ReadNextView ==
  ASSUME Ends = Role, StartInv, NEW e \in Ends, ReadNext(e)
  PROVE  LET c == conn[e]
             u == Flow(e)
         IN
         /\ Seen(e) /\ c.err = "NONE" /\ Fit(c) /\ Settled(c) /\ c.role = e /\ c.qre = NoRecord
         /\ u \in Seq(SUBSET PlainFrame) /\ wire[e] = u
         /\ UNCHANGED <<flags, early, tls, told>>
         /\ \/ \E n \in 1..c.rd.left : /\ conn' = [conn EXCEPT ![e] = RecvStreamData(c, n)]
                                       /\ wire' = [wire EXCEPT ![e] = u]
            \/ /\ c.rd = Idle /\ u # << >>
               /\ \E f \in Head(u) : /\ conn' = [conn EXCEPT ![e] = Recv(c, f)]
                                     /\ wire' = [wire EXCEPT ![e] = After(u, f)]
<1> DEFINE c == conn[e]
           u == Flow(e)
<1>1. Seen(e) /\ UNCHANGED <<flags, early, tls, told>> /\ ReadStep(e)
  BY DEF ReadNext, Seen
<1>2. Own(c, e) /\ Way(e) /\ wire = [i \in Ends |-> wire[i]]
  BY DEF StartInv, Handshake
<1>3. u \in Seq(SUBSET PlainFrame) /\ wire[e] = u
  BY <1>1, <1>2 DEF Way, Introduced
<1>4. c.err = "NONE"
  BY <1>1 DEF ReadStep, ReadStream, ReadStreamData, ReadResetStream, ReadStopSending, ReadLimit,
              ReadBlocked, ReadPing, Read, Running
<1>5. Fit(c) /\ Settled(c) /\ c.role = e /\ c.qre = NoRecord
  BY <1>1, <1>2, <1>4 DEF Own
<1>6. CASE ReadStreamData(e)
  <2>1. PICK n \in 1..c.rd.left : conn' = [conn EXCEPT ![e] = RecvStreamData(c, n)]
    BY <1>6 DEF ReadStreamData
  <2>2. wire' = [wire EXCEPT ![e] = u]
    <3>1. wire' = wire
      BY <1>6 DEF ReadStreamData
    <3> QED
      BY <1>2, <1>3, <3>1
  <2> QED
    BY <1>1, <1>3, <1>4, <1>5, <2>1, <2>2
<1>7. ASSUME NEW type, Read(e, type)
      PROVE  /\ c.rd = Idle /\ u # << >>
             /\ \E f \in Head(u) : /\ conn' = [conn EXCEPT ![e] = Recv(c, f)]
                                   /\ wire' = [wire EXCEPT ![e] = After(u, f)]
  <2>1. Peer(e) \in Ends
    BY TheEnds
  <2>2. c.rd = Idle
    BY <1>7 DEF Read
  <2>3. PICK f \in Incoming(e) : /\ conn' = [conn EXCEPT ![e] = Recv(c, f)]
                                 /\ wire' = [wire EXCEPT ![e] = After(wire[e], f)]
    BY <1>7, <2>1 DEF Read
  <2>4. wire[e] # << >> /\ f \in Head(wire[e])
    BY <2>1, <2>3 DEF Incoming, Foremost
  <2> QED
    BY <1>3, <2>2, <2>3, <2>4
<1>8. ReadStreamData(e) \/ \E type : Read(e, type)
  BY <1>1 DEF ReadStep, ReadStream, ReadResetStream, ReadStopSending, ReadLimit, ReadBlocked,
              ReadPing
<1> QED
  BY <1>1, <1>3, <1>4, <1>5, <1>6, <1>7, <1>8

\* And keeps what is known of the start.
LEMMA ReadNextStart ==
  ASSUME Ends = Role, StartInv, NEW e \in Ends, ReadNext(e)
  PROVE  StartInv'
<1> DEFINE c == conn[e]
           u == Flow(e)
<1>1. /\ Seen(e) /\ c.err = "NONE" /\ Fit(c) /\ Settled(c) /\ c.role = e /\ c.qre = NoRecord
      /\ u \in Seq(SUBSET PlainFrame) /\ UNCHANGED <<flags, early, tls, told>>
      /\ \/ \E n \in 1..c.rd.left : /\ conn' = [conn EXCEPT ![e] = RecvStreamData(c, n)]
                                    /\ wire' = [wire EXCEPT ![e] = u]
         \/ /\ c.rd = Idle /\ u # << >>
            /\ \E f \in Head(u) : /\ conn' = [conn EXCEPT ![e] = Recv(c, f)]
                                  /\ wire' = [wire EXCEPT ![e] = After(u, f)]
  BY ReadNextView
<1>2. e = 0 /\ ~Seen(1) => u = << >>
  BY DEF StartInv, Silent
<1>3. Good(c) /\ Sound(c) /\ Plain(c)
  BY <1>1 DEF Fit
<1> HIDE DEF c, u
<1>4. ASSUME NEW n \in 1..c.rd.left, conn' = [conn EXCEPT ![e] = RecvStreamData(c, n)],
             wire' = [wire EXCEPT ![e] = u]
      PROVE  StartInv'
  <2> DEFINE d == RecvStreamData(c, n)
  <2>1. /\ Good(d) /\ Sound(d) /\ Plain(d) /\ d.role = c.role /\ SameWindows(c, d)
        /\ d.qre = c.qre
    <3>1. Good(d)
      BY <1>3, RecvStreamDataGood
    <3>2. Sound(d)
      BY <1>3, RecvStreamDataSound
    <3>3. Plain(d) /\ d.role = c.role /\ SameWindows(c, d)
      BY <1>3, PayloadPlain
    <3>4. d.qre = c.qre
      <4>1. PICK f : f \in PeerFrame
        <5>1. [t |-> "QX_PING_REQUEST", seq |-> 0] \in PeerFrame
          BY DEF PeerFrame
        <5> QED
          BY <5>1
      <4> QED
        BY <1>3, <4>1, RecvRecord
    <3> QED
      BY <3>1, <3>2, <3>3, <3>4
  <2> HIDE DEF d
  <2>2. Fit(d) /\ Settled(d)
    BY <1>1, <2>1, StaysSettled DEF Fit
  <2>3. conn' = [conn EXCEPT ![e] = d]
    BY <1>4 DEF d
  <2> QED
    BY <1>1, <1>2, <1>4, <2>1, <2>2, <2>3, SeenStart
<1>5. ASSUME c.rd = Idle, u # << >>, NEW f \in Head(u), conn' = [conn EXCEPT ![e] = Recv(c, f)],
             wire' = [wire EXCEPT ![e] = After(u, f)]
      PROVE  StartInv'
  <2> DEFINE d == Recv(c, f)
             w == After(u, f)
  <2>1. f \in PlainFrame /\ w \in Seq(SUBSET PlainFrame)
    BY <1>1, <1>5, AfterPlain
  <2>2. f \in PeerFrame
    BY <2>1, PlainFrameView
  <2>3. /\ Good(d) /\ Sound(d) /\ Plain(d) /\ d.role = c.role /\ SameWindows(c, d)
        /\ d.qre = c.qre
    <3>1. Good(d)
      BY <1>3, <2>2, RecvGood
    <3>2. Sound(d)
      BY <1>3, <1>5, <2>2, RecvSound
    <3>3. Plain(d) /\ d.role = c.role /\ SameWindows(c, d)
      BY <1>1, <1>3, <2>1, RecvPlain
    <3>4. d.qre = c.qre
      BY <1>3, <2>2, RecvRecord
    <3> QED
      BY <3>1, <3>2, <3>3, <3>4
  <2>4. conn' = [conn EXCEPT ![e] = d] /\ wire' = [wire EXCEPT ![e] = w]
    BY <1>5
  <2> HIDE DEF d, w
  <2>5. Fit(d) /\ Settled(d)
    BY <1>1, <2>3, StaysSettled DEF Fit
  <2>6. e = 0 /\ ~Seen(1) => w = << >>
    BY <1>2, <1>5
  <2> QED
    BY <1>1, <2>1, <2>3, <2>4, <2>5, <2>6, SeenStart
<1> QED
  BY <1>1, <1>4, <1>5

\* A record is handed to TLS.
LEMMA TransmitStart ==
  ASSUME Ends = Role, StartInv, NEW e \in Ends,
         NEW c, OwnStep(conn[e], c), c.qre.frames \in Seq(SUBSET PlainFrame), Transmit(e, c),
         e = 1 /\ ~Seen(1) => FinishRecord(c) = Fresh(1) /\ c.qre.frames = << >>
  PROVE  /\ StartInv' /\ Flow(e)' = Flow(e) /\ Flow(Peer(e))' = Flow(Peer(e)) \o c.qre.frames
         /\ \A i \in Ends : Seen(i)' = Seen(i)
         /\ conn'[e] = FinishRecord(c) /\ conn'[Peer(e)] = conn[Peer(e)]
         /\ UNCHANGED <<early, tls, told>>
         /\ "EARLY_SET" \in flags'[0] <=> "EARLY_SET" \in flags[0]
<1> DEFINE g == Peer(e)
           q == c.qre.frames
           d == FinishRecord(c)
<1>1. /\ g \in Ends /\ g # e /\ Peer(g) = e /\ \A i \in Ends : i \in {e, g}
  BY TheEnds
<1>2. DOMAIN conn = Ends /\ DOMAIN wire = Ends /\ DOMAIN flags = Ends
  BY DEF StartInv, Handshake
<1>3. /\ conn' = [conn EXCEPT ![e] = d]
      /\ wire' = [wire EXCEPT ![g] = wire[g] \o ParamsFirst(e, q)]
      /\ flags' = [flags EXCEPT ![e] = flags[e] \cup {"SENT"}]
      /\ UNCHANGED <<early, tls, told>>
  BY DEF Transmit
<1>4. Own(d, e)
  <2>1. Fit(c)
    BY DEF OwnStep
  <2>2. OwnStep(c, d) /\ d.qre = NoRecord
    BY <2>1, FinishOwn
  <2>3. Own(conn[e], e)
    BY DEF StartInv
  <2> HIDE DEF d
  <2>4. OwnStep(conn[e], d)
    BY <2>2, OwnTwice
  <2>5. e = 1 /\ ~Seen(e) => d = Fresh(1)
    BY DEF d
  <2> QED
    BY <2>2, <2>3, <2>4, <2>5, OwnKept
<1>5. Way(e) /\ Way(g) /\ Own(conn[g], g)
  BY <1>1 DEF StartInv
<1>6. q \in Seq(SUBSET PlainFrame) /\ Flow(g) \in Seq(SUBSET PlainFrame)
  BY <1>5 DEF Way
<1> HIDE DEF g, q, d
<1>7. /\ conn'[e] = d /\ conn'[g] = conn[g] /\ wire'[e] = wire[e]
      /\ wire'[g] = wire[g] \o ParamsFirst(e, q)
      /\ flags'[e] = flags[e] \cup {"SENT"} /\ flags'[g] = flags[g]
  BY <1>1, <1>2, <1>3
<1>8. /\ \A i \in Ends : Seen(i)' = Seen(i) /\ Limits(i)' = Limits(i)
      /\ Introduced(e)' = Introduced(e) /\ (Introduced(g)' <=> ~Seen(g))
      /\ "EARLY_SET" \in flags'[e] <=> "EARLY_SET" \in flags[e]
  <2>1. /\ "SEEN" \in flags'[e] <=> "SEEN" \in flags[e]
        /\ "EARLY_SET" \in flags'[e] <=> "EARLY_SET" \in flags[e]
        /\ "SENT" \in flags'[e]
    BY <1>7
  <2>2. \A i \in Ends : Seen(i)' = Seen(i) /\ Limits(i)' = Limits(i)
    BY <1>1, <1>3, <1>7, <2>1 DEF Seen, Limits
  <2>3. Peer(e) = g
    BY DEF g
  <2>4. Introduced(e)' = Introduced(e)
    BY <1>7, <2>2, <2>3 DEF Introduced
  <2>5. Introduced(g)' <=> ~Seen(g)
    BY <1>1, <2>1, <2>2 DEF Introduced
  <2> QED
    BY <2>1, <2>2, <2>4, <2>5
<1>9. Flow(e)' = Flow(e)
  BY <1>7, <1>8 DEF Flow
<1>10. /\ Flow(g)' = Flow(g) \o q /\ Flow(g) \o q \in Seq(SUBSET PlainFrame)
       /\ wire'[g] = IF Introduced(g)' THEN <<{ParamsFr}>> \o (Flow(g) \o q) ELSE Flow(g) \o q
  <2> DEFINE P == {ParamsFr}
             u == Flow(g)
  <2>1. /\ u \o q \in Seq(SUBSET PlainFrame)
        /\ (<<P>> \o u) \o q = <<P>> \o (u \o q)
        /\ << >> \o (<<P>> \o q) = <<P>> \o q /\ << >> \o q = q
        /\ Tail(<<P>> \o (u \o q)) = u \o q
    <3>1. u \in Seq(SUBSET PlainFrame) /\ q \in Seq(SUBSET PlainFrame)
      BY <1>6 DEF u
    <3> HIDE DEF P, u, q
    <3>2. /\ u \o q \in Seq(SUBSET PlainFrame)
          /\ (<<P>> \o u) \o q = <<P>> \o (u \o q)
          /\ << >> \o (<<P>> \o q) = <<P>> \o q
      BY <3>1, InFrontOfTwo
    <3>3. << >> \o q = q
      BY <3>1, InFront
    <3>4. Tail(<<P>> \o (u \o q)) = u \o q
      <4> DEFINE z == u \o q
      <4>1. z \in Seq(SUBSET PlainFrame)
        BY <3>2
      <4> HIDE DEF z
      <4>2. Tail(<<P>> \o z) = z
        BY <4>1, InFront
      <4> QED
        BY <4>2 DEF z
    <3> QED
      BY <3>2, <3>3, <3>4
  <2>2. CASE "SENT" \in flags[e]
    <3>1. ParamsFirst(e, q) = q
      BY <2>2 DEF ParamsFirst
    <3>2. Introduced(g) <=> ~Seen(g)
      BY <1>1, <2>2 DEF Introduced
    <3>3. wire[g] = IF Introduced(g) THEN <<P>> \o u ELSE u
      BY <1>5 DEF Way
    <3>4. wire'[g] = IF Introduced(g)' THEN <<P>> \o (u \o q) ELSE u \o q
      BY <1>7, <1>8, <2>1, <3>1, <3>2, <3>3
    <3>5. Flow(g)' = u \o q
      BY <2>1, <3>4 DEF Flow
    <3> QED
      BY <2>1, <3>4, <3>5
  <2>3. CASE "SENT" \notin flags[e]
    <3>1. ParamsFirst(e, q) = <<P>> \o q
      BY <2>3 DEF ParamsFirst
    <3>2. wire[g] = << >> /\ ~Seen(g)
      BY <1>1, <1>5, <2>3 DEF Way
    <3>3. u = << >>
      BY <1>1, <2>3, <3>2 DEF Flow, Introduced
    <3>4. wire'[g] = <<P>> \o (u \o q) /\ Introduced(g)'
      BY <1>7, <1>8, <2>1, <3>1, <3>2, <3>3
    <3>5. Flow(g)' = u \o q
      BY <2>1, <3>4 DEF Flow
    <3> QED
      BY <2>1, <3>4, <3>5
  <2> QED
    BY <2>2, <2>3
<1>11. Handshake'
  <2>1. conn' = [i \in Ends |-> conn'[i]] /\ wire' = [i \in Ends |-> wire'[i]]
    BY <1>2, <1>3 DEF StartInv, Handshake
  <2>2. flags' \in [Ends -> SUBSET ConnFlag]
    <3>1. flags \in [Ends -> SUBSET ConnFlag]
      BY DEF StartInv, Handshake
    <3>2. flags[e] \cup {"SENT"} \in SUBSET ConnFlag
      BY <3>1 DEF ConnFlag
    <3> QED
      BY <1>3, <3>1, <3>2
  <2>3. "EARLY_SET" \notin flags'[1]
    <3>1. "EARLY_SET" \notin flags[1]
      BY DEF StartInv, Handshake
    <3>2. 1 = e \/ 1 = g
      BY <1>1, TheEnds
    <3>3. CASE 1 = e
      BY <1>8, <3>1, <3>3
    <3>4. CASE 1 = g
      BY <1>7, <3>1, <3>4
    <3> QED
      BY <3>2, <3>3, <3>4
  <2>4. 0 \in Ends /\ 1 \in Ends
    BY TheEnds
  <2> QED
    BY <1>3, <1>8, <2>1, <2>2, <2>3, <2>4 DEF StartInv, Handshake
<1>12. Silent'
  <2>1. 0 \in {e, g} /\ 1 \in {e, g} /\ 1 \in Ends /\ (e # 1 => e = 0)
    BY <1>1, TheEnds
  <2>2. ~Seen(1) => Flow(0) = << >>
    BY DEF StartInv, Silent
  <2>3. CASE e = 0
    BY <1>8, <1>9, <2>1, <2>2, <2>3 DEF Silent
  <2>4. CASE e = 1
    <3>1. g = 0
      BY <1>1, <2>1, <2>4
    <3>2. ~Seen(1) => Flow(0) \o q = << >>
      BY <2>2, <2>4 DEF q
    <3> QED
      BY <1>8, <1>10, <2>1, <3>1, <3>2 DEF Silent
  <2> QED
    BY <2>1, <2>3, <2>4
<1>13. Way(e)'
  <2>1. Peer(e) = g
    BY DEF g
  <2> QED
    BY <1>5, <1>7, <1>8, <1>9, <2>1 DEF Way
<1>14. Way(g)'
  <2>1. "SENT" \in flags'[e]
    BY <1>7
  <2> QED
    BY <1>1, <1>10, <2>1 DEF Way
<1>15. Own(conn[e], e)' /\ Own(conn[g], g)'
  <2>1. /\ "EARLY_SET" \in flags'[e] <=> "EARLY_SET" \in flags[e]
        /\ flags'[g] = flags[g]
    BY <1>7, <1>8
  <2>2. Own(conn[g], g)'
    BY <1>1, <1>5, <1>7, <1>8, <2>1 DEF Own
  <2>3. Own(conn[e], e)'
    BY <1>4, <1>7, <1>8, <2>1 DEF Own
  <2> QED
    BY <2>2, <2>3
<1>16. "EARLY_SET" \in flags'[0] <=> "EARLY_SET" \in flags[0]
  <2>1. 0 \in {e, g}
    BY <1>1, TheEnds
  <2> QED
    BY <1>7, <1>8, <2>1
<1>17. \A i \in Ends : Way(i)' /\ Own(conn[i], i)'
  BY <1>1, <1>13, <1>14, <1>15
<1> QED
  BY <1>3, <1>7, <1>8, <1>9, <1>10, <1>11, <1>12, <1>16, <1>17 DEF StartInv, d, q, g

\* A connection with nothing to report writes nothing.
LEMMA QuietCtrl ==
  ASSUME NEW r \in Role, NEW c, Fit(c), c.role = r, c.qre = NoRecord,
         c.strmq = {}, c.rxUnsent = c.rxMax, c.rxStreams = c.rxUnsentStreams
  PROVE  CtrlFrames(c) = {} /\ WithCtrl(c).qre.frames = << >> /\ FinishRecord(WithCtrl(c)) = c
<1>1. Fit(c) /\ Good(c) /\ c.role = r /\ c.qre = NoRecord
  BY DEF Fit
<1>2. c.strmq = {} /\ c.rxUnsent = c.rxMax /\ c.rxStreams = c.rxUnsentStreams
  OBVIOUS
<1>3. /\ c.rxMax \in Nat /\ Params[r].maxData \in Nat
      /\ \A i \in Direction : c.rxStreams[i] \in Nat
      /\ c.rxStreams = [i \in Direction |-> c.rxStreams[i]]
  <2>1. Params[r] \in ParamsType
    BY RoleParams
  <2>2. Params[r].maxData \in Nat
    BY <2>1 DEF ParamsType, Offset
  <2>3. c.rxStreams \in [Direction -> 0..MaxStreams] /\ MaxStreams \in Nat /\ c.rxMax \in Nat
    BY <1>1, Numbers DEF Good, ConnType
  <2> QED
    BY <2>2, <2>3
<1>4. MaxDataFrames(c) = {} /\ MaxStreamsFrames(c) = {}
  <2>1. ~ShouldSendMaxData(c)
    BY <1>1, <1>2, <1>3 DEF ShouldSendMaxData
  <2> QED
    BY <1>2, <1>3, <2>1 DEF MaxDataFrames, MaxStreamsFrames
<1>5. CtrlFrames(c) = {}
  <2>1. {ResetFrames(c, s) : s \in c.strmq} = {}
    BY <1>2
  <2> QED
    BY <1>1, <1>4, <2>1, WaitingFrames
<1>6. LET d == WithCtrl(c) IN
      /\ d.live = c.live \ Freeing(c) /\ d.strmq = {}
      /\ d.strm = [s \in StreamIds |-> IF s \in Freeing(c) THEN NewStrm(c.role, s)
                                       ELSE IF s \in c.strmq THEN ResetSent(c.strm[s])
                                       ELSE c.strm[s]]
      /\ d.rxMax = IF MaxDataFrames(c) \cap {} # {} THEN c.rxUnsent ELSE c.rxMax
      /\ d.rxStreams = [i \in Direction |->
                          IF MaxStreamsFr(i, c.rxUnsentStreams[i]) \in {}
                            THEN c.rxUnsentStreams[i] ELSE c.rxStreams[i]]
      /\ d.qre = [started |-> TRUE, frames |-> Batch(<< >>, {})]
      /\ d.role = c.role /\ d.idtr = c.idtr /\ d.next = c.next
      /\ d.txStreams = c.txStreams /\ d.rxUnsentStreams = c.rxUnsentStreams
      /\ d.txOff = c.txOff /\ d.txMax = c.txMax /\ d.txBlocked = c.txBlocked
      /\ d.rxOff = c.rxOff /\ d.rxUnsent = c.rxUnsent /\ d.ping = c.ping
      /\ d.pong = c.pong /\ d.glitch = c.glitch /\ d.rd = c.rd /\ d.err = c.err
  <2>1. LET d == WithCtrl(c) IN
        /\ d.live = c.live \ Freeing(c) /\ d.strmq = {}
        /\ d.strm = [s \in StreamIds |-> IF s \in Freeing(c) THEN NewStrm(c.role, s)
                                         ELSE IF s \in c.strmq THEN ResetSent(c.strm[s])
                                         ELSE c.strm[s]]
        /\ d.rxMax = IF MaxDataFrames(c) \cap CtrlFrames(c) # {} THEN c.rxUnsent ELSE c.rxMax
        /\ d.rxStreams = [i \in Direction |->
                            IF MaxStreamsFr(i, c.rxUnsentStreams[i]) \in CtrlFrames(c)
                              THEN c.rxUnsentStreams[i] ELSE c.rxStreams[i]]
        /\ d.qre = [started |-> TRUE, frames |-> Batch(<< >>, CtrlFrames(c))]
        /\ d.role = c.role /\ d.idtr = c.idtr /\ d.next = c.next
        /\ d.txStreams = c.txStreams /\ d.rxUnsentStreams = c.rxUnsentStreams
        /\ d.txOff = c.txOff /\ d.txMax = c.txMax /\ d.txBlocked = c.txBlocked
        /\ d.rxOff = c.rxOff /\ d.rxUnsent = c.rxUnsent /\ d.ping = c.ping
        /\ d.pong = c.pong /\ d.glitch = c.glitch /\ d.rd = c.rd /\ d.err = c.err
    BY ONLY <1>1, CtrlView
  <2> QED
    BY ONLY <1>5, <2>1
<1> DEFINE d == WithCtrl(c)
           e == FinishRecord(d)
<1>9. d.qre.frames = << >> /\ d.strmq = c.strmq /\ d.live = c.live
      /\ d.strm = c.strm /\ d.rxMax = c.rxMax /\ d.rxStreams = c.rxStreams
      /\ d.role = c.role /\ d.idtr = c.idtr /\ d.next = c.next
      /\ d.txStreams = c.txStreams /\ d.rxUnsentStreams = c.rxUnsentStreams
      /\ d.txOff = c.txOff /\ d.txMax = c.txMax /\ d.txBlocked = c.txBlocked
      /\ d.rxOff = c.rxOff /\ d.rxUnsent = c.rxUnsent /\ d.ping = c.ping
      /\ d.pong = c.pong /\ d.glitch = c.glitch /\ d.rd = c.rd /\ d.err = c.err
  <2>1. Freeing(c) = {}
    BY <1>2 DEF Freeing
  <2>2. c.strm = [s \in StreamIds |-> c.strm[s]]
    BY <1>1 DEF Good, ConnType
  <2> HIDE DEF d
  <2>3. d.qre.frames = << >>
    BY ONLY <1>6 DEF Batch, d
  <2>4. d.strm = c.strm
    <3>1. d.strm = [s \in StreamIds |-> IF s \in Freeing(c) THEN NewStrm(c.role, s)
                                        ELSE IF s \in c.strmq THEN ResetSent(c.strm[s])
                                        ELSE c.strm[s]]
      BY <1>6 DEF d
    <3> QED
      BY ONLY <1>2, <2>1, <2>2, <3>1
  <2>5. d.rxMax = c.rxMax /\ d.rxStreams = c.rxStreams
    BY <1>3, <1>6 DEF d
  <2>6. d.strmq = c.strmq /\ d.live = c.live
    <3>1. d.strmq = {} /\ d.live = c.live \ Freeing(c)
      BY <1>6 DEF d
    <3> QED
      BY <1>2, <2>1, <3>1
  <2>7. /\ d.role = c.role /\ d.idtr = c.idtr /\ d.next = c.next
        /\ d.txStreams = c.txStreams /\ d.rxUnsentStreams = c.rxUnsentStreams
        /\ d.txOff = c.txOff /\ d.txMax = c.txMax /\ d.txBlocked = c.txBlocked
        /\ d.rxOff = c.rxOff /\ d.rxUnsent = c.rxUnsent /\ d.ping = c.ping
        /\ d.pong = c.pong /\ d.glitch = c.glitch /\ d.rd = c.rd /\ d.err = c.err
    BY <1>6 DEF d
  <2> QED
    BY ONLY <2>3, <2>4, <2>5, <2>6, <2>7
<1>7. e \in ConnType /\ c \in ConnType
  <2>1. OwnStep(c, d)
    BY <1>1, CtrlOwn
  <2> HIDE DEF d
  <2>2. Fit(d)
    BY <2>1 DEF OwnStep
  <2>3. OwnStep(d, e)
    BY <2>2, FinishOwn
  <2> HIDE DEF e
  <2> QED
    BY <1>1, <2>3 DEF OwnStep, Fit, Good
<1>8. /\ e.qre = NoRecord /\ e.strmq = d.strmq /\ e.live = d.live
      /\ e.strm = d.strm /\ e.rxMax = d.rxMax /\ e.rxStreams = d.rxStreams
      /\ e.role = d.role /\ e.idtr = d.idtr /\ e.next = d.next
      /\ e.txStreams = d.txStreams /\ e.rxUnsentStreams = d.rxUnsentStreams
      /\ e.txOff = d.txOff /\ e.txMax = d.txMax /\ e.txBlocked = d.txBlocked
      /\ e.rxOff = d.rxOff /\ e.rxUnsent = d.rxUnsent /\ e.ping = d.ping
      /\ e.pong = d.pong /\ e.glitch = d.glitch /\ e.rd = d.rd /\ e.err = d.err
  <2>1. d \in ConnType
    BY <1>1, CtrlOwn DEF OwnStep, Fit, Good
  <2> HIDE DEF d
  <2> QED
    BY <2>1 DEF FinishRecord, NoRecord, ConnType
<1> HIDE DEF d, e
<1>10. e = c
  <2>1. /\ e.qre = c.qre /\ e.strmq = c.strmq /\ e.live = c.live
        /\ e.strm = c.strm /\ e.rxMax = c.rxMax /\ e.rxStreams = c.rxStreams
        /\ e.role = c.role /\ e.idtr = c.idtr /\ e.next = c.next
        /\ e.txStreams = c.txStreams /\ e.rxUnsentStreams = c.rxUnsentStreams
        /\ e.txOff = c.txOff /\ e.txMax = c.txMax /\ e.txBlocked = c.txBlocked
        /\ e.rxOff = c.rxOff /\ e.rxUnsent = c.rxUnsent /\ e.ping = c.ping
        /\ e.pong = c.pong /\ e.glitch = c.glitch /\ e.rd = c.rd /\ e.err = c.err
    BY ONLY <1>1, <1>8, <1>9
  <2> QED
    BY ONLY <1>7, <2>1, SameFields
<1> QED
  BY <1>5, <1>9, <1>10 DEF d, e

\* A server that has read nothing has nothing to report.
LEMMA FreshCtrl ==
  ASSUME NEW r \in Role, NEW c, c = Fresh(r)
  PROVE  CtrlFrames(c) = {} /\ WithCtrl(c).qre.frames = << >> /\ FinishRecord(WithCtrl(c)) = c
<1>1. Fit(c) /\ c.role = r /\ c.qre = NoRecord
  BY FreshFit
<1>2. c.strmq = {} /\ c.rxUnsent = c.rxMax /\ c.rxStreams = c.rxUnsentStreams
  BY DEF Fresh, NewConn
<1> QED
  BY <1>1, <1>2, QuietCtrl

\* A record of control frames.
LEMMA WriteControlStart ==
  ASSUME Ends = Role, StartInv, NEW e \in Ends, WriteControl(e)
  PROVE  StartInv'
<1> DEFINE c == conn[e]
           d == WithCtrl(c)
<1>1. Own(c, e) /\ Fit(c) /\ Transmit(e, d)
  BY DEF StartInv, Own, WriteControl
<1>2. OwnStep(c, d) /\ d.qre.frames \in Seq(SUBSET PlainFrame)
  BY <1>1, CtrlOwn
<1>3. e = 1 /\ ~Seen(1) => FinishRecord(d) = Fresh(1) /\ d.qre.frames = << >>
  <2> SUFFICES ASSUME e = 1, ~Seen(1)
               PROVE  FinishRecord(d) = Fresh(1) /\ d.qre.frames = << >>
    OBVIOUS
  <2>1. c = Fresh(1) /\ 1 \in Role
    BY <1>1 DEF Own
  <2> HIDE DEF c
  <2> QED
    BY <2>1, FreshCtrl
<1> HIDE DEF d
<1>4. OwnStep(conn[e], d)
  BY <1>2
<1> QED
  BY <1>1, <1>2, <1>3, <1>4, TransmitStart

\* A stream that may be written to survives the control frames before its data.
LEMMA DataReached ==
  ASSUME NEW c, Fit(c), NEW s \in StreamIds, NEW len, NEW fin, MayWrite(c, s, len, fin)
  PROVE  /\ s \in c.live /\ s \notin Freeing(c) /\ s \in WithCtrl(c).live
         /\ "SHUT_WR" \notin WithCtrl(c).strm[s].flags
<1>1. s \in c.live /\ "SHUT_WR" \notin c.strm[s].flags
  BY DEF MayWrite
<1>2. s \notin Freeing(c)
  <2>1. c.strm[s] \in StrmType
    BY Fields DEF Fit
  <2> QED
    BY <1>1, <2>1 DEF Freeing, ClosesOnReset, ShouldCloseStream
<1>3. /\ WithCtrl(c).live = c.live \ Freeing(c)
      /\ WithCtrl(c).strm = [t \in StreamIds |-> IF t \in Freeing(c) THEN NewStrm(c.role, t)
                                          ELSE IF t \in c.strmq THEN ResetSent(c.strm[t])
                                          ELSE c.strm[t]]
  BY CtrlView
<1>4. "SHUT_WR" \notin WithCtrl(c).strm[s].flags
  <2>1. c.strm[s] \in StrmType
    BY Fields DEF Fit
  <2>2. WithCtrl(c).strm[s] \in {c.strm[s], ResetSent(c.strm[s])}
    BY <1>2, <1>3
  <2> QED
    BY <1>1, <2>1, <2>2 DEF ResetSent, StrmType
<1> QED
  BY <1>1, <1>2, <1>3, <1>4

\* A record with data of the application.
LEMMA WriteLocalStart ==
  ASSUME Ends = Role, StartInv, NEW e \in Ends, NEW s \in StreamIds, NEW len \in 0..MaxWrite,
         NEW fin \in BOOLEAN, WriteLocal(e, s, len, fin)
  PROVE  StartInv'
<1> DEFINE c == conn[e]
           b == WithCtrl(c)
           d == WithData(b, s, len, fin)
<1>1. Own(c, e) /\ Fit(c) /\ MayWrite(c, s, len, fin) /\ Transmit(e, d) /\ len \in Nat
  BY DEF StartInv, Own, WriteLocal
<1>2. OwnStep(c, b) /\ b.qre.frames \in Seq(SUBSET PlainFrame) /\ Fit(b)
  BY <1>1, CtrlOwn DEF OwnStep
<1>3. s \in c.live /\ s \in b.live
  BY <1>1, DataReached
<1> HIDE DEF b
<1>4. OwnStep(b, d) /\ d.qre.frames \in Seq(SUBSET PlainFrame)
  BY <1>1, <1>2, <1>3, WithDataOwn
<1> HIDE DEF d
<1>5. OwnStep(c, d)
  BY <1>2, <1>4, OwnTwice
<1>6. ~(e = 1 /\ ~Seen(1))
  <2> SUFFICES ASSUME e = 1, ~Seen(1) PROVE FALSE
    OBVIOUS
  <2>1. c = Fresh(1) /\ 1 \in Role
    BY <1>1 DEF Own
  <2> HIDE DEF c
  <2>2. c.live = {}
    BY <2>1, FreshFit
  <2> QED
    BY <1>3, <2>2
<1>7. OwnStep(conn[e], d)
  BY <1>5
<1> QED
  BY <1>1, <1>4, <1>6, <1>7, TransmitStart

-----------------------------------------------------------------------------
(* Every behaviour                                                         *)

\* Two new endpoints.
LEMMA StartInit ==
  ASSUME Ends = Role, SessionInit
  PROVE  StartInv
<1>1. /\ conn = [e \in Ends |-> Fresh(e)] /\ wire = [e \in Ends |-> << >>]
      /\ flags = [e \in Ends |-> {}] /\ early \in ParamsType /\ tls = "hello" /\ told = FALSE
  BY DEF SessionInit
<1>2. 0 \in Ends /\ 1 \in Ends /\ Peer(0) = 1 /\ Peer(1) = 0 /\ \A e \in Ends : e \in {0, 1}
  BY TheEnds
<1>3. \A e \in Ends : ~Seen(e) /\ ~Introduced(e) /\ Flow(e) = << >> /\ Limits(e) = NoLimits
  BY <1>1, <1>2 DEF Seen, Introduced, Flow, Limits
<1>4. Handshake
  <2>1. conn = [e \in Ends |-> conn[e]] /\ wire = [e \in Ends |-> wire[e]]
    BY <1>1
  <2> QED
    BY <1>1, <1>2, <1>3, <2>1 DEF Handshake
<1>5. ASSUME NEW e \in Ends
      PROVE  Way(e) /\ Own(conn[e], e)
  <2>1. Way(e)
    <3>1. wire[e] = << >> /\ << >> \in Seq(SUBSET PlainFrame)
      BY <1>1
    <3> QED
      BY <1>3, <3>1 DEF Way
  <2>2. conn[e] = Fresh(e) /\ e \in Role
    BY <1>1
  <2> DEFINE c == conn[e]
  <2>3. c = Fresh(e)
    BY <2>2
  <2> HIDE DEF c
  <2>4. Fit(c) /\ c.role = e /\ c.live = {} /\ c.qre = NoRecord /\ Waiting(c, NoLimits)
    BY <2>2, <2>3, FreshFit
  <2>5. Own(c, e)
    BY <1>3, <2>3, <2>4 DEF Own
  <2> QED
    BY <2>1, <2>5 DEF c
<1> QED
  BY <1>2, <1>3, <1>4, <1>5 DEF StartInv, Silent

\* Every step.
LEMMA StartNext ==
  ASSUME Ends = Role, StartInv, [SessionNext]_sessionVars
  PROVE  StartInv'
<1>1. CASE SetEarlyParams
  BY <1>1, SetEarlyStart
<1>2. CASE Answer
  BY <1>2, AnswerStart
<1>3. CASE Told
  BY <1>3, ToldStart
<1>4. ASSUME NEW e \in Ends, ReadFirst(e) PROVE StartInv'
  BY <1>4, ReadFirstStart
<1>5. ASSUME NEW e \in Ends, ReadNext(e) PROVE StartInv'
  BY <1>5, ReadNextStart
<1>6. ASSUME NEW e \in Ends, NEW i \in Direction, OpenLocal(e, i) PROVE StartInv'
  BY <1>6, OpenStart
<1>7. ASSUME NEW e \in Ends, EarlyCall(e) PROVE StartInv'
  BY <1>7, EarlyCallStart
<1>8. ASSUME NEW e \in Ends, WriteControl(e) PROVE StartInv'
  BY <1>8, WriteControlStart
<1>9. ASSUME NEW e \in Ends, NEW s \in StreamIds, NEW len \in 0..MaxWrite, NEW fin \in BOOLEAN,
             WriteLocal(e, s, len, fin)
      PROVE  StartInv'
  BY <1>9, WriteLocalStart
<1>10. CASE UNCHANGED sessionVars
  <2>1. UNCHANGED <<conn, wire, flags, early, tls, told>>
    BY <1>10 DEF sessionVars
  <2>2. \A e \in Ends : Way(e)' = Way(e) /\ Own(conn[e], e)' = Own(conn[e], e)
    BY <2>1 DEF Way, Own, Flow, Introduced, Seen, Limits
  <2>3. Handshake' = Handshake /\ Silent' = Silent
    BY <2>1 DEF Handshake, Silent, Flow, Introduced, Seen
  <2> QED
    BY <2>2, <2>3 DEF StartInv
<1> QED
  BY <1>1, <1>2, <1>3, <1>4, <1>5, <1>6, <1>7, <1>8, <1>9, <1>10 DEF SessionNext

\* What is known of the start of a connection, in every state.
THEOREM StartInvariant ==
  ASSUME Ends = Role
  PROVE  SessionSpec => []StartInv
<1>1. SessionInit => StartInv
  BY StartInit
<1>2. StartInv /\ [SessionNext]_sessionVars => StartInv'
  BY StartNext
<1> QED
  BY <1>1, <1>2, PTL DEF SessionSpec

\* Neither endpoint sends more than the limits it works with, those of early
\* data and then those of the peer.
THEOREM CreditOfEarlyData ==
  ASSUME Ends = Role
  PROVE  SessionSpec => []EarlyCredit
<1>1. ASSUME StartInv PROVE EarlyCredit
  <2> SUFFICES ASSUME NEW e \in Ends
               PROVE  /\ conn[e].txOff <= conn[e].txMax
                      /\ \A s \in conn[e].live : conn[e].strm[s].txOff <= conn[e].strm[s].txMax
                      /\ \A d \in Direction :
                           conn[e].next[d] <= 4 * conn[e].txStreams[d] + FirstStreamId(e, d)
    BY DEF EarlyCredit
  <2> DEFINE c == conn[e]
  <2>1. Good(c) /\ Sound(c) /\ c.role = e /\ e \in Role
    BY <1>1 DEF StartInv, Own, Fit
  <2> HIDE DEF c
  <2>2. c.txOff <= c.txMax /\ \A s \in StreamIds : c.strm[s].txOff <= c.strm[s].txMax
    BY <2>1 DEF Good, ConnCredit, StrmCredit
  <2>3. c.live \subseteq StreamIds
    BY <2>1, Fields
  <2>4. ASSUME NEW d \in Direction
        PROVE  c.next[d] <= 4 * c.txStreams[d] + FirstStreamId(e, d)
    <3> DEFINE n == c.next[d]
               m == c.txStreams[d]
               f == FirstStreamId(e, d)
    <3>1. n \in Nat /\ m \in Nat /\ f \in Nat
      <4>1. n \in Nat
        BY <2>1, Fields
      <4>2. m \in 0..MaxStreams /\ MaxStreams \in Nat
        BY <2>1 DEF Good, ConnType
      <4>3. f \in Nat
        BY <2>1 DEF FirstStreamId, Role
      <4> QED
        BY <4>1, <4>2, <4>3
    <3>2. n % 4 = f /\ n \div 4 + 1 <= m + 1
      BY <2>1 DEF Sound, SoundBut, NextLocal, WithinStreamLimits, OrdStreamId
    <3> HIDE DEF n, m, f
    <3>3. n <= 4 * m + f
      BY <3>1, <3>2
    <3> QED
      BY <3>3 DEF n, m, f
  <2> QED
    BY <2>2, <2>3, <2>4 DEF c
<1> QED
  BY <1>1, StartInvariant, PTL

\* Rejection leaves nothing behind: field by field the client's connection is
\* as dwnx_conn_client_new makes it (dwnx_conn_discard_early_data_state), since
\* what is not reset was not touched, and its transport parameters are due again.
THEOREM RejectionStartsAgain ==
  ASSUME Ends = Role
  PROVE  SessionSpec => RejectionForgets
<1> DEFINE Forgets == told' /\ ~told /\ tls = "rejected" =>
                        conn'[0] = Fresh(0) /\ flags'[0] = {"REJECTED"}
<1>1. ASSUME StartInv, [SessionNext]_sessionVars
      PROVE  [Forgets]_sessionVars
  <2>1. CASE Told
    BY <1>1, <2>1, ToldStart
  <2>2. CASE ~Told
    <3>1. told' = told
      BY <1>1, <2>2 DEF SessionNext, sessionVars, SetEarlyParams, Answer, ReadFirst, ReadNext,
            OpenLocal, EarlyCall, WriteControl, WriteLocal, Transmit
    <3> QED
      BY <3>1
  <2> QED
    BY <2>1, <2>2
<1> QED
  BY <1>1, StartInvariant, PTL DEF SessionSpec, RejectionForgets

-----------------------------------------------------------------------------
(* A connection that knew the limits from the start does the same           *)

\* Its fields.
LEMMA WindowedView ==
  ASSUME NEW x \in StrmType, NEW w
  PROVE  LET y == Windowed(x, w) IN
         /\ y.txMax = w /\ y.flags = x.flags /\ y.txOff = x.txOff /\ y.txBlocked = x.txBlocked
         /\ y.rxLast = x.rxLast /\ y.rxMax = x.rxMax /\ y.rxUnsent = x.rxUnsent
         /\ w \in Offset => y \in StrmType
BY DEF Windowed, StrmType

\* Two streams with the same fields are the same.
LEMMA SameStrm ==
  ASSUME NEW x \in StrmType, NEW y \in StrmType,
         x.txMax = y.txMax, x.flags = y.flags, x.txOff = y.txOff, x.txBlocked = y.txBlocked,
         x.rxLast = y.rxLast, x.rxMax = y.rxMax, x.rxUnsent = y.rxUnsent
  PROVE  x = y
BY DEF StrmType

\* The limits that a peer may announce.
LimitsType(m, n) == m \in Offset /\ n \in [Direction -> 0..MaxStreams]

\* The lifted connection has the type of one, and the streams lifted.
LEMMA LiftType ==
  ASSUME NEW c, c \in ConnType, NEW m, NEW n, LimitsType(m, n)
  PROVE  /\ Lift(c, m, n) \in ConnType
         /\ \A s \in StreamIds : Lift(c, m, n).strm[s] = Windowed(c.strm[s], InitialMaxTx(c.role, s))
<1> DEFINE L == [s \in StreamIds |-> [c.strm[s] EXCEPT !.txMax = InitialMaxTx(c.role, s)]]
<1>1. \A s \in StreamIds : L[s] = Windowed(c.strm[s], InitialMaxTx(c.role, s))
  BY DEF Windowed
<1>2. \A s \in StreamIds : L[s] \in StrmType
  <2> TAKE s \in StreamIds
  <2>1. c.strm[s] \in StrmType /\ c.role \in Role
    BY DEF ConnType
  <2>2. InitialMaxTx(c.role, s) \in Offset
    BY <2>1, WindowType
  <2> HIDE DEF L
  <2> QED
    BY <1>1, <2>1, <2>2, WindowedView
<1>3. L \in [StreamIds -> StrmType]
  BY <1>2
<1>4. Lift(c, m, n) = [c EXCEPT !.txMax = m, !.txStreams = n, !.strm = L]
  BY DEF Lift
<1> HIDE DEF L
<1>5. Lift(c, m, n) \in ConnType
  BY <1>3, <1>4 DEF ConnType, LimitsType
<1>6. Lift(c, m, n).strm = L
  BY <1>4 DEF ConnType
<1> QED
  BY <1>1, <1>5, <1>6

\* What has the fields of the lifted connection is that.
LEMMA LiftIs ==
  ASSUME NEW d, d \in ConnType, NEW m, NEW n, LimitsType(m, n), NEW b, b \in ConnType,
         b.txMax = m, b.txStreams = n,
         \A s \in StreamIds : b.strm[s] = Windowed(d.strm[s], InitialMaxTx(d.role, s)),
         b.role = d.role, b.live = d.live, b.strmq = d.strmq, b.idtr = d.idtr, b.next = d.next,
         b.rxStreams = d.rxStreams, b.rxUnsentStreams = d.rxUnsentStreams,
         b.txOff = d.txOff, b.txBlocked = d.txBlocked, b.rxOff = d.rxOff, b.rxMax = d.rxMax,
         b.rxUnsent = d.rxUnsent, b.ping = d.ping, b.pong = d.pong, b.glitch = d.glitch,
         b.rd = d.rd, b.qre = d.qre, b.err = d.err
  PROVE  b = Lift(d, m, n)
<1> DEFINE a == Lift(d, m, n)
<1>1. a \in ConnType /\ \A s \in StreamIds : a.strm[s] = b.strm[s]
  BY LiftType
<1>2. /\ a.txMax = m /\ a.txStreams = n
      /\ a.role = d.role /\ a.live = d.live /\ a.strmq = d.strmq /\ a.idtr = d.idtr
      /\ a.next = d.next /\ a.rxStreams = d.rxStreams
      /\ a.rxUnsentStreams = d.rxUnsentStreams /\ a.txOff = d.txOff
      /\ a.txBlocked = d.txBlocked /\ a.rxOff = d.rxOff /\ a.rxMax = d.rxMax
      /\ a.rxUnsent = d.rxUnsent /\ a.ping = d.ping /\ a.pong = d.pong
      /\ a.glitch = d.glitch /\ a.rd = d.rd /\ a.qre = d.qre /\ a.err = d.err
  BY LiftView
<1> HIDE DEF a
<1>3. a.strm = b.strm
  <2>1. a.strm \in [StreamIds -> StrmType] /\ b.strm \in [StreamIds -> StrmType]
    BY <1>1 DEF ConnType
  <2> QED
    BY <1>1, <2>1
<1>4. a = b
  BY <1>1, <1>2, <1>3, SameFields
<1> QED
  BY <1>4 DEF a

\* A connection with another value of a stream.
WithStrm(c, s, x) == [c EXCEPT !.strm[s] = x]

\* What that leaves alone.
LEMMA StrmSet ==
  ASSUME NEW c, c \in ConnType, NEW s \in StreamIds, NEW x \in StrmType,
         NEW d, d = WithStrm(c, s, x)
  PROVE  /\ d \in ConnType /\ d.strm[s] = x /\ \A t \in StreamIds \ {s} : d.strm[t] = c.strm[t]
         /\ d.txMax = c.txMax /\ d.txStreams = c.txStreams
         /\ d.role = c.role /\ d.live = c.live /\ d.strmq = c.strmq /\ d.idtr = c.idtr
         /\ d.next = c.next /\ d.rxStreams = c.rxStreams
         /\ d.rxUnsentStreams = c.rxUnsentStreams /\ d.txOff = c.txOff
         /\ d.txBlocked = c.txBlocked /\ d.rxOff = c.rxOff /\ d.rxMax = c.rxMax
         /\ d.rxUnsent = c.rxUnsent /\ d.ping = c.ping /\ d.pong = c.pong
         /\ d.glitch = c.glitch /\ d.rd = c.rd /\ d.qre = c.qre /\ d.err = c.err
BY DEF WithStrm, ConnType

\* Lifting commutes with setting a stream.
LEMMA LiftSet ==
  ASSUME NEW c, c \in ConnType, NEW m, NEW n, LimitsType(m, n),
         NEW s \in StreamIds, NEW x \in StrmType, NEW y \in StrmType,
         y = Windowed(x, InitialMaxTx(c.role, s))
  PROVE  WithStrm(Lift(c, m, n), s, y) = Lift(WithStrm(c, s, x), m, n)
<1> DEFINE a == Lift(c, m, n)
           d == WithStrm(c, s, x)
           b == WithStrm(a, s, y)
<1>1. a \in ConnType /\ \A t \in StreamIds : a.strm[t] = Windowed(c.strm[t], InitialMaxTx(c.role, t))
  BY LiftType
<1>2. /\ a.txMax = m /\ a.txStreams = n
      /\ a.role = c.role /\ a.live = c.live /\ a.strmq = c.strmq /\ a.idtr = c.idtr
      /\ a.next = c.next /\ a.rxStreams = c.rxStreams
      /\ a.rxUnsentStreams = c.rxUnsentStreams /\ a.txOff = c.txOff
      /\ a.txBlocked = c.txBlocked /\ a.rxOff = c.rxOff /\ a.rxMax = c.rxMax
      /\ a.rxUnsent = c.rxUnsent /\ a.ping = c.ping /\ a.pong = c.pong
      /\ a.glitch = c.glitch /\ a.rd = c.rd /\ a.qre = c.qre /\ a.err = c.err
  BY LiftView
<1> HIDE DEF a
<1>3. d = WithStrm(c, s, x) /\ b = WithStrm(a, s, y)
  OBVIOUS
<1> HIDE DEF d, b
<1>4. /\ d \in ConnType /\ d.strm[s] = x /\ \A t \in StreamIds \ {s} : d.strm[t] = c.strm[t]
      /\ d.txMax = c.txMax /\ d.txStreams = c.txStreams
      /\ d.role = c.role /\ d.live = c.live /\ d.strmq = c.strmq /\ d.idtr = c.idtr
      /\ d.next = c.next /\ d.rxStreams = c.rxStreams
      /\ d.rxUnsentStreams = c.rxUnsentStreams /\ d.txOff = c.txOff
      /\ d.txBlocked = c.txBlocked /\ d.rxOff = c.rxOff /\ d.rxMax = c.rxMax
      /\ d.rxUnsent = c.rxUnsent /\ d.ping = c.ping /\ d.pong = c.pong
      /\ d.glitch = c.glitch /\ d.rd = c.rd /\ d.qre = c.qre /\ d.err = c.err
  BY <1>3, StrmSet
<1>5. /\ b \in ConnType /\ b.strm[s] = y /\ \A t \in StreamIds \ {s} : b.strm[t] = a.strm[t]
      /\ b.txMax = a.txMax /\ b.txStreams = a.txStreams
      /\ b.role = a.role /\ b.live = a.live /\ b.strmq = a.strmq /\ b.idtr = a.idtr
      /\ b.next = a.next /\ b.rxStreams = a.rxStreams
      /\ b.rxUnsentStreams = a.rxUnsentStreams /\ b.txOff = a.txOff
      /\ b.txBlocked = a.txBlocked /\ b.rxOff = a.rxOff /\ b.rxMax = a.rxMax
      /\ b.rxUnsent = a.rxUnsent /\ b.ping = a.ping /\ b.pong = a.pong
      /\ b.glitch = a.glitch /\ b.rd = a.rd /\ b.qre = a.qre /\ b.err = a.err
  BY <1>1, <1>3, StrmSet
<1>6. \A t \in StreamIds : b.strm[t] = Windowed(d.strm[t], InitialMaxTx(d.role, t))
  BY <1>1, <1>4, <1>5
<1>7. b = Lift(d, m, n)
  BY <1>2, <1>4, <1>5, <1>6, LiftIs
<1> QED
  BY <1>7 DEF a, b, d

\* The same when streams are set by no more than flags, or are new.
LEMMA LiftFlags ==
  ASSUME NEW c, c \in ConnType, NEW m, NEW n, LimitsType(m, n),
         NEW s \in StreamIds, NEW F \in SUBSET Flag
  PROVE  SetFlags(Lift(c, m, n), s, F) = Lift(SetFlags(c, s, F), m, n)
<1> DEFINE a == Lift(c, m, n)
           w == InitialMaxTx(c.role, s)
           x == [c.strm[s] EXCEPT !.flags = @ \cup F]
           y == [a.strm[s] EXCEPT !.flags = @ \cup F]
<1>1. c.strm[s] \in StrmType /\ a.strm[s] = Windowed(c.strm[s], w) /\ w \in Offset
      /\ a.strm[s] \in StrmType
  <2>1. c.strm[s] \in StrmType /\ c.role \in Role
    BY DEF ConnType
  <2>2. w \in Offset
    BY <2>1, WindowType
  <2> QED
    BY <2>1, <2>2, LiftType, WindowedView
<1>2. x \in StrmType /\ y \in StrmType
  <2> HIDE DEF a
  <2> QED
    BY <1>1 DEF StrmType
<1>3. y = Windowed(x, w)
  <2> HIDE DEF a, w
  <2> QED
    BY <1>1 DEF Windowed, StrmType
<1>4. SetFlags(c, s, F) = WithStrm(c, s, x) /\ SetFlags(a, s, F) = WithStrm(a, s, y)
  BY DEF SetFlags, WithStrm
<1> HIDE DEF x, y
<1>5. WithStrm(a, s, y) = Lift(WithStrm(c, s, x), m, n)
  BY <1>2, <1>3, LiftSet
<1> QED
  BY <1>4, <1>5

\* The types of these.
LEMMA FlagsType ==
  ASSUME NEW c, c \in ConnType, NEW s \in StreamIds, NEW F \in SUBSET Flag
  PROVE  /\ SetFlags(c, s, F) \in ConnType /\ SetFlags(c, s, F).role = c.role
         /\ SetFlags(c, s, F).live = c.live
         /\ PushIfNot(c, s) \in ConnType
<1> DEFINE x == [c.strm[s] EXCEPT !.flags = @ \cup F]
<1>0. c.strm[s] \in StrmType
  BY DEF ConnType
<1>1. x \in StrmType
  BY <1>0 DEF StrmType
<1>2. SetFlags(c, s, F) = WithStrm(c, s, x)
  BY DEF SetFlags, WithStrm
<1> HIDE DEF x
<1>3. WithStrm(c, s, x) \in ConnType /\ WithStrm(c, s, x).role = c.role
      /\ WithStrm(c, s, x).live = c.live
  BY <1>1, StrmSet
<1>4. PushIfNot(c, s) \in ConnType
  BY DEF PushIfNot, ConnType
<1> QED
  BY <1>2, <1>3, <1>4

\* The queue is lifted to itself.
LEMMA LiftPush ==
  ASSUME NEW c, c \in ConnType, NEW m, NEW n, LimitsType(m, n), NEW s \in StreamIds
  PROVE  PushIfNot(Lift(c, m, n), s) = Lift(PushIfNot(c, s), m, n)
<1> DEFINE a == Lift(c, m, n)
           d == PushIfNot(c, s)
           b == PushIfNot(a, s)
<1>1. a \in ConnType /\ \A t \in StreamIds : a.strm[t] = Windowed(c.strm[t], InitialMaxTx(c.role, t))
  BY LiftType
<1>2. /\ a.txMax = m /\ a.txStreams = n
      /\ a.role = c.role /\ a.live = c.live /\ a.strmq = c.strmq /\ a.idtr = c.idtr
      /\ a.next = c.next /\ a.rxStreams = c.rxStreams
      /\ a.rxUnsentStreams = c.rxUnsentStreams /\ a.txOff = c.txOff
      /\ a.txBlocked = c.txBlocked /\ a.rxOff = c.rxOff /\ a.rxMax = c.rxMax
      /\ a.rxUnsent = c.rxUnsent /\ a.ping = c.ping /\ a.pong = c.pong
      /\ a.glitch = c.glitch /\ a.rd = c.rd /\ a.qre = c.qre /\ a.err = c.err
  BY LiftView
<1> HIDE DEF a
<1>3. d \in ConnType /\ b \in ConnType
  BY <1>1, FlagsType
<1>4. /\ d.strmq = c.strmq \cup {s} /\ d.strm = c.strm
      /\ d.role = c.role /\ d.live = c.live /\ d.idtr = c.idtr
      /\ d.next = c.next /\ d.rxStreams = c.rxStreams
      /\ d.rxUnsentStreams = c.rxUnsentStreams /\ d.txOff = c.txOff
      /\ d.txBlocked = c.txBlocked /\ d.rxOff = c.rxOff /\ d.rxMax = c.rxMax
      /\ d.rxUnsent = c.rxUnsent /\ d.ping = c.ping /\ d.pong = c.pong
      /\ d.glitch = c.glitch /\ d.rd = c.rd /\ d.qre = c.qre /\ d.err = c.err
  BY DEF PushIfNot, ConnType
<1>5. /\ b.strmq = a.strmq \cup {s} /\ b.strm = a.strm /\ b.txMax = a.txMax
      /\ b.txStreams = a.txStreams
      /\ b.role = a.role /\ b.live = a.live /\ b.idtr = a.idtr
      /\ b.next = a.next /\ b.rxStreams = a.rxStreams
      /\ b.rxUnsentStreams = a.rxUnsentStreams /\ b.txOff = a.txOff
      /\ b.txBlocked = a.txBlocked /\ b.rxOff = a.rxOff /\ b.rxMax = a.rxMax
      /\ b.rxUnsent = a.rxUnsent /\ b.ping = a.ping /\ b.pong = a.pong
      /\ b.glitch = a.glitch /\ b.rd = a.rd /\ b.qre = a.qre /\ b.err = a.err
  BY <1>1 DEF PushIfNot, ConnType
<1> HIDE DEF b, d
<1>6. b = Lift(d, m, n)
  <2>1. \A t \in StreamIds : b.strm[t] = Windowed(d.strm[t], InitialMaxTx(d.role, t))
    BY <1>1, <1>4, <1>5
  <2> QED
    <3>1. /\ b.txMax = m /\ b.txStreams = n
          /\ b.role = d.role /\ b.live = d.live /\ b.strmq = d.strmq /\ b.idtr = d.idtr
          /\ b.next = d.next /\ b.rxStreams = d.rxStreams
          /\ b.rxUnsentStreams = d.rxUnsentStreams /\ b.txOff = d.txOff
          /\ b.txBlocked = d.txBlocked /\ b.rxOff = d.rxOff /\ b.rxMax = d.rxMax
          /\ b.rxUnsent = d.rxUnsent /\ b.ping = d.ping /\ b.pong = d.pong
          /\ b.glitch = d.glitch /\ b.rd = d.rd /\ b.qre = d.qre /\ b.err = d.err
      BY <1>2, <1>4, <1>5
    <3> QED
      BY <1>3, <2>1, <3>1, LiftIs
<1> QED
  BY <1>6 DEF a, b, d

\* Streams that are shut down (dwnx_conn_shutdown_stream_write).
LEMMA LiftShutdown ==
  ASSUME NEW c, c \in ConnType, NEW m, NEW n, LimitsType(m, n), NEW s \in StreamIds
  PROVE  ShutdownStreamWrite(Lift(c, m, n), s) = Lift(ShutdownStreamWrite(c, s), m, n)
<1> DEFINE a == Lift(c, m, n)
           F == {"SHUT_WR"}
           G == {"SEND_RESET_STREAM", "RESET_STREAM"}
           d == SetFlags(c, s, F)
           e == SetFlags(d, s, G)
<1>1. a.live = c.live /\ a.strm[s].flags = c.strm[s].flags
  <2>1. c.strm[s] \in StrmType
    BY DEF ConnType
  <2> QED
    BY <2>1, LiftView, LiftType, WindowedView
<1>2. F \in SUBSET Flag /\ G \in SUBSET Flag
  BY DEF Flag
<1>3. /\ ShutdownStreamWrite(c, s) = IF s \notin c.live \/ "SHUT_WR" \in c.strm[s].flags THEN c
                                     ELSE PushIfNot(SetFlags(SetFlags(c, s, F), s, G), s)
      /\ ShutdownStreamWrite(a, s) = IF s \notin a.live \/ "SHUT_WR" \in a.strm[s].flags THEN a
                                     ELSE PushIfNot(SetFlags(SetFlags(a, s, F), s, G), s)
  BY DEF ShutdownStreamWrite, ScheduleReset
<1> HIDE DEF F, G
<1>4. d \in ConnType /\ SetFlags(a, s, F) = Lift(d, m, n)
  BY <1>2, FlagsType, LiftFlags
<1> HIDE DEF d
<1>5. e \in ConnType /\ SetFlags(Lift(d, m, n), s, G) = Lift(e, m, n)
  BY <1>2, <1>4, FlagsType, LiftFlags
<1> HIDE DEF e
<1>6. PushIfNot(Lift(e, m, n), s) = Lift(PushIfNot(e, s), m, n)
  BY <1>5, LiftPush
<1>7. PushIfNot(SetFlags(SetFlags(a, s, F), s, G), s) = Lift(PushIfNot(e, s), m, n)
  BY <1>4, <1>5, <1>6
<1>8. PushIfNot(e, s) = PushIfNot(SetFlags(SetFlags(c, s, F), s, G), s)
  BY DEF d, e
<1> HIDE DEF a
<1> QED
  BY <1>1, <1>3, <1>7, <1>8 DEF a

\* Limits that are lifted have their type.
LEMMA BelowType ==
  ASSUME NEW c, Fit(c), NEW m, NEW n, Below(c, m, n)
  PROVE  /\ c \in ConnType /\ LimitsType(m, n)
         /\ Fit(Lift(c, m, n)) /\ Lift(c, m, n) \in ConnType
<1>1. c \in ConnType
  BY DEF Fit, Good
<1>2. LimitsType(m, n)
  BY DEF Below, LimitsType
<1> QED
  BY <1>1, <1>2, LiftFit

\* dwnx_conn_extend_max_offset.
LEMMA LiftExtendConn ==
  ASSUME NEW c, Fit(c), NEW m, NEW n, Below(c, m, n), NEW k \in Nat
  PROVE  ExtendMaxOffset(Lift(c, m, n), k) = Lift(ExtendMaxOffset(c, k), m, n)
<1>0. c \in ConnType /\ LimitsType(m, n) /\ Fit(Lift(c, m, n))
  BY BelowType
<1> DEFINE a == Lift(c, m, n)
           d == ExtendMaxOffset(c, k)
           b == ExtendMaxOffset(a, k)
<1>1. a \in ConnType /\ \A t \in StreamIds : a.strm[t] = Windowed(c.strm[t], InitialMaxTx(c.role, t))
  BY <1>0, LiftType
<1>2. /\ a.role = c.role /\ a.live = c.live /\ a.strmq = c.strmq /\ a.idtr = c.idtr
      /\ a.next = c.next /\ a.rxStreams = c.rxStreams
      /\ a.rxUnsentStreams = c.rxUnsentStreams /\ a.txOff = c.txOff
      /\ a.txBlocked = c.txBlocked /\ a.rxOff = c.rxOff /\ a.rxMax = c.rxMax
      /\ a.rxUnsent = c.rxUnsent /\ a.ping = c.ping /\ a.pong = c.pong
      /\ a.glitch = c.glitch /\ a.rd = c.rd /\ a.qre = c.qre /\ a.err = c.err
      /\ a.txMax = m /\ a.txStreams = n
  BY <1>0, LiftView
<1>3. d \in ConnType /\ b \in ConnType
  <2>1. "bidi" \in Direction
    BY DEF Direction
  <2>2. Fit(d) /\ Fit(b)
    BY <1>0, <2>1, ExtendOwn DEF OwnStep
  <2> QED
    BY <2>2 DEF Fit, Good
<1> HIDE DEF a
<1>4. /\ d.strm = c.strm /\ d.role = c.role /\ d.live = c.live /\ d.strmq = c.strmq
      /\ d.idtr = c.idtr /\ d.next = c.next /\ d.rxStreams = c.rxStreams
      /\ d.rxUnsentStreams = c.rxUnsentStreams /\ d.txOff = c.txOff
      /\ d.txBlocked = c.txBlocked /\ d.rxOff = c.rxOff /\ d.rxMax = c.rxMax
      /\ d.ping = c.ping /\ d.pong = c.pong /\ d.glitch = c.glitch /\ d.rd = c.rd
      /\ d.qre = c.qre /\ d.err = c.err
      /\ d.rxUnsent = Lesser(c.rxUnsent + k, MaxVarint)
  BY <1>0 DEF ExtendMaxOffset, ConnType
<1>5. /\ b.strm = a.strm /\ b.txMax = a.txMax /\ b.txStreams = a.txStreams
      /\ b.role = a.role /\ b.live = a.live /\ b.strmq = a.strmq /\ b.idtr = a.idtr
      /\ b.next = a.next /\ b.rxStreams = a.rxStreams
      /\ b.rxUnsentStreams = a.rxUnsentStreams /\ b.txOff = a.txOff
      /\ b.txBlocked = a.txBlocked /\ b.rxOff = a.rxOff /\ b.rxMax = a.rxMax
      /\ b.ping = a.ping /\ b.pong = a.pong /\ b.glitch = a.glitch /\ b.rd = a.rd
      /\ b.qre = a.qre /\ b.err = a.err
      /\ b.rxUnsent = Lesser(a.rxUnsent + k, MaxVarint)
  BY <1>1 DEF ExtendMaxOffset, ConnType
<1> HIDE DEF b, d
<1>6. \A t \in StreamIds : b.strm[t] = Windowed(d.strm[t], InitialMaxTx(d.role, t))
  BY <1>1, <1>4, <1>5
<1>7. /\ b.role = d.role /\ b.live = d.live /\ b.strmq = d.strmq /\ b.idtr = d.idtr
      /\ b.next = d.next /\ b.rxStreams = d.rxStreams
      /\ b.rxUnsentStreams = d.rxUnsentStreams /\ b.txOff = d.txOff
      /\ b.txBlocked = d.txBlocked /\ b.rxOff = d.rxOff /\ b.rxMax = d.rxMax
      /\ b.rxUnsent = d.rxUnsent /\ b.ping = d.ping /\ b.pong = d.pong
      /\ b.glitch = d.glitch /\ b.rd = d.rd /\ b.qre = d.qre /\ b.err = d.err
      /\ b.txMax = m /\ b.txStreams = n
  BY <1>2, <1>4, <1>5
<1>8. LimitsType(m, n)
  BY <1>0
<1>9. b = Lift(d, m, n)
  BY <1>3, <1>6, <1>7, <1>8, LiftIs
<1> QED
  BY <1>9 DEF a, b, d

\* dwnx_conn_extend_max_streams_bidi and its sibling.
LEMMA LiftExtendStreams ==
  ASSUME NEW c, Fit(c), NEW m, NEW n, Below(c, m, n), NEW k \in Nat, NEW i \in Direction
  PROVE  ExtendMaxStreams(Lift(c, m, n), i, k) = Lift(ExtendMaxStreams(c, i, k), m, n)
<1>0. c \in ConnType /\ LimitsType(m, n) /\ Fit(Lift(c, m, n))
  BY BelowType
<1> DEFINE a == Lift(c, m, n)
           d == ExtendMaxStreams(c, i, k)
           b == ExtendMaxStreams(a, i, k)
<1>1. a \in ConnType /\ \A t \in StreamIds : a.strm[t] = Windowed(c.strm[t], InitialMaxTx(c.role, t))
  BY <1>0, LiftType
<1>2. /\ a.role = c.role /\ a.live = c.live /\ a.strmq = c.strmq /\ a.idtr = c.idtr
      /\ a.next = c.next /\ a.rxStreams = c.rxStreams
      /\ a.rxUnsentStreams = c.rxUnsentStreams /\ a.txOff = c.txOff
      /\ a.txBlocked = c.txBlocked /\ a.rxOff = c.rxOff /\ a.rxMax = c.rxMax
      /\ a.rxUnsent = c.rxUnsent /\ a.ping = c.ping /\ a.pong = c.pong
      /\ a.glitch = c.glitch /\ a.rd = c.rd /\ a.qre = c.qre /\ a.err = c.err
      /\ a.txMax = m /\ a.txStreams = n
  BY <1>0, LiftView
<1>3. d \in ConnType /\ b \in ConnType
  <2>1. Fit(d) /\ Fit(b)
    BY <1>0, ExtendOwn DEF OwnStep
  <2> QED
    BY <2>1 DEF Fit, Good
<1> HIDE DEF a
<1>4. /\ d.strm = c.strm /\ d.role = c.role /\ d.live = c.live /\ d.strmq = c.strmq
      /\ d.idtr = c.idtr /\ d.next = c.next /\ d.rxStreams = c.rxStreams
      /\ d.txOff = c.txOff /\ d.txBlocked = c.txBlocked /\ d.rxOff = c.rxOff
      /\ d.rxMax = c.rxMax /\ d.rxUnsent = c.rxUnsent /\ d.ping = c.ping
      /\ d.pong = c.pong /\ d.glitch = c.glitch /\ d.rd = c.rd /\ d.qre = c.qre
      /\ d.err = c.err
      /\ d.rxUnsentStreams = [c.rxUnsentStreams EXCEPT ![i] = Lesser(@ + k, MaxStreams)]
  BY <1>0 DEF ExtendMaxStreams, ConnType
<1>5. /\ b.strm = a.strm /\ b.txMax = a.txMax /\ b.txStreams = a.txStreams
      /\ b.role = a.role /\ b.live = a.live /\ b.strmq = a.strmq /\ b.idtr = a.idtr
      /\ b.next = a.next /\ b.rxStreams = a.rxStreams /\ b.txOff = a.txOff
      /\ b.txBlocked = a.txBlocked /\ b.rxOff = a.rxOff /\ b.rxMax = a.rxMax
      /\ b.rxUnsent = a.rxUnsent /\ b.ping = a.ping /\ b.pong = a.pong
      /\ b.glitch = a.glitch /\ b.rd = a.rd /\ b.qre = a.qre /\ b.err = a.err
      /\ b.rxUnsentStreams = [a.rxUnsentStreams EXCEPT ![i] = Lesser(@ + k, MaxStreams)]
  BY <1>1 DEF ExtendMaxStreams, ConnType
<1> HIDE DEF b, d
<1>6. \A t \in StreamIds : b.strm[t] = Windowed(d.strm[t], InitialMaxTx(d.role, t))
  BY <1>1, <1>4, <1>5
<1>7. /\ b.role = d.role /\ b.live = d.live /\ b.strmq = d.strmq /\ b.idtr = d.idtr
      /\ b.next = d.next /\ b.rxStreams = d.rxStreams
      /\ b.rxUnsentStreams = d.rxUnsentStreams /\ b.txOff = d.txOff
      /\ b.txBlocked = d.txBlocked /\ b.rxOff = d.rxOff /\ b.rxMax = d.rxMax
      /\ b.rxUnsent = d.rxUnsent /\ b.ping = d.ping /\ b.pong = d.pong
      /\ b.glitch = d.glitch /\ b.rd = d.rd /\ b.qre = d.qre /\ b.err = d.err
      /\ b.txMax = m /\ b.txStreams = n
  BY <1>2, <1>4, <1>5
<1>8. LimitsType(m, n)
  BY <1>0
<1>9. b = Lift(d, m, n)
  BY <1>3, <1>6, <1>7, <1>8, LiftIs
<1> QED
  BY <1>9 DEF a, b, d


\* A window that is replaced twice.
LEMMA WindowedTwice ==
  ASSUME NEW x \in StrmType, NEW v \in Offset, NEW w \in Offset, x.txMax = w
  PROVE  Windowed(Windowed(x, v), w) = x
<1> DEFINE y == Windowed(x, v)
<1>1. y \in StrmType
  BY WindowedView
<1>2. Windowed(y, w) \in StrmType
  BY <1>1, WindowedView
<1>3. /\ y.flags = x.flags /\ y.txOff = x.txOff /\ y.txBlocked = x.txBlocked
      /\ y.rxLast = x.rxLast /\ y.rxMax = x.rxMax /\ y.rxUnsent = x.rxUnsent
  BY WindowedView
<1> HIDE DEF y
<1>4. LET z == Windowed(y, w) IN
      /\ z.txMax = w /\ z.flags = y.flags /\ z.txOff = y.txOff /\ z.txBlocked = y.txBlocked
      /\ z.rxLast = y.rxLast /\ z.rxMax = y.rxMax /\ z.rxUnsent = y.rxUnsent
  BY <1>1, WindowedView
<1>5. Windowed(y, w) = x
  BY <1>2, <1>3, <1>4, SameStrm
<1> QED
  BY <1>5 DEF y

\* dwnx_conn_open_bidi_stream and its sibling: the window that was remembered
\* is the only trace.
LEMMA LiftOpen ==
  ASSUME NEW c, Fit(c), NEW m, NEW n, Below(c, m, n), NEW i \in Direction,
         c.next[i] \in StreamIds, StreamsLeft(c, i), NEW p \in ParamsType
  PROVE  /\ OpenStream(Lift(c, m, n), i) = Lift(OpenUnder(c, i, p), m, n)
         /\ StreamsLeft(Lift(c, m, n), i) /\ Lift(c, m, n).next[i] \in StreamIds
<1>0. c \in ConnType /\ LimitsType(m, n) /\ Fit(Lift(c, m, n))
  BY BelowType
<1> DEFINE a == Lift(c, m, n)
           s == c.next[i]
           d == OpenUnder(c, i, p)
           b == OpenStream(a, i)
<1>1. a \in ConnType /\ \A t \in StreamIds : a.strm[t] = Windowed(c.strm[t], InitialMaxTx(c.role, t))
  BY <1>0, LiftType
<1>2. /\ a.role = c.role /\ a.live = c.live /\ a.strmq = c.strmq /\ a.idtr = c.idtr
      /\ a.next = c.next /\ a.rxStreams = c.rxStreams
      /\ a.rxUnsentStreams = c.rxUnsentStreams /\ a.txOff = c.txOff
      /\ a.txBlocked = c.txBlocked /\ a.rxOff = c.rxOff /\ a.rxMax = c.rxMax
      /\ a.rxUnsent = c.rxUnsent /\ a.ping = c.ping /\ a.pong = c.pong
      /\ a.glitch = c.glitch /\ a.rd = c.rd /\ a.qre = c.qre /\ a.err = c.err
      /\ a.txMax = m /\ a.txStreams = n
  BY <1>0, LiftView
<1>3. Fit(a) /\ Good(a)
  BY <1>0 DEF Fit
<1> HIDE DEF a
<1>4. StreamsLeft(a, i)
  <2>1. c.txStreams[i] <= a.txStreams[i] /\ c.txStreams[i] \in Nat /\ a.txStreams[i] \in Nat
    <3>1. c.txStreams \in [Direction -> 0..MaxStreams] /\ n \in [Direction -> 0..MaxStreams]
      BY <1>0 DEF ConnType, LimitsType
    <3>2. MaxStreams \in Nat
      OBVIOUS
    <3> QED
      BY <1>2, <3>1, <3>2 DEF Below
  <2>2. s \in Nat /\ a.next[i] = s /\ OrdStreamId(s) \in Nat
    BY <1>0, <1>2 DEF ConnType, OrdStreamId
  <2>3. c.txStreams[i] >= OrdStreamId(s)
    BY DEF StreamsLeft
  <2> QED
    BY <2>1, <2>2, <2>3 DEF StreamsLeft
<1>5. b \in ConnType
  BY <1>2, <1>3, <1>4, OpenStreamGood DEF Good
<1>6. Fit(d) /\ d \in ConnType
  BY OpenOwn DEF Fit, Good
<1>7. /\ d.role = c.role /\ d.strmq = c.strmq /\ d.idtr = c.idtr
      /\ d.rxStreams = c.rxStreams /\ d.rxUnsentStreams = c.rxUnsentStreams
      /\ d.txOff = c.txOff /\ d.txBlocked = c.txBlocked /\ d.rxOff = c.rxOff
      /\ d.rxMax = c.rxMax /\ d.rxUnsent = c.rxUnsent /\ d.ping = c.ping
      /\ d.pong = c.pong /\ d.glitch = c.glitch /\ d.rd = c.rd /\ d.qre = c.qre
      /\ d.err = c.err
      /\ d.live = c.live \cup {s}
  BY OpenOwn
<1>8. s \notin c.live /\ d.next[i] = s + 4 /\ \A j \in Direction \ {i} : d.next[j] = c.next[j]
  BY OpenOwn
<1>9. d.strm[s] = Windowed(c.strm[s], StreamWindow(p, s))
      /\ \A t \in StreamIds \ {s} : d.strm[t] = c.strm[t]
  BY OpenOwn
<1>10. /\ b.txMax = a.txMax /\ b.txStreams = a.txStreams /\ b.role = a.role
      /\ b.strmq = a.strmq /\ b.idtr = a.idtr /\ b.rxStreams = a.rxStreams
      /\ b.rxUnsentStreams = a.rxUnsentStreams /\ b.txOff = a.txOff
      /\ b.txBlocked = a.txBlocked /\ b.rxOff = a.rxOff /\ b.rxMax = a.rxMax
      /\ b.rxUnsent = a.rxUnsent /\ b.ping = a.ping /\ b.pong = a.pong
      /\ b.glitch = a.glitch /\ b.rd = a.rd /\ b.qre = a.qre /\ b.err = a.err
      /\ b.live = a.live \cup {a.next[i]}
      /\ b.next = [a.next EXCEPT ![i] = a.next[i] + 4]
      /\ b.strm = [a.strm EXCEPT ![a.next[i]] = NewStrm(a.role, a.next[i])]
  BY <1>1 DEF OpenStream, CreateStream, ConnType
<1> HIDE DEF b, d
<1>11. \A t \in StreamIds : b.strm[t] = Windowed(d.strm[t], InitialMaxTx(d.role, t))
  <2> TAKE t \in StreamIds
  <2>1. a.next[i] = s /\ a.role = c.role /\ a.strm \in [StreamIds -> StrmType] /\ s \in StreamIds
    BY <1>1, <1>2 DEF ConnType
  <2> HIDE DEF s
  <2>2. CASE t # s
    BY <1>1, <1>7, <1>9, <1>10, <2>1, <2>2
  <2>3. CASE t = s
    <3>1. c.strm[s] = NewStrm(c.role, s) /\ c.role \in Role
      BY <1>0, <1>8, <2>1 DEF Fit, Plain, ConnType
    <3>2. /\ NewStrm(c.role, s).txMax = InitialMaxTx(c.role, s) /\ NewStrm(c.role, s) \in StrmType
          /\ StreamWindow(p, s) \in Offset /\ InitialMaxTx(c.role, s) \in Offset
      BY <2>1, <3>1, NewStrmPlain, NewStrmGood, StreamWindowType, WindowType
    <3>3. b.strm[s] = NewStrm(c.role, s)
      BY <1>10, <2>1
    <3>4. Windowed(Windowed(c.strm[s], StreamWindow(p, s)), InitialMaxTx(c.role, s)) = c.strm[s]
      BY <3>1, <3>2, WindowedTwice
    <3> QED
      BY <1>7, <1>9, <2>3, <3>1, <3>3, <3>4
  <2> QED
    BY <2>2, <2>3
<1>12. b.next = d.next
  <2>1. b.next \in [Direction -> Nat] /\ d.next \in [Direction -> Nat] /\ a.next = c.next
        /\ c.next \in [Direction -> Nat]
    BY <1>0, <1>2, <1>5, <1>6 DEF ConnType
  <2>2. \A j \in Direction : b.next[j] = d.next[j]
    BY <1>8, <1>10, <2>1
  <2> QED
    BY <2>1, <2>2
<1>13. /\ b.role = d.role /\ b.live = d.live /\ b.strmq = d.strmq /\ b.idtr = d.idtr
      /\ b.rxStreams = d.rxStreams /\ b.rxUnsentStreams = d.rxUnsentStreams
      /\ b.txOff = d.txOff /\ b.txBlocked = d.txBlocked /\ b.rxOff = d.rxOff
      /\ b.rxMax = d.rxMax /\ b.rxUnsent = d.rxUnsent /\ b.ping = d.ping
      /\ b.pong = d.pong /\ b.glitch = d.glitch /\ b.rd = d.rd /\ b.qre = d.qre
      /\ b.err = d.err
      /\ b.txMax = m /\ b.txStreams = n
  BY <1>2, <1>7, <1>10
<1>14. LimitsType(m, n)
  BY <1>0
<1>15. b = Lift(d, m, n)
  BY <1>5, <1>6, <1>11, <1>12, <1>13, <1>14, LiftIs
<1> QED
  BY <1>2, <1>4, <1>15 DEF a, b, d


\* A stream that is freed.
LEMMA LiftClose ==
  ASSUME NEW c, c \in ConnType, NEW m, NEW n, LimitsType(m, n), NEW s \in StreamIds
  PROVE  CloseStreamIfShutRdWr(Lift(c, m, n), s) = Lift(CloseStreamIfShutRdWr(c, s), m, n)
<1>0. c \in ConnType /\ LimitsType(m, n)
  OBVIOUS
<1> DEFINE a == Lift(c, m, n)
           x == NewStrm(c.role, s)
           d == CloseStream(c, s)
           b == CloseStream(a, s)
<1>1. a \in ConnType /\ \A t \in StreamIds : a.strm[t] = Windowed(c.strm[t], InitialMaxTx(c.role, t))
  BY <1>0, LiftType
<1>2. /\ a.role = c.role /\ a.live = c.live /\ a.strmq = c.strmq /\ a.idtr = c.idtr
      /\ a.next = c.next /\ a.rxStreams = c.rxStreams
      /\ a.rxUnsentStreams = c.rxUnsentStreams /\ a.txOff = c.txOff
      /\ a.txBlocked = c.txBlocked /\ a.rxOff = c.rxOff /\ a.rxMax = c.rxMax
      /\ a.rxUnsent = c.rxUnsent /\ a.ping = c.ping /\ a.pong = c.pong
      /\ a.glitch = c.glitch /\ a.rd = c.rd /\ a.qre = c.qre /\ a.err = c.err
      /\ a.txMax = m /\ a.txStreams = n
  BY <1>0, LiftView
<1> HIDE DEF a
<1>3. x \in StrmType /\ x.txMax = InitialMaxTx(c.role, s) /\ c.role \in Role
  BY NewStrmGood, NewStrmPlain DEF ConnType
<1>4. x = Windowed(x, InitialMaxTx(c.role, s))
  <2>1. InitialMaxTx(c.role, s) \in Offset
    BY <1>3, WindowType
  <2> HIDE DEF x
  <2>2. Windowed(x, InitialMaxTx(c.role, s)) \in StrmType
    BY <1>3, <2>1, WindowedView
  <2> QED
    BY <1>3, <2>2, WindowedView, SameStrm
<1>5. /\ d.role = c.role /\ d.idtr = c.idtr /\ d.next = c.next
      /\ d.rxStreams = c.rxStreams /\ d.rxUnsentStreams = c.rxUnsentStreams
      /\ d.txOff = c.txOff /\ d.txBlocked = c.txBlocked /\ d.rxOff = c.rxOff
      /\ d.rxMax = c.rxMax /\ d.rxUnsent = c.rxUnsent /\ d.ping = c.ping
      /\ d.pong = c.pong /\ d.glitch = c.glitch /\ d.rd = c.rd /\ d.qre = c.qre
      /\ d.err = c.err
      /\ d.live = c.live \ {s} /\ d.strmq = c.strmq \ {s}
      /\ d.strm = [c.strm EXCEPT ![s] = x]
  BY DEF CloseStream, ConnType
<1>6. /\ b.txMax = a.txMax /\ b.txStreams = a.txStreams /\ b.role = a.role
      /\ b.idtr = a.idtr /\ b.next = a.next /\ b.rxStreams = a.rxStreams
      /\ b.rxUnsentStreams = a.rxUnsentStreams /\ b.txOff = a.txOff
      /\ b.txBlocked = a.txBlocked /\ b.rxOff = a.rxOff /\ b.rxMax = a.rxMax
      /\ b.rxUnsent = a.rxUnsent /\ b.ping = a.ping /\ b.pong = a.pong
      /\ b.glitch = a.glitch /\ b.rd = a.rd /\ b.qre = a.qre /\ b.err = a.err
      /\ b.live = a.live \ {s} /\ b.strmq = a.strmq \ {s}
      /\ b.strm = [a.strm EXCEPT ![s] = NewStrm(a.role, s)]
  BY <1>1 DEF CloseStream, ConnType
<1>7. d \in ConnType
  <2> HIDE DEF x
  <2>1. d = [c EXCEPT !.live = c.live \ {s}, !.strmq = c.strmq \ {s}, !.strm[s] = x]
    BY DEF CloseStream, x
  <2>2. c.live \ {s} \in SUBSET StreamIds /\ c.strmq \ {s} \in SUBSET StreamIds
    BY DEF ConnType
  <2> HIDE DEF d
  <2> QED
    BY <1>3, <2>1, <2>2 DEF ConnType
<1>8. b \in ConnType
  <2>0. x = NewStrm(a.role, s)
    BY <1>2
  <2> HIDE DEF x
  <2>1. b = [a EXCEPT !.live = a.live \ {s}, !.strmq = a.strmq \ {s}, !.strm[s] = x]
    BY <2>0 DEF CloseStream
  <2>2. a.live \ {s} \in SUBSET StreamIds /\ a.strmq \ {s} \in SUBSET StreamIds
    BY <1>1 DEF ConnType
  <2>3. a \in ConnType /\ x \in StrmType
    BY <1>1, <1>3
  <2> HIDE DEF b
  <2> QED
    BY ONLY <2>1, <2>2, <2>3, s \in StreamIds DEF ConnType
<1>9. x = NewStrm(a.role, s)
  BY <1>2
<1>10. /\ ShouldCloseStream(a.strm[s]) <=> ShouldCloseStream(c.strm[s])
       /\ a.strm \in [StreamIds -> StrmType] /\ c.strm \in [StreamIds -> StrmType]
  <2>1. c.strm[s] \in StrmType
    BY DEF ConnType
  <2>2. a.strm[s].flags = c.strm[s].flags
    BY <1>1, <2>1, WindowedView
  <2> QED
    BY <1>1, <2>2 DEF ShouldCloseStream, ConnType
<1> HIDE DEF x, b, d
<1>11. d.strm[s] = x /\ \A t \in StreamIds \ {s} : d.strm[t] = c.strm[t]
  BY <1>5, <1>10
<1>12. b.strm[s] = x /\ \A t \in StreamIds \ {s} : b.strm[t] = a.strm[t]
  BY <1>6, <1>9, <1>10
<1>13. \A t \in StreamIds : b.strm[t] = Windowed(d.strm[t], InitialMaxTx(d.role, t))
  <2>1. d.role = c.role
    BY <1>5
  <2> QED
    BY <1>1, <1>4, <1>11, <1>12, <2>1
<1>14. /\ b.role = d.role /\ b.live = d.live /\ b.strmq = d.strmq /\ b.idtr = d.idtr
      /\ b.next = d.next /\ b.rxStreams = d.rxStreams
      /\ b.rxUnsentStreams = d.rxUnsentStreams /\ b.txOff = d.txOff
      /\ b.txBlocked = d.txBlocked /\ b.rxOff = d.rxOff /\ b.rxMax = d.rxMax
      /\ b.rxUnsent = d.rxUnsent /\ b.ping = d.ping /\ b.pong = d.pong
      /\ b.glitch = d.glitch /\ b.rd = d.rd /\ b.qre = d.qre /\ b.err = d.err
      /\ b.txMax = m /\ b.txStreams = n
  BY <1>2, <1>5, <1>6
<1>15. b = Lift(d, m, n)
  BY <1>7, <1>8, <1>13, <1>14, LiftIs
<1> QED
  BY <1>10, <1>15 DEF CloseStreamIfShutRdWr, a, b, d

\* The credit that a connection has is part of what it will have.
LEMMA CreditBelow ==
  ASSUME NEW c, Fit(c), NEW m, NEW n, Below(c, m, n), NEW s \in StreamIds, s \in c.live
  PROVE  FcCredits(c, s) <= FcCredits(Lift(c, m, n), s)
<1> DEFINE a == Lift(c, m, n)
<1>0. c \in ConnType /\ LimitsType(m, n) /\ Fit(Lift(c, m, n))
  BY BelowType
<1>1. Good(c) /\ Good(a)
  BY <1>0 DEF Fit
<1>2. a.txMax = m /\ a.txOff = c.txOff
  BY <1>0, LiftView
<1>3. a.strm[s].txMax = InitialMaxTx(c.role, s) /\ a.strm[s].txOff = c.strm[s].txOff
  <2>1. c.strm[s] \in StrmType
    BY <1>0 DEF ConnType
  <2>2. a.strm[s] = Windowed(c.strm[s], InitialMaxTx(c.role, s))
    BY <1>0, LiftType
  <2> HIDE DEF a
  <2> QED
    BY <2>1, <2>2, WindowedView
<1> HIDE DEF a
<1>4. /\ c.txOff \in Nat /\ c.txMax \in Nat /\ a.txMax \in Nat
      /\ c.strm[s].txOff \in Nat /\ c.strm[s].txMax \in Nat /\ a.strm[s].txMax \in Nat
  BY <1>1, Numbers
<1>5. c.txMax <= a.txMax /\ c.strm[s].txMax <= a.strm[s].txMax
  BY <1>2, <1>3 DEF Below
<1>6. FcCredits(c, s) <= FcCredits(a, s)
  BY <1>2, <1>3, <1>4, <1>5 DEF FcCredits, Lesser
<1> QED
  BY <1>6 DEF a

\* Data that is sent.
LEMMA LiftData ==
  ASSUME NEW c, Fit(c), NEW m, NEW n, Below(c, m, n), NEW s \in StreamIds, s \in c.live,
         NEW len \in Nat, NEW w \in Nat, w <= FcCredits(c, s), NEW fin \in BOOLEAN
  PROVE  WriteData(Lift(c, m, n), s, len, w, fin) = Lift(WriteData(c, s, len, w, fin), m, n)
<1>0. c \in ConnType /\ LimitsType(m, n) /\ Fit(Lift(c, m, n))
  BY BelowType
<1> DEFINE a == Lift(c, m, n)
           W == InitialMaxTx(c.role, s)
           last == fin /\ w = len
           G == {"SHUT_WR"}
           d == [c EXCEPT
                   !.txOff = @ + w,
                   !.strm[s] = Sent(@, w),
                   !.qre.frames = Append(@, {StreamFr(s, c.strm[s].txOff, w, last)})]
           b == [a EXCEPT
                   !.txOff = @ + w,
                   !.strm[s] = Sent(@, w),
                   !.qre.frames = Append(@, {StreamFr(s, a.strm[s].txOff, w, last)})]
<1>1. a \in ConnType /\ \A t \in StreamIds : a.strm[t] = Windowed(c.strm[t], InitialMaxTx(c.role, t))
  BY <1>0, LiftType
<1>2. /\ a.role = c.role /\ a.live = c.live /\ a.strmq = c.strmq /\ a.idtr = c.idtr
      /\ a.next = c.next /\ a.rxStreams = c.rxStreams
      /\ a.rxUnsentStreams = c.rxUnsentStreams /\ a.txOff = c.txOff
      /\ a.txBlocked = c.txBlocked /\ a.rxOff = c.rxOff /\ a.rxMax = c.rxMax
      /\ a.rxUnsent = c.rxUnsent /\ a.ping = c.ping /\ a.pong = c.pong
      /\ a.glitch = c.glitch /\ a.rd = c.rd /\ a.qre = c.qre /\ a.err = c.err
      /\ a.txMax = m /\ a.txStreams = n
  BY <1>0, LiftView
<1>3. w <= FcCredits(a, s) /\ FcCredits(c, s) \in Int /\ FcCredits(a, s) \in Int
  <2>1. Good(c) /\ Good(a)
    BY <1>0 DEF Fit
  <2>2. FcCredits(c, s) \in Int /\ FcCredits(a, s) \in Int
    <3> HIDE DEF a
    <3>1. /\ c.txOff \in Nat /\ c.txMax \in Nat /\ c.strm[s].txOff \in Nat /\ c.strm[s].txMax \in Nat
          /\ a.txOff \in Nat /\ a.txMax \in Nat /\ a.strm[s].txOff \in Nat /\ a.strm[s].txMax \in Nat
      BY <2>1, Numbers
    <3> QED
      BY <3>1 DEF FcCredits, Lesser
  <2>3. FcCredits(c, s) <= FcCredits(a, s)
    BY CreditBelow
  <2> HIDE DEF a
  <2> QED
    BY <2>2, <2>3
<1>4. WriteData(c, s, len, w, fin) = IF last THEN CloseStreamIfShutRdWr(SetFlags(d, s, G), s) ELSE d
  BY DEF WriteData
<1>5. WriteData(a, s, len, w, fin) = IF last THEN CloseStreamIfShutRdWr(SetFlags(b, s, G), s) ELSE b
  BY DEF WriteData
<1>6. last \in BOOLEAN /\ Good(a) /\ Good(c) /\ G \in SUBSET Flag
  BY <1>0 DEF Fit, Flag
<1> HIDE DEF a, G, last
<1>7. d \in ConnType /\ b \in ConnType
  <2>1. Good(d)
    BY <1>6, StreamFrameGood
  <2>2. Good(b)
    BY <1>3, <1>6, StreamFrameGood
  <2> QED
    BY <2>1, <2>2 DEF Good
<1>8. /\ c.strm[s] \in StrmType /\ a.strm[s] \in StrmType /\ c.strm \in [StreamIds -> StrmType]
      /\ a.strm \in [StreamIds -> StrmType] /\ a.strm[s] = Windowed(c.strm[s], W)
  BY <1>0, <1>1 DEF ConnType
<1>9. /\ d.role = c.role /\ d.live = c.live /\ d.strmq = c.strmq /\ d.idtr = c.idtr
      /\ d.next = c.next /\ d.rxStreams = c.rxStreams
      /\ d.rxUnsentStreams = c.rxUnsentStreams /\ d.txBlocked = c.txBlocked
      /\ d.rxOff = c.rxOff /\ d.rxMax = c.rxMax /\ d.rxUnsent = c.rxUnsent
      /\ d.ping = c.ping /\ d.pong = c.pong /\ d.glitch = c.glitch /\ d.rd = c.rd
      /\ d.err = c.err
      /\ d.txOff = c.txOff + w
      /\ d.qre = [c.qre EXCEPT !.frames = Append(@, {StreamFr(s, c.strm[s].txOff, w, last)})]
      /\ d.strm = [c.strm EXCEPT ![s] = Sent(@, w)]
  BY <1>0 DEF ConnType
<1>10. /\ b.txMax = a.txMax /\ b.txStreams = a.txStreams /\ b.role = a.role
      /\ b.live = a.live /\ b.strmq = a.strmq /\ b.idtr = a.idtr /\ b.next = a.next
      /\ b.rxStreams = a.rxStreams /\ b.rxUnsentStreams = a.rxUnsentStreams
      /\ b.txBlocked = a.txBlocked /\ b.rxOff = a.rxOff /\ b.rxMax = a.rxMax
      /\ b.rxUnsent = a.rxUnsent /\ b.ping = a.ping /\ b.pong = a.pong
      /\ b.glitch = a.glitch /\ b.rd = a.rd /\ b.err = a.err
      /\ b.txOff = a.txOff + w
      /\ b.qre = [a.qre EXCEPT !.frames = Append(@, {StreamFr(s, a.strm[s].txOff, w, last)})]
      /\ b.strm = [a.strm EXCEPT ![s] = Sent(@, w)]
  BY <1>1 DEF ConnType
<1> HIDE DEF b, d
<1>11. d.strm[s] = Sent(c.strm[s], w) /\ \A t \in StreamIds \ {s} : d.strm[t] = c.strm[t]
  BY <1>8, <1>9
<1>12. b.strm[s] = Sent(a.strm[s], w) /\ \A t \in StreamIds \ {s} : b.strm[t] = a.strm[t]
  BY <1>8, <1>10
<1>13. Sent(a.strm[s], w) = Windowed(Sent(c.strm[s], w), W) /\ a.strm[s].txOff = c.strm[s].txOff
  <2> HIDE DEF W
  <2> QED
    BY <1>8 DEF Sent, Windowed, StrmType
<1>14. \A t \in StreamIds : b.strm[t] = Windowed(d.strm[t], InitialMaxTx(d.role, t))
  <2>1. d.role = c.role
    BY <1>9
  <2> QED
    BY <1>1, <1>11, <1>12, <1>13, <2>1
<1>15. b.qre = d.qre
  <2>1. a.qre = c.qre
    BY <1>2
  <2> QED
    BY <1>9, <1>10, <1>13, <2>1
<1>16. /\ b.role = d.role /\ b.live = d.live /\ b.strmq = d.strmq /\ b.idtr = d.idtr
      /\ b.next = d.next /\ b.rxStreams = d.rxStreams
      /\ b.rxUnsentStreams = d.rxUnsentStreams /\ b.txOff = d.txOff
      /\ b.txBlocked = d.txBlocked /\ b.rxOff = d.rxOff /\ b.rxMax = d.rxMax
      /\ b.rxUnsent = d.rxUnsent /\ b.ping = d.ping /\ b.pong = d.pong
      /\ b.glitch = d.glitch /\ b.rd = d.rd /\ b.err = d.err
      /\ b.txMax = m /\ b.txStreams = n
  BY <1>2, <1>9, <1>10
<1>17. LimitsType(m, n)
  BY <1>0
<1>18. b = Lift(d, m, n)
  BY <1>7, <1>14, <1>15, <1>16, <1>17, LiftIs
<1>19. SetFlags(d, s, G) \in ConnType /\ SetFlags(Lift(d, m, n), s, G) = Lift(SetFlags(d, s, G), m, n)
  BY <1>6, <1>7, <1>17, FlagsType, LiftFlags
<1>20. CloseStreamIfShutRdWr(Lift(SetFlags(d, s, G), m, n), s)
         = Lift(CloseStreamIfShutRdWr(SetFlags(d, s, G), s), m, n)
  BY <1>17, <1>19, LiftClose
<1>21. WriteData(a, s, len, w, fin) = Lift(WriteData(c, s, len, w, fin), m, n)
  <2>1. CASE last
    BY <1>4, <1>5, <1>18, <1>19, <1>20, <2>1
  <2>2. CASE ~last
    BY <1>4, <1>5, <1>18, <2>2
  <2> QED
    BY <2>1, <2>2
<1> QED
  BY <1>21 DEF a


\* The same frames wait to be written.
LEMMA LiftWaiting ==
  ASSUME NEW c, Fit(c), NEW m, NEW n, Below(c, m, n)
  PROVE  /\ CtrlFrames(Lift(c, m, n)) = CtrlFrames(c)
         /\ MaxDataFrames(Lift(c, m, n)) = MaxDataFrames(c)
         /\ Freeing(Lift(c, m, n)) = Freeing(c)
<1>0. c \in ConnType /\ LimitsType(m, n) /\ Fit(Lift(c, m, n))
  BY BelowType
<1> DEFINE a == Lift(c, m, n)
<1>1. a \in ConnType /\ \A t \in StreamIds : a.strm[t] = Windowed(c.strm[t], InitialMaxTx(c.role, t))
  BY <1>0, LiftType
<1>2. /\ a.role = c.role /\ a.live = c.live /\ a.strmq = c.strmq /\ a.idtr = c.idtr
      /\ a.next = c.next /\ a.rxStreams = c.rxStreams
      /\ a.rxUnsentStreams = c.rxUnsentStreams /\ a.txOff = c.txOff
      /\ a.txBlocked = c.txBlocked /\ a.rxOff = c.rxOff /\ a.rxMax = c.rxMax
      /\ a.rxUnsent = c.rxUnsent /\ a.ping = c.ping /\ a.pong = c.pong
      /\ a.glitch = c.glitch /\ a.rd = c.rd /\ a.qre = c.qre /\ a.err = c.err
      /\ a.txMax = m /\ a.txStreams = n
  BY <1>0, LiftView
<1>3. Fit(a)
  BY <1>0
<1> HIDE DEF a
<1>4. c.strmq \subseteq StreamIds
  BY <1>0 DEF ConnType
<1>5. \A s \in StreamIds : a.strm[s].flags = c.strm[s].flags /\ a.strm[s].txOff = c.strm[s].txOff
  <2> TAKE s \in StreamIds
  <2>1. c.strm[s] \in StrmType
    BY <1>0 DEF ConnType
  <2> QED
    BY <1>1, <2>1, WindowedView
<1>6. \A s \in c.strmq : ResetFrames(a, s) = ResetFrames(c, s)
  BY <1>4, <1>5 DEF ResetFrames
<1>7. \A s \in c.strmq : ClosesOnReset(a, s) <=> ClosesOnReset(c, s)
  BY <1>4, <1>5 DEF ClosesOnReset
<1>8. MaxDataFrames(a) = MaxDataFrames(c)
  BY <1>2 DEF MaxDataFrames, ShouldSendMaxData
<1>9. MaxStreamsFrames(a) = MaxStreamsFrames(c)
  BY <1>2 DEF MaxStreamsFrames
<1>10. Freeing(a) = Freeing(c)
  BY <1>2, <1>7 DEF Freeing
<1>11. CtrlFrames(a) = MaxDataFrames(a) \cup (UNION {ResetFrames(a, s) : s \in a.strmq})
                       \cup MaxStreamsFrames(a)
  BY <1>3, WaitingFrames
<1>12. CtrlFrames(c) = MaxDataFrames(c) \cup (UNION {ResetFrames(c, s) : s \in c.strmq})
                       \cup MaxStreamsFrames(c)
  BY WaitingFrames
<1>13. {ResetFrames(a, s) : s \in a.strmq} = {ResetFrames(c, s) : s \in c.strmq}
  BY <1>2, <1>6
<1>14. CtrlFrames(a) = CtrlFrames(c)
  BY <1>8, <1>9, <1>11, <1>12, <1>13
<1> QED
  BY <1>8, <1>10, <1>14 DEF a

\* dwnx_conn_write_ctrl_frames.
LEMMA LiftCtrl ==
  ASSUME NEW c, Fit(c), NEW m, NEW n, Below(c, m, n)
  PROVE  WithCtrl(Lift(c, m, n)) = Lift(WithCtrl(c), m, n)
<1>0. c \in ConnType /\ LimitsType(m, n) /\ Fit(Lift(c, m, n))
  BY BelowType
<1> DEFINE a == Lift(c, m, n)
           out == CtrlFrames(c)
           d == WithCtrl(c)
           b == WithCtrl(a)
<1>1. a \in ConnType /\ \A t \in StreamIds : a.strm[t] = Windowed(c.strm[t], InitialMaxTx(c.role, t))
  BY <1>0, LiftType
<1>2. /\ a.role = c.role /\ a.live = c.live /\ a.strmq = c.strmq /\ a.idtr = c.idtr
      /\ a.next = c.next /\ a.rxStreams = c.rxStreams
      /\ a.rxUnsentStreams = c.rxUnsentStreams /\ a.txOff = c.txOff
      /\ a.txBlocked = c.txBlocked /\ a.rxOff = c.rxOff /\ a.rxMax = c.rxMax
      /\ a.rxUnsent = c.rxUnsent /\ a.ping = c.ping /\ a.pong = c.pong
      /\ a.glitch = c.glitch /\ a.rd = c.rd /\ a.qre = c.qre /\ a.err = c.err
      /\ a.txMax = m /\ a.txStreams = n
  BY <1>0, LiftView
<1>3. CtrlFrames(a) = out /\ MaxDataFrames(a) = MaxDataFrames(c) /\ Freeing(a) = Freeing(c)
  BY LiftWaiting
<1>4. Fit(a)
  BY <1>0
<1> HIDE DEF a
<1>5. d \in ConnType /\ b \in ConnType
  BY <1>4, CtrlOwn DEF OwnStep, Fit, Good
<1>6. /\ d.live = c.live \ Freeing(c) /\ d.strmq = {}
      /\ d.rxMax = IF MaxDataFrames(c) \cap out # {} THEN c.rxUnsent ELSE c.rxMax
      /\ d.rxStreams = [i \in Direction |->
                          IF MaxStreamsFr(i, c.rxUnsentStreams[i]) \in out
                            THEN c.rxUnsentStreams[i] ELSE c.rxStreams[i]]
      /\ d.qre = [started |-> TRUE, frames |-> Batch(<< >>, out)]
  BY CtrlView
<1>7. d.strm = [s \in StreamIds |-> IF s \in Freeing(c) THEN NewStrm(c.role, s)
                                    ELSE IF s \in c.strmq THEN ResetSent(c.strm[s])
                                    ELSE c.strm[s]]
  BY CtrlView
<1>8. /\ d.role = c.role /\ d.idtr = c.idtr /\ d.next = c.next
      /\ d.rxUnsentStreams = c.rxUnsentStreams /\ d.txOff = c.txOff
      /\ d.txBlocked = c.txBlocked /\ d.rxOff = c.rxOff /\ d.rxUnsent = c.rxUnsent
      /\ d.ping = c.ping /\ d.pong = c.pong /\ d.glitch = c.glitch /\ d.rd = c.rd
      /\ d.err = c.err
  BY CtrlView
<1>9. /\ b.live = a.live \ Freeing(a) /\ b.strmq = {}
      /\ b.rxMax = IF MaxDataFrames(a) \cap CtrlFrames(a) # {} THEN a.rxUnsent ELSE a.rxMax
      /\ b.rxStreams = [i \in Direction |->
                          IF MaxStreamsFr(i, a.rxUnsentStreams[i]) \in CtrlFrames(a)
                            THEN a.rxUnsentStreams[i] ELSE a.rxStreams[i]]
      /\ b.qre = [started |-> TRUE, frames |-> Batch(<< >>, CtrlFrames(a))]
  BY <1>4, CtrlView
<1>10. b.strm = [s \in StreamIds |-> IF s \in Freeing(a) THEN NewStrm(a.role, s)
                                     ELSE IF s \in a.strmq THEN ResetSent(a.strm[s])
                                     ELSE a.strm[s]]
  BY <1>4, CtrlView
<1>11. /\ b.txMax = a.txMax /\ b.txStreams = a.txStreams /\ b.role = a.role
      /\ b.idtr = a.idtr /\ b.next = a.next /\ b.rxUnsentStreams = a.rxUnsentStreams
      /\ b.txOff = a.txOff /\ b.txBlocked = a.txBlocked /\ b.rxOff = a.rxOff
      /\ b.rxUnsent = a.rxUnsent /\ b.ping = a.ping /\ b.pong = a.pong
      /\ b.glitch = a.glitch /\ b.rd = a.rd /\ b.err = a.err
  BY <1>4, CtrlView
<1> HIDE DEF b, d, out
<1>12. \A t \in StreamIds : b.strm[t] = Windowed(d.strm[t], InitialMaxTx(d.role, t))
  <2> TAKE t \in StreamIds
  <2> DEFINE W == InitialMaxTx(c.role, t)
             x == c.strm[t]
  <2>1. x \in StrmType /\ c.role \in Role /\ W \in Offset
    BY <1>0, WindowType DEF ConnType
  <2>2. a.strm[t] = Windowed(x, W) /\ d.role = c.role /\ a.role = c.role /\ a.strmq = c.strmq
    BY <1>1, <1>2, <1>8
  <2>3. d.strm[t] = IF t \in Freeing(c) THEN NewStrm(c.role, t)
                    ELSE IF t \in c.strmq THEN ResetSent(x) ELSE x
    BY <1>7
  <2>4. b.strm[t] = IF t \in Freeing(c) THEN NewStrm(c.role, t)
                    ELSE IF t \in c.strmq THEN ResetSent(Windowed(x, W)) ELSE Windowed(x, W)
    BY <1>3, <1>10, <2>2
  <2>5. ResetSent(Windowed(x, W)) = Windowed(ResetSent(x), W)
    <3> HIDE DEF x, W
    <3> QED
      BY <2>1 DEF ResetSent, Windowed, StrmType
  <2>6. Windowed(NewStrm(c.role, t), W) = NewStrm(c.role, t)
    BY <2>1, LiftNew DEF Windowed
  <2> HIDE DEF x
  <2> QED
    BY <2>2, <2>3, <2>4, <2>5, <2>6
<1>13. /\ b.live = d.live /\ b.strmq = d.strmq /\ b.rxMax = d.rxMax /\ b.rxStreams = d.rxStreams
       /\ b.qre = d.qre
  BY <1>2, <1>3, <1>6, <1>9
<1>14. /\ b.role = d.role /\ b.idtr = d.idtr /\ b.next = d.next
      /\ b.rxUnsentStreams = d.rxUnsentStreams /\ b.txOff = d.txOff
      /\ b.txBlocked = d.txBlocked /\ b.rxOff = d.rxOff /\ b.rxUnsent = d.rxUnsent
      /\ b.ping = d.ping /\ b.pong = d.pong /\ b.glitch = d.glitch /\ b.rd = d.rd
      /\ b.err = d.err
       /\ b.txMax = m /\ b.txStreams = n
  BY <1>2, <1>8, <1>11
<1>15. LimitsType(m, n)
  BY <1>0
<1>16. b = Lift(d, m, n)
  BY <1>5, <1>12, <1>13, <1>14, <1>15, LiftIs
<1> QED
  BY <1>16 DEF a, b, d


\* An endpoint that knows the limits is what it is lifted to.
LEMMA LiftSelf ==
  ASSUME NEW c, Fit(c), Settled(c)
  PROVE  Lift(c, c.txMax, c.txStreams) = c /\ Below(c, c.txMax, c.txStreams)
<1> DEFINE m == c.txMax
           n == c.txStreams
<1>1. c \in ConnType /\ c.live \subseteq StreamIds
  BY DEF Fit, Good, ConnType
<1>2. LimitsType(m, n)
  BY <1>1 DEF LimitsType, ConnType
<1>3. \A s \in StreamIds : c.strm[s] = Windowed(c.strm[s], InitialMaxTx(c.role, s))
  <2> TAKE s \in StreamIds
  <2> DEFINE x == c.strm[s]
             w == InitialMaxTx(c.role, s)
  <2>1. x \in StrmType /\ x.txMax = w /\ w \in Offset
    BY <1>1, WindowType DEF Settled, ConnType
  <2> HIDE DEF x, w
  <2>2. Windowed(x, w) \in StrmType
    BY <2>1, WindowedView
  <2>3. x = Windowed(x, w)
    BY <2>1, <2>2, WindowedView, SameStrm
  <2> QED
    BY <2>3 DEF x, w
<1>4. c = Lift(c, m, n)
  BY <1>1, <1>2, <1>3, LiftIs
<1>5. Below(c, m, n)
  <2>1. /\ c.txMax \in Nat /\ \A i \in Direction : c.txStreams[i] \in Nat
        /\ \A s \in StreamIds : c.strm[s].txMax \in Nat
    BY Numbers DEF Fit
  <2>2. \A s \in c.live : c.strm[s].txMax <= InitialMaxTx(c.role, s)
    <3> TAKE s \in c.live
    <3>1. s \in StreamIds
      BY <1>1
    <3>2. c.strm[s].txMax = InitialMaxTx(c.role, s) /\ c.strm[s].txMax \in Nat
      BY <2>1, <3>1 DEF Settled
    <3> QED
      BY <3>2
  <2>3. c.txMax <= m /\ \A i \in Direction : c.txStreams[i] <= n[i]
    BY <2>1
  <2> QED
    BY <1>2, <2>2, <2>3 DEF Below, LimitsType
<1> QED
  BY <1>4, <1>5

\* A call of the application does not change what is below what.
LEMMA OwnBelow ==
  ASSUME NEW c, NEW d, OwnStep(c, d), NEW m, NEW n, Below(c, m, n)
  PROVE  Below(d, m, n)
BY DEF OwnStep, Below, SameWindows

\* Nor does the end of a record.
LEMMA LiftFinish ==
  ASSUME NEW c, Fit(c), NEW m, NEW n, Below(c, m, n)
  PROVE  FinishRecord(Lift(c, m, n)) = Lift(FinishRecord(c), m, n)
<1>0. c \in ConnType /\ LimitsType(m, n) /\ Fit(Lift(c, m, n))
  BY BelowType
<1> DEFINE a == Lift(c, m, n)
           d == FinishRecord(c)
           b == FinishRecord(a)
<1>1. a \in ConnType /\ \A t \in StreamIds : a.strm[t] = Windowed(c.strm[t], InitialMaxTx(c.role, t))
  BY <1>0, LiftType
<1>2. /\ a.role = c.role /\ a.live = c.live /\ a.strmq = c.strmq /\ a.idtr = c.idtr
      /\ a.next = c.next /\ a.rxStreams = c.rxStreams
      /\ a.rxUnsentStreams = c.rxUnsentStreams /\ a.txOff = c.txOff
      /\ a.txBlocked = c.txBlocked /\ a.rxOff = c.rxOff /\ a.rxMax = c.rxMax
      /\ a.rxUnsent = c.rxUnsent /\ a.ping = c.ping /\ a.pong = c.pong
      /\ a.glitch = c.glitch /\ a.rd = c.rd /\ a.qre = c.qre /\ a.err = c.err
      /\ a.txMax = m /\ a.txStreams = n
  BY <1>0, LiftView
<1>3. d \in ConnType /\ b \in ConnType /\ d.qre = NoRecord /\ b.qre = NoRecord
  BY <1>0, FinishOwn DEF OwnStep, Fit, Good
<1> HIDE DEF a
<1>4. /\ d.strm = c.strm /\ d.role = c.role /\ d.live = c.live /\ d.strmq = c.strmq
      /\ d.idtr = c.idtr /\ d.next = c.next /\ d.rxStreams = c.rxStreams
      /\ d.rxUnsentStreams = c.rxUnsentStreams /\ d.txOff = c.txOff
      /\ d.txBlocked = c.txBlocked /\ d.rxOff = c.rxOff /\ d.rxMax = c.rxMax
      /\ d.rxUnsent = c.rxUnsent /\ d.ping = c.ping /\ d.pong = c.pong
      /\ d.glitch = c.glitch /\ d.rd = c.rd /\ d.err = c.err
  BY <1>0 DEF FinishRecord, ConnType
<1>5. /\ b.strm = a.strm /\ b.txMax = a.txMax /\ b.txStreams = a.txStreams
      /\ b.role = a.role /\ b.live = a.live /\ b.strmq = a.strmq /\ b.idtr = a.idtr
      /\ b.next = a.next /\ b.rxStreams = a.rxStreams
      /\ b.rxUnsentStreams = a.rxUnsentStreams /\ b.txOff = a.txOff
      /\ b.txBlocked = a.txBlocked /\ b.rxOff = a.rxOff /\ b.rxMax = a.rxMax
      /\ b.rxUnsent = a.rxUnsent /\ b.ping = a.ping /\ b.pong = a.pong
      /\ b.glitch = a.glitch /\ b.rd = a.rd /\ b.err = a.err
  BY <1>1 DEF FinishRecord, ConnType
<1> HIDE DEF b, d
<1>6. \A t \in StreamIds : b.strm[t] = Windowed(d.strm[t], InitialMaxTx(d.role, t))
  BY <1>1, <1>4, <1>5
<1>7. /\ b.role = d.role /\ b.live = d.live /\ b.strmq = d.strmq /\ b.idtr = d.idtr
      /\ b.next = d.next /\ b.rxStreams = d.rxStreams
      /\ b.rxUnsentStreams = d.rxUnsentStreams /\ b.txOff = d.txOff
      /\ b.txBlocked = d.txBlocked /\ b.rxOff = d.rxOff /\ b.rxMax = d.rxMax
      /\ b.rxUnsent = d.rxUnsent /\ b.ping = d.ping /\ b.pong = d.pong
      /\ b.glitch = d.glitch /\ b.rd = d.rd /\ b.qre = d.qre /\ b.err = d.err
      /\ b.txMax = m /\ b.txStreams = n
  BY <1>2, <1>3, <1>4, <1>5
<1>8. LimitsType(m, n) /\ d \in ConnType /\ b \in ConnType
  BY <1>0, <1>3
<1>9. b = Lift(d, m, n)
  BY <1>6, <1>7, <1>8, LiftIs
<1> QED
  BY <1>9 DEF a, b, d

-----------------------------------------------------------------------------
(* So its calls keep it tied to its peer                                   *)

\* The reports of a blocked stream: one that is not blocked under the limits
\* to come may report too, for what it says is where it is.
LEMMA ReportLifted ==
  ASSUME NEW c, Fit(c), NEW m, NEW n, Below(c, m, n), NEW p, NEW u, NEW v,
         Tied(Lift(c, m, n), p, u, v),
         NEW s \in StreamIds, s \in c.live, "SHUT_WR" \notin c.strm[s].flags
  PROVE  Tied(Lift(ReportBlocked(c, s, BlockedReports(c, s)), m, n), p, u,
              Batch(v, BlockedReports(c, s)))
<1>0. c \in ConnType /\ LimitsType(m, n) /\ Fit(Lift(c, m, n))
  BY BelowType
<1> DEFINE a == Lift(c, m, n)
           out == BlockedReports(c, s)
           d == ReportBlocked(c, s, out)
           b == Lift(d, m, n)
<1>1. /\ OwnStep(c, d) /\ out \in SUBSET PlainFrame
      /\ Touches(c, d, s) /\ d.txOff = c.txOff /\ d.rxMax = c.rxMax
      /\ d.strm[s].flags = c.strm[s].flags /\ d.strm[s].txOff = c.strm[s].txOff
      /\ d.strm[s].rxLast = c.strm[s].rxLast /\ d.strm[s].rxMax = c.strm[s].rxMax
  BY ReportOwn
<1>2. \A f \in out : f \in {DataBlockedFr(s, c.txOff), StreamDataBlockedFr(s, c.strm[s].txOff)}
  BY DEF BlockedReports, DataBlockedFrames, StreamDataBlockedFrames
<1> HIDE DEF d, out
<1>3. Fit(d) /\ Below(d, m, n)
  BY <1>1, OwnBelow DEF OwnStep
<1>4. d \in ConnType /\ Fit(b) /\ LimitsType(m, n)
  BY <1>3, BelowType
<1>5. a \in ConnType /\ \A t \in StreamIds : a.strm[t] = Windowed(c.strm[t], InitialMaxTx(c.role, t))
  BY <1>0, LiftType
<1>6. /\ a.role = c.role /\ a.live = c.live /\ a.strmq = c.strmq /\ a.idtr = c.idtr
      /\ a.next = c.next /\ a.rxStreams = c.rxStreams
      /\ a.rxUnsentStreams = c.rxUnsentStreams /\ a.txOff = c.txOff
      /\ a.txBlocked = c.txBlocked /\ a.rxOff = c.rxOff /\ a.rxMax = c.rxMax
      /\ a.rxUnsent = c.rxUnsent /\ a.ping = c.ping /\ a.pong = c.pong
      /\ a.glitch = c.glitch /\ a.rd = c.rd /\ a.qre = c.qre /\ a.err = c.err
      /\ a.txMax = m /\ a.txStreams = n
  BY <1>0, LiftView
<1>7. b \in ConnType /\ \A t \in StreamIds : b.strm[t] = Windowed(d.strm[t], InitialMaxTx(d.role, t))
  BY <1>4, LiftType
<1>8. /\ b.role = d.role /\ b.live = d.live /\ b.strmq = d.strmq /\ b.idtr = d.idtr
      /\ b.next = d.next /\ b.rxStreams = d.rxStreams
      /\ b.rxUnsentStreams = d.rxUnsentStreams /\ b.txOff = d.txOff
      /\ b.txBlocked = d.txBlocked /\ b.rxOff = d.rxOff /\ b.rxMax = d.rxMax
      /\ b.rxUnsent = d.rxUnsent /\ b.ping = d.ping /\ b.pong = d.pong
      /\ b.glitch = d.glitch /\ b.rd = d.rd /\ b.qre = d.qre /\ b.err = d.err
      /\ b.txMax = m /\ b.txStreams = n
  BY <1>4, LiftView
<1>9. Tied(a, p, u, v) /\ Fit(a)
  BY <1>0
<1> HIDE DEF a, b
<1>10. c.strm[s] \in StrmType /\ d.strm[s] \in StrmType
  BY <1>0, <1>4 DEF ConnType
<1>11. /\ a.strm[s].flags = c.strm[s].flags /\ a.strm[s].txOff = c.strm[s].txOff
       /\ a.strm[s].txMax = InitialMaxTx(c.role, s) /\ a.strm[s].rxLast = c.strm[s].rxLast
       /\ a.strm[s].rxMax = c.strm[s].rxMax
  BY <1>5, <1>10, WindowedView
<1>12. /\ b.strm[s].flags = d.strm[s].flags /\ b.strm[s].txOff = d.strm[s].txOff
       /\ b.strm[s].txMax = InitialMaxTx(d.role, s) /\ b.strm[s].rxLast = d.strm[s].rxLast
       /\ b.strm[s].rxMax = d.strm[s].rxMax
  BY <1>7, <1>10, WindowedView
<1>13. /\ d.role = c.role /\ d.idtr = c.idtr /\ d.next = c.next /\ d.rxStreams = c.rxStreams
       /\ d.rxUnsentStreams = c.rxUnsentStreams /\ d.live = c.live
       /\ d.err = c.err /\ d.rxOff = c.rxOff /\ d.rd = c.rd
  BY <1>1 DEF Touches, SameLimits, OwnStep
<1>14. \A t \in StreamIds \ {s} : d.strm[t] = c.strm[t] /\ (t \in d.strmq <=> t \in c.strmq)
  BY <1>1 DEF Touches
<1>15. Touches(a, b, s)
  <2>1. SameLimits(a, b) /\ b.live = a.live
    BY <1>6, <1>8, <1>13 DEF SameLimits
  <2>2. \A t \in StreamIds \ {s} : b.strm[t] = a.strm[t] /\ (t \in b.strmq <=> t \in a.strmq)
    BY <1>5, <1>6, <1>7, <1>8, <1>13, <1>14
  <2> QED
    BY <2>1, <2>2 DEF Touches
<1>16. SameFlow(a, b) /\ b.rd = a.rd
  BY <1>1, <1>6, <1>8, <1>13 DEF SameFlow
<1>17. TidySelf(b)
  <2>1. b.ping = -1 /\ b.pong = -1
    BY <1>4 DEF Fit, Plain
  <2>2. a.err \in {"NONE", "INTERNAL"}
    BY <1>9 DEF Tied, Tidy, TidySelf
  <2> QED
    BY <1>6, <1>8, <1>13, <2>1, <2>2 DEF TidySelf
<1>18. Good(b) /\ Sound(a) /\ out \in SUBSET Frame
  BY <1>1, <1>4, <1>9 DEF Fit, PlainFrame
<1>19. /\ s \in a.live /\ "SHUT_WR" \notin a.strm[s].flags
       /\ \A f \in out : f \in {DataBlockedFr(s, a.txOff), StreamDataBlockedFr(s, a.strm[s].txOff)}
  BY <1>2, <1>6, <1>11
<1>20. /\ b.strm[s].flags = a.strm[s].flags /\ b.strm[s].txOff = a.strm[s].txOff
       /\ b.strm[s].txMax = a.strm[s].txMax /\ b.strm[s].rxLast = a.strm[s].rxLast
       /\ b.strm[s].rxMax = a.strm[s].rxMax
  BY <1>1, <1>11, <1>12, <1>13
<1>21. Tied(b, p, u, Batch(v, out))
  BY <1>9, <1>15, <1>16, <1>17, <1>18, <1>19, <1>20, ReportsTied
<1> QED
  BY <1>21 DEF b, d, out


\* Calls that write nothing.
LEMMA CallLifted ==
  ASSUME NEW c, Fit(c), NEW m, NEW n, Below(c, m, n), NEW p, NEW u, NEW v,
         Tied(Lift(c, m, n), p, u, v)
  PROVE  /\ \A s \in StreamIds : Tied(Lift(ShutdownStreamWrite(c, s), m, n), p, u, v)
         /\ \A k \in Nat : Tied(Lift(ExtendMaxOffset(c, k), m, n), p, u, v)
         /\ \A i \in Direction, k \in Nat : Tied(Lift(ExtendMaxStreams(c, i, k), m, n), p, u, v)
         /\ Tied(Lift(FinishRecord(c), m, n), p, u, v)
<1>1. c \in ConnType /\ LimitsType(m, n)
  BY BelowType
<1>2. \A s \in StreamIds : Tied(Lift(ShutdownStreamWrite(c, s), m, n), p, u, v)
  <2> TAKE s \in StreamIds
  <2>1. ShutdownStreamWrite(Lift(c, m, n), s) = Lift(ShutdownStreamWrite(c, s), m, n)
    BY <1>1, LiftShutdown
  <2>2. Tied(ShutdownStreamWrite(Lift(c, m, n), s), p, u, v)
    BY ShutdownTied
  <2> QED
    BY <2>1, <2>2
<1>3. \A k \in Nat : Tied(Lift(ExtendMaxOffset(c, k), m, n), p, u, v)
  <2> TAKE k \in Nat
  <2>1. ExtendMaxOffset(Lift(c, m, n), k) = Lift(ExtendMaxOffset(c, k), m, n)
    BY LiftExtendConn
  <2>2. Tied(ExtendMaxOffset(Lift(c, m, n), k), p, u, v)
    BY ExtendTied
  <2> QED
    BY <2>1, <2>2
<1>4. \A i \in Direction, k \in Nat : Tied(Lift(ExtendMaxStreams(c, i, k), m, n), p, u, v)
  <2> TAKE i \in Direction, k \in Nat
  <2>1. ExtendMaxStreams(Lift(c, m, n), i, k) = Lift(ExtendMaxStreams(c, i, k), m, n)
    BY LiftExtendStreams
  <2>2. Tied(ExtendMaxStreams(Lift(c, m, n), i, k), p, u, v)
    BY ExtendTied
  <2> QED
    BY <2>1, <2>2
<1>5. Tied(Lift(FinishRecord(c), m, n), p, u, v)
  <2>1. FinishRecord(Lift(c, m, n)) = Lift(FinishRecord(c), m, n)
    BY LiftFinish
  <2>2. Tied(FinishRecord(Lift(c, m, n)), p, u, v)
    BY AsideTied
  <2> QED
    BY <2>1, <2>2
<1> QED
  BY <1>2, <1>3, <1>4, <1>5

\* A stream that is opened.
LEMMA OpenLifted ==
  ASSUME NEW c, Fit(c), NEW m, NEW n, Below(c, m, n), NEW p, NEW u, NEW v,
         Tied(Lift(c, m, n), p, u, v), NEW i \in Direction,
         c.next[i] \in StreamIds, StreamsLeft(c, i), NEW q \in ParamsType
  PROVE  Tied(Lift(OpenUnder(c, i, q), m, n), p, u, v)
<1>1. /\ OpenStream(Lift(c, m, n), i) = Lift(OpenUnder(c, i, q), m, n)
      /\ StreamsLeft(Lift(c, m, n), i) /\ Lift(c, m, n).next[i] \in StreamIds
  BY LiftOpen
<1>2. Sound(Lift(c, m, n))
  BY BelowType DEF Fit
<1>3. Tied(OpenStream(Lift(c, m, n), i), p, u, v)
  BY <1>1, <1>2, OpenTied
<1> QED
  BY <1>1, <1>3

\* The frames on their way, and those of the record under construction.
Said(w, c) == w \o c.qre.frames

\* What is added to the end is added to the whole.
LEMMA AddedLast ==
  ASSUME NEW w \in Seq(SUBSET Frame), NEW q \in Seq(SUBSET Frame), NEW F \in SUBSET Frame
  PROVE  w \o Batch(q, F) = Batch(w \o q, F)
  BY Following, SMTT(20)

\* Frames are added to a record.
LEMMA SaidMore ==
  ASSUME NEW w \in Seq(SUBSET Frame), NEW c, c.qre.frames \in Seq(SUBSET Frame),
         NEW F \in SUBSET Frame, NEW d, d.qre.frames = Batch(c.qre.frames, F)
  PROVE  Said(w, d) = Batch(Said(w, c), F) /\ d.qre.frames \in Seq(SUBSET Frame)
<1> DEFINE q == c.qre.frames
<1>1. q \in Seq(SUBSET Frame)
  OBVIOUS
<1> HIDE DEF q
<1>2. w \o Batch(q, F) = Batch(w \o q, F)
  BY ONLY <1>1, w \in Seq(SUBSET Frame), F \in SUBSET Frame, AddedLast
<1>3. Batch(q, F) \in Seq(SUBSET Frame)
  BY <1>1, BatchType
<1> QED
  BY <1>2, <1>3 DEF q, Said

\* A record is started with the control frames.
LEMMA CtrlLifted ==
  ASSUME NEW c, Fit(c), NEW m, NEW n, Below(c, m, n), NEW p, NEW u,
         NEW w \in Seq(SUBSET Frame), Tied(Lift(c, m, n), p, u, w)
  PROVE  Tied(Lift(WithCtrl(c), m, n), p, u, Said(w, WithCtrl(c)))
<1> DEFINE a == Lift(c, m, n)
           out == CtrlFrames(c)
<1>1. WithCtrl(a) = Lift(WithCtrl(c), m, n) /\ CtrlFrames(a) = out
  BY LiftCtrl, LiftWaiting
<1>2. out \in FrontsOf(CtrlFrames(a)) /\ WithCtrl(a) = WriteCtrlFrames(a, out)
  BY <1>1 DEF FrontsOf, WithCtrl
<1>3. Sound(a) /\ Tied(a, p, u, w)
  BY BelowType DEF Fit
<1>4. WithCtrl(c).qre.frames = Batch(<< >>, out) /\ out \in SUBSET Frame
  <2>1. out \in SUBSET PlainFrame
    BY CtrlView
  <2> QED
    BY <2>1, CtrlOwn DEF PlainFrame
<1> HIDE DEF a, out
<1>5. Tied(WriteCtrlFrames(a, out), p, u, Batch(w, out))
  BY <1>2, <1>3, WriteCtrlFramesTied
<1>6. Said(w, WithCtrl(c)) = Batch(w, out)
  <2> DEFINE e == << >>
  <2>1. e \in Seq(SUBSET Frame) /\ Batch(<< >>, out) = Batch(e, out)
    OBVIOUS
  <2>2. w \o e = w
    OBVIOUS
  <2> HIDE DEF e
  <2>3. w \o Batch(e, out) = Batch(w \o e, out)
    <3>1. out \in SUBSET Frame
      BY <1>4
    <3> QED
      BY ONLY <2>1, <3>1, AddedLast, w \in Seq(SUBSET Frame)
  <2>4. Said(w, WithCtrl(c)) = w \o Batch(e, out)
    BY <1>4, <2>1 DEF Said
  <2> QED
    BY <2>2, <2>3, <2>4
<1> QED
  BY <1>1, <1>2, <1>5, <1>6

\* What DataOwn and WriteDataTied say, one fact at a time.
LEMMA DataFacts ==
  ASSUME NEW c, Fit(c), NEW s \in StreamIds, s \in c.live, NEW len \in Nat,
         NEW k \in Nat, k <= FcCredits(c, s), NEW fin \in BOOLEAN
  PROVE  /\ OwnStep(c, WriteData(c, s, len, k, fin))
         /\ {StreamFr(s, c.strm[s].txOff, k, fin /\ k = len)} \in SUBSET PlainFrame
         /\ WriteData(c, s, len, k, fin).qre.frames
              = Append(c.qre.frames, {StreamFr(s, c.strm[s].txOff, k, fin /\ k = len)})
         /\ k # len => WriteData(c, s, len, k, fin).live = c.live
<1>1. OwnStep(c, WriteData(c, s, len, k, fin))
  BY DataOwn
<1>2. {StreamFr(s, c.strm[s].txOff, k, fin /\ k = len)} \in SUBSET PlainFrame
  BY DataOwn
<1>3. WriteData(c, s, len, k, fin).qre.frames
        = Append(c.qre.frames, {StreamFr(s, c.strm[s].txOff, k, fin /\ k = len)})
  BY DataOwn
<1>4. k # len => WriteData(c, s, len, k, fin).live = c.live
  BY DataOwn
<1> QED
  BY ONLY <1>1, <1>2, <1>3, <1>4

\* The same of the two ends.
LEMMA DataTies ==
  ASSUME NEW a, NEW p, NEW u, NEW z, Tied(a, p, u, z), Sound(a),
         NEW s \in StreamIds, s \in a.live, "SHUT_WR" \notin a.strm[s].flags,
         NEW len \in Nat, NEW k \in Nat, k <= FcCredits(a, s), NEW fin \in BOOLEAN
  PROVE  /\ Tied(WriteData(a, s, len, k, fin), p, u,
                 Batch(z, {StreamFr(s, a.strm[s].txOff, k, fin /\ k = len)}))
         /\ k # len => "SHUT_WR" \notin WriteData(a, s, len, k, fin).strm[s].flags
<1>1. Tied(WriteData(a, s, len, k, fin), p, u,
           Batch(z, {StreamFr(s, a.strm[s].txOff, k, fin /\ k = len)}))
  BY WriteDataTied
<1>2. k # len => "SHUT_WR" \notin WriteData(a, s, len, k, fin).strm[s].flags
  BY WriteDataTied
<1> QED
  BY ONLY <1>1, <1>2

\* A STREAM frame is added to it.
LEMMA FrameLifted ==
  ASSUME NEW c, Fit(c), NEW m, NEW n, Below(c, m, n), NEW p, NEW u,
         NEW w \in Seq(SUBSET Frame), c.qre.frames \in Seq(SUBSET Frame),
         Tied(Lift(c, m, n), p, u, Said(w, c)),
         NEW s \in StreamIds, s \in c.live, "SHUT_WR" \notin c.strm[s].flags,
         NEW len \in Nat, NEW k \in Nat, k <= FcCredits(c, s), NEW fin \in BOOLEAN,
         NEW d, d = WriteData(c, s, len, k, fin)
  PROVE  /\ Tied(Lift(d, m, n), p, u, Said(w, d))
         /\ Fit(d) /\ Below(d, m, n) /\ d.qre.frames \in Seq(SUBSET Frame)
         /\ k # len => s \in d.live /\ "SHUT_WR" \notin d.strm[s].flags
<1> DEFINE a == Lift(c, m, n)
           F == {StreamFr(s, c.strm[s].txOff, k, fin /\ k = len)}
           z == Said(w, c)
<1>0. c \in ConnType /\ LimitsType(m, n) /\ Fit(a)
  BY BelowType
<1>1. WriteData(a, s, len, k, fin) = Lift(d, m, n)
  BY LiftData
<1>2. /\ OwnStep(c, d) /\ F \in SUBSET PlainFrame /\ d.qre.frames = Append(c.qre.frames, F)
      /\ k # len => d.live = c.live
  <2>1. /\ OwnStep(c, WriteData(c, s, len, k, fin))
        /\ {StreamFr(s, c.strm[s].txOff, k, fin /\ k = len)} \in SUBSET PlainFrame
        /\ WriteData(c, s, len, k, fin).qre.frames
             = Append(c.qre.frames, {StreamFr(s, c.strm[s].txOff, k, fin /\ k = len)})
        /\ k # len => WriteData(c, s, len, k, fin).live = c.live
    BY ONLY Fit(c), s \in StreamIds, s \in c.live, len \in Nat, k \in Nat,
            k <= FcCredits(c, s), fin \in BOOLEAN, DataFacts
  <2> QED
    BY ONLY <2>1, d = WriteData(c, s, len, k, fin)
<1>3. Fit(d) /\ Below(d, m, n)
  BY <1>2, OwnBelow DEF OwnStep
<1>4. c.strm[s] \in StrmType /\ d.strm[s] \in StrmType /\ d \in ConnType
  BY <1>0, <1>3 DEF ConnType, Fit, Good
<1>5. a.strm[s] = Windowed(c.strm[s], InitialMaxTx(c.role, s))
  BY ONLY <1>0, LiftType, s \in StreamIds
<1>6. Lift(d, m, n).strm[s] = Windowed(d.strm[s], InitialMaxTx(d.role, s))
  BY <1>0, <1>4, LiftType
<1>7. a.live = c.live
  BY <1>0, LiftView
<1>8. FcCredits(c, s) <= FcCredits(a, s)
  BY CreditBelow
<1>9. Sound(a) /\ Good(a) /\ Good(c) /\ Tied(a, p, u, z)
  BY <1>0 DEF Fit
<1> HIDE DEF a, z
<1>10. a.strm[s].flags = c.strm[s].flags /\ a.strm[s].txOff = c.strm[s].txOff
  BY <1>4, <1>5, WindowedView
<1>11. k <= FcCredits(a, s)
  <2>1. FcCredits(c, s) \in Int /\ FcCredits(a, s) \in Int
    <3>1. /\ c.txOff \in Nat /\ c.txMax \in Nat /\ c.strm[s].txOff \in Nat /\ c.strm[s].txMax \in Nat
          /\ a.txOff \in Nat /\ a.txMax \in Nat /\ a.strm[s].txOff \in Nat /\ a.strm[s].txMax \in Nat
      BY <1>9, Numbers
    <3> QED
      BY ONLY <3>1, SMTT(20) DEF FcCredits, Lesser
  <2> QED
    BY <1>8, <2>1
<1>12. s \in a.live /\ "SHUT_WR" \notin a.strm[s].flags
  BY <1>7, <1>10
<1>13. /\ Tied(WriteData(a, s, len, k, fin), p, u,
              Batch(z, {StreamFr(s, a.strm[s].txOff, k, fin /\ k = len)}))
       /\ k # len => "SHUT_WR" \notin WriteData(a, s, len, k, fin).strm[s].flags
  BY ONLY <1>9, <1>11, <1>12, s \in StreamIds, len \in Nat, k \in Nat, fin \in BOOLEAN, DataTies
<1>14. /\ Tied(Lift(d, m, n), p, u, Batch(z, F))
       /\ k # len => "SHUT_WR" \notin Lift(d, m, n).strm[s].flags
  BY <1>1, <1>10, <1>13
<1>15. k # len => s \in d.live /\ "SHUT_WR" \notin d.strm[s].flags
  <2>1. Windowed(d.strm[s], InitialMaxTx(d.role, s)).flags = d.strm[s].flags
    BY <1>4, WindowedView
  <2> QED
    BY <1>2, <1>6, <1>14, <2>1
<1>16. F # {} /\ F \in SUBSET Frame
  BY <1>2 DEF PlainFrame
<1>17. Said(w, d) = Batch(z, F) /\ d.qre.frames \in Seq(SUBSET Frame)
  <2>1. d.qre.frames = Batch(c.qre.frames, F)
    BY <1>2, <1>16 DEF Batch
  <2> HIDE DEF F
  <2>2. /\ Said(w, d) = Batch(Said(w, c), F) /\ d.qre.frames \in Seq(SUBSET Frame)
    BY ONLY <1>16, <2>1, w \in Seq(SUBSET Frame), c.qre.frames \in Seq(SUBSET Frame), SaidMore
  <2> QED
    BY <2>2 DEF z
<1> QED
  BY <1>3, <1>14, <1>15, <1>17

\* What a stream could not send is reported in it.
LEMMA BlockedLifted ==
  ASSUME NEW c, Fit(c), NEW m, NEW n, Below(c, m, n), NEW p, NEW u,
         NEW w \in Seq(SUBSET Frame), c.qre.frames \in Seq(SUBSET Frame),
         Tied(Lift(c, m, n), p, u, Said(w, c)),
         NEW s \in StreamIds, s \in c.live, "SHUT_WR" \notin c.strm[s].flags,
         NEW d, d = ReportBlocked(c, s, BlockedReports(c, s))
  PROVE  Tied(Lift(d, m, n), p, u, Said(w, d))
<1> DEFINE out == BlockedReports(c, s)
           z == Said(w, c)
<1>1. Tied(Lift(d, m, n), p, u, Batch(z, out))
  BY ReportLifted
<1>2. out \in SUBSET PlainFrame /\ d.qre.frames = Batch(c.qre.frames, out)
  BY ReportOwn
<1>3. out \in SUBSET Frame
  BY <1>2 DEF PlainFrame
<1> HIDE DEF out
<1>4. Said(w, d) = Batch(z, out)
  BY ONLY <1>2, <1>3, w \in Seq(SUBSET Frame), c.qre.frames \in Seq(SUBSET Frame), SaidMore
     DEF z
<1> QED
  BY <1>1, <1>4

\* dwnx_conn_writev_stream.
LEMMA DataLifted ==
  ASSUME NEW c, Fit(c), NEW m, NEW n, Below(c, m, n), NEW p, NEW u,
         NEW w \in Seq(SUBSET Frame), c.qre.frames \in Seq(SUBSET Frame),
         Tied(Lift(c, m, n), p, u, Said(w, c)),
         NEW s \in StreamIds, s \in c.live, "SHUT_WR" \notin c.strm[s].flags,
         NEW len \in Nat, NEW fin \in BOOLEAN, NEW d, d = WithData(c, s, len, fin)
  PROVE  Tied(Lift(d, m, n), p, u, Said(w, d))
<1> DEFINE k == Lesser(len, FcCredits(c, s))
           b == WriteData(c, s, len, k, fin)
<1>1. FcCredits(c, s) \in Nat
  <2>1. /\ c.txMax \in Nat /\ c.txOff \in Nat /\ c.txOff <= c.txMax
        /\ c.strm[s].txMax \in Nat /\ c.strm[s].txOff \in Nat
        /\ c.strm[s].txOff <= c.strm[s].txMax
    BY Numbers DEF Fit
  <2> QED
    BY ONLY <2>1 DEF FcCredits, Lesser
<1>2. k \in Nat /\ k <= FcCredits(c, s)
  BY <1>1 DEF Lesser
<1>3. d = IF k = len THEN b
          ELSE IF k = 0 THEN ReportBlocked(c, s, BlockedReports(c, s))
          ELSE ReportBlocked(b, s, BlockedReports(b, s))
  BY DEF WithData
<1> HIDE DEF k
<1>4. b = WriteData(c, s, len, k, fin)
  OBVIOUS
<1> HIDE DEF b
<1>5. /\ Tied(Lift(b, m, n), p, u, Said(w, b))
      /\ Fit(b) /\ Below(b, m, n) /\ b.qre.frames \in Seq(SUBSET Frame)
      /\ k # len => s \in b.live /\ "SHUT_WR" \notin b.strm[s].flags
  <2>1. /\ Fit(c) /\ Below(c, m, n) /\ w \in Seq(SUBSET Frame)
        /\ c.qre.frames \in Seq(SUBSET Frame) /\ Tied(Lift(c, m, n), p, u, Said(w, c))
        /\ s \in StreamIds /\ s \in c.live /\ "SHUT_WR" \notin c.strm[s].flags
        /\ len \in Nat /\ fin \in BOOLEAN
    OBVIOUS
  <2> QED
    BY ONLY <1>2, <1>4, <2>1, FrameLifted
<1>6. CASE k = len
  BY <1>3, <1>5, <1>6
<1>7. CASE k # len /\ k = 0
  <2>1. d = ReportBlocked(c, s, BlockedReports(c, s))
    BY <1>3, <1>7
  <2> QED
    BY <2>1, BlockedLifted
<1>8. CASE k # len /\ k # 0
  <2>1. d = ReportBlocked(b, s, BlockedReports(b, s))
    BY <1>3, <1>8
  <2> QED
    BY <1>5, <1>8, <2>1, BlockedLifted
<1> QED
  BY <1>6, <1>7, <1>8

-----------------------------------------------------------------------------
(* Both endpoints agree on what is on its way, as soon as the limits that  *)
(* each will be told are taken as known                                    *)

\* The limits of its peer that e comes to work with.
KnownMax(e)     == IF Seen(e) THEN conn[e].txMax ELSE Params[1 - e].maxData
KnownStreams(e) == IF Seen(e) THEN conn[e].txStreams ELSE Params[1 - e].streams

\* The connection of e, as if they had been known from the start.
View(e) == Lift(conn[e], KnownMax(e), KnownStreams(e))

\* What the client remembers, if anything, is a promise that the server keeps.
Regular == "EARLY_SET" \in flags[0] => Promised

Joined(e) == Tied(View(e), View(Peer(e)), Flow(e), Flow(Peer(e)))

Agreed == NoConnectionError /\ \A e \in Ends : Joined(e)

SessionInv == StartInv /\ (Regular => Agreed)

\* The limits of e are below those it comes to work with.
LEMMA ViewBelow ==
  ASSUME Ends = Role, StartInv, Regular, NEW e \in Ends, conn[e].err = "NONE"
  PROVE  /\ Fit(conn[e]) /\ Below(conn[e], KnownMax(e), KnownStreams(e))
         /\ conn[e].qre = NoRecord /\ Sound(View(e))
         /\ Seen(e) => View(e) = conn[e]
<1> DEFINE c == conn[e]
           q == Params[1 - e]
<1>1. Own(c, e) /\ Fit(c) /\ c.role = e /\ c.err = "NONE" /\ c.qre = NoRecord
  BY DEF StartInv, Own
<1>2. e \in Role /\ q \in ParamsType
  BY RoleParams
<1> HIDE DEF c
<1>3. ASSUME Seen(e)
      PROVE  /\ Below(c, KnownMax(e), KnownStreams(e))
             /\ Lift(c, KnownMax(e), KnownStreams(e)) = c
  <2>1. KnownMax(e) = c.txMax /\ KnownStreams(e) = c.txStreams
    BY <1>3 DEF KnownMax, KnownStreams, c
  <2>2. Settled(c)
    BY <1>1, <1>3 DEF Own
  <2> QED
    BY <1>1, <2>1, <2>2, LiftSelf
<1>4. ASSUME ~Seen(e)
      PROVE  Below(c, KnownMax(e), KnownStreams(e))
  <2> DEFINE p == Limits(e)
  <2>1. KnownMax(e) = q.maxData /\ KnownStreams(e) = q.streams
    BY <1>4 DEF KnownMax, KnownStreams
  <2>2. Waiting(c, p)
    BY <1>1, <1>4 DEF Own
  <2>3. p \in ParamsType /\ KeepsPromise(p, q)
    <3>1. CASE "EARLY_SET" \in flags[e]
      <4>1. e = 0 /\ p = early /\ early \in ParamsType
        BY <3>1 DEF StartInv, Handshake, Limits, Role
      <4>2. Promised /\ q = Params[1]
        BY <3>1, <4>1 DEF Regular
      <4> QED
        BY <4>1, <4>2 DEF Promised
    <3>2. CASE "EARLY_SET" \notin flags[e]
      BY <1>2, <3>2, NothingPromised DEF Limits
    <3> QED
      BY <3>1, <3>2
  <2> HIDE DEF p, q
  <2>4. q = Params[1 - c.role]
    BY <1>1 DEF q
  <2> QED
    BY <1>1, <2>1, <2>2, <2>3, <2>4, BelowAnnounced
<1>5. Below(c, KnownMax(e), KnownStreams(e))
  BY <1>3, <1>4
<1>6. Sound(Lift(c, KnownMax(e), KnownStreams(e)))
  BY <1>1, <1>5, BelowType DEF Fit
<1> QED
  BY <1>1, <1>3, <1>5, <1>6 DEF c, View

\* A step of e, seen from both ends.
LEMMA JoinedStep ==
  ASSUME Ends = Role, NoConnectionError, NEW e \in Ends,
         conn'[e].err = "NONE", conn'[Peer(e)] = conn[Peer(e)], Seen(Peer(e))' = Seen(Peer(e)),
         Tied(View(e)', View(Peer(e)), Flow(e)', Flow(Peer(e))')
  PROVE  Agreed'
<1>1. Peer(e) \in Ends /\ Peer(Peer(e)) = e /\ \A g \in Ends : g = e \/ g = Peer(e)
  BY BothEnds
<1>2. View(Peer(e))' = View(Peer(e))
  BY DEF View, KnownMax, KnownStreams
<1>3. NoConnectionError'
  BY <1>1 DEF NoConnectionError
<1>4. Joined(e)'
  BY <1>2 DEF Joined, Peer
<1>5. Joined(Peer(e))'
  <2>1. Tied(View(Peer(e))', View(e)', Flow(Peer(e))', Flow(e)')
    BY <1>2, TiedBack
  <2> QED
    BY <1>1, <2>1 DEF Joined, Peer
<1> QED
  BY <1>1, <1>3, <1>4, <1>5 DEF Agreed

\* One that tells e nothing of the limits of its peer.
LEMMA LiftedStep ==
  ASSUME Ends = Role, NoConnectionError, NEW e \in Ends,
         NEW d, conn'[e] = d, conn'[Peer(e)] = conn[Peer(e)],
         \A g \in Ends : Seen(g)' = Seen(g),
         d.err = conn[e].err, d.txMax = conn[e].txMax, d.txStreams = conn[e].txStreams,
         Tied(Lift(d, KnownMax(e), KnownStreams(e)), View(Peer(e)), Flow(e)', Flow(Peer(e))')
  PROVE  Agreed'
<1>1. Peer(e) \in Ends
  BY BothEnds
<1>2. KnownMax(e)' = KnownMax(e) /\ KnownStreams(e)' = KnownStreams(e)
  BY DEF KnownMax, KnownStreams
<1>3. View(e)' = Lift(d, KnownMax(e), KnownStreams(e))
  BY <1>2 DEF View
<1>4. conn'[e].err = "NONE"
  BY DEF NoConnectionError
<1> QED
  BY <1>1, <1>3, <1>4, JoinedStep

\* Shutting down streams and extending windows.
LEMMA EarlyCallJoined ==
  ASSUME Ends = Role, StartInv, Regular, Agreed, NEW e \in Ends, EarlyCall(e)
  PROVE  Agreed'
<1> DEFINE c == conn[e]
           m == KnownMax(e)
           n == KnownStreams(e)
           p == View(Peer(e))
           u == Flow(e)
           v == Flow(Peer(e))
<1>1. Fit(c) /\ Below(c, m, n) /\ Tied(Lift(c, m, n), p, u, v) /\ c.err = "NONE"
  BY ViewBelow DEF Agreed, Joined, NoConnectionError, View
<1>2. /\ UNCHANGED <<wire, flags, early, tls, told>>
      /\ \/ \E s \in StreamIds : conn' = [conn EXCEPT ![e] = ShutdownStreamWrite(c, s)]
         \/ \E k \in 1..MaxExtend : conn' = [conn EXCEPT ![e] = ExtendMaxOffset(c, k)]
         \/ \E i \in Direction : conn' = [conn EXCEPT ![e] = ExtendMaxStreams(c, i, 1)]
  BY DEF EarlyCall, ShutdownWrite, ExtendConn, ExtendStreams
<1> HIDE DEF m, n, p, u, v
<1> SUFFICES ASSUME NEW d, conn' = [conn EXCEPT ![e] = d], OwnStep(c, d),
                    Tied(Lift(d, m, n), p, u, v)
             PROVE  Agreed'
  <2>1. \A s \in StreamIds : /\ OwnStep(c, ShutdownStreamWrite(c, s))
                             /\ Tied(Lift(ShutdownStreamWrite(c, s), m, n), p, u, v)
    BY <1>1, ShutdownOwn, CallLifted
  <2>2. \A k \in 1..MaxExtend : /\ OwnStep(c, ExtendMaxOffset(c, k))
                                /\ Tied(Lift(ExtendMaxOffset(c, k), m, n), p, u, v)
    <3> TAKE k \in 1..MaxExtend
    <3>1. k \in Nat /\ "bidi" \in Direction
      BY DEF Direction
    <3> QED
      BY <1>1, <3>1, ExtendOwn, CallLifted
  <2>3. \A i \in Direction : /\ OwnStep(c, ExtendMaxStreams(c, i, 1))
                             /\ Tied(Lift(ExtendMaxStreams(c, i, 1), m, n), p, u, v)
    <3>1. 1 \in Nat
      OBVIOUS
    <3> QED
      BY <1>1, <3>1, ExtendOwn, CallLifted
  <2> HIDE DEF c
  <2> QED
    BY <1>2, <2>1, <2>2, <2>3
<1>3. d.err = c.err /\ d.txMax = c.txMax /\ d.txStreams = c.txStreams
  BY DEF OwnStep
<1>4. /\ conn'[e] = d /\ conn'[Peer(e)] = conn[Peer(e)] /\ \A g \in Ends : Seen(g)' = Seen(g)
      /\ Flow(e)' = u /\ Flow(Peer(e))' = v
  BY <1>2, BothEnds DEF StartInv, Handshake, Seen, Flow, Introduced, u, v
<1> QED
  BY <1>3, <1>4, LiftedStep DEF m, n, p, c, Agreed

\* dwnx_conn_open_bidi_stream and its sibling.
LEMMA OpenJoined ==
  ASSUME Ends = Role, StartInv, Regular, Agreed, NEW e \in Ends, NEW i \in Direction,
         OpenLocal(e, i)
  PROVE  Agreed'
<1> DEFINE c == conn[e]
           m == KnownMax(e)
           n == KnownStreams(e)
           p == View(Peer(e))
           u == Flow(e)
           v == Flow(Peer(e))
           q == RemoteParams(e)
           d == OpenUnder(c, i, q)
<1>1. Fit(c) /\ Below(c, m, n) /\ Tied(Lift(c, m, n), p, u, v) /\ c.err = "NONE"
  BY ViewBelow DEF Agreed, Joined, NoConnectionError, View
<1>2. /\ c.next[i] \in StreamIds /\ StreamsLeft(c, i) /\ conn' = [conn EXCEPT ![e] = d]
      /\ UNCHANGED <<wire, flags, early, tls, told>>
  BY DEF OpenLocal
<1>3. q \in ParamsType
  BY RoleParams DEF RemoteParams, Peer, StartInv, Handshake
<1> HIDE DEF m, n, p, u, v, q, c
<1>4. Tied(Lift(d, m, n), p, u, v)
  BY <1>1, <1>2, <1>3, OpenLifted
<1>5. d.err = c.err /\ d.txMax = c.txMax /\ d.txStreams = c.txStreams
  BY <1>1, <1>2, <1>3, OpenOwn
<1> HIDE DEF d
<1>6. /\ conn'[e] = d /\ conn'[Peer(e)] = conn[Peer(e)] /\ \A g \in Ends : Seen(g)' = Seen(g)
      /\ Flow(e)' = u /\ Flow(Peer(e))' = v
  BY <1>2, BothEnds DEF StartInv, Handshake, Seen, Flow, Introduced, u, v
<1> QED
  BY <1>4, <1>5, <1>6, LiftedStep DEF m, n, p, c, Agreed

\* A record that is handed to TLS.
LEMMA TransmitJoined ==
  ASSUME Ends = Role, StartInv, Regular, Agreed, NEW e \in Ends,
         NEW c, OwnStep(conn[e], c), c.qre.frames \in Seq(SUBSET PlainFrame), Transmit(e, c),
         e = 1 /\ ~Seen(1) => FinishRecord(c) = Fresh(1) /\ c.qre.frames = << >>,
         Tied(Lift(c, KnownMax(e), KnownStreams(e)), View(Peer(e)), Flow(e), Said(Flow(Peer(e)), c))
  PROVE  Agreed'
<1> DEFINE b == conn[e]
           m == KnownMax(e)
           n == KnownStreams(e)
           p == View(Peer(e))
           u == Flow(e)
           v == Said(Flow(Peer(e)), c)
           d == FinishRecord(c)
<1>1. Fit(b) /\ Below(b, m, n) /\ b.err = "NONE"
  BY ViewBelow DEF Agreed, NoConnectionError
<1>2. Fit(c) /\ Below(c, m, n)
  BY <1>1, OwnBelow DEF OwnStep
<1>3. /\ Flow(e)' = u /\ Flow(Peer(e))' = v /\ \A g \in Ends : Seen(g)' = Seen(g)
      /\ conn'[e] = d /\ conn'[Peer(e)] = conn[Peer(e)]
  BY TransmitStart DEF Said
<1>4. OwnStep(c, d)
  BY <1>2, FinishOwn
<1> HIDE DEF m, n, p, u, v
<1>5. Tied(Lift(d, m, n), p, u, v)
  <2>1. Tied(Lift(c, m, n), p, u, v)
    BY DEF m, n, p, u, v
  <2> HIDE DEF d
  <2>2. d = FinishRecord(c)
    BY DEF d
  <2> QED
    BY ONLY <1>2, <2>1, <2>2, CallLifted
<1> HIDE DEF d
<1>6. d.err = b.err /\ d.txMax = b.txMax /\ d.txStreams = b.txStreams
  BY <1>4 DEF OwnStep
<1> QED
  BY <1>3, <1>5, <1>6, LiftedStep DEF m, n, p, Agreed

\* A record of control frames.
LEMMA WriteControlJoined ==
  ASSUME Ends = Role, StartInv, Regular, Agreed, NEW e \in Ends, WriteControl(e)
  PROVE  Agreed'
<1> DEFINE c == conn[e]
           d == WithCtrl(c)
           w == Flow(Peer(e))
<1>1. Own(c, e) /\ Fit(c) /\ Transmit(e, d)
  BY DEF StartInv, Own, WriteControl
<1>2. OwnStep(c, d) /\ d.qre.frames \in Seq(SUBSET PlainFrame)
  BY <1>1, CtrlOwn
<1>3. e = 1 /\ ~Seen(1) => FinishRecord(d) = Fresh(1) /\ d.qre.frames = << >>
  <2> SUFFICES ASSUME e = 1, ~Seen(1)
               PROVE  FinishRecord(d) = Fresh(1) /\ d.qre.frames = << >>
    OBVIOUS
  <2>1. c = Fresh(1) /\ 1 \in Role
    BY <1>1 DEF Own
  <2> HIDE DEF c
  <2> QED
    BY <2>1, FreshCtrl
<1>4. Tied(Lift(d, KnownMax(e), KnownStreams(e)), View(Peer(e)), Flow(e), Said(w, d))
  <2>1. /\ Below(c, KnownMax(e), KnownStreams(e))
        /\ Tied(Lift(c, KnownMax(e), KnownStreams(e)), View(Peer(e)), Flow(e), w)
    BY ViewBelow DEF Agreed, Joined, NoConnectionError, View
  <2> HIDE DEF c, w
  <2>2. w \in Seq(SUBSET Frame)
    BY <2>1 DEF Tied
  <2> QED
    BY <1>1, <2>1, <2>2, CtrlLifted
<1> HIDE DEF d
<1>5. OwnStep(conn[e], d)
  BY <1>2
<1> QED
  BY <1>1, <1>2, <1>3, <1>4, <1>5, TransmitJoined

\* A record with data of the application.
LEMMA WriteLocalJoined ==
  ASSUME Ends = Role, StartInv, Regular, Agreed, NEW e \in Ends, NEW s \in StreamIds,
         NEW len \in 0..MaxWrite, NEW fin \in BOOLEAN, WriteLocal(e, s, len, fin)
  PROVE  Agreed'
<1> DEFINE c == conn[e]
           b == WithCtrl(c)
           d == WithData(b, s, len, fin)
           w == Flow(Peer(e))
           m == KnownMax(e)
           n == KnownStreams(e)
           p == View(Peer(e))
           u == Flow(e)
<1>1. /\ Own(c, e) /\ Fit(c) /\ MayWrite(c, s, len, fin) /\ Transmit(e, d) /\ len \in Nat
      /\ c.err = "NONE"
  BY DEF StartInv, Own, WriteLocal, Agreed, NoConnectionError
<1>2. OwnStep(c, b) /\ b.qre.frames \in Seq(SUBSET PlainFrame) /\ Fit(b)
  BY <1>1, CtrlOwn DEF OwnStep
<1>3. s \in c.live /\ s \in b.live
  BY <1>1, DataReached
<1>4. Below(c, m, n) /\ Tied(Lift(c, m, n), p, u, w)
  BY <1>1, ViewBelow DEF Agreed, Joined, View
<1>5. w \in Seq(SUBSET Frame)
  BY <1>4 DEF Tied
<1>6. ~(e = 1 /\ ~Seen(1))
  <2> SUFFICES ASSUME e = 1, ~Seen(1) PROVE FALSE
    OBVIOUS
  <2>1. c = Fresh(1) /\ 1 \in Role
    BY <1>1 DEF Own
  <2> HIDE DEF c
  <2>2. c.live = {}
    BY <2>1, FreshFit
  <2> QED
    BY <1>3, <2>2
<1> HIDE DEF m, n, p, u, w
<1>7. Tied(Lift(b, m, n), p, u, Said(w, b)) /\ Below(b, m, n)
  BY <1>1, <1>2, <1>4, <1>5, CtrlLifted, OwnBelow
<1>8. b.qre.frames \in Seq(SUBSET Frame)
  <2>1. b.qre.frames = Batch(<< >>, CtrlFrames(c)) /\ CtrlFrames(c) \in SUBSET Frame
    <3>1. CtrlFrames(c) \in SUBSET PlainFrame
      BY <1>1, CtrlView
    <3> QED
      BY <1>1, <3>1, CtrlOwn DEF PlainFrame
  <2> DEFINE out == CtrlFrames(c)
             z == << >>
  <2>2. z \in Seq(SUBSET Frame) /\ out \in SUBSET Frame
    BY <2>1
  <2>3. b.qre.frames = Batch(z, out)
    BY <2>1
  <2> HIDE DEF out, z
  <2> QED
    BY <2>2, <2>3, BatchType
<1>9. "SHUT_WR" \notin b.strm[s].flags
  BY <1>1, DataReached
<1> HIDE DEF b, c
<1>10. Tied(Lift(d, m, n), p, u, Said(w, d))
  <2>1. d = WithData(b, s, len, fin)
    OBVIOUS
  <2> HIDE DEF d
  <2> QED
    BY <1>1, <1>2, <1>3, <1>5, <1>7, <1>8, <1>9, <2>1, DataLifted
<1>11. OwnStep(b, d) /\ d.qre.frames \in Seq(SUBSET PlainFrame)
  BY <1>1, <1>2, <1>3, WithDataOwn
<1> HIDE DEF d
<1>12. OwnStep(conn[e], d)
  BY <1>2, <1>11, OwnTwice DEF c
<1> QED
  BY <1>1, <1>6, <1>10, <1>11, <1>12, TransmitJoined DEF m, n, p, u, w

\* Transport parameters are read.
LEMMA ReadFirstJoined ==
  ASSUME Ends = Role, StartInv, Regular, Agreed, NEW e \in Ends, ReadFirst(e)
  PROVE  Agreed'
<1> DEFINE c == conn[e]
           q == Params[1 - e]
<1>1. /\ ~Seen(e) /\ Seen(e)'
      /\ \/ "EARLY_SET" \in flags[e] /\ ~KeepsPromise(early, q) /\ conn'[e] = Fail(c, "PROTO")
         \/ conn'[e] = Lift(c, q.maxData, q.streams)
  BY ReadFirstView
<1>2. /\ StartInv' /\ Flow(e)' = Flow(e) /\ Flow(Peer(e))' = Flow(Peer(e))
      /\ Seen(Peer(e))' = Seen(Peer(e)) /\ conn'[Peer(e)] = conn[Peer(e)]
  BY ReadFirstStart
<1>3. conn'[e] = View(e)
  <2>1. Lift(c, q.maxData, q.streams) = View(e)
    BY <1>1 DEF View, KnownMax, KnownStreams
  <2>2. ASSUME "EARLY_SET" \in flags[e] PROVE KeepsPromise(early, q)
    <3>1. e = 0
      BY <2>2 DEF StartInv, Handshake, Role
    <3> QED
      BY <2>2, <3>1 DEF Regular, Promised
  <2> QED
    BY <1>1, <2>1, <2>2
<1>4. c.err = "NONE" /\ c \in ConnType
  BY DEF StartInv, Own, Fit, Good, Agreed, NoConnectionError
<1>5. conn'[e].err = "NONE"
  BY <1>3, <1>4, LiftView DEF View
<1>6. View(e)' = conn'[e]
  <2> DEFINE d == conn'[e]
  <2>1. Own(conn[e], e)'
    BY <1>2 DEF StartInv
  <2>2. Fit(d) /\ Settled(d)
    BY <1>1, <1>5, <2>1 DEF Own
  <2>3. View(e)' = Lift(d, d.txMax, d.txStreams)
    BY <1>1 DEF View, KnownMax, KnownStreams
  <2> HIDE DEF d
  <2> QED
    BY <2>2, <2>3, LiftSelf DEF d
<1>7. Tied(View(e)', View(Peer(e)), Flow(e)', Flow(Peer(e))')
  BY <1>2, <1>3, <1>6 DEF Agreed, Joined
<1> QED
  BY <1>2, <1>5, <1>7, JoinedStep DEF Agreed

\* Another frame is read, or payload.
LEMMA ReadNextJoined ==
  ASSUME Ends = Role, StartInv, Regular, Agreed, NEW e \in Ends, ReadNext(e)
  PROVE  Agreed'
<1> DEFINE c == conn[e]
           p == View(Peer(e))
           u == Flow(e)
           v == Flow(Peer(e))
<1>1. /\ Seen(e) /\ c.err = "NONE" /\ Fit(c) /\ c.role = e /\ c.qre = NoRecord
      /\ u \in Seq(SUBSET PlainFrame) /\ UNCHANGED <<flags, early, tls, told>>
      /\ \/ \E n \in 1..c.rd.left : /\ conn' = [conn EXCEPT ![e] = RecvStreamData(c, n)]
                                    /\ wire' = [wire EXCEPT ![e] = u]
         \/ /\ c.rd = Idle /\ u # << >>
            /\ \E f \in Head(u) : /\ conn' = [conn EXCEPT ![e] = Recv(c, f)]
                                  /\ wire' = [wire EXCEPT ![e] = After(u, f)]
  BY ReadNextView
<1>2. StartInv'
  BY ReadNextStart
<1>3. Tied(c, p, u, v) /\ Sound(c) /\ Sound(p) /\ Good(c) /\ Plain(c)
  <2>1. Peer(e) \in Ends
    BY BothEnds
  <2>2. View(e) = c /\ Sound(p)
    BY <1>1, <2>1, ViewBelow DEF Agreed, NoConnectionError
  <2> QED
    BY <1>1, <2>2 DEF Agreed, Joined, Fit
<1> HIDE DEF c, p, u, v
<1>4. PICK d, w : /\ conn' = [conn EXCEPT ![e] = d] /\ wire' = [wire EXCEPT ![e] = w]
                  /\ Tied(d, p, w, v) /\ d.err = "NONE"
  <2>1. ASSUME NEW n \in 1..c.rd.left
        PROVE  Tied(RecvStreamData(c, n), p, u, v) /\ RecvStreamData(c, n).err = "NONE"
    BY <1>1, <1>3, <2>1, RecvStreamDataTied, PayloadPlain
  <2>2. ASSUME c.rd = Idle, u # << >>, NEW f \in Head(u)
        PROVE  Tied(Recv(c, f), p, After(u, f), v) /\ Recv(c, f).err = "NONE"
    <3>1. Tied(Recv(c, f), p, After(u, f), v)
      BY <1>3, <2>2, RecvTied
    <3>2. Recv(c, f).err \in {"NONE", "INTERNAL"}
      BY <3>1 DEF Tied, Tidy, TidySelf
    <3>3. f \in PlainFrame
      BY <1>1, <2>2, AfterPlain
    <3>4. Recv(c, f).err # "INTERNAL"
      BY <1>1, <1>3, <3>3, RecvPlain
    <3> QED
      BY <3>1, <3>2, <3>4
  <2>3. CASE \E n \in 1..c.rd.left : /\ conn' = [conn EXCEPT ![e] = RecvStreamData(c, n)]
                                     /\ wire' = [wire EXCEPT ![e] = u]
    BY <2>1, <2>3
  <2>4. CASE /\ c.rd = Idle /\ u # << >>
             /\ \E f \in Head(u) : /\ conn' = [conn EXCEPT ![e] = Recv(c, f)]
                                   /\ wire' = [wire EXCEPT ![e] = After(u, f)]
    BY <2>2, <2>4
  <2> QED
    BY <1>1, <2>3, <2>4
<1>5. /\ conn'[e] = d /\ conn'[Peer(e)] = conn[Peer(e)] /\ \A g \in Ends : Seen(g)' = Seen(g)
      /\ Flow(e)' = w /\ Flow(Peer(e))' = v
  <2>1. /\ conn'[e] = d /\ conn'[Peer(e)] = conn[Peer(e)] /\ wire'[e] = w
        /\ wire'[Peer(e)] = wire[Peer(e)]
    BY <1>4, BothEnds DEF StartInv, Handshake
  <2> QED
    BY <1>1, <2>1 DEF Seen, Flow, Introduced, v
<1>6. View(e)' = d
  <2>1. Own(conn[e], e)' /\ Seen(e)'
    BY <1>1, <1>2, <1>5 DEF StartInv
  <2>2. Fit(d) /\ Settled(d)
    BY <1>4, <1>5, <2>1 DEF Own
  <2>3. View(e)' = Lift(d, d.txMax, d.txStreams)
    BY <1>5, <2>1 DEF View, KnownMax, KnownStreams
  <2> QED
    BY <2>2, <2>3, LiftSelf
<1>7. Peer(e) \in Ends
  BY BothEnds
<1>8. Tied(View(e)', View(Peer(e)), Flow(e)', Flow(Peer(e))')
  BY <1>4, <1>5, <1>6 DEF p
<1>9. conn'[e].err = "NONE" /\ Seen(Peer(e))' = Seen(Peer(e))
  BY <1>4, <1>5, <1>7
<1> QED
  BY <1>5, <1>8, <1>9, JoinedStep DEF Agreed

\* With the limits of its peer, a connection is new.
LEMMA LiftFresh ==
  ASSUME NEW r \in Role
  PROVE  Lift(Fresh(r), Params[1 - r].maxData, Params[1 - r].streams) = NewConn(r)
<1> DEFINE d == Fresh(r)
           b == NewConn(r)
           m == Params[1 - r].maxData
           n == Params[1 - r].streams
<1>1. d \in ConnType /\ b \in ConnType
  <2>1. Fit(d)
    BY FreshFit
  <2>2. Good(b)
    <3> DEFINE u == << >>
               p == NewConn(1 - r)
    <3> HIDE DEF u, p
    <3>1. u = << >> /\ p = NewConn(1 - r)
      BY DEF u, p
    <3> QED
      BY <3>1, NewChannel
  <2> QED
    BY <2>1, <2>2 DEF Fit, Good
<1>2. LimitsType(m, n)
  <2>1. Params[1 - r] \in ParamsType
    BY RoleParams
  <2> QED
    BY <2>1 DEF LimitsType, ParamsType, Offset
<1>3. /\ b.role = d.role /\ b.live = d.live /\ b.strmq = d.strmq /\ b.idtr = d.idtr
      /\ b.next = d.next /\ b.rxStreams = d.rxStreams
      /\ b.rxUnsentStreams = d.rxUnsentStreams /\ b.txOff = d.txOff
      /\ b.txBlocked = d.txBlocked /\ b.rxOff = d.rxOff /\ b.rxMax = d.rxMax
      /\ b.rxUnsent = d.rxUnsent /\ b.ping = d.ping /\ b.pong = d.pong
      /\ b.glitch = d.glitch /\ b.rd = d.rd /\ b.qre = d.qre /\ b.err = d.err
      /\ b.txMax = m /\ b.txStreams = n /\ d.role = r
  BY DEF Fresh, NewConn
<1>4. \A s \in StreamIds : b.strm[s] = NewStrm(r, s) /\ d.strm[s] = NewStrm(r, s)
  BY DEF Fresh, NewConn
<1>5. \A s \in StreamIds : b.strm[s] = Windowed(d.strm[s], InitialMaxTx(d.role, s))
  <2> HIDE DEF d, b, m, n
  <2> TAKE s \in StreamIds
  <2> QED
    BY <1>3, <1>4, LiftNew DEF Windowed
<1> HIDE DEF d, b, m, n
<1>6. b = Lift(d, m, n)
  BY ONLY <1>1, <1>2, <1>3, <1>5, LiftIs
<1> QED
  BY <1>6 DEF d, b, m, n

\* With nothing on its way, two new connections are tied.
LEMMA FreshTied ==
  ASSUME NEW r \in Role, NEW u, u = << >>
  PROVE  Tied(NewConn(r), NewConn(1 - r), u, u)
<1> DEFINE c == NewConn(r)
           p == NewConn(1 - r)
<1>1. 1 - r \in Role /\ c = NewConn(1 - (1 - r)) /\ p = NewConn(1 - r) /\ c = NewConn(r)
  BY DEF Role
<1>2. p.role = 1 - c.role /\ u \in Seq(SUBSET Frame)
  BY DEF NewConn
<1> HIDE DEF c, p
<1>3. Good(c) /\ Tidy(c) /\ Channel(c, p, u)
  BY ONLY <1>1, u = << >>, r \in Role, NewChannel
<1>4. Good(p) /\ Tidy(p) /\ Channel(p, c, u)
  BY ONLY <1>1, u = << >>, NewChannel
<1> QED
  BY <1>2, <1>3, <1>4 DEF Tied, c, p

\* Two connections that neither has used.
LEMMA FreshAgree ==
  ASSUME Ends = Role, \A e \in Ends : conn[e] = Fresh(e) /\ ~Seen(e) /\ Flow(e) = << >>
  PROVE  Agreed
<1>1. ASSUME NEW e \in Ends PROVE View(e) = NewConn(e) /\ conn[e].err = "NONE"
  <2>1. View(e) = Lift(Fresh(e), Params[1 - e].maxData, Params[1 - e].streams)
    BY DEF View, KnownMax, KnownStreams
  <2> QED
    BY <2>1, LiftFresh, FreshFit
<1>2. ASSUME NEW e \in Ends PROVE Joined(e)
  <2>1. Peer(e) \in Ends /\ Peer(e) = 1 - e
    BY BothEnds DEF Peer
  <2> QED
    BY <1>1, <2>1, FreshTied DEF Joined
<1> QED
  BY <1>1, <1>2 DEF Agreed, NoConnectionError

\* Two that become so.
LEMMA FreshJoined ==
  ASSUME Ends = Role, \A e \in Ends : conn'[e] = Fresh(e) /\ ~Seen(e)' /\ Flow(e)' = << >>
  PROVE  Agreed'
<1>1. ASSUME NEW e \in Ends PROVE View(e)' = NewConn(e) /\ conn'[e].err = "NONE"
  <2>1. View(e)' = Lift(Fresh(e), Params[1 - e].maxData, Params[1 - e].streams)
    BY DEF View, KnownMax, KnownStreams
  <2> QED
    BY <2>1, LiftFresh, FreshFit
<1>2. ASSUME NEW e \in Ends PROVE Joined(e)'
  <2>1. Peer(e) \in Ends /\ Peer(e) = 1 - e
    BY BothEnds DEF Peer
  <2>2. View(Peer(e))' = NewConn(1 - e) /\ Flow(Peer(e))' = << >>
    BY <1>1, <2>1
  <2> QED
    BY <1>1, <2>1, <2>2, FreshTied DEF Joined, Peer
<1> QED
  BY <1>1, <1>2 DEF Agreed, NoConnectionError

\* The client loads what it remembers: before it is used, there is nothing else
\* to know.
LEMMA SetEarlyJoined ==
  ASSUME Ends = Role, StartInv, Agreed, SetEarlyParams
  PROVE  Agreed'
<1> DEFINE c == conn[0]
           d == WithLimits(c, early)
           q == Params[1]
<1>1. /\ flags[0] = {} /\ conn' = [conn EXCEPT ![0] = d]
      /\ flags' = [flags EXCEPT ![0] = @ \cup {"EARLY_SET"}]
      /\ UNCHANGED <<wire, early, tls, told>>
  BY DEF SetEarlyParams
<1>2. 0 \in Ends /\ 1 \in Ends /\ Peer(0) = 1 /\ Peer(1) = 0
  BY TheEnds
<1>3. c \in ConnType /\ c.err = "NONE" /\ ~Seen(0)
  BY <1>1, <1>2 DEF StartInv, Own, Fit, Good, Agreed, NoConnectionError, Seen
<1>4. /\ conn'[0] = d /\ conn'[1] = conn[1] /\ Seen(0)' = Seen(0) /\ Seen(1)' = Seen(1)
      /\ Flow(0)' = Flow(0) /\ Flow(1)' = Flow(1)
  BY <1>1, <1>2 DEF StartInv, Handshake, Seen, Flow, Introduced
<1>5. Lift(d, q.maxData, q.streams) = Lift(c, q.maxData, q.streams) /\ d.err = c.err
  BY <1>3 DEF Lift, WithLimits, ConnType
<1> HIDE DEF d
<1>6. View(0)' = View(0)
  BY <1>3, <1>4, <1>5 DEF View, KnownMax, KnownStreams
<1>7. Tied(View(0)', View(1), Flow(0)', Flow(1)')
  BY <1>2, <1>4, <1>6 DEF Agreed, Joined
<1> QED
  BY <1>2, <1>3, <1>4, <1>5, <1>7, JoinedStep DEF Agreed

\* Nothing is known or on its way that was not before.
LEMMA SameJoined ==
  ASSUME Agreed, UNCHANGED <<conn, wire, flags>>
  PROVE  Agreed'
<1>1. \A e : View(e)' = View(e) /\ Flow(e)' = Flow(e)
  BY DEF View, KnownMax, KnownStreams, Flow, Introduced, Seen
<1>2. ASSUME NEW e \in Ends PROVE Joined(e)'
  BY <1>1 DEF Agreed, Joined, Peer
<1> QED
  BY <1>2 DEF Agreed, NoConnectionError

\* The handshake is complete.  A client whose early data was rejected starts
\* again, with a server that has heard nothing of it.
LEMMA ToldJoined ==
  ASSUME Ends = Role, StartInv, Told
  PROVE  /\ tls = "rejected" => Agreed'
         /\ tls # "rejected" => UNCHANGED <<conn, wire, flags, early>>
<1>1. /\ StartInv'
      /\ tls = "rejected" => /\ conn'[0] = Fresh(0) /\ ~Seen(0)' /\ ~Seen(1)'
                             /\ Flow(1)' = << >>
      /\ tls # "rejected" => UNCHANGED <<conn, wire, flags, early>>
  BY ToldStart
<1>2. ASSUME tls = "rejected" PROVE Agreed'
  <2>1. conn'[1] = Fresh(1) /\ Flow(0)' = << >>
    BY <1>1, <1>2, TheEnds DEF StartInv, Silent, Own
  <2>2. \A e \in Ends : conn'[e] = Fresh(e) /\ ~Seen(e)' /\ Flow(e)' = << >>
    BY <1>1, <1>2, <2>1, TheEnds
  <2> QED
    BY <2>2, FreshJoined
<1> QED
  BY <1>1, <1>2

\* Two new endpoints.
LEMMA SessionStart ==
  ASSUME Ends = Role, SessionInit
  PROVE  SessionInv
<1>1. \A e \in Ends : conn[e] = Fresh(e) /\ ~Seen(e) /\ Flow(e) = << >>
  BY BothEnds DEF SessionInit, Seen, Flow, Introduced
<1> QED
  BY <1>1, StartInit, FreshAgree DEF SessionInv

\* Every step.
LEMMA SessionKept ==
  ASSUME Ends = Role, SessionInv, [SessionNext]_sessionVars
  PROVE  SessionInv'
<1>1. StartInv /\ StartInv'
  BY StartNext DEF SessionInv
<1>2. (\E e \in Ends : ReadFirst(e) \/ ReadNext(e) \/ EarlyCall(e) \/ WriteControl(e)
                       \/ (\E i \in Direction : OpenLocal(e, i))
                       \/ (\E s \in StreamIds, len \in 0..MaxWrite, fin \in BOOLEAN :
                             WriteLocal(e, s, len, fin)))
      => (Regular' <=> Regular)
  <2> SUFFICES ASSUME NEW e \in Ends,
                      \/ UNCHANGED flags
                      \/ flags' = [flags EXCEPT ![e] = @ \cup {"SEEN"}]
                      \/ flags' = [flags EXCEPT ![e] = @ \cup {"SENT"}],
                      UNCHANGED early
               PROVE  Regular' <=> Regular
    BY DEF ReadFirst, ReadNext, EarlyCall, WriteControl, OpenLocal, WriteLocal, Transmit
  <2>1. 0 \in Ends /\ flags \in [Ends -> SUBSET ConnFlag]
    BY <1>1, TheEnds DEF StartInv, Handshake
  <2>2. "EARLY_SET" \in flags'[0] <=> "EARLY_SET" \in flags[0]
    BY <2>1
  <2> QED
    BY <2>2 DEF Regular, Promised
<1>3. CASE SetEarlyParams
  <2>1. Regular
    BY <1>3 DEF SetEarlyParams, Regular
  <2> QED
    BY <1>1, <1>3, <2>1, SetEarlyJoined DEF SessionInv
<1>4. CASE Answer
  <2>1. UNCHANGED <<conn, wire, flags, early>>
    BY <1>4 DEF Answer
  <2>2. Regular' <=> Regular
    BY <2>1 DEF Regular, Promised
  <2> QED
    BY <1>1, <2>1, <2>2, SameJoined DEF SessionInv
<1>5. CASE Told
  <2>1. CASE tls = "rejected"
    BY <1>1, <1>5, <2>1, ToldJoined DEF SessionInv
  <2>2. CASE tls # "rejected"
    <3>1. UNCHANGED <<conn, wire, flags, early>>
      BY <1>1, <1>5, <2>2, ToldJoined
    <3>2. Regular' <=> Regular
      BY <3>1 DEF Regular, Promised
    <3> QED
      BY <1>1, <3>1, <3>2, SameJoined DEF SessionInv
  <2> QED
    BY <2>1, <2>2
<1>6. ASSUME NEW e \in Ends, ReadFirst(e) PROVE SessionInv'
  BY <1>1, <1>2, <1>6, ReadFirstJoined DEF SessionInv
<1>7. ASSUME NEW e \in Ends, ReadNext(e) PROVE SessionInv'
  BY <1>1, <1>2, <1>7, ReadNextJoined DEF SessionInv
<1>8. ASSUME NEW e \in Ends, NEW i \in Direction, OpenLocal(e, i) PROVE SessionInv'
  BY <1>1, <1>2, <1>8, OpenJoined DEF SessionInv
<1>9. ASSUME NEW e \in Ends, EarlyCall(e) PROVE SessionInv'
  BY <1>1, <1>2, <1>9, EarlyCallJoined DEF SessionInv
<1>10. ASSUME NEW e \in Ends, WriteControl(e) PROVE SessionInv'
  BY <1>1, <1>2, <1>10, WriteControlJoined DEF SessionInv
<1>11. ASSUME NEW e \in Ends, NEW s \in StreamIds, NEW len \in 0..MaxWrite, NEW fin \in BOOLEAN,
              WriteLocal(e, s, len, fin)
       PROVE  SessionInv'
  BY <1>1, <1>2, <1>11, WriteLocalJoined DEF SessionInv
<1>12. CASE UNCHANGED sessionVars
  <2>1. UNCHANGED <<conn, wire, flags, early>>
    BY <1>12 DEF sessionVars
  <2>2. Regular' <=> Regular
    BY <2>1 DEF Regular, Promised
  <2> QED
    BY <1>1, <2>1, <2>2, SameJoined DEF SessionInv
<1> QED
  BY <1>3, <1>4, <1>5, <1>6, <1>7, <1>8, <1>9, <1>10, <1>11, <1>12 DEF SessionNext

\* The two endpoints agree whenever nothing was promised that is not kept.
THEOREM SessionInvariant ==
  ASSUME Ends = Role
  PROVE  SessionSpec => []SessionInv
<1>1. SessionInit => SessionInv
  BY SessionStart
<1>2. SessionInv /\ [SessionNext]_sessionVars => SessionInv'
  BY SessionKept
<1> QED
  BY <1>1, <1>2, PTL DEF SessionSpec

\* Neither endpoint fails the other, whatever the order of early data, its
\* rejection and the handshake: the parameters come first and once
\* (conn_recv_transport_params, dwnx_conn_write_vmsg), and every frame is within
\* the limits that its receiver has set.
THEOREM EarlyDataNeverFails ==
  ASSUME Ends = Role
  PROVE  SessionSpec => []NobodyFails
<1>1. SessionInv => NobodyFails
  BY DEF SessionInv, Agreed, NobodyFails, Regular
<1> QED
  BY <1>1, SessionInvariant, PTL

-----------------------------------------------------------------------------
(* What a call counts                                                      *)

\* On stream s the same bytes are counted as sent and as received.
SameCount(c, d, s) ==
  d.strm[s].txOff = c.strm[s].txOff /\ d.strm[s].rxLast = c.strm[s].rxLast

\* From c to d no byte is counted, and no stream forgets any but one that is
\* freed.
Holds(c, d) ==
  /\ Kept(c, d) /\ d.txOff = c.txOff /\ d.rxOff = c.rxOff
  /\ \A s \in StreamIds : ~Gone(d, s) => SameCount(c, d, s)

\* From c to d the bytes of the frames F are counted as sent, and those of G as
\* received.
Counts(c, d, F, G) ==
  /\ Kept(c, d)
  /\ d.txOff = c.txOff + BytesOf(F, StreamIds)
  /\ d.rxOff = c.rxOff + BytesOf(G, StreamIds)
  /\ \A s \in StreamIds : ~Gone(d, s) =>
       /\ d.strm[s].txOff = c.strm[s].txOff + BytesOf(F, {s})
       /\ d.strm[s].rxLast = c.strm[s].rxLast + BytesOf(G, {s})

\* Holding is reflexive and transitive.
LEMMA HoldsOrder ==
  /\ \A c : Holds(c, c)
  /\ \A c, d, e : Holds(c, d) /\ Holds(d, e) => Holds(c, e)
<1>1. \A c : Holds(c, c)
  BY KeptOrder DEF Holds, SameCount
<1>2. ASSUME NEW c, NEW d, NEW e, Holds(c, d), Holds(d, e) PROVE Holds(c, e)
  <2>1. Kept(c, e) /\ Kept(d, e)
    BY <1>2, KeptOrder DEF Holds
  <2>2. ASSUME NEW s \in StreamIds, ~Gone(e, s) PROVE SameCount(c, e, s)
    BY <1>2, <2>1, <2>2, KeptSides DEF Holds, SameCount
  <2> QED
    BY <1>2, <2>1, <2>2 DEF Holds
<1> QED
  BY <1>1, <1>2

\* Holding, before or after a call that counts.
LEMMA CountsThen ==
  ASSUME NEW c, NEW d, NEW e, NEW F, NEW G
  PROVE  /\ Counts(c, d, F, G) /\ Holds(d, e) => Counts(c, e, F, G)
         /\ Holds(c, d) /\ Counts(d, e, F, G) => Counts(c, e, F, G)
<1>1. ASSUME Counts(c, d, F, G), Holds(d, e) PROVE Counts(c, e, F, G)
  <2>1. Kept(c, e) /\ Kept(d, e)
    BY <1>1, KeptOrder DEF Holds, Counts
  <2>2. ASSUME NEW s \in StreamIds, ~Gone(e, s) PROVE ~Gone(d, s) /\ SameCount(d, e, s)
    BY <1>1, <2>1, <2>2, KeptSides DEF Holds
  <2> QED
    BY <1>1, <2>1, <2>2 DEF Holds, Counts, SameCount
<1>2. ASSUME Holds(c, d), Counts(d, e, F, G) PROVE Counts(c, e, F, G)
  <2>1. Kept(c, e) /\ Kept(d, e)
    BY <1>2, KeptOrder DEF Holds, Counts
  <2>2. ASSUME NEW s \in StreamIds, ~Gone(e, s) PROVE SameCount(c, d, s)
    BY <1>2, <2>1, <2>2, KeptSides DEF Holds
  <2> QED
    BY <1>2, <2>1, <2>2 DEF Holds, Counts, SameCount
<1> QED
  BY <1>1, <1>2

\* Frames without data count nothing.
LEMMA HoldsCounts ==
  ASSUME NEW c, Good(c), NEW d, Holds(c, d), NEW F, NEW G,
         \A f \in F : f.t # "STREAM", \A f \in G : f.t # "STREAM"
  PROVE  Counts(c, d, F, G)
<1>1. \A S : BytesOf(F, S) = 0 /\ BytesOf(G, S) = 0
  BY BytesOfIs
<1>2. c.txOff \in Nat /\ c.rxOff \in Nat
      /\ \A s \in StreamIds : c.strm[s].txOff \in Nat /\ c.strm[s].rxLast \in Nat
  BY Numbers
<1> QED
  BY <1>1, <1>2 DEF Holds, Counts, SameCount

\* One stream changes, in other fields.
LEMMA HoldsTouch ==
  ASSUME NEW c, NEW s \in StreamIds, NEW d, Touches(c, d, s),
         d.txOff = c.txOff, d.rxOff = c.rxOff, SameCount(c, d, s)
  PROVE  Holds(c, d)
<1>1. Kept(c, d)
  BY KeptIfSame DEF Touches
<1> QED
  BY <1>1 DEF Holds, Touches, SameCount

\* No stream changes.
LEMMA HoldsSame ==
  ASSUME NEW c, NEW d, Kept(c, d), d.txOff = c.txOff, d.rxOff = c.rxOff, d.strm = c.strm
  PROVE  Holds(c, d)
BY DEF Holds, SameCount

\* A stream is freed.
LEMMA HoldsClose ==
  ASSUME NEW c, c \in ConnType, NEW s \in StreamIds, Used(c, s)
  PROVE  Holds(c, CloseStreamIfShutRdWr(c, s))
<1> DEFINE d == CloseStream(c, s)
<1>1. /\ SameLimits(c, d) /\ d.live = c.live \ {s} /\ d.txOff = c.txOff /\ d.rxOff = c.rxOff
      /\ \A t \in StreamIds \ {s} : d.strm[t] = c.strm[t]
  BY DEF ConnType, CloseStream, SameLimits
<1> HIDE DEF d
<1>2. Kept(c, d)
  BY <1>1, KeptIfSame
<1>3. Gone(d, s)
  BY <1>1, <1>2, KeptSides DEF Gone
<1>4. Holds(c, d)
  BY <1>1, <1>2, <1>3 DEF Holds, SameCount
<1>5. Holds(c, c)
  BY HoldsOrder
<1> QED
  BY <1>4, <1>5 DEF CloseStreamIfShutRdWr, d

\* Flags are set, and the stream is freed if they end it.
LEMMA HoldsEnd ==
  ASSUME NEW c, Good(c), NEW s \in StreamIds, Used(c, s), NEW F \in SUBSET Flag
  PROVE  /\ Holds(c, SetFlags(c, s, F))
         /\ Holds(c, CloseStreamIfShutRdWr(SetFlags(c, s, F), s))
<1> DEFINE d == SetFlags(c, s, F)
<1>1. /\ Touches(c, d, s) /\ d.strm[s] = [c.strm[s] EXCEPT !.flags = @ \cup F]
      /\ Good(d) /\ d \in ConnType
  BY SetFlagsView, SetFlagsGood DEF Good
<1>2. d.txOff = c.txOff /\ d.rxOff = c.rxOff
  BY DEF Good, ConnType, SetFlags
<1> HIDE DEF d
<1>3. SameCount(c, d, s)
  BY <1>1, Fields DEF StrmType, SameCount
<1>4. Holds(c, d)
  BY <1>1, <1>2, <1>3, HoldsTouch
<1>5. Used(d, s)
  BY <1>4, KeptSides DEF Holds
<1>6. Holds(d, CloseStreamIfShutRdWr(d, s))
  BY <1>1, <1>5, HoldsClose
<1> QED
  BY <1>4, <1>6, HoldsOrder DEF d

-----------------------------------------------------------------------------
(* What the calls of the application count                                 *)

\* dwnx_conn_shutdown_stream_write.
LEMMA ShutdownHolds ==
  ASSUME NEW c, Fit(c), NEW s \in StreamIds
  PROVE  Holds(c, ShutdownStreamWrite(c, s))
<1> DEFINE F == {"SHUT_WR"}
           G == {"SEND_RESET_STREAM", "RESET_STREAM"}
           H == F \cup G
           b == SetFlags(c, s, H)
           d == PushIfNot(b, s)
<1>1. Good(c) /\ F \in SUBSET Flag /\ G \in SUBSET Flag /\ H \in SUBSET Flag
  BY DEF Fit, Flag
<1>2. CASE s \notin c.live \/ "SHUT_WR" \in c.strm[s].flags
  BY <1>2, HoldsOrder DEF ShutdownStreamWrite
<1>3. CASE s \in c.live /\ "SHUT_WR" \notin c.strm[s].flags
  <2>1. SetFlags(SetFlags(c, s, F), s, G) = b
    BY <1>1, SetTwice
  <2>2. ShutdownStreamWrite(c, s) = d
    BY <1>3, <2>1 DEF ShutdownStreamWrite, ScheduleReset
  <2>3. Touches(c, d, s) /\ d.strm[s] = [c.strm[s] EXCEPT !.flags = @ \cup H]
    BY <1>1, ScheduleView
  <2>4. d.txOff = c.txOff /\ d.rxOff = c.rxOff
    BY <1>1 DEF Good, ConnType, PushIfNot, SetFlags
  <2> HIDE DEF d, H
  <2>5. SameCount(c, d, s)
    BY <1>1, <2>3, Fields DEF StrmType, SameCount
  <2> QED
    BY <2>2, <2>3, <2>4, <2>5, HoldsTouch
<1> QED
  BY <1>2, <1>3

\* dwnx_conn_extend_max_offset, dwnx_conn_extend_max_streams_bidi and its
\* sibling.
LEMMA ExtendHolds ==
  ASSUME NEW c, Fit(c), NEW n \in Nat, NEW i \in Direction
  PROVE  Holds(c, ExtendMaxOffset(c, n)) /\ Holds(c, ExtendMaxStreams(c, i, n))
<1>1. Good(c) /\ Sound(c) /\ c \in ConnType
  BY DEF Fit, Good
<1>2. ASSUME NEW d, d \in {ExtendMaxOffset(c, n), ExtendMaxStreams(c, i, n)}
      PROVE  Holds(c, d)
  <2>1. Kept(c, d)
    BY <1>1, <1>2, ExtendSound
  <2>2. d.strm = c.strm /\ d.txOff = c.txOff /\ d.rxOff = c.rxOff
    BY <1>1, <1>2 DEF ConnType, ExtendMaxOffset, ExtendMaxStreams
  <2> QED
    BY <2>1, <2>2, HoldsSame
<1> QED
  BY <1>2

\* dwnx_conn_open_bidi_stream and its sibling.
LEMMA OpenHolds ==
  ASSUME NEW c, Fit(c), NEW i \in Direction, c.next[i] \in StreamIds, StreamsLeft(c, i),
         NEW p \in ParamsType
  PROVE  Holds(c, OpenUnder(c, i, p))
<1> DEFINE s == c.next[i]
           d == OpenUnder(c, i, p)
<1>1. Good(c) /\ Sound(c) /\ c.next \in [Direction -> Nat]
  BY Fields DEF Fit
<1>2. LocalStream(c, s) /\ Dir(s) = i /\ ~Used(c, s) /\ s \notin c.live
  BY <1>1, NextLocalFacts
<1>3. /\ d.live = c.live \cup {s} /\ d.strm[s] = Windowed(c.strm[s], StreamWindow(p, s))
      /\ \A t \in StreamIds \ {s} : d.strm[t] = c.strm[t]
      /\ d.next[i] = s + 4 /\ \A j \in Direction \ {i} : d.next[j] = c.next[j]
      /\ d.role = c.role /\ d.idtr = c.idtr /\ d.txOff = c.txOff /\ d.rxOff = c.rxOff
  BY OpenOwn
<1> HIDE DEF d
<1>4. Kept(c, d)
  <2>1. ASSUME NEW t \in StreamIds, Used(c, t) PROVE Used(d, t)
    <3>1. Dir(t) \in Direction /\ t \in Nat
      BY DirOrdinal
    <3>2. c.next[Dir(t)] <= d.next[Dir(t)] /\ d.next[Dir(t)] \in Nat /\ c.next[Dir(t)] \in Nat
      BY <1>1, <1>3, <3>1
    <3> QED
      BY <1>3, <2>1, <3>1, <3>2 DEF Used, LocalStream
  <2> QED
    BY <1>2, <1>3, <2>1 DEF Kept
<1>5. SameCount(c, d, s)
  BY <1>1, <1>3, Fields, WindowedView DEF SameCount
<1>6. \A t \in StreamIds : SameCount(c, d, t)
  BY <1>3, <1>5 DEF SameCount
<1> QED
  BY <1>3, <1>4, <1>6 DEF Holds, d

\* dwnx_conn_write_ctrl_frames.
LEMMA CtrlHolds ==
  ASSUME NEW c, Fit(c)
  PROVE  Holds(c, WithCtrl(c))
<1> DEFINE d == WithCtrl(c)
<1>1. Good(c) /\ Sound(c) /\ CtrlFrames(c) \in SUBSET Frame
  BY FramesType DEF Fit
<1>2. Kept(c, d)
  BY <1>1, WriteCtrlFramesSound DEF WithCtrl
<1>3. /\ d.live = c.live \ Freeing(c) /\ d.txOff = c.txOff /\ d.rxOff = c.rxOff
      /\ d.strm = [s \in StreamIds |-> IF s \in Freeing(c) THEN NewStrm(c.role, s)
                                       ELSE IF s \in c.strmq THEN ResetSent(c.strm[s])
                                       ELSE c.strm[s]]
  BY CtrlView
<1> HIDE DEF d
<1>4. ASSUME NEW s \in StreamIds, ~Gone(d, s) PROVE SameCount(c, d, s)
  <2>1. s \notin Freeing(c)
    <3>1. ASSUME s \in Freeing(c) PROVE FALSE
      <4>1. s \in c.live
        BY <1>1, <3>1 DEF Freeing, Sound, SoundBut
      <4>2. Used(c, s)
        BY <1>1, <4>1 DEF Sound, SoundBut, WithinStreamLimits
      <4> QED
        BY <1>2, <1>3, <1>4, <3>1, <4>2, KeptSides DEF Gone
    <3> QED
      BY <3>1
  <2>2. d.strm[s] = c.strm[s] \/ d.strm[s] = ResetSent(c.strm[s])
    BY <1>3, <2>1
  <2>3. c.strm[s] \in StrmType
    BY <1>1, Fields
  <2>4. /\ ResetSent(c.strm[s]).txOff = c.strm[s].txOff
        /\ ResetSent(c.strm[s]).rxLast = c.strm[s].rxLast
    BY <2>3 DEF StrmType, ResetSent
  <2> QED
    BY <2>2, <2>4 DEF SameCount
<1> QED
  BY <1>2, <1>3, <1>4 DEF Holds, d

\* A STREAM frame.
LEMMA DataCounts ==
  ASSUME NEW c, Fit(c), NEW s \in StreamIds, s \in c.live, NEW len \in Nat, NEW w \in Nat,
         NEW fin \in BOOLEAN, w <= FcCredits(c, s),
         NEW F, F = {StreamFr(s, c.strm[s].txOff, w, fin /\ w = len)}
  PROVE  Counts(c, WriteData(c, s, len, w, fin), F, {})
<1> DEFINE last == fin /\ w = len
           x == c.strm[s]
           f == StreamFr(s, c.strm[s].txOff, w, last)
           d == [c EXCEPT
                   !.txOff = @ + w,
                   !.strm[s] = Sent(@, w),
                   !.qre.frames = Append(@, {StreamFr(s, c.strm[s].txOff, w, last)})]
           e == WriteData(c, s, len, w, fin)
<1>1. e = IF last THEN CloseStreamIfShutRdWr(SetFlags(d, s, {"SHUT_WR"}), s) ELSE d
  BY DEF WriteData
<1>2. F = {f} /\ last \in BOOLEAN
  OBVIOUS
<1>3. F \in SUBSET PlainFrame
  BY DataOwn
<1> HIDE DEF last
<1>4. Good(c) /\ Sound(c) /\ c \in ConnType /\ x \in StrmType
  BY Fields DEF Fit, Good
<1>5. Good(d)
  BY <1>2, <1>4, StreamFrameGood
<1>6. /\ Touches(c, d, s) /\ d.strm[s] = Sent(x, w)
      /\ d.txOff = c.txOff + w /\ d.rxOff = c.rxOff
  BY <1>4 DEF Touches, SameLimits, ConnType
<1>7. f \in Frame /\ f.t = "STREAM" /\ f.id = s /\ f.len = w
  BY <1>2, <1>3 DEF PlainFrame, StreamFr
<1> HIDE DEF d, x, f
<1>8. d.strm[s].txOff = x.txOff + w /\ d.strm[s].rxLast = x.rxLast
  BY <1>4, <1>6 DEF StrmType, Sent
<1>9. /\ \A S : BytesOf({}, S) = 0
      /\ BytesOf(F, StreamIds) = w
      /\ \A t \in StreamIds : BytesOf(F, {t}) = IF t = s THEN w ELSE 0
  <2>1. \A S : BytesOf({}, S) = 0 /\ BytesOf({f}, S) = IF s \in S THEN w ELSE 0
    BY <1>7, BytesOfIs
  <2>2. \A S : BytesOf(F, S) = IF s \in S THEN w ELSE 0
    BY <1>2, <2>1
  <2> QED
    BY <2>1, <2>2
<1>10. /\ c.txOff \in Nat /\ c.rxOff \in Nat /\ w \in Nat
       /\ \A t \in StreamIds : c.strm[t].txOff \in Nat /\ c.strm[t].rxLast \in Nat
  BY <1>4, Numbers
<1>11. Kept(c, d)
  BY <1>6, KeptIfSame DEF Touches
<1>12. ASSUME NEW t \in StreamIds
       PROVE  /\ d.strm[t].txOff = c.strm[t].txOff + BytesOf(F, {t})
              /\ d.strm[t].rxLast = c.strm[t].rxLast + BytesOf({}, {t})
  <2>1. BytesOf({}, {t}) = 0 /\ BytesOf(F, {t}) = IF t = s THEN w ELSE 0
    BY <1>9
  <2>2. /\ d.strm[t].txOff = IF t = s THEN c.strm[t].txOff + w ELSE c.strm[t].txOff
        /\ d.strm[t].rxLast = c.strm[t].rxLast
    BY <1>6, <1>8 DEF Touches, x
  <2>3. c.strm[t].txOff \in Nat /\ c.strm[t].rxLast \in Nat
    BY <1>10
  <2> QED
    BY <2>1, <2>2, <2>3
<1>13. Counts(c, d, F, {})
  <2>1. BytesOf({}, StreamIds) = 0 /\ BytesOf(F, StreamIds) = w
    BY <1>9
  <2>2. d.rxOff = c.rxOff + BytesOf({}, StreamIds)
    BY <1>6, <1>10, <2>1
  <2> QED
    BY <1>6, <1>11, <1>12, <2>1, <2>2 DEF Counts
<1>14. Holds(d, CloseStreamIfShutRdWr(SetFlags(d, s, {"SHUT_WR"}), s))
  <2>1. Used(c, s)
    BY <1>4 DEF Sound, SoundBut, WithinStreamLimits
  <2>2. Used(d, s)
    BY <1>11, <2>1, KeptSides
  <2>3. {"SHUT_WR"} \in SUBSET Flag
    BY DEF Flag
  <2> QED
    BY <1>5, <2>2, <2>3, HoldsEnd
<1> HIDE DEF e
<1>15. e = d \/ e = CloseStreamIfShutRdWr(SetFlags(d, s, {"SHUT_WR"}), s)
  BY <1>1
<1> QED
  BY <1>13, <1>14, <1>15, CountsThen DEF e

\* The reports of a blocked stream, and the end of a record.
LEMMA ReportHolds ==
  ASSUME NEW c, Fit(c)
  PROVE  /\ \A s \in StreamIds : s \in c.live => Holds(c, ReportBlocked(c, s, BlockedReports(c, s)))
         /\ Holds(c, FinishRecord(c))
<1>1. ASSUME NEW s \in StreamIds, s \in c.live
      PROVE  Holds(c, ReportBlocked(c, s, BlockedReports(c, s)))
  <2> DEFINE d == ReportBlocked(c, s, BlockedReports(c, s))
  <2>1. /\ OwnStep(c, d) /\ Touches(c, d, s) /\ d.txOff = c.txOff
        /\ d.strm[s].txOff = c.strm[s].txOff /\ d.strm[s].rxLast = c.strm[s].rxLast
    BY <1>1, ReportOwn
  <2> HIDE DEF d
  <2>2. d.rxOff = c.rxOff /\ SameCount(c, d, s)
    BY <2>1 DEF OwnStep, SameCount
  <2> QED
    BY <2>1, <2>2, HoldsTouch DEF d
<1>2. Holds(c, FinishRecord(c))
  <2> DEFINE d == FinishRecord(c)
  <2>1. c \in ConnType
    BY DEF Fit, Good
  <2>2. /\ SameLimits(c, d) /\ d.live = c.live /\ d.strm = c.strm
        /\ d.txOff = c.txOff /\ d.rxOff = c.rxOff
    BY <2>1 DEF ConnType, FinishRecord, SameLimits
  <2> HIDE DEF d
  <2>3. Kept(c, d)
    BY <2>2, KeptIfSame
  <2> QED
    BY <2>2, <2>3, HoldsSame DEF d
<1> QED
  BY <1>1, <1>2

-----------------------------------------------------------------------------
(* What reading counts                                                     *)

\* The stream of a frame is found or opened.
LEMMA FoundHolds ==
  ASSUME NEW c, Fit(c), NEW s \in StreamIds, NEW side,
         StreamIdError(c, s, side) = "NONE", ~Closed(c, s)
  PROVE  LET b == FindOrOpen(c, s) IN
         /\ Holds(c, b) /\ Good(b) /\ Used(b, s) /\ b.strm = c.strm
         /\ b.txOff = c.txOff /\ b.rxOff = c.rxOff
<1> DEFINE b == FindOrOpen(c, s)
<1>1. Good(c) /\ Sound(c) /\ Plain(c) /\ c \in ConnType
  BY DEF Fit, Good
<1>2. Good(b) /\ b.strm = c.strm /\ b.rxOff = c.rxOff
  BY <1>1, PlainOpen
<1>3. Sound(b) /\ Kept(c, b) /\ s \in b.live
  BY <1>1, FindOrOpenSound
<1>4. b.txOff = c.txOff
  BY <1>1 DEF FindOrOpen, CreateStream, ConnType
<1> HIDE DEF b
<1>5. Used(b, s)
  BY <1>3 DEF Sound, SoundBut, WithinStreamLimits
<1>6. Holds(c, b)
  BY <1>2, <1>3, <1>4, HoldsSame
<1> QED
  BY <1>2, <1>4, <1>5, <1>6 DEF b

\* conn_recv_stream.
LEMMA StreamCounts ==
  ASSUME NEW c, Fit(c), NEW f \in PlainFrame, f.t = "STREAM", RecvStreamError(c, f) = "NONE"
  PROVE  Counts(c, RecvStream(c, f), {}, {f})
<1> DEFINE s == f.id
           b == FindOrOpen(c, s)
           x == b.strm[s]
           d == [b EXCEPT
                   !.rxOff = @ + f.len,
                   !.strm[s].rxLast = f.off + f.len,
                   !.rd = IF f.len = 0 THEN Idle
                          ELSE [id |-> s, left |-> f.len, fin |-> f.fin]]
           F == {"SHUT_RD"}
<1>1. /\ s \in StreamIds /\ f.fin \in BOOLEAN /\ f \in PeerFrame /\ f \in Frame
      /\ f.off \in 0..MaxVarint /\ f.len \in 0..MaxVarint
  BY PlainFrameView, FrameFields
<1>2. /\ StreamIdError(c, s, "recv") = "NONE" /\ ~Closed(c, s)
      /\ x.rxLast = f.off
      /\ ~(MaxVarint - f.len < f.off) /\ ~(x.rxMax < f.off + f.len)
      /\ ~(c.rxMax - c.rxOff < f.len)
  BY DEF RecvStreamError
<1>3. /\ Holds(c, b) /\ Good(b) /\ Used(b, s) /\ b.strm = c.strm
      /\ b.txOff = c.txOff /\ b.rxOff = c.rxOff
  BY <1>1, <1>2, FoundHolds
<1>4. RecvStream(c, f) = IF f.len = 0 /\ f.fin
                           THEN CloseStreamIfShutRdWr(SetFlags(d, s, F), s)
                           ELSE d
  BY DEF RecvStream
<1>5. b.rxMax = c.rxMax
  BY DEF FindOrOpen, CreateStream
<1> HIDE DEF b
<1>6. /\ Touches(b, d, s) /\ d.strm[s] = [x EXCEPT !.rxLast = f.off + f.len]
      /\ d.txOff = b.txOff /\ d.rxOff = b.rxOff + f.len
  BY <1>1, <1>3 DEF Touches, SameLimits, Good, ConnType
<1>7. x \in StrmType /\ StrmCredit(x)
  BY <1>1, <1>3, Fields
<1>8. Good(d)
  <2>1. f.off + f.len \in Offset /\ f.off + f.len <= x.rxMax
    BY <1>1, <1>2, <1>7 DEF StrmType, Offset
  <2>2. [x EXCEPT !.rxLast = f.off + f.len] \in StrmType
    BY <1>7, <2>1 DEF StrmType
  <2>3. StrmCredit([x EXCEPT !.rxLast = f.off + f.len])
    BY <1>7, <2>1 DEF StrmType, StrmCredit
  <2> DEFINE z == [x EXCEPT !.rxLast = f.off + f.len]
             rd == IF f.len = 0 THEN Idle ELSE [id |-> s, left |-> f.len, fin |-> f.fin]
             d1 == [b EXCEPT !.strm[s] = z]
             off == b.rxOff + f.len
             d2 == [d1 EXCEPT !.rxOff = off]
             d3 == [d2 EXCEPT !.rd = rd]
  <2>4. d = d3
    OBVIOUS
  <2>5. rd \in {Idle} \cup [id : StreamIds, left : 1..MaxVarint, fin : BOOLEAN]
    BY <1>1
  <2> HIDE DEF z, d
  <2>6. Good(d1)
    BY <1>1, <1>3, <2>2, <2>3, StrmUpdateGood DEF z
  <2>7. d1.rxMax = c.rxMax /\ b.rxOff = c.rxOff
    BY <1>3, <1>5
  <2>8. off \in Offset /\ off <= d1.rxMax
    BY <1>1, <1>2, <2>7, Fields, SMTT(20) DEF Offset, Fit
  <2> HIDE DEF d1, off, rd
  <2>9. Good(d2)
    BY <2>6, <2>8, RxOffGood
  <2> HIDE DEF d2
  <2>10. Good(d3)
    BY <2>5, <2>9, PayloadGood
  <2> QED
    BY <2>4, <2>10
<1> HIDE DEF d
<1>9. d.strm[s].txOff = x.txOff /\ d.strm[s].rxLast = x.rxLast + f.len
  BY <1>1, <1>2, <1>6, <1>7 DEF StrmType
<1> DEFINE G == {f}
<1>10. \A S : BytesOf({}, S) = 0 /\ BytesOf(G, S) = IF s \in S THEN f.len ELSE 0
  BY <1>1, BytesOfIs
<1> HIDE DEF G, x
<1>11. /\ b.txOff \in Nat /\ b.rxOff \in Nat
       /\ \A t \in StreamIds : b.strm[t].txOff \in Nat /\ b.strm[t].rxLast \in Nat
  BY <1>3, Numbers
<1>12. Kept(b, d)
  BY <1>6, KeptIfSame DEF Touches
<1>13. ASSUME NEW t \in StreamIds
       PROVE  /\ d.strm[t].txOff = b.strm[t].txOff + BytesOf({}, {t})
              /\ d.strm[t].rxLast = b.strm[t].rxLast + BytesOf(G, {t})
  <2>1. BytesOf({}, {t}) = 0 /\ BytesOf(G, {t}) = IF t = s THEN f.len ELSE 0
    BY <1>10
  <2>2. /\ d.strm[t].txOff = b.strm[t].txOff
        /\ d.strm[t].rxLast = IF t = s THEN b.strm[t].rxLast + f.len ELSE b.strm[t].rxLast
    BY <1>6, <1>9 DEF Touches, x
  <2>3. b.strm[t].txOff \in Nat /\ b.strm[t].rxLast \in Nat
    BY <1>11
  <2> QED
    BY <2>1, <2>2, <2>3
<1>14. Counts(b, d, {}, G)
  <2>1. BytesOf({}, StreamIds) = 0 /\ BytesOf(G, StreamIds) = f.len
    BY <1>1, <1>10
  <2>2. d.txOff = b.txOff + BytesOf({}, StreamIds) /\ d.rxOff = b.rxOff + BytesOf(G, StreamIds)
    BY <1>6, <1>11, <2>1
  <2> QED
    BY <1>12, <1>13, <2>2 DEF Counts
<1>15. Counts(c, d, {}, G)
  BY <1>3, <1>14, CountsThen
<1>16. Holds(d, CloseStreamIfShutRdWr(SetFlags(d, s, F), s))
  <2>1. Used(d, s)
    BY <1>1, <1>3, <1>12, KeptSides
  <2>2. F \in SUBSET Flag
    BY DEF Flag
  <2> HIDE DEF F
  <2> QED
    BY <1>1, <1>8, <2>1, <2>2, HoldsEnd
<1>17. Counts(c, CloseStreamIfShutRdWr(SetFlags(d, s, F), s), {}, G)
  BY <1>15, <1>16, CountsThen
<1> QED
  BY <1>4, <1>15, <1>17 DEF G

\* Any frame.
LEMMA RecvCounts ==
  ASSUME NEW c, Fit(c), c.rd = Idle, c.err = "NONE", NEW f \in PlainFrame,
         Recv(c, f).err = "NONE"
  PROVE  Counts(c, Recv(c, f), {}, {f})
<1> DEFINE d == Recv(c, f)
<1>1. Good(c) /\ Sound(c) /\ Plain(c) /\ c \in ConnType
  BY DEF Fit, Good
<1>2. RecvError(c, f) = "NONE" /\ d = RecvAccepted(c, f)
  BY <1>1, RecvPlain
<1>3. /\ f \in PeerFrame
      /\ f.t \in {"STREAM", "RESET_STREAM", "MAX_DATA", "MAX_STREAMS",
                  "DATA_BLOCKED", "STREAM_DATA_BLOCKED"}
      /\ f.t = "RESET_STREAM" => f.id \in StreamIds
  BY PlainFrameView
<1>4. Kept(c, d)
  BY <1>1, <1>3, RecvSound
<1> HIDE DEF d
<1>5. CASE f.t = "STREAM"
  <2>1. RecvStreamError(c, f) = "NONE" /\ d = RecvStream(c, f)
    BY <1>2, <1>5 DEF RecvError, RecvAccepted
  <2> QED
    BY <1>5, <2>1, StreamCounts DEF d
<1>6. CASE f.t = "RESET_STREAM"
  <2> DEFINE s == f.id
             F == {"SHUT_RD", "RESET_STREAM_RECVED"}
             b == FindOrOpen(c, s)
             e == CloseStreamIfShutRdWr(SetFlags(b, s, F), s)
  <2>1. RecvResetStreamError(c, f) = "NONE" /\ d = RecvResetStream(c, f)
    BY <1>2, <1>6 DEF RecvError, RecvAccepted
  <2>2. StreamIdError(c, s, "recv") = "NONE" /\ ~Closed(c, s)
    BY <2>1 DEF RecvResetStreamError
  <2>3. Holds(c, b) /\ Good(b) /\ Used(b, s) /\ s \in StreamIds
    BY <1>3, <1>6, <2>2, FoundHolds
  <2>4. d = e
    BY <2>1 DEF RecvResetStream
  <2>5. F \in SUBSET Flag
    BY DEF Flag
  <2> HIDE DEF b, F
  <2>6. Holds(b, e)
    BY <2>3, <2>5, HoldsEnd
  <2>7. Holds(c, d)
    BY <2>3, <2>4, <2>6, HoldsOrder
  <2> QED
    BY <1>1, <1>6, <2>7, HoldsCounts DEF d
<1>7. CASE f.t \in {"MAX_DATA", "MAX_STREAMS", "DATA_BLOCKED", "STREAM_DATA_BLOCKED"}
  <2>1. d = c \/ d = RecvMaxData(c, f) \/ d = RecvMaxStreams(c, f)
    BY <1>2, <1>7 DEF RecvAccepted
  <2>2. d.strm = c.strm /\ d.txOff = c.txOff /\ d.rxOff = c.rxOff
    BY <1>1, <2>1 DEF ConnType, RecvMaxData, RecvMaxStreams
  <2>3. Holds(c, d)
    BY <1>4, <2>2, HoldsSame
  <2> QED
    BY <1>1, <1>7, <2>3, HoldsCounts DEF d
<1> QED
  BY <1>3, <1>5, <1>6, <1>7

\* conn_recv_stream_data.
LEMMA PayloadHolds ==
  ASSUME NEW c, Fit(c), NEW n \in 1..c.rd.left
  PROVE  Holds(c, RecvStreamData(c, n))
<1> DEFINE s == c.rd.id
           d == [c EXCEPT !.rd = Rest(@, n)]
           F == {"SHUT_RD"}
<1>1. Good(c) /\ Sound(c) /\ Plain(c) /\ c \in ConnType /\ PayloadOpen(c)
  BY DEF Fit, Good, Sound, SoundBut
<1>2. c.rd # Idle
  BY DEF Idle
<1>3. s \in StreamIds /\ s \in c.live
  BY <1>1, <1>2, PayloadId
<1>4. "STOP_SENDING" \notin c.strm[s].flags
  BY <1>1, <1>3 DEF Plain, PlainStrm
<1>5. RecvStreamData(c, n) = IF c.rd.fin /\ n = c.rd.left
                               THEN CloseStreamIfShutRdWr(SetFlags(d, s, F), s) ELSE d
  BY <1>4 DEF RecvStreamData
<1>6. c.rd \in [id : StreamIds, left : 1..MaxVarint, fin : BOOLEAN]
  BY <1>1, <1>2, Fields
<1>7. Rest(c.rd, n) \in {Idle} \cup [id : StreamIds, left : 1..MaxVarint, fin : BOOLEAN]
  BY <1>6, RestType
<1>8. Good(d)
  BY <1>1, <1>7, PayloadGood
<1>9. Touches(c, d, s) /\ d.txOff = c.txOff /\ d.rxOff = c.rxOff /\ SameCount(c, d, s)
  BY <1>1 DEF ConnType, Touches, SameLimits, SameCount
<1> HIDE DEF d
<1>10. Holds(c, d)
  BY <1>3, <1>9, HoldsTouch
<1>11. Used(d, s)
  <2>1. Used(c, s)
    BY <1>1, <1>3 DEF Sound, SoundBut, WithinStreamLimits
  <2> QED
    BY <1>3, <1>10, <2>1, KeptSides DEF Holds
<1>12. F \in SUBSET Flag
  BY DEF Flag
<1> HIDE DEF F
<1>13. Holds(d, CloseStreamIfShutRdWr(SetFlags(d, s, F), s))
  BY <1>3, <1>8, <1>11, <1>12, HoldsEnd
<1>14. Holds(c, CloseStreamIfShutRdWr(SetFlags(d, s, F), s))
  BY <1>10, <1>13, HoldsOrder
<1> QED
  BY <1>5, <1>10, <1>14

\* conn_recv_transport_params.
LEMMA LiftHolds ==
  ASSUME NEW c, Fit(c), NEW m, NEW n, Below(c, m, n)
  PROVE  Holds(c, Lift(c, m, n))
<1>1. Kept(c, Lift(c, m, n)) /\ c \in ConnType
  BY LiftFit DEF Fit, Good
<1>2. Lift(c, m, n).txOff = c.txOff /\ Lift(c, m, n).rxOff = c.rxOff
  BY <1>1, LiftView
<1>3. \A s \in StreamIds : SameCount(c, Lift(c, m, n), s)
  <2> TAKE s \in StreamIds
  <2>1. c.strm[s] \in StrmType
    BY <1>1 DEF ConnType
  <2>2. LimitsType(m, n)
    BY BelowType
  <2>3. Lift(c, m, n).strm[s] = Windowed(c.strm[s], InitialMaxTx(c.role, s))
    BY <1>1, <2>2, LiftType
  <2> QED
    BY <2>1, <2>3, WindowedView DEF SameCount
<1> QED
  BY <1>1, <1>2, <1>3 DEF Holds


-----------------------------------------------------------------------------
(* What both sides have counted                                            *)

\* What p counts as sent is what c counts as received and what is on its way,
\* in all and on every stream that neither has freed.
Carried(c, p, u) ==
  /\ Solo(u)
  /\ p.txOff = c.rxOff + BytesIn(u, StreamIds)
  /\ \A s \in StreamIds : ~Gone(p, s) /\ ~Gone(c, s) =>
       p.strm[s].txOff = c.strm[s].rxLast + BytesIn(u, {s})

\* The bytes of frames on their way.
LEMMA BytesInType ==
  ASSUME NEW u \in Seq(SUBSET Frame), NEW S
  PROVE  BytesIn(u, S) \in Nat
<1>1. BytesUpTo(u, S) \in [0..Len(u) -> Nat] /\ Len(u) \in 0..Len(u)
  BY BytesUpToIs
<1> QED
  BY <1>1 DEF BytesIn

\* The numbers that are compared.
LEMMA CountsType ==
  ASSUME NEW c, Good(c)
  PROVE  /\ c.txOff \in Nat /\ c.rxOff \in Nat
         /\ \A s \in StreamIds : c.strm[s].txOff \in Nat /\ c.strm[s].rxLast \in Nat
<1>1. c.txOff \in Nat /\ c.rxOff \in Nat
  BY Numbers
<1>2. ASSUME NEW s \in StreamIds PROVE c.strm[s].txOff \in Nat /\ c.strm[s].rxLast \in Nat
  BY Numbers
<1> QED
  BY <1>1, <1>2

\* The bytes of F that p sends are on their way.
LEMMA CarriedSent ==
  ASSUME NEW c, Good(c), NEW p, Good(p), NEW u \in Seq(SUBSET Frame), Carried(c, p, u),
         NEW F \in SUBSET Frame, \A f \in F : f.t = "STREAM" => F = {f},
         NEW q, Counts(p, q, F, {})
  PROVE  Carried(c, q, Batch(u, F))
<1>1. Solo(Batch(u, F))
  BY SoloKept DEF Carried
<1>2. ASSUME NEW S
      PROVE  /\ BytesIn(Batch(u, F), S) = BytesIn(u, S) + BytesOf(F, S)
             /\ BytesIn(u, S) \in Nat /\ BytesOf(F, S) \in Nat
  <2>1. BytesIn(Batch(u, F), S) = BytesIn(u, S) + BytesOf(F, S)
    BY BatchSums
  <2>2. BytesIn(u, S) \in Nat
    BY BytesInType
  <2>3. BytesOf(F, S) \in Nat
    BY BytesOfIs
  <2> QED
    BY <2>1, <2>2, <2>3
<1>3. q.txOff = c.rxOff + BytesIn(Batch(u, F), StreamIds)
  <2>1. /\ BytesIn(Batch(u, F), StreamIds) = BytesIn(u, StreamIds) + BytesOf(F, StreamIds)
        /\ BytesIn(u, StreamIds) \in Nat /\ BytesOf(F, StreamIds) \in Nat
    BY <1>2
  <2>2. p.txOff = c.rxOff + BytesIn(u, StreamIds) /\ q.txOff = p.txOff + BytesOf(F, StreamIds)
    BY DEF Carried, Counts
  <2>3. c.rxOff \in Nat
    BY CountsType
  <2> QED
    BY ONLY <2>1, <2>2, <2>3
<1>4. ASSUME NEW s \in StreamIds, ~Gone(q, s), ~Gone(c, s)
      PROVE  q.strm[s].txOff = c.strm[s].rxLast + BytesIn(Batch(u, F), {s})
  <2>1. /\ BytesIn(Batch(u, F), {s}) = BytesIn(u, {s}) + BytesOf(F, {s})
        /\ BytesIn(u, {s}) \in Nat /\ BytesOf(F, {s}) \in Nat
    BY <1>2
  <2>2. ~Gone(p, s)
    BY <1>4, KeptSides DEF Counts
  <2>3. /\ p.strm[s].txOff = c.strm[s].rxLast + BytesIn(u, {s})
        /\ q.strm[s].txOff = p.strm[s].txOff + BytesOf(F, {s})
    BY <1>4, <2>2 DEF Carried, Counts
  <2>4. c.strm[s].rxLast \in Nat
    BY CountsType
  <2> QED
    BY ONLY <2>1, <2>3, <2>4
<1> QED
  BY <1>1, <1>3, <1>4 DEF Carried

\* A call of the reader that reads nothing.
LEMMA CarriedKept ==
  ASSUME NEW c, Good(c), NEW p, NEW u, Carried(c, p, u), NEW F, NEW d, Counts(c, d, F, {})
  PROVE  Carried(d, p, u)
<1>1. \A S : BytesOf({}, S) = 0
  BY BytesOfIs
<1>2. d.rxOff = c.rxOff
  <2>1. d.rxOff = c.rxOff + BytesOf({}, StreamIds) /\ BytesOf({}, StreamIds) = 0
    BY <1>1 DEF Counts
  <2>2. c.rxOff \in Nat
    BY CountsType
  <2> QED
    BY ONLY <2>1, <2>2
<1>3. ASSUME NEW s \in StreamIds, ~Gone(d, s)
      PROVE  ~Gone(c, s) /\ d.strm[s].rxLast = c.strm[s].rxLast
  <2>1. ~Gone(c, s)
    BY <1>3, KeptSides DEF Counts
  <2>2. d.strm[s].rxLast = c.strm[s].rxLast + BytesOf({}, {s}) /\ BytesOf({}, {s}) = 0
    BY <1>1, <1>3 DEF Counts
  <2>3. c.strm[s].rxLast \in Nat
    BY CountsType
  <2> QED
    BY ONLY <2>1, <2>2, <2>3
<1> QED
  BY <1>2, <1>3 DEF Carried

\* A call of the writer that sends nothing.
LEMMA CarriedSame ==
  ASSUME NEW c, NEW p, Good(p), NEW u, Carried(c, p, u), NEW G, NEW q, Counts(p, q, {}, G)
  PROVE  Carried(c, q, u)
<1>1. \A S : BytesOf({}, S) = 0
  BY BytesOfIs
<1>2. q.txOff = p.txOff
  <2>1. q.txOff = p.txOff + BytesOf({}, StreamIds) /\ BytesOf({}, StreamIds) = 0
    BY <1>1 DEF Counts
  <2>2. p.txOff \in Nat
    BY CountsType
  <2> QED
    BY ONLY <2>1, <2>2
<1>3. ASSUME NEW s \in StreamIds, ~Gone(q, s)
      PROVE  ~Gone(p, s) /\ q.strm[s].txOff = p.strm[s].txOff
  <2>1. ~Gone(p, s)
    BY <1>3, KeptSides DEF Counts
  <2>2. q.strm[s].txOff = p.strm[s].txOff + BytesOf({}, {s}) /\ BytesOf({}, {s}) = 0
    BY <1>1, <1>3 DEF Counts
  <2>3. p.strm[s].txOff \in Nat
    BY CountsType
  <2> QED
    BY ONLY <2>1, <2>2, <2>3
<1> QED
  BY <1>2, <1>3 DEF Carried

\* The bytes of a frame that is read are on their way no more.
LEMMA CarriedRead ==
  ASSUME NEW c, Good(c), NEW p, NEW u \in Seq(SUBSET Frame), Carried(c, p, u),
         u # << >>, NEW f \in Head(u), NEW d, Counts(c, d, {}, {f})
  PROVE  Carried(d, p, After(u, f))
<1>1. Solo(u) /\ Solo(After(u, f))
  BY SoloKept DEF Carried
<1>2. After(u, f) \in Seq(SUBSET Frame)
  BY AfterView
<1>3. ASSUME NEW S
      PROVE  /\ BytesIn(After(u, f), S) + BytesOf({f}, S) = BytesIn(u, S)
             /\ BytesIn(After(u, f), S) \in Nat /\ BytesOf({f}, S) \in Nat
  BY <1>1, <1>2, AfterSums, BytesInType
<1>4. p.txOff = d.rxOff + BytesIn(After(u, f), StreamIds)
  <2>1. /\ BytesIn(After(u, f), StreamIds) + BytesOf({f}, StreamIds) = BytesIn(u, StreamIds)
        /\ BytesIn(After(u, f), StreamIds) \in Nat /\ BytesOf({f}, StreamIds) \in Nat
    BY <1>3
  <2>2. p.txOff = c.rxOff + BytesIn(u, StreamIds) /\ d.rxOff = c.rxOff + BytesOf({f}, StreamIds)
    BY DEF Carried, Counts
  <2>3. c.rxOff \in Nat
    BY CountsType
  <2> QED
    BY ONLY <2>1, <2>2, <2>3
<1>5. ASSUME NEW s \in StreamIds, ~Gone(p, s), ~Gone(d, s)
      PROVE  p.strm[s].txOff = d.strm[s].rxLast + BytesIn(After(u, f), {s})
  <2>1. /\ BytesIn(After(u, f), {s}) + BytesOf({f}, {s}) = BytesIn(u, {s})
        /\ BytesIn(After(u, f), {s}) \in Nat /\ BytesOf({f}, {s}) \in Nat
    BY <1>3
  <2>2. ~Gone(c, s)
    BY <1>5, KeptSides DEF Counts
  <2>3. /\ p.strm[s].txOff = c.strm[s].rxLast + BytesIn(u, {s})
        /\ d.strm[s].rxLast = c.strm[s].rxLast + BytesOf({f}, {s})
    BY <1>5, <2>2 DEF Carried, Counts
  <2>4. c.strm[s].rxLast \in Nat
    BY CountsType
  <2> QED
    BY ONLY <2>1, <2>3, <2>4
<1> QED
  BY <1>1, <1>4, <1>5 DEF Carried

\* Two connections that count the same, either way.
Both(c, p, u, v) ==
  /\ Good(c) /\ Good(p) /\ u \in Seq(SUBSET Frame) /\ v \in Seq(SUBSET Frame)
  /\ Carried(c, p, u) /\ Carried(p, c, v)

\* One side sends F.
LEMMA BothSent ==
  ASSUME NEW c, NEW p, NEW u, NEW v, Both(c, p, u, v), NEW d, Good(d),
         NEW F \in SUBSET Frame, \A f \in F : f.t = "STREAM" => F = {f}, Counts(c, d, F, {})
  PROVE  Both(d, p, u, Batch(v, F))
<1>1. Carried(d, p, u)
  BY CarriedKept DEF Both
<1>2. Carried(p, d, Batch(v, F))
  BY CarriedSent DEF Both
<1>3. Batch(v, F) \in Seq(SUBSET Frame)
  BY BatchType DEF Both
<1> QED
  BY <1>1, <1>2, <1>3 DEF Both

\* One side does nothing that counts.
LEMMA BothHeld ==
  ASSUME NEW c, NEW p, NEW u, NEW v, Both(c, p, u, v), NEW d, Good(d), Holds(c, d)
  PROVE  Both(d, p, u, v)
<1>1. Counts(c, d, {}, {})
  BY HoldsCounts DEF Both
<1>2. Carried(d, p, u)
  BY <1>1, CarriedKept DEF Both
<1>3. Carried(p, d, v)
  BY <1>1, CarriedSame DEF Both
<1> QED
  BY <1>2, <1>3 DEF Both

\* Frames without data are sent.
LEMMA BothMore ==
  ASSUME NEW c, NEW p, NEW u, NEW v, Both(c, p, u, v), NEW d, Good(d), Holds(c, d),
         NEW F \in SUBSET Frame, \A f \in F : f.t # "STREAM"
  PROVE  Both(d, p, u, Batch(v, F))
<1>1. Counts(c, d, F, {})
  BY HoldsCounts DEF Both
<1> QED
  BY <1>1, BothSent

\* One side reads a frame.
LEMMA BothRead ==
  ASSUME NEW c, NEW p, NEW u, NEW v, Both(c, p, u, v), NEW d, Good(d),
         u # << >>, NEW f \in Head(u), Counts(c, d, {}, {f})
  PROVE  Both(d, p, After(u, f), v)
<1>1. Carried(d, p, After(u, f))
  BY CarriedRead DEF Both
<1>2. Carried(p, d, v)
  BY CarriedSame DEF Both
<1>3. After(u, f) \in Seq(SUBSET Frame)
  BY AfterView DEF Both
<1> QED
  BY <1>1, <1>2, <1>3 DEF Both

\* A record is started with the control frames.
LEMMA BothCtrl ==
  ASSUME NEW c, Fit(c), NEW p, NEW u, NEW w, Both(c, p, u, w)
  PROVE  Both(WithCtrl(c), p, u, Said(w, WithCtrl(c)))
<1> DEFINE d == WithCtrl(c)
           out == CtrlFrames(c)
           z == << >>
<1>1. d.qre.frames = Batch(z, out)
  BY CtrlOwn
<1>2. /\ out \in SUBSET PlainFrame
      /\ \A f \in out : f.t \in {"RESET_STREAM", "MAX_DATA", "MAX_STREAMS"}
  BY CtrlView
<1>3. out \in SUBSET Frame /\ \A f \in out : f.t # "STREAM"
  BY <1>2 DEF PlainFrame
<1>4. Good(d) /\ Holds(c, d)
  BY CtrlOwn, CtrlHolds DEF OwnStep, Fit
<1>5. w \in Seq(SUBSET Frame) /\ z \in Seq(SUBSET Frame)
  BY DEF Both
<1> HIDE DEF d, out
<1>6. Both(d, p, u, Batch(w, out))
  BY <1>3, <1>4, BothMore
<1>7. Said(w, d) = Batch(w, out)
  <2>1. w \o Batch(z, out) = Batch(w \o z, out)
    BY <1>3, <1>5, AddedLast
  <2>2. w \o z = w
    BY <1>5
  <2> QED
    BY <1>1, <2>1, <2>2 DEF Said
<1> QED
  BY <1>6, <1>7 DEF d

\* A STREAM frame is added to it.
LEMMA BothFrame ==
  ASSUME NEW c, Fit(c), NEW p, NEW u, NEW w \in Seq(SUBSET Frame),
         c.qre.frames \in Seq(SUBSET Frame), Both(c, p, u, Said(w, c)),
         NEW s \in StreamIds, s \in c.live, NEW len \in Nat, NEW k \in Nat, k <= FcCredits(c, s),
         NEW fin \in BOOLEAN, NEW d, d = WriteData(c, s, len, k, fin)
  PROVE  /\ Both(d, p, u, Said(w, d)) /\ Fit(d) /\ d.qre.frames \in Seq(SUBSET Frame)
         /\ k # len => s \in d.live
<1> DEFINE F == {StreamFr(s, c.strm[s].txOff, k, fin /\ k = len)}
<1>1. /\ OwnStep(c, d) /\ F \in SUBSET PlainFrame
      /\ d.qre.frames = Append(c.qre.frames, F)
      /\ k # len => d.live = c.live
  <2>1. /\ OwnStep(c, WriteData(c, s, len, k, fin)) /\ F \in SUBSET PlainFrame
        /\ WriteData(c, s, len, k, fin).qre.frames = Append(c.qre.frames, F)
        /\ k # len => WriteData(c, s, len, k, fin).live = c.live
    BY ONLY Fit(c), s \in StreamIds, s \in c.live, len \in Nat, k \in Nat,
            k <= FcCredits(c, s), fin \in BOOLEAN, DataOwn
  <2> QED
    BY ONLY <2>1, d = WriteData(c, s, len, k, fin)
<1>2. Counts(c, d, F, {})
  BY DataCounts
<1>3. \A f \in F : f.t = "STREAM" => F = {f}
  OBVIOUS
<1>4. F # {}
  OBVIOUS
<1> HIDE DEF F
<1>5. F \in SUBSET Frame
  BY <1>1 DEF PlainFrame
<1>6. Fit(d) /\ Good(d)
  BY <1>1 DEF OwnStep, Fit
<1>7. Both(d, p, u, Batch(Said(w, c), F))
  BY <1>2, <1>3, <1>5, <1>6, BothSent
<1>8. d.qre.frames = Batch(c.qre.frames, F)
  BY <1>1, <1>4 DEF Batch
<1>9. Said(w, d) = Batch(Said(w, c), F) /\ d.qre.frames \in Seq(SUBSET Frame)
  BY <1>5, <1>8, SaidMore
<1> QED
  BY <1>1, <1>6, <1>7, <1>9

\* What a stream could not send is reported in it.
LEMMA BothBlocked ==
  ASSUME NEW c, Fit(c), NEW p, NEW u, NEW w \in Seq(SUBSET Frame),
         c.qre.frames \in Seq(SUBSET Frame), Both(c, p, u, Said(w, c)),
         NEW s \in StreamIds, s \in c.live,
         NEW d, d = ReportBlocked(c, s, BlockedReports(c, s))
  PROVE  Both(d, p, u, Said(w, d))
<1> DEFINE out == BlockedReports(c, s)
<1>1. OwnStep(c, d) /\ out \in SUBSET PlainFrame /\ d.qre.frames = Batch(c.qre.frames, out)
  BY ReportOwn
<1>2. \A f \in out : f.t # "STREAM"
  BY DEF BlockedReports, DataBlockedFrames, StreamDataBlockedFrames, DataBlockedFr,
         StreamDataBlockedFr
<1>3. Holds(c, d)
  BY ReportHolds
<1> HIDE DEF out
<1>4. out \in SUBSET Frame
  BY <1>1 DEF PlainFrame
<1>5. Good(d)
  BY <1>1 DEF OwnStep, Fit
<1>6. Both(d, p, u, Batch(Said(w, c), out))
  BY <1>2, <1>3, <1>4, <1>5, BothMore
<1>7. Said(w, d) = Batch(Said(w, c), out)
  BY <1>1, <1>4, SaidMore
<1> QED
  BY <1>6, <1>7

\* dwnx_conn_writev_stream.
LEMMA BothData ==
  ASSUME NEW c, Fit(c), NEW p, NEW u, NEW w \in Seq(SUBSET Frame),
         c.qre.frames \in Seq(SUBSET Frame), Both(c, p, u, Said(w, c)),
         NEW s \in StreamIds, s \in c.live, NEW len \in Nat, NEW fin \in BOOLEAN,
         NEW d, d = WithData(c, s, len, fin)
  PROVE  Both(d, p, u, Said(w, d))
<1> DEFINE k == Lesser(len, FcCredits(c, s))
           e == WriteData(c, s, len, k, fin)
<1>1. FcCredits(c, s) \in Nat
  <2>1. /\ c.txMax \in Nat /\ c.txOff \in Nat /\ c.txOff <= c.txMax
        /\ c.strm[s].txMax \in Nat /\ c.strm[s].txOff \in Nat
        /\ c.strm[s].txOff <= c.strm[s].txMax
    BY Numbers DEF Fit
  <2> QED
    BY ONLY <2>1 DEF FcCredits, Lesser
<1>2. k \in Nat /\ k <= FcCredits(c, s)
  BY <1>1 DEF Lesser
<1>3. d = IF k = len THEN e
          ELSE IF k = 0 THEN ReportBlocked(c, s, BlockedReports(c, s))
          ELSE ReportBlocked(e, s, BlockedReports(e, s))
  BY DEF WithData
<1> HIDE DEF k
<1>4. e = WriteData(c, s, len, k, fin)
  OBVIOUS
<1> HIDE DEF e
<1>5. /\ Both(e, p, u, Said(w, e)) /\ Fit(e) /\ e.qre.frames \in Seq(SUBSET Frame)
      /\ k # len => s \in e.live
  BY <1>2, <1>4, BothFrame
<1>6. CASE k = len
  BY <1>3, <1>5, <1>6
<1>7. CASE k # len /\ k = 0
  <2>1. d = ReportBlocked(c, s, BlockedReports(c, s))
    BY <1>3, <1>7
  <2> QED
    BY <2>1, BothBlocked
<1>8. CASE k # len /\ k # 0
  <2>1. d = ReportBlocked(e, s, BlockedReports(e, s))
    BY <1>3, <1>8
  <2> QED
    BY <1>5, <1>8, <2>1, BothBlocked
<1> QED
  BY <1>6, <1>7, <1>8

-----------------------------------------------------------------------------
(* Both endpoints count the same                                           *)

Counted(e) == Both(conn[e], conn[Peer(e)], Flow(e), Flow(Peer(e)))

CountInv == NoConnectionError => \A e \in Ends : Counted(e)

\* A step of e, seen from both ends.
LEMMA CountedStep ==
  ASSUME Ends = Role, CountInv, NEW e \in Ends,
         conn[e].err = "NONE", conn'[Peer(e)] = conn[Peer(e)],
         Counted(e) /\ conn'[e].err = "NONE"
           => Both(conn'[e], conn[Peer(e)], Flow(e)', Flow(Peer(e))')
  PROVE  CountInv'
<1> SUFFICES ASSUME NoConnectionError'
             PROVE  \A g \in Ends : Counted(g)'
  BY DEF CountInv
<1>1. Peer(e) \in Ends /\ Peer(Peer(e)) = e /\ \A g \in Ends : g \in {e, Peer(e)}
  BY BothEnds
<1>2. NoConnectionError
  BY <1>1 DEF NoConnectionError
<1>3. Both(conn'[e], conn[Peer(e)], Flow(e)', Flow(Peer(e))')
  BY <1>1, <1>2 DEF CountInv, NoConnectionError
<1>4. Counted(e)'
  BY <1>3 DEF Counted, Peer
<1>5. Counted(Peer(e))'
  BY <1>1, <1>3 DEF Counted, Both, Peer
<1> QED
  BY <1>1, <1>4, <1>5

\* One in which nothing is counted.
LEMMA HeldStep ==
  ASSUME Ends = Role, StartInv, CountInv, NEW e \in Ends, conn[e].err = "NONE",
         NEW d, conn' = [conn EXCEPT ![e] = d], Fit(d), Holds(conn[e], d),
         UNCHANGED <<wire, flags, early, tls, told>>
  PROVE  CountInv'
<1>1. /\ conn'[e] = d /\ conn'[Peer(e)] = conn[Peer(e)]
      /\ Flow(e)' = Flow(e) /\ Flow(Peer(e))' = Flow(Peer(e))
  BY BothEnds DEF StartInv, Handshake, Seen, Flow, Introduced
<1>2. ASSUME Counted(e)
      PROVE  Both(d, conn[Peer(e)], Flow(e), Flow(Peer(e)))
  <2>1. Good(d)
    BY DEF Fit
  <2> QED
    BY <1>2, <2>1, BothHeld DEF Counted
<1> QED
  BY <1>1, <1>2, CountedStep

\* Shutting down streams and extending windows.
LEMMA EarlyCallCounted ==
  ASSUME Ends = Role, StartInv, CountInv, NEW e \in Ends, EarlyCall(e)
  PROVE  CountInv'
<1> DEFINE c == conn[e]
<1>1. Fit(c) /\ c.err = "NONE"
  BY DEF StartInv, Own, EarlyCall, ShutdownWrite, ExtendConn, ExtendStreams, Running
<1>2. /\ UNCHANGED <<wire, flags, early, tls, told>>
      /\ \/ \E s \in StreamIds : conn' = [conn EXCEPT ![e] = ShutdownStreamWrite(c, s)]
         \/ \E k \in 1..MaxExtend : conn' = [conn EXCEPT ![e] = ExtendMaxOffset(c, k)]
         \/ \E i \in Direction : conn' = [conn EXCEPT ![e] = ExtendMaxStreams(c, i, 1)]
  BY DEF EarlyCall, ShutdownWrite, ExtendConn, ExtendStreams
<1> SUFFICES ASSUME NEW d, conn' = [conn EXCEPT ![e] = d], Fit(d), Holds(c, d)
             PROVE  CountInv'
  <2>1. \A s \in StreamIds : Fit(ShutdownStreamWrite(c, s)) /\ Holds(c, ShutdownStreamWrite(c, s))
    BY <1>1, ShutdownOwn, ShutdownHolds DEF OwnStep
  <2>2. \A k \in 1..MaxExtend : Fit(ExtendMaxOffset(c, k)) /\ Holds(c, ExtendMaxOffset(c, k))
    <3> TAKE k \in 1..MaxExtend
    <3>1. k \in Nat /\ "bidi" \in Direction
      BY DEF Direction
    <3> QED
      BY <1>1, <3>1, ExtendOwn, ExtendHolds DEF OwnStep
  <2>3. \A i \in Direction : Fit(ExtendMaxStreams(c, i, 1)) /\ Holds(c, ExtendMaxStreams(c, i, 1))
    <3>1. 1 \in Nat
      OBVIOUS
    <3> QED
      BY <1>1, <3>1, ExtendOwn, ExtendHolds DEF OwnStep
  <2> HIDE DEF c
  <2> QED
    BY <1>2, <2>1, <2>2, <2>3
<1> QED
  BY <1>1, <1>2, HeldStep DEF c

\* dwnx_conn_open_bidi_stream and its sibling.
LEMMA OpenCounted ==
  ASSUME Ends = Role, StartInv, CountInv, NEW e \in Ends, NEW i \in Direction, OpenLocal(e, i)
  PROVE  CountInv'
<1> DEFINE c == conn[e]
           q == RemoteParams(e)
           d == OpenUnder(c, i, q)
<1>1. /\ c.next[i] \in StreamIds /\ StreamsLeft(c, i) /\ conn' = [conn EXCEPT ![e] = d]
      /\ UNCHANGED <<wire, flags, early, tls, told>> /\ Fit(c) /\ c.err = "NONE"
  BY DEF OpenLocal, Running, StartInv, Own
<1>2. q \in ParamsType
  BY RoleParams DEF RemoteParams, Peer, StartInv, Handshake
<1> HIDE DEF q, c
<1>3. Fit(d)
  BY <1>1, <1>2, OpenOwn
<1>4. Holds(c, d)
  BY <1>1, <1>2, OpenHolds
<1> HIDE DEF d
<1> QED
  BY <1>1, <1>3, <1>4, HeldStep DEF c

\* Limits are loaded.
LEMMA LimitsHold ==
  ASSUME NEW c, NEW p
  PROVE  Good(c) => Holds(c, WithLimits(c, p))
<1> SUFFICES ASSUME Good(c) PROVE Holds(c, WithLimits(c, p))
  OBVIOUS
<1>1. c \in ConnType
  BY DEF Good
<1>2. /\ WithLimits(c, p).role = c.role /\ WithLimits(c, p).live = c.live
      /\ WithLimits(c, p).idtr = c.idtr /\ WithLimits(c, p).next = c.next
      /\ WithLimits(c, p).strm = c.strm /\ WithLimits(c, p).txOff = c.txOff
      /\ WithLimits(c, p).rxOff = c.rxOff
  BY <1>1 DEF WithLimits, ConnType
<1>3. Kept(c, WithLimits(c, p))
  BY <1>2, KeptOrder DEF Kept, Used, LocalStream
<1> QED
  BY <1>2, <1>3, HoldsSame

\* The client loads what it remembers.
LEMMA SetEarlyCounted ==
  ASSUME Ends = Role, StartInv, CountInv, SetEarlyParams
  PROVE  CountInv'
<1> DEFINE c == conn[0]
           d == WithLimits(c, early)
<1>1. /\ conn' = [conn EXCEPT ![0] = d]
      /\ flags' = [flags EXCEPT ![0] = @ \cup {"EARLY_SET"}]
      /\ UNCHANGED <<wire, early, tls, told>>
  BY DEF SetEarlyParams
<1>2. 0 \in Ends /\ 1 \in Ends /\ Peer(0) = 1 /\ Peer(1) = 0
  BY TheEnds
<1>3. Good(c) /\ c \in ConnType
  BY <1>2 DEF StartInv, Own, Fit, Good
<1>4. /\ conn'[0] = d /\ conn'[1] = conn[1]
      /\ Flow(0)' = Flow(0) /\ Flow(1)' = Flow(1)
  BY <1>1, <1>2 DEF StartInv, Handshake, Seen, Flow, Introduced
<1>5. d.err = c.err
  BY <1>3 DEF WithLimits, ConnType
<1>6. Holds(c, d)
  BY <1>3, LimitsHold
<1>7. CASE c.err # "NONE"
  <2>1. ~NoConnectionError'
    BY <1>2, <1>4, <1>5, <1>7 DEF NoConnectionError
  <2> QED
    BY <2>1 DEF CountInv
<1>8. CASE c.err = "NONE"
  <2>1. ASSUME Counted(0)
        PROVE  Both(d, conn[1], Flow(0), Flow(1))
    <3>1. Both(c, conn[1], Flow(0), Flow(1))
      BY <1>2, <2>1 DEF Counted
    <3>2. Good(d)
      BY <1>2, <1>4, SetEarlyStart DEF StartInv, Own, Fit
    <3> HIDE DEF c, d
    <3> QED
      BY <1>6, <3>1, <3>2, BothHeld
  <2> QED
    BY <1>2, <1>4, <1>8, <2>1, CountedStep
<1> QED
  BY <1>7, <1>8

\* The frames that begin a record.
LEMMA CtrlRecord ==
  ASSUME NEW c, Fit(c)
  PROVE  WithCtrl(c).qre.frames \in Seq(SUBSET Frame)
<1> DEFINE out == CtrlFrames(c)
           z == << >>
<1>1. out \in SUBSET PlainFrame
  BY CtrlView
<1>2. WithCtrl(c).qre.frames = Batch(z, out)
  BY CtrlOwn
<1>3. z \in Seq(SUBSET Frame) /\ out \in SUBSET Frame
  BY <1>1 DEF PlainFrame
<1> HIDE DEF out, z
<1> QED
  BY <1>2, <1>3, BatchType

\* A record that is handed to TLS.
LEMMA TransmitCounted ==
  ASSUME Ends = Role, StartInv, CountInv, NEW e \in Ends, conn[e].err = "NONE",
         NEW c, OwnStep(conn[e], c), c.qre.frames \in Seq(SUBSET PlainFrame), Transmit(e, c),
         e = 1 /\ ~Seen(1) => FinishRecord(c) = Fresh(1) /\ c.qre.frames = << >>,
         Counted(e) => Both(c, conn[Peer(e)], Flow(e), Said(Flow(Peer(e)), c))
  PROVE  CountInv'
<1> DEFINE d == FinishRecord(c)
           p == conn[Peer(e)]
           u == Flow(e)
           v == Said(Flow(Peer(e)), c)
<1>1. /\ Flow(e)' = u /\ Flow(Peer(e))' = v
      /\ conn'[e] = d /\ conn'[Peer(e)] = conn[Peer(e)]
  BY TransmitStart DEF Said
<1>2. Fit(c) /\ Fit(d) /\ Good(d)
  <2>1. Fit(conn[e])
    BY DEF StartInv, Own
  <2>2. Fit(c)
    BY <2>1 DEF OwnStep
  <2> QED
    BY <2>2, FinishOwn DEF OwnStep, Fit
<1>3. Holds(c, d)
  BY <1>2, ReportHolds
<1> HIDE DEF d, p, u, v
<1>4. Counted(e) => Both(d, p, u, v)
  <2>1. Counted(e) => Both(c, p, u, v)
    BY DEF p, u, v
  <2> QED
    BY <1>2, <1>3, <2>1, BothHeld
<1> QED
  BY <1>1, <1>4, CountedStep DEF p

\* A record of control frames.
LEMMA WriteControlCounted ==
  ASSUME Ends = Role, StartInv, CountInv, NEW e \in Ends, WriteControl(e)
  PROVE  CountInv'
<1> DEFINE c == conn[e]
           d == WithCtrl(c)
           w == Flow(Peer(e))
           p == conn[Peer(e)]
           u == Flow(e)
<1>1. Own(c, e) /\ Fit(c) /\ Transmit(e, d) /\ c.err = "NONE"
  BY DEF StartInv, Own, WriteControl, MayStart, CanStartWrite, Running
<1>2. OwnStep(c, d) /\ d.qre.frames \in Seq(SUBSET PlainFrame)
  BY <1>1, CtrlOwn
<1>3. e = 1 /\ ~Seen(1) => FinishRecord(d) = Fresh(1) /\ d.qre.frames = << >>
  <2> SUFFICES ASSUME e = 1, ~Seen(1)
               PROVE  FinishRecord(d) = Fresh(1) /\ d.qre.frames = << >>
    OBVIOUS
  <2>1. c = Fresh(1) /\ 1 \in Role
    BY <1>1 DEF Own
  <2> HIDE DEF c
  <2> QED
    BY <2>1, FreshCtrl
<1>4. Counted(e) => Both(d, p, u, Said(w, d))
  <2>1. Counted(e) => Both(c, p, u, w)
    BY DEF Counted
  <2> HIDE DEF c, w, p, u
  <2> QED
    BY <1>1, <2>1, BothCtrl
<1> HIDE DEF d
<1>5. OwnStep(conn[e], d)
  BY <1>2
<1> QED
  BY <1>1, <1>2, <1>3, <1>4, <1>5, TransmitCounted

\* A record with data of the application.
LEMMA WriteLocalCounted ==
  ASSUME Ends = Role, StartInv, CountInv, NEW e \in Ends, NEW s \in StreamIds,
         NEW len \in 0..MaxWrite, NEW fin \in BOOLEAN, WriteLocal(e, s, len, fin)
  PROVE  CountInv'
<1> DEFINE c == conn[e]
           b == WithCtrl(c)
           d == WithData(b, s, len, fin)
           w == Flow(Peer(e))
           p == conn[Peer(e)]
           u == Flow(e)
<1>1. /\ Own(c, e) /\ Fit(c) /\ MayWrite(c, s, len, fin) /\ Transmit(e, d) /\ len \in Nat
      /\ c.err = "NONE"
  BY DEF StartInv, Own, WriteLocal, MayStart, CanStartWrite, Running
<1>2. OwnStep(c, b) /\ b.qre.frames \in Seq(SUBSET PlainFrame) /\ Fit(b)
  BY <1>1, CtrlOwn DEF OwnStep
<1>3. s \in c.live /\ s \in b.live
  BY <1>1, DataReached
<1>4. ~(e = 1 /\ ~Seen(1))
  <2> SUFFICES ASSUME e = 1, ~Seen(1) PROVE FALSE
    OBVIOUS
  <2>1. c = Fresh(1) /\ 1 \in Role
    BY <1>1 DEF Own
  <2> HIDE DEF c
  <2>2. c.live = {}
    BY <2>1, FreshFit
  <2> QED
    BY <1>3, <2>2
<1>5. b.qre.frames \in Seq(SUBSET Frame)
  BY <1>1, CtrlRecord
<1>6. Counted(e) => Both(c, p, u, w) /\ w \in Seq(SUBSET Frame)
  BY DEF Counted, Both
<1> HIDE DEF p, u, w
<1>7. Counted(e) => Both(b, p, u, Said(w, b))
  BY <1>1, <1>6, BothCtrl
<1> HIDE DEF b, c
<1>8. Counted(e) => Both(d, p, u, Said(w, d))
  <2>1. d = WithData(b, s, len, fin)
    OBVIOUS
  <2> HIDE DEF d
  <2> QED
    BY <1>1, <1>2, <1>3, <1>5, <1>6, <1>7, <2>1, BothData
<1>9. OwnStep(b, d) /\ d.qre.frames \in Seq(SUBSET PlainFrame)
  BY <1>1, <1>2, <1>3, WithDataOwn
<1> HIDE DEF d
<1>10. OwnStep(conn[e], d)
  BY <1>2, <1>9, OwnTwice DEF c
<1> QED
  BY <1>1, <1>4, <1>8, <1>9, <1>10, TransmitCounted DEF p, u, w, c

\* Transport parameters are read.
LEMMA ReadFirstCounted ==
  ASSUME Ends = Role, StartInv, CountInv, NEW e \in Ends, ReadFirst(e)
  PROVE  CountInv'
<1> DEFINE c == conn[e]
           q == Params[1 - e]
           d == conn'[e]
<1>1. /\ c.err = "NONE" /\ Fit(c)
      /\ \/ d = Fail(c, "PROTO")
         \/ d = Lift(c, q.maxData, q.streams) /\ Below(c, q.maxData, q.streams)
  BY ReadFirstView
<1>2. /\ Flow(e)' = Flow(e) /\ Flow(Peer(e))' = Flow(Peer(e))
      /\ conn'[Peer(e)] = conn[Peer(e)]
  BY ReadFirstStart
<1>3. c \in ConnType
  BY <1>1 DEF Fit, Good
<1> HIDE DEF c, d, q
<1>4. ASSUME Counted(e), d.err = "NONE"
      PROVE  Both(d, conn[Peer(e)], Flow(e), Flow(Peer(e)))
  <2>1. d = Lift(c, q.maxData, q.streams) /\ Below(c, q.maxData, q.streams)
    BY <1>1, <1>3, <1>4 DEF Fail, ConnType
  <2>2. Good(d) /\ Holds(c, d)
    BY <1>1, <2>1, LiftFit, LiftHolds DEF Fit
  <2>3. Both(c, conn[Peer(e)], Flow(e), Flow(Peer(e)))
    BY <1>4 DEF Counted, c
  <2> QED
    BY <2>2, <2>3, BothHeld
<1> QED
  BY <1>1, <1>2, <1>4, CountedStep DEF c, d

\* Another frame is read, or payload.
LEMMA ReadNextCounted ==
  ASSUME Ends = Role, StartInv, CountInv, NEW e \in Ends, ReadNext(e)
  PROVE  CountInv'
<1> DEFINE c == conn[e]
           p == conn[Peer(e)]
           u == Flow(e)
           v == Flow(Peer(e))
<1>1. /\ c.err = "NONE" /\ Fit(c) /\ u \in Seq(SUBSET PlainFrame)
      /\ UNCHANGED <<flags, early, tls, told>>
      /\ \/ \E n \in 1..c.rd.left : /\ conn' = [conn EXCEPT ![e] = RecvStreamData(c, n)]
                                    /\ wire' = [wire EXCEPT ![e] = u]
         \/ /\ c.rd = Idle /\ u # << >>
            /\ \E f \in Head(u) : /\ conn' = [conn EXCEPT ![e] = Recv(c, f)]
                                  /\ wire' = [wire EXCEPT ![e] = After(u, f)]
  BY ReadNextView
<1>2. Fit(conn'[e]) /\ Seen(e)
  BY ReadNextStart, ReadNextView DEF StartInv, Own
<1>3. Counted(e) <=> Both(c, p, u, v)
  BY DEF Counted
<1> HIDE DEF c, p, u, v
<1>4. PICK d, w : /\ conn' = [conn EXCEPT ![e] = d] /\ wire' = [wire EXCEPT ![e] = w]
                  /\ Both(c, p, u, v) /\ d.err = "NONE" /\ Good(d) => Both(d, p, w, v)
  <2>1. ASSUME NEW n \in 1..c.rd.left, Both(c, p, u, v), Good(RecvStreamData(c, n))
        PROVE  Both(RecvStreamData(c, n), p, u, v)
    BY <1>1, <2>1, PayloadHolds, BothHeld
  <2>2. ASSUME c.rd = Idle, u # << >>, NEW f \in Head(u), Both(c, p, u, v),
               Recv(c, f).err = "NONE", Good(Recv(c, f))
        PROVE  Both(Recv(c, f), p, After(u, f), v)
    <3>1. f \in PlainFrame
      BY <1>1, <2>2, AfterPlain
    <3>2. Counts(c, Recv(c, f), {}, {f})
      BY <1>1, <2>2, <3>1, RecvCounts
    <3> QED
      BY <2>2, <3>2, BothRead
  <2>3. CASE \E n \in 1..c.rd.left : /\ conn' = [conn EXCEPT ![e] = RecvStreamData(c, n)]
                                     /\ wire' = [wire EXCEPT ![e] = u]
    BY <2>1, <2>3
  <2>4. CASE /\ c.rd = Idle /\ u # << >>
             /\ \E f \in Head(u) : /\ conn' = [conn EXCEPT ![e] = Recv(c, f)]
                                   /\ wire' = [wire EXCEPT ![e] = After(u, f)]
    BY <2>2, <2>4
  <2> QED
    BY <1>1, <2>3, <2>4
<1>5. /\ conn'[e] = d /\ conn'[Peer(e)] = conn[Peer(e)]
      /\ Flow(e)' = w /\ Flow(Peer(e))' = v
  <2>1. /\ conn'[e] = d /\ conn'[Peer(e)] = conn[Peer(e)] /\ wire'[e] = w
        /\ wire'[Peer(e)] = wire[Peer(e)]
    BY <1>4, BothEnds DEF StartInv, Handshake
  <2> QED
    BY <1>1, <1>2, <2>1 DEF Seen, Flow, Introduced, v
<1>6. Good(d)
  BY <1>2, <1>5 DEF Fit
<1>7. Counted(e) /\ d.err = "NONE" => Both(d, conn[Peer(e)], w, Flow(Peer(e)))
  BY <1>3, <1>4, <1>6 DEF p, v
<1> QED
  BY <1>1, <1>5, <1>7, CountedStep DEF c, v

\* Two new connections have counted nothing.
LEMMA FreshBoth ==
  ASSUME NEW r \in Role, NEW u, u = << >>
  PROVE  Both(Fresh(r), Fresh(1 - r), u, u)
<1>1. Tied(NewConn(r), NewConn(1 - r), u, u) /\ 1 - r \in Role
  BY FreshTied DEF Role
<1>2. Good(Fresh(r)) /\ Good(Fresh(1 - r))
  BY <1>1, FreshFit DEF Fit
<1>3. u \in Seq(SUBSET Frame) /\ Solo(u)
  BY DEF Solo
<1>4. \A S : BytesIn(u, S) = 0
  <2> TAKE S
  <2>1. u \in Seq(SUBSET Frame) /\ Len(u) = 0
    BY <1>3
  <2>2. BytesUpTo(u, S)[0] = 0
    BY <2>1, BytesUpToIs
  <2> QED
    BY <2>1, <2>2 DEF BytesIn
<1>5. \A i \in Role : /\ Fresh(i).txOff = 0 /\ Fresh(i).rxOff = 0
                      /\ \A s \in StreamIds : /\ Fresh(i).strm[s].txOff = 0
                                              /\ Fresh(i).strm[s].rxLast = 0
  BY DEF Fresh, NewConn, NewStrm
<1>6. \A i, j \in Role : Carried(Fresh(i), Fresh(j), u)
  BY <1>3, <1>4, <1>5 DEF Carried
<1> QED
  BY <1>1, <1>2, <1>3, <1>6 DEF Both

\* Nor have two that become so.
LEMMA FreshCounted ==
  ASSUME Ends = Role, \A e \in Ends : conn'[e] = Fresh(e) /\ Flow(e)' = << >>
  PROVE  CountInv'
<1>1. ASSUME NEW e \in Ends PROVE Counted(e)'
  <2>1. Peer(e) \in Ends /\ Peer(e) = 1 - e
    BY BothEnds DEF Peer
  <2> QED
    BY <2>1, FreshBoth DEF Counted, Peer
<1> QED
  BY <1>1 DEF CountInv

\* A step that neither endpoint sees.
LEMMA SameCounted ==
  ASSUME CountInv, UNCHANGED <<conn, wire, flags>>
  PROVE  CountInv'
<1>1. \A e : Flow(e)' = Flow(e)
  BY DEF Flow, Introduced, Seen
<1> QED
  BY <1>1 DEF CountInv, Counted, NoConnectionError, Peer

\* Sequences whose batches carry the same have the same sums.
LEMMA SameSums ==
  ASSUME NEW b \in Seq(SUBSET Frame), NEW S, NEW a, Len(a) = Len(b),
         \A n \in 1..Len(b) : BytesOf(a[n], S) = BytesOf(b[n], S)
  PROVE  BytesIn(a, S) = BytesIn(b, S)
<1> DEFINE g == BytesUpTo(b, S)
           h == BytesUpTo(a, S)
           Sums(i) == i = [n \in 0..Len(a) |-> IF n = 0 THEN 0 ELSE i[n - 1] + BytesOf(a[n], S)]
           T == {n \in Nat : n <= Len(b) => h[n] = g[n]}
<1>1. /\ g \in [0..Len(b) -> Nat] /\ g[0] = 0 /\ Len(b) \in Nat
      /\ \A n \in 1..Len(b) : g[n] = g[n - 1] + BytesOf(b[n], S)
  BY BytesUpToIs
<1>2. Sums(g)
  <2> HIDE DEF g
  <2>1. \A n \in 0..Len(b) : g[n] = IF n = 0 THEN 0 ELSE g[n - 1] + BytesOf(a[n], S)
    BY <1>1
  <2>2. g = [n \in 0..Len(b) |-> g[n]]
    BY <1>1
  <2> QED
    BY <2>1, <2>2
<1>3. Sums(h)
  <2>1. h = CHOOSE i : Sums(i)
    BY DEF BytesUpTo
  <2> QED
    BY <1>2, <2>1
<1> HIDE DEF g, h
<1>4. h[0] = 0 /\ \A n \in 1..Len(b) : h[n] = h[n - 1] + BytesOf(b[n], S)
  BY <1>1, <1>3
<1>5. 0 \in T
  BY <1>1, <1>4
<1>6. ASSUME NEW n \in T
      PROVE  n + 1 \in T
  <2>1. n \in Nat /\ (n <= Len(b) => h[n] = g[n])
    BY <1>6
  <2>2. ASSUME n + 1 <= Len(b) PROVE h[n + 1] = g[n + 1]
    <3>1. n + 1 \in 1..Len(b) /\ (n + 1) - 1 = n /\ n <= Len(b)
      BY <1>1, <2>1, <2>2
    <3>2. /\ h[n + 1] = h[(n + 1) - 1] + BytesOf(b[n + 1], S)
          /\ g[n + 1] = g[(n + 1) - 1] + BytesOf(b[n + 1], S)
      BY <1>1, <1>4, <3>1
    <3> QED
      BY <2>1, <3>1, <3>2
  <2> QED
    BY <2>1, <2>2
<1>7. T = Nat
  <2> HIDE DEF T
  <2>1. T \subseteq Nat
    BY DEF T
  <2> QED
    BY <1>5, <1>6, <2>1, SetInduction
<1>8. h[Len(b)] = g[Len(b)]
  BY <1>1, <1>7
<1> QED
  BY <1>8 DEF BytesIn, g, h

\* Transport parameters carry no data.
LEMMA ParamsCarryNothing ==
  ASSUME NEW u \in Seq(SUBSET Frame), NEW S
  PROVE  BytesIn(<<{ParamsFr}>> \o u, S) = BytesIn(u, S)
<1> DEFINE a == <<{ParamsFr}>> \o u
           b == <<{}>> \o u
           k == 1
           m == Len(u)
<1>1. BytesOf({ParamsFr}, S) = 0 /\ BytesOf({}, S) = 0
  <2>1. \A f \in {ParamsFr} : f.t # "STREAM"
    BY DEF ParamsFr
  <2>2. \A f \in {} : f.t # "STREAM"
    OBVIOUS
  <2> QED
    BY ONLY <2>1, <2>2, BytesOfIs
<1>2. /\ b \in Seq(SUBSET Frame) /\ Len(b) = m + 1 /\ Len(a) = m + 1 /\ m \in Nat
      /\ b[1] = {} /\ a[1] = {ParamsFr}
      /\ \A n \in 1..m : b[n + 1] = u[n] /\ a[n + 1] = u[n]
  OBVIOUS
<1> HIDE DEF a, b
<1>3. \A n \in 1..Len(b) : BytesOf(a[n], S) = BytesOf(b[n], S)
  <2> TAKE n \in 1..Len(b)
  <2>1. CASE n = 1
    BY <1>1, <1>2, <2>1
  <2>2. CASE n # 1
    <3>1. PICK i \in 1..m : n = i + 1
      BY <1>2, <2>2
    <3> QED
      BY <1>2, <3>1
  <2> QED
    BY <2>1, <2>2
<1>4. BytesIn(a, S) = BytesIn(b, S)
  BY <1>2, <1>3, SameSums
<1>5. SumsFrom(u, b, S, k, m)
  <2>1. SameBytes(u, b, S, k, m)
    BY <1>2 DEF SameBytes
  <2>2. k \in Nat /\ m \in Nat /\ m <= Len(u) /\ m + k <= Len(b)
    BY <1>2
  <2> HIDE DEF k, m
  <2> QED
    BY <1>2, <2>1, <2>2, SumsShift
<1>6. BytesUpTo(b, S)[1] = 0
  <2>1. /\ BytesUpTo(b, S)[0] = 0 /\ 1 \in 1..Len(b) /\ 1 - 1 = 0
        /\ BytesUpTo(b, S)[1] = BytesUpTo(b, S)[1 - 1] + BytesOf(b[1], S)
    BY <1>2, BytesUpToIs
  <2> QED
    BY <1>1, <1>2, <2>1
<1>7. BytesUpTo(u, S)[m] + BytesUpTo(b, S)[1] = BytesUpTo(b, S)[m + 1]
  BY <1>2, <1>5 DEF SumsFrom
<1>8. BytesUpTo(u, S)[m] \in Nat
  BY <1>2, BytesUpToIs
<1>9. BytesIn(u, S) = BytesIn(b, S)
  BY <1>2, <1>6, <1>7, <1>8 DEF BytesIn
<1> QED
  BY <1>4, <1>9 DEF a

\* A client that has read the server's parameters, and did not fail, was
\* promised no more.
PromiseKept == Seen(0) /\ conn[0].err = "NONE" => Regular

\* Every step.
LEMMA RegularKept ==
  ASSUME Ends = Role, StartInv, PromiseKept, [SessionNext]_sessionVars
  PROVE  PromiseKept'
<1> SUFFICES ASSUME Seen(0)', conn'[0].err = "NONE"
             PROVE  Regular'
  BY DEF PromiseKept
<1>1. 0 \in Ends /\ 1 \in Ends /\ \A e \in Ends : e \in {0, 1}
  BY TheEnds
<1>2. /\ flags \in [Ends -> SUBSET ConnFlag] /\ DOMAIN conn = Ends
      /\ conn[0] \in ConnType
  BY <1>1 DEF StartInv, Handshake, Own, Fit, Good
<1>3. CASE SetEarlyParams
  <2>1. flags'[0] = {"EARLY_SET"}
    BY <1>1, <1>2, <1>3 DEF SetEarlyParams
  <2> QED
    BY <2>1 DEF Seen
<1>4. ASSUME UNCHANGED <<conn, flags, early>> PROVE Regular'
  BY <1>4 DEF PromiseKept, Seen, Regular, Promised
<1>5. CASE Answer \/ UNCHANGED sessionVars
  BY <1>4, <1>5 DEF Answer, sessionVars
<1>6. CASE Told
  <2>1. CASE tls = "rejected"
    BY <1>6, <2>1, ToldStart
  <2>2. CASE tls # "rejected"
    BY <1>4, <1>6, <2>2, ToldStart
  <2> QED
    BY <2>1, <2>2
<1>7. ASSUME NEW e \in Ends, ReadFirst(e) PROVE Regular'
  <2>1. /\ conn' = [conn EXCEPT ![e] = conn'[e]]
        /\ flags' = [flags EXCEPT ![e] = flags[e] \cup {"SEEN"}] /\ UNCHANGED early
        /\ \/ conn'[e] = Fail(conn[e], "PROTO")
           \/ conn'[e] = RecvTransportParams(e, conn[e])
    BY <1>2, <1>7 DEF ReadFirst
  <2>2. CASE e = 0
    <3>1. Regular
      <4>1. conn'[0] # Fail(conn[0], "PROTO")
        BY <1>2 DEF Fail, ConnType
      <4> QED
        BY <2>1, <2>2, <4>1 DEF RecvTransportParams, Regular, Promised, Peer
    <3>2. "EARLY_SET" \in flags'[0] <=> "EARLY_SET" \in flags[0]
      BY <1>1, <1>2, <2>1, <2>2
    <3> QED
      BY <2>1, <3>1, <3>2 DEF Regular, Promised
  <2>3. CASE e # 0
    <3>1. conn'[0] = conn[0] /\ flags'[0] = flags[0]
      BY <1>1, <1>2, <2>1, <2>3
    <3> QED
      BY <2>1, <3>1 DEF PromiseKept, Seen, Regular, Promised
  <2> QED
    BY <2>2, <2>3
<1>8. ASSUME NEW e \in Ends, conn[e].err = "NONE", UNCHANGED early,
             \E d : conn' = [conn EXCEPT ![e] = d],
             flags' = flags \/ flags' = [flags EXCEPT ![e] = @ \cup {"SENT"}]
      PROVE  Regular'
  <2>1. flags'[0] = flags[0] \/ flags'[0] = flags[0] \cup {"SENT"}
    BY <1>1, <1>2, <1>8
  <2>2. conn[0].err = "NONE"
    BY <1>1, <1>2, <1>8
  <2> QED
    BY <1>8, <2>1, <2>2 DEF PromiseKept, Seen, Regular, Promised
<1>9. ASSUME NEW e \in Ends, ReadNext(e) PROVE Regular'
  <2>1. /\ conn[e].err = "NONE" /\ \E d : conn' = [conn EXCEPT ![e] = d]
        /\ UNCHANGED <<flags, early>>
    <3>1. /\ conn[e].err = "NONE" /\ UNCHANGED <<flags, early, tls, told>>
          /\ \/ \E n \in 1..conn[e].rd.left :
                    conn' = [conn EXCEPT ![e] = RecvStreamData(conn[e], n)]
             \/ \E f \in Head(Flow(e)) : conn' = [conn EXCEPT ![e] = Recv(conn[e], f)]
      BY <1>9, ReadNextView
    <3> QED
      BY <3>1
  <2> QED
    BY <1>8, <2>1
<1>10. ASSUME NEW e \in Ends, NEW i \in Direction, OpenLocal(e, i) PROVE Regular'
  <2>1. /\ conn[e].err = "NONE" /\ \E d : conn' = [conn EXCEPT ![e] = d]
        /\ UNCHANGED <<flags, early>>
    BY <1>10 DEF OpenLocal, Running
  <2> QED
    BY <1>8, <2>1
<1>11. ASSUME NEW e \in Ends, EarlyCall(e) PROVE Regular'
  <2>1. /\ conn[e].err = "NONE" /\ \E d : conn' = [conn EXCEPT ![e] = d]
        /\ UNCHANGED <<flags, early>>
    BY <1>11 DEF EarlyCall, ShutdownWrite, ExtendConn, ExtendStreams, Running
  <2> QED
    BY <1>8, <2>1
<1>12. ASSUME NEW e \in Ends, NEW c, MayStart(e), Transmit(e, c) PROVE Regular'
  <2>1. /\ conn[e].err = "NONE" /\ \E d : conn' = [conn EXCEPT ![e] = d] /\ UNCHANGED early
        /\ flags' = [flags EXCEPT ![e] = @ \cup {"SENT"}]
    BY <1>12 DEF MayStart, CanStartWrite, Running, Transmit
  <2> QED
    BY <1>8, <2>1
<1>13. ASSUME NEW e \in Ends,
              \/ WriteControl(e)
              \/ \E s \in StreamIds, len \in 0..MaxWrite, fin \in BOOLEAN :
                   WriteLocal(e, s, len, fin)
       PROVE  Regular'
  BY <1>12, <1>13 DEF WriteControl, WriteLocal
<1> QED
  BY <1>3, <1>5, <1>6, <1>7, <1>9, <1>10, <1>11, <1>13 DEF SessionNext

\* Every step.
LEMMA CountKept ==
  ASSUME Ends = Role, StartInv, CountInv, [SessionNext]_sessionVars
  PROVE  CountInv'
<1>1. CASE SetEarlyParams
  BY <1>1, SetEarlyCounted
<1>2. CASE Answer \/ UNCHANGED sessionVars
  <2>1. UNCHANGED <<conn, wire, flags>>
    BY <1>2 DEF Answer, sessionVars
  <2> QED
    BY <2>1, SameCounted
<1>3. CASE Told
  <2>1. CASE tls = "rejected"
    <3>1. /\ StartInv' /\ conn'[0] = Fresh(0) /\ ~Seen(1)' /\ Flow(1)' = << >>
      BY <1>3, <2>1, ToldStart
    <3>2. conn'[1] = Fresh(1) /\ Flow(0)' = << >>
      BY <3>1, TheEnds DEF StartInv, Silent, Own
    <3>3. \A e \in Ends : conn'[e] = Fresh(e) /\ Flow(e)' = << >>
      BY <3>1, <3>2, TheEnds
    <3> QED
      BY <3>3, FreshCounted
  <2>2. CASE tls # "rejected"
    <3>1. UNCHANGED <<conn, wire, flags>>
      BY <1>3, <2>2, ToldStart
    <3> QED
      BY <3>1, SameCounted
  <2> QED
    BY <2>1, <2>2
<1>4. ASSUME NEW e \in Ends, ReadFirst(e) PROVE CountInv'
  BY <1>4, ReadFirstCounted
<1>5. ASSUME NEW e \in Ends, ReadNext(e) PROVE CountInv'
  BY <1>5, ReadNextCounted
<1>6. ASSUME NEW e \in Ends, NEW i \in Direction, OpenLocal(e, i) PROVE CountInv'
  BY <1>6, OpenCounted
<1>7. ASSUME NEW e \in Ends, EarlyCall(e) PROVE CountInv'
  BY <1>7, EarlyCallCounted
<1>8. ASSUME NEW e \in Ends, WriteControl(e) PROVE CountInv'
  BY <1>8, WriteControlCounted
<1>9. ASSUME NEW e \in Ends, NEW s \in StreamIds, NEW len \in 0..MaxWrite, NEW fin \in BOOLEAN,
             WriteLocal(e, s, len, fin)
      PROVE  CountInv'
  BY <1>9, WriteLocalCounted
<1> QED
  BY <1>1, <1>2, <1>3, <1>4, <1>5, <1>6, <1>7, <1>8, <1>9 DEF SessionNext

-----------------------------------------------------------------------------
(* Agreement                                                               *)

AccountInv == SessionInv /\ CountInv /\ PromiseKept

\* Both sides count the same, whether or not the server keeps its promise.
THEOREM AccountInvariant ==
  ASSUME Ends = Role
  PROVE  SessionSpec => []AccountInv
<1>1. SessionInit => AccountInv
  <2> SUFFICES ASSUME SessionInit PROVE AccountInv
    OBVIOUS
  <2>1. SessionInv
    BY SessionStart
  <2>2. /\ \A e \in Ends : conn[e] = Fresh(e) /\ ~Seen(e) /\ Flow(e) = << >>
        /\ ~Seen(0)
    BY TheEnds DEF SessionInit, Seen, Flow, Introduced
  <2>3. ASSUME NEW e \in Ends PROVE Counted(e)
    <3>1. Peer(e) \in Ends /\ Peer(e) = 1 - e
      BY BothEnds DEF Peer
    <3> QED
      BY <2>2, <3>1, FreshBoth DEF Counted
  <2> QED
    BY <2>1, <2>2, <2>3 DEF AccountInv, CountInv, PromiseKept
<1>2. AccountInv /\ [SessionNext]_sessionVars => AccountInv'
  <2> SUFFICES ASSUME AccountInv, [SessionNext]_sessionVars PROVE AccountInv'
    OBVIOUS
  <2>1. StartInv
    BY DEF AccountInv, SessionInv
  <2>2. SessionInv'
    BY SessionKept DEF AccountInv
  <2>3. CountInv'
    BY <2>1, CountKept DEF AccountInv
  <2>4. PromiseKept'
    BY <2>1, RegularKept DEF AccountInv
  <2> QED
    BY <2>2, <2>3, <2>4 DEF AccountInv
<1> QED
  BY <1>1, <1>2, PTL DEF SessionSpec

\* The frames that were written and not read.
LEMMA UnreadFlow ==
  ASSUME Ends = Role, StartInv, NEW e \in Ends, NEW S
  PROVE  BytesIn(Unread(e), S) = BytesIn(Flow(e), S)
<1> DEFINE u == Flow(e)
<1>1. u \in Seq(SUBSET PlainFrame)
  BY DEF StartInv, Way
<1>2. u \in Seq(SUBSET Frame)
  BY <1>1 DEF PlainFrame
<1>3. wire[e] = IF Introduced(e) THEN <<{ParamsFr}>> \o u ELSE u
  BY DEF StartInv, Way
<1>4. Unread(e) = wire[e] \o << >>
  <2>1. Peer(e) \in Ends
    BY BothEnds
  <2>2. conn[Peer(e)].qre = NoRecord
    BY <2>1 DEF StartInv, Own
  <2> QED
    BY <2>2 DEF Unread, NoRecord
<1> HIDE DEF u
<1>5. CASE Introduced(e)
  <2>1. Unread(e) = <<{ParamsFr}>> \o u
    BY <1>2, <1>3, <1>4, <1>5
  <2> QED
    BY <1>2, <2>1, ParamsCarryNothing DEF u
<1>6. CASE ~Introduced(e)
  <2>1. Unread(e) = u
    BY <1>2, <1>3, <1>4, <1>6
  <2> QED
    BY <2>1 DEF u
<1> QED
  BY <1>5, <1>6

\* Two tied connections work with limits that the other has announced.
LEMMA TiedLimits ==
  ASSUME NEW p, NEW c, NEW u, NEW v, Tied(p, c, u, v)
  PROVE  /\ p.txMax <= c.rxMax
         /\ \A d \in Direction : p.txStreams[d] <= c.rxStreams[d]
         /\ \A s \in c.live \cap p.live : p.strm[s].txMax <= c.strm[s].rxMax
         /\ u = << >> =>
              /\ p.txMax = c.rxMax
              /\ \A d \in Direction : p.txStreams[d] = c.rxStreams[d]
              /\ \A s \in c.live \cap p.live : p.strm[s].txMax = c.strm[s].rxMax
<1>1. /\ Good(p) /\ Good(c) /\ FlowTo(p, c, u) /\ \A s \in StreamIds : CreditTo(p, c, u, s)
  BY DEF Tied, Channel
<1>2. u = << >> => Len(u) = 0
  OBVIOUS
<1>3. p.txMax <= c.rxMax /\ \A d \in Direction : p.txStreams[d] <= c.rxStreams[d]
  BY <1>1 DEF FlowTo, Announced
<1>4. u = << >> => p.txMax = c.rxMax /\ \A d \in Direction : p.txStreams[d] = c.rxStreams[d]
  BY <1>1, <1>2 DEF FlowTo, Latest
<1>5. ASSUME NEW s \in c.live \cap p.live
      PROVE  /\ p.strm[s].txMax <= c.strm[s].rxMax
             /\ u = << >> => p.strm[s].txMax = c.strm[s].rxMax
  <2>1. s \in StreamIds /\ ~Gone(c, s) /\ ~Gone(p, s)
    BY <1>1, Fields DEF Gone
  <2>2. CreditTo(p, c, u, s)
    BY <1>1, <2>1
  <2> QED
    BY <1>2, <2>1, <2>2 DEF CreditTo, Announced, Latest, Known, Allowed
<1> QED
  BY <1>3, <1>4, <1>5

\* Bytes of early data are counted by both sides or by neither (tx.offset,
\* rx.offset, rx.last_offset, dwnx_conn_discard_early_data_state), and each side
\* comes to work with the limits that the other announced, on streams that were
\* opened before as well as after that (conn_recv_transport_params,
\* set_max_stream_offset): whatever the server announced before.
THEOREM EarlyAccountsAgree ==
  ASSUME Ends = Role
  PROVE  SessionSpec => []EarlyAgreement
<1>1. ASSUME AccountInv, NoConnectionError
      PROVE  BytesConserved
  <2>1. StartInv /\ \A e \in Ends : Counted(e)
    BY <1>1 DEF AccountInv, SessionInv, CountInv
  <2> SUFFICES ASSUME NEW e \in Ends
               PROVE  LET c == conn[e]  p == conn[Peer(e)] IN
                      /\ p.txOff = c.rxOff + BytesIn(Unread(e), StreamIds)
                      /\ \A s \in c.live \cap p.live :
                           p.strm[s].txOff = c.strm[s].rxLast + BytesIn(Unread(e), {s})
    BY DEF BytesConserved
  <2> DEFINE c == conn[e]
             p == conn[Peer(e)]
             u == Flow(e)
  <2>2. \A S : BytesIn(Unread(e), S) = BytesIn(u, S)
    BY <2>1, UnreadFlow
  <2>3. Carried(c, p, u) /\ Good(c)
    BY <2>1 DEF Counted, Both
  <2> HIDE DEF c, p, u
  <2>4. \A s \in c.live \cap p.live : s \in StreamIds /\ ~Gone(c, s) /\ ~Gone(p, s)
    BY <2>3, Fields DEF Gone
  <2>5. p.txOff = c.rxOff + BytesIn(Unread(e), StreamIds)
    BY <2>2, <2>3 DEF Carried
  <2>6. \A s \in c.live \cap p.live :
          p.strm[s].txOff = c.strm[s].rxLast + BytesIn(Unread(e), {s})
    BY <2>2, <2>3, <2>4 DEF Carried
  <2> QED
    BY <2>5, <2>6 DEF c, p
<1>2. ASSUME AccountInv, NoConnectionError, \A e \in Ends : "SEEN" \in flags[e]
      PROVE  LimitsAgree
  <2>1. StartInv /\ Regular /\ Agreed
    <3>1. Seen(0) /\ conn[0].err = "NONE"
      BY <1>2, TheEnds DEF Seen, NoConnectionError
    <3> QED
      BY <1>2, <3>1 DEF AccountInv, PromiseKept, SessionInv
  <2>2. ASSUME NEW e \in Ends
        PROVE  Tied(conn[Peer(e)], conn[e], wire[Peer(e)], wire[e])
    <3>1. Peer(e) \in Ends /\ Peer(Peer(e)) = e
      BY BothEnds
    <3>2. \A g \in Ends : View(g) = conn[g] /\ Flow(g) = wire[g]
      BY <1>2, <2>1, ViewBelow DEF Seen, Flow, Introduced, NoConnectionError
    <3> QED
      BY <2>1, <3>1, <3>2 DEF Agreed, Joined
  <2> QED
    BY <2>2, TiedLimits DEF LimitsAgree
<1>3. AccountInv => EarlyAgreement
  BY <1>1, <1>2 DEF EarlyAgreement
<1> QED
  BY <1>3, AccountInvariant, PTL
=============================================================================
