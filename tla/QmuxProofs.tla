----------------------------- MODULE QmuxProofs -----------------------------
(***************************************************************************)
(* For every set of streams, every choice of transport parameters, every   *)
(* peer and every bound, the connections of Qmux keep their types and      *)
(* never overrun a flow control window: THEOREM TypeCorrect and THEOREM    *)
(* CreditNeverOverrun.                                                     *)
(*                                                                         *)
(* CreditOK speaks of the streams in the map.  It is not inductive: a      *)
(* frame may create a stream with the value that strm[s] already has, and  *)
(* an offset grows only within a window whose type is known.  The          *)
(* invariant proved is therefore TypeOK together with ConnCredit, CreditOK *)
(* extended to the streams that do not exist (a freed stream has the value *)
(* of a new one).  Good(c) states it for one connection; each operator of  *)
(* Conn, ConnRead and ConnWrite has a lemma that it preserves Good, and    *)
(* the actions of Qmux follow from these lemmas.                           *)
(***************************************************************************)
EXTENDS Qmux, TLAPS

\* What every stream satisfies, whether in the map or not.
StrmCredit(x) == x.txOff <= x.txMax /\ x.rxLast <= x.rxMax /\ x.rxMax <= x.rxUnsent

\* What a connection and its streams satisfy.
ConnCredit(c) ==
  /\ c.txOff <= c.txMax
  /\ c.rxOff <= c.rxMax /\ c.rxMax <= c.rxUnsent
  /\ \A s \in StreamIds : StrmCredit(c.strm[s])

\* The invariant of one connection.
Good(c) == c \in ConnType /\ ConnCredit(c)

USE StreamIdsAssumption, LimitsAssumption, ParamsAssumption

\* The stream object that create_stream makes is well typed and within credit:
\* its offsets are zero and its limits are transport parameters.
LEMMA NewStrmGood ==
  ASSUME NEW r \in Role, NEW s \in StreamIds
  PROVE  NewStrm(r, s) \in StrmType /\ StrmCredit(NewStrm(r, s))
<1>1. s % 2 \in {0, 1} /\ s % 2 \in Role /\ 1 - r \in Role
  BY SMT DEF Role
<1>2. Params[r] \in ParamsType
  BY DEF Role
<1>3. Params[1 - r] \in ParamsType
  BY <1>1
<1>4. InitialMaxRx(r, s) \in Offset /\ InitialMaxTx(r, s) \in Offset
  BY <1>2, <1>3 DEF InitialMaxRx, InitialMaxTx, Offset, ParamsType
<1> QED
  BY <1>4 DEF NewStrm, StrmType, StrmCredit, Flag, Offset, NoBlocked

\* The fields of a good connection, one by one.
LEMMA Fields ==
  ASSUME NEW c, Good(c)
  PROVE  /\ c.role \in Role /\ c.live \in SUBSET StreamIds /\ c.strmq \in SUBSET StreamIds
         /\ c.idtr \in SUBSET StreamIds /\ c.next \in [Direction -> Nat]
         /\ c.txStreams \in [Direction -> 0..MaxStreams]
         /\ c.rxStreams \in [Direction -> 0..MaxStreams]
         /\ c.rxUnsentStreams \in [Direction -> 0..MaxStreams]
         /\ c.txOff \in 0..MaxVarint /\ c.txMax \in 0..MaxVarint /\ c.txOff <= c.txMax
         /\ c.rxOff \in 0..MaxVarint /\ c.rxMax \in 0..MaxVarint /\ c.rxUnsent \in 0..MaxVarint
         /\ c.rxOff <= c.rxMax /\ c.rxMax <= c.rxUnsent
         /\ c.glitch \in 0..GlitchBurst
         /\ c.ping \in Nat \cup {-1} /\ c.pong \in Nat \cup {-1}
         /\ c.rd \in {Idle} \cup [id : StreamIds, left : 1..MaxVarint, fin : BOOLEAN]
         /\ c.qre \in [started : BOOLEAN, frames : Seq(SUBSET Frame)]
         /\ \A s \in StreamIds : c.strm[s] \in StrmType /\ StrmCredit(c.strm[s])
BY DEF Good, ConnType, ConnCredit, Offset

\* Fields that no window depends on may take any value of their type.
LEMMA SetGood ==
  ASSUME NEW c, Good(c)
  PROVE  /\ \A v \in SUBSET StreamIds : Good([c EXCEPT !.idtr = v])
         /\ \A v \in Error : Good([c EXCEPT !.err = v])
         /\ \A v \in 0..GlitchBurst : Good([c EXCEPT !.glitch = v])
         /\ \A v \in Nat : Good([c EXCEPT !.ping = v])
         /\ \A v \in [Direction -> Nat] : Good([c EXCEPT !.next = v])
BY ZenonT(30) DEF Good, ConnType, ConnCredit

\* The record under construction may take any value of its type.
LEMMA RecordGood ==
  ASSUME NEW c, Good(c),
         NEW v \in [started : BOOLEAN, frames : Seq(SUBSET Frame)]
  PROVE  Good([c EXCEPT !.qre = v])
BY DEF Good, ConnType, ConnCredit

\* So may the STREAM payload still to be read.
LEMMA PayloadGood ==
  ASSUME NEW c, Good(c),
         NEW v \in {Idle} \cup [id : StreamIds, left : 1..MaxVarint, fin : BOOLEAN]
  PROVE  Good([c EXCEPT !.rd = v])
BY DEF Good, ConnType, ConnCredit

\* So may the limits on the number of streams.
LEMMA StreamLimitsGood ==
  ASSUME NEW c, Good(c), NEW v \in [Direction -> 0..MaxStreams]
  PROVE  /\ Good([c EXCEPT !.rxUnsentStreams = v])
         /\ Good([c EXCEPT !.rxStreams = v])
         /\ Good([c EXCEPT !.txStreams = v])
BY DEF Good, ConnType, ConnCredit

\* The connection window that is to be announced may grow.
LEMMA RxUnsentGood ==
  ASSUME NEW c, Good(c), NEW v \in Offset, c.rxUnsent <= v
  PROVE  Good([c EXCEPT !.rxUnsent = v])
<1> DEFINE d == [c EXCEPT !.rxUnsent = v]
<1>1. d \in ConnType
  BY DEF Good, ConnType
<1>2. c.rxOff <= c.rxMax /\ c.rxMax <= v
  BY Fields DEF Offset
<1>3. ConnCredit(d)
  BY <1>2 DEF Good, ConnCredit, ConnType
<1> QED
  BY <1>1, <1>3 DEF Good

\* The limit that the peer set may move, above what was sent.
LEMMA TxMaxGood ==
  ASSUME NEW c, Good(c), NEW v \in Offset, c.txOff <= v
  PROVE  Good([c EXCEPT !.txMax = v])
<1> DEFINE d == [c EXCEPT !.txMax = v]
<1>1. d \in ConnType
  BY DEF Good, ConnType
<1>3. ConnCredit(d)
  BY DEF Good, ConnCredit, ConnType
<1> QED
  BY <1>1, <1>3 DEF Good

\* What was sent may move, below the limit that the peer set.
LEMMA TxOffGood ==
  ASSUME NEW c, Good(c), NEW v \in Offset, v <= c.txMax
  PROVE  Good([c EXCEPT !.txOff = v])
<1> DEFINE d == [c EXCEPT !.txOff = v]
<1>1. d \in ConnType
  BY DEF Good, ConnType
<1>3. ConnCredit(d)
  BY DEF Good, ConnCredit, ConnType
<1> QED
  BY <1>1, <1>3 DEF Good

\* What was received may move, below the limit announced.
LEMMA RxOffGood ==
  ASSUME NEW c, Good(c), NEW v \in Offset, v <= c.rxMax
  PROVE  Good([c EXCEPT !.rxOff = v])
<1> DEFINE d == [c EXCEPT !.rxOff = v]
<1>1. d \in ConnType
  BY DEF Good, ConnType
<1>3. ConnCredit(d)
  BY DEF Good, ConnCredit, ConnType
<1> QED
  BY <1>1, <1>3 DEF Good

\* dwnx_conn_create_stream keeps a connection good.
LEMMA CreateStreamGood ==
  ASSUME NEW c, Good(c), NEW s \in StreamIds
  PROVE  Good(CreateStream(c, s))
<1>1. NewStrm(c.role, s) \in StrmType /\ StrmCredit(NewStrm(c.role, s))
  BY NewStrmGood DEF Good, ConnType
<1> QED
  BY <1>1 DEF Good, ConnType, ConnCredit, CreateStream

\* dwnx_conn_close_stream, and the test before it, keep a connection good.
LEMMA CloseStreamGood ==
  ASSUME NEW c, Good(c), NEW s \in StreamIds
  PROVE  Good(CloseStream(c, s)) /\ Good(CloseStreamIfShutRdWr(c, s))
<1>1. NewStrm(c.role, s) \in StrmType /\ StrmCredit(NewStrm(c.role, s))
  BY NewStrmGood DEF Good, ConnType
<1>2. Good(CloseStream(c, s))
  BY <1>1 DEF Good, ConnType, ConnCredit, CloseStream
<1> QED
  BY <1>2 DEF CloseStreamIfShutRdWr

\* A stream may be replaced by any that is well typed and within credit.
LEMMA StrmUpdateGood ==
  ASSUME NEW c, Good(c), NEW s \in StreamIds, NEW x \in StrmType, StrmCredit(x)
  PROVE  Good([c EXCEPT !.strm[s] = x])
BY DEF Good, ConnType, ConnCredit

\* Setting flags of a stream keeps a connection good.
LEMMA SetFlagsGood ==
  ASSUME NEW c, Good(c), NEW s \in StreamIds, NEW F \in SUBSET Flag
  PROVE  Good(SetFlags(c, s, F))
<1> DEFINE x == [c.strm[s] EXCEPT !.flags = @ \cup F]
<1>1. c.strm[s] \in StrmType /\ StrmCredit(c.strm[s])
  BY DEF Good, ConnType, ConnCredit
<1>2. x \in StrmType /\ StrmCredit(x)
  BY <1>1 DEF StrmType, StrmCredit
<1>3. SetFlags(c, s, F) = [c EXCEPT !.strm[s] = x]
  BY DEF SetFlags
<1> HIDE DEF x
<1> QED
  BY <1>2, <1>3, StrmUpdateGood

\* dwnx_conn_tx_strmq_push keeps a connection good.
LEMMA PushGood ==
  ASSUME NEW c, Good(c), NEW s \in StreamIds
  PROVE  Good(PushIfNot(c, s))
BY DEF Good, ConnType, ConnCredit, PushIfNot

\* conn_reset_stream and conn_stop_sending keep a connection good.
LEMMA ScheduleGood ==
  ASSUME NEW c, Good(c), NEW s \in StreamIds
  PROVE  Good(ScheduleReset(c, s)) /\ Good(ScheduleStopSending(c, s))
<1>1. {"SEND_RESET_STREAM", "RESET_STREAM"} \in SUBSET Flag /\ {"SEND_STOP_SENDING"} \in SUBSET Flag
  BY DEF Flag
<1> QED
  BY <1>1, SetFlagsGood, PushGood DEF ScheduleReset, ScheduleStopSending

\* Finding or opening a remote stream keeps a connection good.
LEMMA FindOrOpenGood ==
  ASSUME NEW c, Good(c), NEW s \in StreamIds
  PROVE  Good(FindOrOpen(c, s))
<1> DEFINE d == CreateStream(c, s)
<1>1. Good(d)
  BY CreateStreamGood
<1>2. FindOrOpen(c, s) \in {c, [d EXCEPT !.idtr = d.idtr \cup {s}]}
  BY DEF FindOrOpen
<1> HIDE DEF d
<1>3. d.idtr \cup {s} \in SUBSET StreamIds
  BY <1>1, Fields
<1>4. Good([d EXCEPT !.idtr = d.idtr \cup {s}])
  BY <1>1, <1>3, SetGood
<1> QED
  BY <1>1, <1>2, <1>4

\* dwnx_ratelim_drain keeps a connection good, also when it fails.
LEMMA DrainGlitchGood ==
  ASSUME NEW c, Good(c)
  PROVE  Good(DrainGlitch(c))
<1>1. c.glitch # 0 => c.glitch - 1 \in 0..GlitchBurst
  BY Fields
<1>2. CASE c.glitch = 0
  BY <1>2, SetGood DEF DrainGlitch, Fail, Error
<1>3. CASE c.glitch # 0
  BY <1>1, <1>3, SetGood DEF DrainGlitch
<1> QED
  BY <1>2, <1>3

\* The three calls that extend a limit keep a connection good: they grow what
\* is to be announced and saturate at the largest varint.
LEMMA ExtendGood ==
  ASSUME NEW c, Good(c), NEW n \in Nat
  PROVE  /\ \A s \in StreamIds : Good(ExtendMaxStreamOffset(c, s, n))
         /\ Good(ExtendMaxOffset(c, n))
         /\ \A d \in Direction : Good(ExtendMaxStreams(c, d, n))
<1>1. Good(ExtendMaxOffset(c, n))
  <2>1. /\ Lesser(c.rxUnsent + n, MaxVarint) \in 0..MaxVarint
        /\ c.rxUnsent <= Lesser(c.rxUnsent + n, MaxVarint)
    BY Fields DEF Lesser
  <2> QED
    BY <2>1, RxUnsentGood DEF ExtendMaxOffset, Offset
<1>2. ASSUME NEW d \in Direction
      PROVE  Good(ExtendMaxStreams(c, d, n))
  <2> DEFINE v == [c.rxUnsentStreams EXCEPT ![d] = Lesser(@ + n, MaxStreams)]
  <2>1. Lesser(c.rxUnsentStreams[d] + n, MaxStreams) \in 0..MaxStreams
    BY Fields DEF Lesser
  <2>2. v \in [Direction -> 0..MaxStreams]
    BY <2>1, Fields
  <2>3. ExtendMaxStreams(c, d, n) = [c EXCEPT !.rxUnsentStreams = v]
    BY DEF ExtendMaxStreams
  <2> HIDE DEF v
  <2>4. Good([c EXCEPT !.rxUnsentStreams = v])
    BY <2>2, StreamLimitsGood
  <2> QED
    BY <2>3, <2>4
<1>3. ASSUME NEW s \in StreamIds
      PROVE  Good(ExtendMaxStreamOffset(c, s, n))
  <2> DEFINE x == [c.strm[s] EXCEPT !.rxUnsent = Lesser(@ + n, MaxVarint)]
             d == [c EXCEPT !.strm[s] = x]
  <2>1. c.strm[s] \in StrmType /\ StrmCredit(c.strm[s])
    BY DEF Good, ConnType, ConnCredit
  <2>2. x \in StrmType /\ StrmCredit(x)
    BY <2>1 DEF StrmType, StrmCredit, Lesser, Offset
  <2>3. ExtendMaxStreamOffset(c, s, n) \in {c, d, PushIfNot(d, s)}
    BY DEF ExtendMaxStreamOffset
  <2> HIDE DEF x
  <2>4. Good(d)
    BY <2>2, StrmUpdateGood
  <2> HIDE DEF d
  <2> QED
    BY <2>3, <2>4, PushGood
<1> QED
  BY <1>1, <1>2, <1>3

-----------------------------------------------------------------------------
(* dwnx_conn_read                                                          *)

\* The fields of a frame that the decoder returns, by its type.
LEMMA PeerFrameFields ==
  ASSUME NEW f \in PeerFrame
  PROVE  /\ f.t = "STREAM" => /\ f.id \in StreamIds /\ f.fin \in BOOLEAN
                              /\ f.off \in 0..MaxVarint /\ f.len \in 0..MaxVarint
         /\ f.t \in {"RESET_STREAM", "STOP_SENDING", "MAX_STREAM_DATA",
                     "STREAM_DATA_BLOCKED"} => f.id \in StreamIds
         /\ f.t \in {"MAX_DATA", "MAX_STREAM_DATA"} => f.max \in 0..MaxVarint
         /\ f.t = "MAX_STREAMS" => f.dir \in Direction /\ f.max \in Nat
         /\ f.t = "QX_PING_REQUEST" => f.seq \in Nat
         /\ f.t \in {"STREAM", "RESET_STREAM", "STOP_SENDING", "MAX_DATA",
                     "MAX_STREAM_DATA", "MAX_STREAMS", "DATA_BLOCKED",
                     "STREAM_DATA_BLOCKED", "STREAMS_BLOCKED",
                     "QX_PING_REQUEST", "QX_PING_RESPONSE"}
BY DEF PeerFrame, Frame

\* conn_recv_stream keeps a connection good: an accepted frame fits both the
\* stream window and the connection window, and ends below the largest varint.
LEMMA RecvStreamGood ==
  ASSUME NEW c, Good(c), NEW f \in PeerFrame, f.t = "STREAM",
         RecvStreamError(c, f) = "NONE"
  PROVE  Good(RecvStream(c, f))
<1> DEFINE s == f.id
           end == f.off + f.len
           d0 == FindOrOpen(c, s)
           x == d0.strm[s]
           y == [x EXCEPT !.rxLast = end]
           rd == IF f.len = 0 THEN Idle ELSE [id |-> s, left |-> f.len, fin |-> f.fin]
           d1 == [d0 EXCEPT !.rxOff = @ + f.len]
           d2 == [d1 EXCEPT !.strm[s] = y]
           d3 == [d2 EXCEPT !.rd = rd]
           d == [FindOrOpen(c, f.id) EXCEPT
                   !.rxOff = @ + f.len,
                   !.strm[f.id].rxLast = f.off + f.len,
                   !.rd = IF f.len = 0 THEN Idle
                          ELSE [id |-> f.id, left |-> f.len, fin |-> f.fin]]
<1>1. /\ s \in StreamIds /\ f.fin \in BOOLEAN
      /\ f.off \in 0..MaxVarint /\ f.len \in 0..MaxVarint
  BY PeerFrameFields
<1>2. Good(d0)
  BY <1>1, FindOrOpenGood
<1>3. /\ ~(MaxVarint - f.len < f.off)
      /\ ~(x.rxMax < end) /\ ~(c.rxMax - c.rxOff < f.len)
  BY DEF RecvStreamError
<1>4. d0.rxOff = c.rxOff /\ d0.rxMax = c.rxMax
  BY DEF FindOrOpen, CreateStream
<1>5. RecvStream(c, f) \in {d, CloseStreamIfShutRdWr(SetFlags(d, s, {"SHUT_RD"}), s)}
  BY DEF RecvStream
<1>6. d = d3
  OBVIOUS
<1> HIDE DEF d, d0
<1>7. Good(d1)
  <2>1. d0.rxOff + f.len \in Offset /\ d0.rxOff + f.len <= d0.rxMax
    BY <1>1, <1>2, <1>3, <1>4, Fields DEF Offset
  <2> QED
    BY <1>2, <2>1, RxOffGood
<1>8. y \in StrmType /\ StrmCredit(y)
  <2>1. x \in StrmType /\ StrmCredit(x)
    BY <1>1, <1>2, Fields
  <2>2. end \in Offset /\ end <= x.rxMax
    BY <1>1, <1>3, <2>1 DEF StrmType, Offset
  <2> QED
    BY <2>1, <2>2 DEF StrmType, StrmCredit
<1> HIDE DEF y, d1, x
<1>9. Good(d2)
  BY <1>1, <1>7, <1>8, StrmUpdateGood
<1> HIDE DEF d2
<1>10. Good(d3)
  <2>1. rd \in {Idle} \cup [id : StreamIds, left : 1..MaxVarint, fin : BOOLEAN]
    BY <1>1
  <2> QED
    BY <1>9, <2>1, PayloadGood
<1> QED
  <2>1. {"SHUT_RD"} \in SUBSET Flag
    BY DEF Flag
  <2> QED
    BY <1>1, <1>5, <1>6, <1>10, <2>1, SetFlagsGood, CloseStreamGood

\* What is left of a STREAM payload after some of it was read.
LEMMA RestType ==
  ASSUME NEW rd \in [id : StreamIds, left : 1..MaxVarint, fin : BOOLEAN],
         NEW n \in 1..rd.left
  PROVE  Rest(rd, n) \in {Idle} \cup [id : StreamIds, left : 1..MaxVarint, fin : BOOLEAN]
<1> DEFINE k == rd.left
<1>1. k \in 1..MaxVarint /\ n \in 1..k
  OBVIOUS
<1> HIDE DEF k
<1>2. n # k => k - n \in 1..MaxVarint
  BY <1>1
<1> QED
  BY <1>1, <1>2 DEF Rest, k

\* conn_recv_stream_data keeps a connection good.
LEMMA RecvStreamDataGood ==
  ASSUME NEW c, Good(c), NEW n \in 1..c.rd.left
  PROVE  Good(RecvStreamData(c, n))
<1> DEFINE s == c.rd.id
           rd == Rest(c.rd, n)
           d == [c EXCEPT !.rd = rd]
           e == IF "STOP_SENDING" \in c.strm[s].flags THEN ExtendMaxOffset(d, n) ELSE d
<1>1. /\ s \in StreamIds /\ c.rd.left \in 1..MaxVarint
      /\ c.rd \in [id : StreamIds, left : 1..MaxVarint, fin : BOOLEAN]
  <2>1. c.rd # Idle
    BY DEF Idle
  <2> QED
    BY <2>1, Fields
<1>2. rd \in {Idle} \cup [id : StreamIds, left : 1..MaxVarint, fin : BOOLEAN]
  BY <1>1, RestType
<1>3. RecvStreamData(c, n)
        = IF c.rd.fin /\ n = c.rd.left
            THEN CloseStreamIfShutRdWr(SetFlags(e, s, {"SHUT_RD"}), s) ELSE e
  BY DEF RecvStreamData
<1> HIDE DEF rd
<1>4. Good(d)
  BY <1>2, PayloadGood
<1> HIDE DEF d
<1>5. Good(e)
  BY <1>1, <1>4, ExtendGood
<1> HIDE DEF e
<1> QED
  <2>1. {"SHUT_RD"} \in SUBSET Flag
    BY DEF Flag
  <2>2. Good(SetFlags(e, s, {"SHUT_RD"}))
    BY <1>1, <1>5, <2>1, SetFlagsGood
  <2>3. Good(CloseStreamIfShutRdWr(SetFlags(e, s, {"SHUT_RD"}), s))
    BY <1>1, <2>2, CloseStreamGood
  <2> QED
    BY <1>3, <1>5, <2>3

\* conn_recv_reset_stream keeps a connection good.
LEMMA RecvResetStreamGood ==
  ASSUME NEW c, Good(c), NEW f \in PeerFrame, f.t = "RESET_STREAM"
  PROVE  Good(RecvResetStream(c, f))
<1>1. f.id \in StreamIds /\ {"SHUT_RD", "RESET_STREAM_RECVED"} \in SUBSET Flag
  BY PeerFrameFields DEF Flag
<1> QED
  BY <1>1, FindOrOpenGood, SetFlagsGood, CloseStreamGood DEF RecvResetStream

\* conn_recv_stop_sending keeps a connection good.
LEMMA RecvStopSendingGood ==
  ASSUME NEW c, Good(c), NEW f \in PeerFrame, f.t = "STOP_SENDING"
  PROVE  Good(RecvStopSending(c, f))
<1> DEFINE d == FindOrOpen(c, f.id)
           e == IF "SHUT_WR" \in d.strm[f.id].flags THEN d ELSE ScheduleReset(d, f.id)
<1>1. f.id \in StreamIds /\ {"SHUT_WR", "STOP_SENDING_RECVED"} \in SUBSET Flag
  BY PeerFrameFields DEF Flag
<1>2. Good(e)
  BY <1>1, FindOrOpenGood, ScheduleGood
<1>3. RecvStopSending(c, f)
        \in {DrainGlitch(c), SetFlags(e, f.id, {"SHUT_WR", "STOP_SENDING_RECVED"})}
  BY DEF RecvStopSending
<1> HIDE DEF e
<1>4. Good(SetFlags(e, f.id, {"SHUT_WR", "STOP_SENDING_RECVED"}))
  BY <1>1, <1>2, SetFlagsGood
<1> QED
  BY <1>3, <1>4, DrainGlitchGood

\* conn_recv_max_data keeps a connection good: an accepted limit is above the
\* last one, and so above what was sent.
LEMMA RecvMaxDataGood ==
  ASSUME NEW c, Good(c), NEW f \in PeerFrame, f.t = "MAX_DATA",
         RecvMaxDataError(c, f) = "NONE"
  PROVE  Good(RecvMaxData(c, f))
<1>1. f.max \in Offset /\ c.txOff <= f.max
  BY PeerFrameFields, Fields DEF RecvMaxDataError, Offset
<1> QED
  BY <1>1, TxMaxGood DEF RecvMaxData

\* conn_recv_max_stream_data keeps a connection good, for the same reason.
LEMMA RecvMaxStreamDataGood ==
  ASSUME NEW c, Good(c), NEW f \in PeerFrame, f.t = "MAX_STREAM_DATA",
         RecvMaxStreamDataError(c, f) = "NONE"
  PROVE  Good(RecvMaxStreamData(c, f))
<1> DEFINE b == FindOrOpen(c, f.id)
           x == b.strm[f.id]
           y == [x EXCEPT !.txMax = f.max]
           d == [b EXCEPT !.strm[f.id] = y]
<1>1. f.id \in StreamIds /\ f.max \in Offset
  BY PeerFrameFields DEF Offset
<1>2. Good(b)
  BY <1>1, FindOrOpenGood
<1>3. CASE Closed(c, f.id)
  BY <1>3, DrainGlitchGood DEF RecvMaxStreamData
<1>4. CASE ~Closed(c, f.id)
  <2>1. ~(x.txMax >= f.max)
    BY <1>4 DEF RecvMaxStreamDataError
  <2>2. RecvMaxStreamData(c, f) \in {d, DrainGlitch(d)}
    BY <1>4 DEF RecvMaxStreamData
  <2> HIDE DEF b
  <2>3. y \in StrmType /\ StrmCredit(y)
    <3>1. x \in StrmType /\ StrmCredit(x)
      BY <1>1, <1>2, Fields
    <3> QED
      BY <1>1, <2>1, <3>1 DEF StrmType, StrmCredit, Offset
  <2> HIDE DEF y
  <2>4. Good(d)
    BY <1>1, <1>2, <2>3, StrmUpdateGood
  <2> HIDE DEF d
  <2> QED
    BY <2>2, <2>4, DrainGlitchGood
<1> QED
  BY <1>3, <1>4

\* conn_recv_max_streams keeps a connection good.
LEMMA RecvMaxStreamsGood ==
  ASSUME NEW c, Good(c), NEW f \in PeerFrame, f.t = "MAX_STREAMS",
         RecvMaxStreamsError(c, f) = "NONE"
  PROVE  Good(RecvMaxStreams(c, f))
<1> DEFINE v == [c.txStreams EXCEPT ![f.dir] = f.max]
<1>1. f.dir \in Direction /\ f.max \in 0..MaxStreams
  BY PeerFrameFields DEF RecvMaxStreamsError
<1>2. v \in [Direction -> 0..MaxStreams]
  BY <1>1, Fields
<1>3. RecvMaxStreams(c, f) = [c EXCEPT !.txStreams = v]
  BY DEF RecvMaxStreams
<1> HIDE DEF v
<1>4. Good([c EXCEPT !.txStreams = v])
  BY <1>2, StreamLimitsGood
<1> QED
  BY <1>3, <1>4

\* conn_recv_qx_ping keeps a connection good.
LEMMA RecvPingGood ==
  ASSUME NEW c, Good(c), NEW f \in PeerFrame, f.t = "QX_PING_REQUEST"
  PROVE  Good(RecvPing(c, f))
<1> DEFINE d == DrainGlitch(c)
<1>1. f.seq \in Nat
  BY PeerFrameFields
<1>2. Good(d)
  BY DrainGlitchGood
<1>3. RecvPing(c, f) \in {d, [d EXCEPT !.ping = f.seq]}
  BY DEF RecvPing
<1> HIDE DEF d
<1>4. Good([d EXCEPT !.ping = f.seq])
  BY <1>1, <1>2, SetGood
<1> QED
  BY <1>2, <1>3, <1>4

\* Every frame, accepted or refused, keeps a connection good.
LEMMA RecvGood ==
  ASSUME NEW c, Good(c), NEW f \in PeerFrame
  PROVE  Good(Recv(c, f))
<1>1. ASSUME NEW v \in Error
      PROVE  Good(Fail(c, v))
  BY <1>1, SetGood DEF Fail
<1>2. RecvError(c, f) \in Error
  <2>1. RecvStreamError(c, f) \in Error
    BY DEF RecvStreamError, StreamIdError, Error
  <2>2. RecvResetStreamError(c, f) \in Error
    BY DEF RecvResetStreamError, StreamIdError, Error
  <2>3. RecvStopSendingError(c, f) \in Error
    BY DEF RecvStopSendingError, StreamIdError, Error
  <2>4. RecvMaxDataError(c, f) \in Error /\ RecvMaxStreamsError(c, f) \in Error
    BY DEF RecvMaxDataError, RecvMaxStreamsError, Error
  <2>5. RecvMaxStreamDataError(c, f) \in Error
    BY DEF RecvMaxStreamDataError, StreamIdError, Error
  <2>6. RecvDataBlockedError(c, f) \in Error /\ RecvStreamsBlockedError(c, f) \in Error
    BY DEF RecvDataBlockedError, RecvStreamsBlockedError, Error
  <2>7. RecvStreamDataBlockedError(c, f) \in Error
    BY DEF RecvStreamDataBlockedError, StreamIdError, Error
  <2>8. RecvPingError(c, f) \in Error
    BY DEF RecvPingError, Error
  <2> QED
    BY <2>1, <2>2, <2>3, <2>4, <2>5, <2>6, <2>7, <2>8, PeerFrameFields DEF RecvError
<1>3. CASE RecvError(c, f) # "NONE"
  BY <1>1, <1>2, <1>3 DEF Recv
<1>4. CASE RecvError(c, f) = "NONE"
  <2>0. Recv(c, f) = RecvAccepted(c, f)
    BY <1>4 DEF Recv
  <2>1. CASE f.t = "STREAM"
    BY <1>4, <2>0, <2>1, RecvStreamGood DEF RecvError, RecvAccepted
  <2>2. CASE f.t = "RESET_STREAM"
    BY <2>0, <2>2, RecvResetStreamGood DEF RecvAccepted
  <2>3. CASE f.t = "STOP_SENDING"
    BY <2>0, <2>3, RecvStopSendingGood DEF RecvAccepted
  <2>4. CASE f.t = "MAX_DATA"
    BY <1>4, <2>0, <2>4, RecvMaxDataGood DEF RecvError, RecvAccepted
  <2>5. CASE f.t = "MAX_STREAM_DATA"
    BY <1>4, <2>0, <2>5, RecvMaxStreamDataGood DEF RecvError, RecvAccepted
  <2>6. CASE f.t = "MAX_STREAMS"
    BY <1>4, <2>0, <2>6, RecvMaxStreamsGood DEF RecvError, RecvAccepted
  <2>7. CASE f.t \in {"DATA_BLOCKED", "STREAM_DATA_BLOCKED", "STREAMS_BLOCKED"}
    BY <2>0, <2>7 DEF RecvAccepted
  <2>8. CASE f.t = "QX_PING_REQUEST"
    BY <2>0, <2>8, RecvPingGood DEF RecvAccepted
  <2>9. f.t # "QX_PING_RESPONSE"
    BY <1>4 DEF RecvError, RecvPingError
  <2> QED
    BY <2>1, <2>2, <2>3, <2>4, <2>5, <2>6, <2>7, <2>8, <2>9, PeerFrameFields
<1> QED
  BY <1>3, <1>4

-----------------------------------------------------------------------------
(* Calls that write nothing                                                *)

\* dwnx_conn_open_bidi_stream and dwnx_conn_open_uni_stream keep a connection
\* good.
LEMMA OpenStreamGood ==
  ASSUME NEW c, Good(c), NEW d \in Direction, c.next[d] \in StreamIds
  PROVE  Good(OpenStream(c, d))
<1> DEFINE b == CreateStream(c, c.next[d])
           v == [c.next EXCEPT ![d] = @ + 4]
<1>1. Good(b)
  BY CreateStreamGood
<1>2. v \in [Direction -> Nat]
  BY Fields
<1>3. OpenStream(c, d) = [b EXCEPT !.next = v]
  BY DEF OpenStream, CreateStream
<1> HIDE DEF b, v
<1>4. Good([b EXCEPT !.next = v])
  BY <1>1, <1>2, SetGood
<1> QED
  BY <1>3, <1>4

\* dwnx_conn_shutdown_stream and its halves keep a connection good.
LEMMA ShutdownGood ==
  ASSUME NEW c, Good(c), NEW s \in StreamIds
  PROVE  /\ Good(ShutdownStreamWrite(c, s))
         /\ Good(ShutdownStreamRead(c, s))
         /\ Good(ShutdownStream(c, s))
<1>1. {"SHUT_WR"} \in SUBSET Flag /\ {"STOP_SENDING"} \in SUBSET Flag
  BY DEF Flag
<1>2. ASSUME NEW d, Good(d)
      PROVE  Good(ShutdownStreamWrite(d, s)) /\ Good(ShutdownStreamRead(d, s))
  BY <1>1, <1>2, SetFlagsGood, ScheduleGood DEF ShutdownStreamWrite, ShutdownStreamRead
<1> QED
  BY <1>2 DEF ShutdownStream

-----------------------------------------------------------------------------
(* dwnx_conn_write_vmsg                                                    *)

\* The frames that wait to be written are well typed.
LEMMA FramesType ==
  ASSUME NEW c, Good(c)
  PROVE  /\ MaxStreamsFrames(c) \subseteq Frame
         /\ \A s \in StreamIds : BlockedReports(c, s) \subseteq Frame
         /\ CtrlFrames(c) \subseteq Frame
<1>1. MaxStreamsFrames(c) \subseteq Frame
  BY Fields DEF MaxStreamsFrames, MaxStreamsFr, Frame
<1>2. MaxDataFrames(c) \subseteq Frame
  BY Fields DEF MaxDataFrames, MaxDataFr, Frame
<1>3. PongFrames(c) \subseteq Frame
  <2>1. c.ping > c.pong => c.ping \in Nat
    BY Fields
  <2> QED
    BY <2>1 DEF PongFrames, PongFr, Frame
<1>4. ASSUME NEW s \in StreamIds
      PROVE  /\ DataBlockedFrames(c, s) \subseteq Frame
             /\ StreamDataBlockedFrames(c, s) \subseteq Frame
             /\ ResetFrames(c, s) \subseteq Frame
             /\ StopFrames(c, s) \subseteq Frame
             /\ CreditFrames(c, s) \subseteq Frame
  <2>1. c.strm[s].txOff \in 0..MaxVarint /\ c.strm[s].rxUnsent \in 0..MaxVarint
    BY Fields DEF StrmType, Offset
  <2>2. DataBlockedFrames(c, s) \subseteq Frame
    BY Fields DEF DataBlockedFrames, DataBlockedFr, Frame
  <2>3. StreamDataBlockedFrames(c, s) \subseteq Frame
    BY <2>1 DEF StreamDataBlockedFrames, StreamDataBlockedFr, Frame
  <2>4. ResetFrames(c, s) \subseteq Frame
    BY <2>1 DEF ResetFrames, ResetStreamFr, Frame
  <2>5. StopFrames(c, s) \subseteq Frame
    BY DEF StopFrames, StopSendingFr, Frame
  <2>6. CreditFrames(c, s) \subseteq Frame
    BY <2>1 DEF CreditFrames, MaxStreamDataFr, Frame
  <2> QED
    BY <2>2, <2>3, <2>4, <2>5, <2>6
<1>5. \A s \in StreamIds : BlockedReports(c, s) \subseteq Frame
  BY <1>4 DEF BlockedReports
<1>6. \A s \in StreamIds : StreamFrames(c, s) \subseteq Frame
  BY <1>4 DEF StreamFrames, BlockedFrames
<1>7. CtrlFrames(c) \subseteq Frame
  <2>1. c.strmq \subseteq StreamIds
    BY Fields
  <2>2. QueueFrames(c) \subseteq Frame
    BY <1>6, <2>1 DEF QueueFrames
  <2> QED
    BY <1>1, <1>2, <1>3, <2>2 DEF CtrlFrames, HeadFrames
<1> QED
  BY <1>1, <1>5, <1>7

\* A record to which frames are added stays well typed.
LEMMA BatchType ==
  ASSUME NEW w \in Seq(SUBSET Frame), NEW F \in SUBSET Frame
  PROVE  Append(w, F) \in Seq(SUBSET Frame) /\ Batch(w, F) \in Seq(SUBSET Frame)
BY DEF Batch

\* What fits in a buffer are some of the frames that wait.
LEMMA FitsType ==
  ASSUME NEW F \in SUBSET Frame, NEW out \in Fits(F)
  PROVE  out \in SUBSET Frame
BY DEF Fits, FrontsOf

\* dwnx_qre_final keeps a connection good.
LEMMA FinishRecordGood ==
  ASSUME NEW c, Good(c)
  PROVE  Good(FinishRecord(c))
<1>1. [started |-> FALSE, frames |-> << >>]
        \in [started : BOOLEAN, frames : Seq(SUBSET Frame)]
  OBVIOUS
<1> QED
  BY <1>1, RecordGood DEF FinishRecord

\* Adding frames to the record keeps a connection good.
LEMMA BatchGood ==
  ASSUME NEW c, Good(c), NEW F \in SUBSET Frame
  PROVE  /\ Good([c EXCEPT !.qre.frames = Batch(@, F)])
         /\ F # {} => Good([c EXCEPT !.qre.frames = Append(@, F)])
<1> DEFINE q == [c.qre EXCEPT !.frames = Batch(@, F)]
           p == [c.qre EXCEPT !.frames = Append(@, F)]
<1>1. c.qre \in [started : BOOLEAN, frames : Seq(SUBSET Frame)]
  BY Fields
<1>2. q \in [started : BOOLEAN, frames : Seq(SUBSET Frame)]
  BY <1>1, BatchType
<1>3. p \in [started : BOOLEAN, frames : Seq(SUBSET Frame)]
  BY <1>1, BatchType
<1>4. /\ [c EXCEPT !.qre.frames = Batch(@, F)] = [c EXCEPT !.qre = q]
      /\ [c EXCEPT !.qre.frames = Append(@, F)] = [c EXCEPT !.qre = p]
  OBVIOUS
<1> HIDE DEF p, q
<1>5. Good([c EXCEPT !.qre = q]) /\ Good([c EXCEPT !.qre = p])
  BY <1>2, <1>3, RecordGood
<1> QED
  BY <1>4, <1>5

\* dwnx_conn_write_max_streams keeps a connection good.
LEMMA WriteMaxStreamsGood ==
  ASSUME NEW c, Good(c), NEW out \in SUBSET Frame
  PROVE  Good(WriteMaxStreams(c, out))
<1> DEFINE v == [d \in Direction |->
                   IF MaxStreamsFr(d, c.rxUnsentStreams[d]) \in out
                     THEN c.rxUnsentStreams[d] ELSE c.rxStreams[d]]
           b == [c EXCEPT !.rxStreams = v]
<1>1. v \in [Direction -> 0..MaxStreams]
  BY Fields
<1>2. WriteMaxStreams(c, out) = [b EXCEPT !.qre.frames = Batch(@, out)]
  BY DEF WriteMaxStreams
<1> HIDE DEF v
<1>3. Good(b)
  BY <1>1, StreamLimitsGood
<1> HIDE DEF b
<1>4. Good([b EXCEPT !.qre.frames = Batch(@, out)])
  BY <1>3, BatchGood
<1> QED
  BY <1>2, <1>4

\* The offset at which the connection last reported that it was blocked may
\* take any value of its type.
LEMMA TxBlockedGood ==
  ASSUME NEW c, Good(c), NEW v \in Offset \cup {NoBlocked}
  PROVE  Good([c EXCEPT !.txBlocked = v])
BY DEF Good, ConnType, ConnCredit

\* Writing the blocked reports keeps a connection good.
LEMMA ReportsGood ==
  ASSUME NEW c, Good(c), NEW s \in StreamIds, NEW out \in SUBSET Frame,
         NEW d, d = [c EXCEPT
                       !.txBlocked = IF DataBlockedFrames(c, s) \cap out # {} THEN c.txOff ELSE @,
                       !.strm[s].txBlocked = IF StreamDataBlockedFrames(c, s) \cap out # {}
                                               THEN c.strm[s].txOff ELSE @,
                       !.qre.frames = Batch(@, out)]
  PROVE  Good(d)
<1> DEFINE v == IF DataBlockedFrames(c, s) \cap out # {} THEN c.txOff ELSE c.txBlocked
           u == IF StreamDataBlockedFrames(c, s) \cap out # {}
                  THEN c.strm[s].txOff ELSE c.strm[s].txBlocked
           x == [c.strm[s] EXCEPT !.txBlocked = u]
           d1 == [c EXCEPT !.txBlocked = v]
           d2 == [d1 EXCEPT !.strm[s] = x]
           d3 == [d2 EXCEPT !.qre.frames = Batch(@, out)]
<1>1. d = d3
  OBVIOUS
<1>2. v \in Offset \cup {NoBlocked}
  BY DEF Good, ConnType
<1>3. x \in StrmType /\ StrmCredit(x)
  <2>1. c.strm[s] \in StrmType /\ StrmCredit(c.strm[s])
    BY Fields
  <2>2. u \in Offset \cup {NoBlocked}
    BY <2>1 DEF StrmType
  <2> HIDE DEF u
  <2> QED
    BY <2>1, <2>2 DEF StrmType, StrmCredit
<1> HIDE DEF v, x
<1>4. Good(d1)
  BY <1>2, TxBlockedGood
<1> HIDE DEF d1
<1>5. Good(d2)
  BY <1>3, <1>4, StrmUpdateGood
<1> HIDE DEF d2
<1>6. Good(d3)
  BY <1>5, BatchGood
<1> QED
  BY <1>1, <1>6

\* So does queueing the stream for those that do not fit.
LEMMA ReportBlockedGood ==
  ASSUME NEW c, Good(c), NEW s \in StreamIds, NEW out \in SUBSET Frame
  PROVE  Good(ReportBlocked(c, s, out))
<1> DEFINE d == [c EXCEPT
                   !.txBlocked = IF DataBlockedFrames(c, s) \cap out # {} THEN c.txOff ELSE @,
                   !.strm[s].txBlocked = IF StreamDataBlockedFrames(c, s) \cap out # {}
                                           THEN c.strm[s].txOff ELSE @,
                   !.qre.frames = Batch(@, out)]
<1>1. ReportBlocked(c, s, out)
        \in {d, PushIfNot(SetFlags(d, s, {"SEND_STREAM_DATA_BLOCKED"}), s)}
  BY DEF ReportBlocked
<1>2. Good(d)
  BY ReportsGood
<1> HIDE DEF d
<1>3. {"SEND_STREAM_DATA_BLOCKED"} \in SUBSET Flag
  BY DEF Flag
<1>4. Good(SetFlags(d, s, {"SEND_STREAM_DATA_BLOCKED"}))
  BY <1>2, <1>3, SetFlagsGood
<1> QED
  BY <1>1, <1>2, <1>4, PushGood

\* A STREAM frame whose data is within conn_fc_credits keeps a connection good:
\* this is where the sender respects both windows.
LEMMA StreamFrameGood ==
  ASSUME NEW c, Good(c), NEW s \in StreamIds, NEW w \in Nat, NEW last \in BOOLEAN,
         w <= FcCredits(c, s),
         NEW d, d = [c EXCEPT
                       !.txOff = @ + w,
                       !.strm[s] = Sent(@, w),
                       !.qre.frames = Append(@, {StreamFr(s, c.strm[s].txOff, w, last)})]
  PROVE  Good(d)
<1> DEFINE x == c.strm[s]
           F == {StreamFr(s, x.txOff, w, last)}
           y == Sent(x, w)
           d1 == [c EXCEPT !.txOff = @ + w]
           d2 == [d1 EXCEPT !.strm[s] = y]
           d3 == [d2 EXCEPT !.qre.frames = Append(@, F)]
<1>1. d = d3
  OBVIOUS
<1>2. x \in StrmType /\ StrmCredit(x)
  BY Fields
<1>3. /\ x.txOff \in 0..MaxVarint /\ x.txMax \in 0..MaxVarint
      /\ x.rxLast \in 0..MaxVarint
  BY <1>2 DEF StrmType, Offset
<1>4. w <= x.txMax - x.txOff /\ w <= c.txMax - c.txOff
  <2>1. w <= Lesser(x.txMax - x.txOff, c.txMax - c.txOff)
    BY DEF FcCredits
  <2> HIDE DEF x
  <2> QED
    BY <1>3, <2>1, Fields DEF Lesser
<1> HIDE DEF x
<1>5. c.txOff + w \in Offset /\ c.txOff + w <= c.txMax
  BY <1>4, Fields DEF Offset
<1>6. x.txOff + w \in Offset /\ x.txOff + w <= x.txMax
  BY <1>3, <1>4 DEF Offset
<1>7. y \in StrmType /\ StrmCredit(y)
  BY <1>2, <1>6 DEF Sent, StrmType, StrmCredit, Flag
<1>8. F \in SUBSET Frame /\ F # {}
  <2>1. w \in 0..MaxVarint
    BY <1>3, <1>6 DEF Offset
  <2> QED
    BY <1>3, <2>1 DEF Frame, StreamFr
<1> HIDE DEF y, F
<1>9. Good(d1)
  BY <1>5, TxOffGood
<1> HIDE DEF d1
<1>10. Good(d2)
  BY <1>7, <1>9, StrmUpdateGood
<1> HIDE DEF d2
<1>11. Good(d3)
  BY <1>8, <1>10, BatchGood
<1> QED
  BY <1>1, <1>11

\* So does the frame that carries the end of the stream.
LEMMA WriteDataGood ==
  ASSUME NEW c, Good(c), NEW s \in StreamIds, NEW len \in Nat, NEW w \in Nat,
         NEW fin \in BOOLEAN, w <= FcCredits(c, s)
  PROVE  Good(WriteData(c, s, len, w, fin))
<1> DEFINE last == fin /\ w = len
           d == [c EXCEPT
                   !.txOff = @ + w,
                   !.strm[s] = Sent(@, w),
                   !.qre.frames = Append(@, {StreamFr(s, c.strm[s].txOff, w, last)})]
<1>1. WriteData(c, s, len, w, fin)
        \in {d, CloseStreamIfShutRdWr(SetFlags(d, s, {"SHUT_WR"}), s)}
  BY DEF WriteData
<1>2. last \in BOOLEAN
  OBVIOUS
<1> HIDE DEF last
<1>3. Good(d)
  BY <1>2, StreamFrameGood
<1>4. {"SHUT_WR"} \in SUBSET Flag
  BY DEF Flag
<1> HIDE DEF d
<1>5. Good(SetFlags(d, s, {"SHUT_WR"}))
  BY <1>3, <1>4, SetFlagsGood
<1> QED
  BY <1>1, <1>3, <1>5, CloseStreamGood

\* A stream that had its turn in the loop over the queue is within credit: the
\* limit announced is at most the one that was to be announced.
LEMMA AfterTurnGood ==
  ASSUME NEW c, Good(c), NEW s \in StreamIds, NEW out
  PROVE  AfterTurn(c, s, out) \in StrmType /\ StrmCredit(AfterTurn(c, s, out))
<1> DEFINE x == c.strm[s]
           m == IF CreditFrames(c, s) \cap out # {} THEN x.rxUnsent ELSE x.rxMax
           b == IF StreamDataBlockedFrames(c, s) \cap out # {}
                  THEN x.txOff ELSE x.txBlocked
           G == x.flags \ Cleared(c, s, out)
           y == [x EXCEPT !.flags = G, !.rxMax = m, !.txBlocked = b]
<1>1. AfterTurn(c, s, out) = y
  BY DEF AfterTurn
<1>2. x \in StrmType /\ StrmCredit(x)
  BY Fields
<1> HIDE DEF x
<1>3. m \in Offset /\ b \in Offset \cup {NoBlocked} /\ G \in SUBSET Flag
  BY <1>2 DEF StrmType
<1>4. x.rxLast <= m /\ m <= x.rxUnsent
  BY <1>2 DEF StrmType, StrmCredit, Offset
<1> HIDE DEF m, b, G
<1>5. y \in StrmType
  BY <1>2, <1>3 DEF StrmType
<1>6. StrmCredit(y)
  BY <1>2, <1>4 DEF StrmType, StrmCredit
<1> QED
  BY <1>1, <1>5, <1>6

\* dwnx_conn_write_ctrl_frames keeps a connection good, wherever it stops.
LEMMA WriteCtrlFramesGood ==
  ASSUME NEW c, Good(c), NEW out \in SUBSET Frame
  PROVE  Good(WriteCtrlFrames(c, out))
<1> DEFINE d == WriteCtrlFrames(c, out)
           live == d.live
           strmq == d.strmq
           strm == d.strm
           rxMax == d.rxMax
           pong == d.pong
           txBlocked == d.txBlocked
           rxStreams == d.rxStreams
           qre == d.qre
           e == [c EXCEPT !.live = live, !.strmq = strmq, !.strm = strm,
                          !.rxMax = rxMax, !.pong = pong, !.txBlocked = txBlocked,
                          !.rxStreams = rxStreams, !.qre = qre]
<1>1. d = e
  BY DEF WriteCtrlFrames
<1>2. /\ live \in SUBSET StreamIds /\ strmq \in SUBSET StreamIds
      /\ rxMax \in {c.rxUnsent, c.rxMax} /\ pong \in {c.ping, c.pong}
      /\ txBlocked \in {c.txOff, c.txBlocked}
  BY Fields DEF WriteCtrlFrames
<1>3. rxStreams \in [Direction -> 0..MaxStreams]
  BY Fields DEF WriteCtrlFrames
<1>4. qre \in [started : BOOLEAN, frames : Seq(SUBSET Frame)]
  <2>1. qre = [started |-> TRUE, frames |-> Batch(<< >>, out)]
    BY DEF WriteCtrlFrames
  <2>2. << >> \in Seq(SUBSET Frame)
    OBVIOUS
  <2>3. Batch(<< >>, out) \in Seq(SUBSET Frame)
    BY <2>2, BatchType
  <2> HIDE DEF qre
  <2> QED
    BY <2>1, <2>3
<1>5. strm \in [StreamIds -> StrmType] /\ \A s \in StreamIds : StrmCredit(strm[s])
  <2>1. strm = [s \in StreamIds |-> strm[s]]
    BY DEF WriteCtrlFrames
  <2>2. ASSUME NEW s \in StreamIds
        PROVE  strm[s] \in StrmType /\ StrmCredit(strm[s])
    <3>1. strm[s] \in {NewStrm(c.role, s), c.strm[s], AfterTurn(c, s, out)}
      BY <2>2 DEF WriteCtrlFrames
    <3> HIDE DEF strm
    <3> QED
      BY <2>2, <3>1, Fields, NewStrmGood, AfterTurnGood
  <2> HIDE DEF strm
  <2> QED
    BY <2>1, <2>2
<1> HIDE DEF live, strmq, strm, rxMax, pong, txBlocked, rxStreams, qre
<1>6. /\ rxMax \in Offset /\ c.rxOff <= rxMax /\ rxMax <= c.rxUnsent
      /\ txBlocked \in Offset \cup {NoBlocked} /\ pong \in Nat \cup {-1}
  <2>1. c.txBlocked \in Offset \cup {NoBlocked}
    BY DEF Good, ConnType
  <2> QED
    BY <1>2, <2>1, Fields DEF Offset
<1>7. e \in ConnType
  BY <1>2, <1>3, <1>4, <1>5, <1>6 DEF Good, ConnType
<1>8. ConnCredit(e)
  BY <1>5, <1>6 DEF Good, ConnType, ConnCredit
<1> QED
  BY <1>1, <1>7, <1>8 DEF Good

-----------------------------------------------------------------------------
(* Steps                                                                   *)

USE EndsAssumption, BoundsAssumption, PeerFramesAssumption

\* The inductive invariant of Qmux.
CreditInv == /\ TypeOK
             /\ \A e \in Ends : ConnCredit(conn[e])

\* A new connection is good.
LEMMA InitGood ==
  ASSUME NEW r \in Role
  PROVE  Good(NewConn(r))
<1>1. 1 - r \in Role /\ FirstStreamId(r, "bidi") \in Nat /\ FirstStreamId(r, "uni") \in Nat
  BY DEF Role, FirstStreamId
<1>2. Params[r] \in ParamsType
  OBVIOUS
<1>3. Params[1 - r] \in ParamsType
  BY <1>1
<1> DEFINE next == [d \in Direction |-> FirstStreamId(r, d)]
           strm == [s \in StreamIds |-> NewStrm(r, s)]
           qre == [started |-> FALSE, frames |-> << >>]
<1>4. next \in [Direction -> Nat]
  BY <1>1 DEF Direction
<1>5. strm \in [StreamIds -> StrmType] /\ \A s \in StreamIds : StrmCredit(strm[s])
  BY NewStrmGood
<1>6. qre \in [started : BOOLEAN, frames : Seq(SUBSET Frame)]
  OBVIOUS
<1> HIDE DEF next, strm, qre
<1>7. NewConn(r) \in ConnType
  BY <1>1, <1>2, <1>3, <1>4, <1>5, <1>6
     DEF ParamsType, NewConn, ConnType, Offset, NoBlocked, Error, next, strm, qre
<1>8. ConnCredit(NewConn(r))
  BY <1>2, <1>3, <1>5 DEF ParamsType, NewConn, ConnCredit, strm
<1> QED
  BY <1>7, <1>8 DEF Good

\* A step that replaces one connection by a good one keeps the invariant.
LEMMA ConnStep ==
  ASSUME CreditInv, NEW e \in Ends, NEW c, Good(c),
         conn' = [conn EXCEPT ![e] = c],
         wire' \in [Ends -> Seq(SUBSET Frame)]
  PROVE  CreditInv'
BY DEF CreditInv, TypeOK, Good

\* So does one that leaves the wire alone.
LEMMA QuietStep ==
  ASSUME CreditInv, NEW e \in Ends, NEW c, Good(c),
         conn' = [conn EXCEPT ![e] = c], UNCHANGED wire
  PROVE  CreditInv'
BY ConnStep DEF CreditInv, TypeOK

\* Reading a frame of any type keeps the invariant.
LEMMA ReadKeepsInv ==
  ASSUME CreditInv, NEW e \in Ends, NEW type, Read(e, type)
  PROVE  CreditInv'
<1>1. PICK f \in Incoming(e) :
         /\ conn' = [conn EXCEPT ![e] = Recv(@, f)]
         /\ wire' = IF Peer(e) \in Ends THEN [wire EXCEPT ![e] = After(@, f)] ELSE wire
  BY DEF Read
<1>2. Good(conn[e])
  BY DEF CreditInv, TypeOK, Good
<1>3. wire \in [Ends -> Seq(SUBSET Frame)]
  BY DEF CreditInv, TypeOK
<1>4. CASE Peer(e) \notin Ends
  <2>1. f \in PeerFrame /\ UNCHANGED wire
    BY <1>1, <1>4 DEF Incoming
  <2>2. Good(Recv(conn[e], f))
    BY <1>2, <2>1, RecvGood
  <2> QED
    BY <1>1, <2>1, <2>2, QuietStep
<1>5. CASE Peer(e) \in Ends
  <2> DEFINE w == wire[e]
  <2>1. w \in Seq(SUBSET Frame) /\ w # << >> /\ f \in Head(w)
    BY <1>1, <1>3, <1>5 DEF Incoming, Foremost
  <2>2. Head(w) \in SUBSET Frame
    BY <2>1
  <2>3. f \in PeerFrame
    BY <2>1, <2>2 DEF PeerFrame
  <2>4. After(w, f) \in Seq(SUBSET Frame)
    <3>1. Tail(w) \in Seq(SUBSET Frame)
      BY <2>1
    <3>2. [w EXCEPT ![1] = @ \ {f}] \in Seq(SUBSET Frame)
      BY <2>1, <2>2
    <3> QED
      BY <3>1, <3>2 DEF After
  <2>5. wire' \in [Ends -> Seq(SUBSET Frame)]
    BY <1>1, <1>3, <1>5, <2>4
  <2>6. Good(Recv(conn[e], f))
    BY <1>2, <2>3, RecvGood
  <2> QED
    BY <1>1, <2>5, <2>6, ConnStep
<1> QED
  BY <1>4, <1>5

\* Leaving the record open keeps the invariant.
LEMMA KeepOpenKeepsInv ==
  ASSUME CreditInv, NEW e \in Ends, NEW c, Good(c), KeepOpen(e, c)
  PROVE  CreditInv'
BY QuietStep DEF KeepOpen

\* Completing the record and putting it on the wire keeps the invariant.
LEMMA FinishKeepsInv ==
  ASSUME CreditInv, NEW e \in Ends, NEW c, Good(c), NEW out \in SUBSET Frame,
         Finish(e, c, out)
  PROVE  CreditInv'
<1> DEFINE d == WriteMaxStreams(c, out)
<1>1. Good(d)
  BY WriteMaxStreamsGood
<1>2. /\ conn' = [conn EXCEPT ![e] = FinishRecord(d)]
      /\ wire' = IF Peer(e) \in Ends
                   THEN [wire EXCEPT ![Peer(e)] = @ \o d.qre.frames] ELSE wire
  BY DEF Finish
<1> HIDE DEF d
<1>3. d.qre.frames \in Seq(SUBSET Frame)
  BY <1>1, Fields
<1>4. wire \in [Ends -> Seq(SUBSET Frame)]
  BY DEF CreditInv, TypeOK
<1>5. wire' \in [Ends -> Seq(SUBSET Frame)]
  BY <1>2, <1>3, <1>4
<1>6. Good(FinishRecord(d))
  BY <1>1, FinishRecordGood
<1> QED
  BY <1>2, <1>5, <1>6, ConnStep

\* Starting a record keeps a connection good.
LEMMA StartedGood ==
  ASSUME NEW c, Good(c), NEW out \in CtrlFits(c)
  PROVE  Good(Started(c, out))
<1>1. out \in SUBSET Frame
  BY FramesType, FitsType DEF CtrlFits
<1> QED
  BY <1>1, WriteCtrlFramesGood DEF Started

\* dwnx_conn_write_record keeps the invariant.
LEMMA WriteRecordKeepsInv ==
  ASSUME CreditInv, NEW e \in Ends, WriteRecord(e)
  PROVE  CreditInv'
<1>1. Good(conn[e])
  BY DEF CreditInv, TypeOK, Good
<1>2. PICK out \in CtrlFits(conn[e]) :
        \E last \in LastFits(conn[e], out) : Finish(e, Started(conn[e], out), last)
  BY DEF WriteRecord
<1>3. PICK last \in LastFits(conn[e], out) : Finish(e, Started(conn[e], out), last)
  BY <1>2
<1>4. last \in SUBSET Frame
  BY <1>1, FramesType, FitsType DEF LastFits
<1>5. Good(Started(conn[e], out))
  BY <1>1, StartedGood
<1> QED
  BY <1>3, <1>4, <1>5, FinishKeepsInv

\* dwnx_conn_writev_stream keeps the invariant when it sends data.
LEMMA WriteStreamKeepsInv ==
  ASSUME CreditInv, NEW e \in Ends, NEW s \in StreamIds, NEW len \in 0..MaxWrite,
         NEW fin \in BOOLEAN, WriteStream(e, s, len, fin)
  PROVE  CreditInv'
<1>1. Good(conn[e])
  BY DEF CreditInv, TypeOK, Good
<1>2. PICK out \in CtrlFits(conn[e]) :
        LET c == Started(conn[e], out)
            credits == Lesser(len, FcCredits(c, s))
        IN
        \E w \in IF "split" \in Calls THEN 0..credits ELSE {credits} :
          /\ w = 0 => len = 0
          /\ LET d == WriteData(c, s, len, w, fin) IN
             IF credits = len
               THEN KeepOpen(e, d) \/ Finish(e, d, {})
               ELSE \E reports \in Fits(BlockedReports(d, s)) :
                      LET b == ReportBlocked(d, s, reports) IN
                      KeepOpen(e, b) \/ Finish(e, b, {})
  BY DEF WriteStream
<1> DEFINE c == Started(conn[e], out)
           credits == Lesser(len, FcCredits(c, s))
<1>3. Good(c)
  BY <1>1, StartedGood
<1>4. PICK w \in IF "split" \in Calls THEN 0..credits ELSE {credits} :
        LET d == WriteData(c, s, len, w, fin) IN
        IF credits = len
          THEN KeepOpen(e, d) \/ Finish(e, d, {})
          ELSE \E reports \in Fits(BlockedReports(d, s)) :
                 LET b == ReportBlocked(d, s, reports) IN
                 KeepOpen(e, b) \/ Finish(e, b, {})
  BY <1>2
<1> HIDE DEF c
<1>5. w \in Nat /\ w <= FcCredits(c, s)
  <2>1. FcCredits(c, s) \in Nat
    <3>1. /\ c.strm[s].txOff \in 0..MaxVarint /\ c.strm[s].txMax \in 0..MaxVarint
          /\ c.strm[s].txOff <= c.strm[s].txMax
      BY <1>3, Fields DEF StrmType, StrmCredit, Offset
    <3>2. /\ c.txOff \in 0..MaxVarint /\ c.txMax \in 0..MaxVarint /\ c.txOff <= c.txMax
      BY <1>3, Fields
    <3> QED
      BY <3>1, <3>2 DEF FcCredits, Lesser
  <2>2. credits \in Nat /\ credits <= FcCredits(c, s)
    BY <2>1 DEF Lesser
  <2> HIDE DEF credits
  <2> QED
    BY <2>1, <2>2
<1> HIDE DEF credits
<1> DEFINE d == WriteData(c, s, len, w, fin)
<1>6. Good(d)
  BY <1>3, <1>5, WriteDataGood
<1>7. CASE credits = len
  <2>1. KeepOpen(e, d) \/ Finish(e, d, {})
    BY <1>4, <1>7
  <2> HIDE DEF d
  <2> QED
    BY <1>6, <2>1, KeepOpenKeepsInv, FinishKeepsInv
<1>8. CASE credits # len
  <2>1. PICK reports \in Fits(BlockedReports(d, s)) :
          \/ KeepOpen(e, ReportBlocked(d, s, reports))
          \/ Finish(e, ReportBlocked(d, s, reports), {})
    BY <1>4, <1>8
  <2> HIDE DEF d
  <2>2. reports \in SUBSET Frame
    BY <1>6, FramesType, FitsType
  <2>3. Good(ReportBlocked(d, s, reports))
    BY <1>6, <2>2, ReportBlockedGood
  <2> QED
    BY <2>1, <2>3, KeepOpenKeepsInv, FinishKeepsInv
<1> QED
  BY <1>7, <1>8

\* dwnx_conn_writev_stream keeps the invariant when it is blocked.
LEMMA WriteBlockedStreamKeepsInv ==
  ASSUME CreditInv, NEW e \in Ends, NEW s \in StreamIds, NEW len \in 1..MaxWrite,
         WriteBlockedStream(e, s, len)
  PROVE  CreditInv'
<1>1. Good(conn[e])
  BY DEF CreditInv, TypeOK, Good
<1>2. PICK out \in CtrlFits(conn[e]) :
        \E reports \in Fits(BlockedReports(Started(conn[e], out), s)) :
          LET d == ReportBlocked(Started(conn[e], out), s, reports) IN
          KeepOpen(e, d) \/ Finish(e, d, {})
  BY DEF WriteBlockedStream
<1> DEFINE c == Started(conn[e], out)
<1>3. Good(c)
  BY <1>1, StartedGood
<1> HIDE DEF c
<1>4. PICK reports \in Fits(BlockedReports(c, s)) :
        \/ KeepOpen(e, ReportBlocked(c, s, reports))
        \/ Finish(e, ReportBlocked(c, s, reports), {})
  BY <1>2 DEF c
<1>5. reports \in SUBSET Frame
  BY <1>3, FramesType, FitsType
<1>6. Good(ReportBlocked(c, s, reports))
  BY <1>3, <1>5, ReportBlockedGood
<1> QED
  BY <1>4, <1>6, KeepOpenKeepsInv, FinishKeepsInv

\* The calls that write nothing keep the invariant.
LEMMA AppKeepsInv ==
  ASSUME CreditInv, NEW e \in Ends, AppStep(e)
  PROVE  CreditInv'
<1>1. Good(conn[e])
  BY DEF CreditInv, TypeOK, Good
<1>2. ASSUME NEW d \in Direction, Open(e, d)
      PROVE  CreditInv'
  <2>1. Good(OpenStream(conn[e], d))
    BY <1>1, <1>2, OpenStreamGood DEF Open
  <2> QED
    BY <1>2, <2>1, QuietStep DEF Open
<1>3. ASSUME NEW d \in Direction, ExtendStreams(e, d)
      PROVE  CreditInv'
  <2>1. Good(ExtendMaxStreams(conn[e], d, 1))
    BY <1>1, ExtendGood
  <2> QED
    BY <1>3, <2>1, QuietStep DEF ExtendStreams
<1>4. ASSUME NEW s \in StreamIds, Shutdown(e, s) \/ ShutdownRead(e, s) \/ ShutdownWrite(e, s)
      PROVE  CreditInv'
  <2>1. /\ Good(ShutdownStream(conn[e], s))
        /\ Good(ShutdownStreamRead(conn[e], s))
        /\ Good(ShutdownStreamWrite(conn[e], s))
    BY <1>1, ShutdownGood
  <2> QED
    BY <1>4, <2>1, QuietStep DEF Shutdown, ShutdownRead, ShutdownWrite
<1>5. ASSUME NEW s \in StreamIds, NEW n \in 1..MaxExtend, ExtendStream(e, s, n)
      PROVE  CreditInv'
  <2>1. n \in Nat
    OBVIOUS
  <2>2. Good(ExtendMaxStreamOffset(conn[e], s, n))
    BY <1>1, <2>1, ExtendGood
  <2> QED
    BY <1>5, <2>2, QuietStep DEF ExtendStream
<1>6. ASSUME NEW n \in 1..MaxExtend, ExtendConn(e, n)
      PROVE  CreditInv'
  <2>1. n \in Nat
    OBVIOUS
  <2>2. Good(ExtendMaxOffset(conn[e], n))
    BY <1>1, <2>1, ExtendGood
  <2> QED
    BY <1>6, <2>2, QuietStep DEF ExtendConn
<1> QED
  BY <1>2, <1>3, <1>4, <1>5, <1>6 DEF AppStep

\* Every step keeps the invariant.
LEMMA NextKeepsInv ==
  ASSUME CreditInv, [Next]_vars
  PROVE  CreditInv'
<1>1. ASSUME NEW e \in Ends, ReadStep(e)
      PROVE  CreditInv'
  <2>1. ASSUME ReadStreamData(e)
        PROVE  CreditInv'
    <3>1. PICK n \in 1..conn[e].rd.left :
            conn' = [conn EXCEPT ![e] = RecvStreamData(@, n)] /\ UNCHANGED wire
      BY <2>1 DEF ReadStreamData
    <3>2. Good(conn[e])
      BY DEF CreditInv, TypeOK, Good
    <3>3. Good(RecvStreamData(conn[e], n))
      BY <3>2, RecvStreamDataGood
    <3> QED
      BY <3>1, <3>3, QuietStep
  <2> QED
    BY <1>1, <2>1, ReadKeepsInv
       DEF ReadStep, ReadStream, ReadResetStream, ReadStopSending, ReadLimit,
           ReadBlocked, ReadPing
<1>2. ASSUME NEW e \in Ends, WriteStep(e)
      PROVE  CreditInv'
  BY <1>2, WriteRecordKeepsInv, WriteStreamKeepsInv, WriteBlockedStreamKeepsInv
     DEF WriteStep
<1>3. ASSUME NEW e \in Ends, Refill(e)
      PROVE  CreditInv'
  <2> DEFINE v == conn[e].glitch + 1
  <2>1. Good(conn[e])
    BY DEF CreditInv, TypeOK, Good
  <2>2. v \in 0..GlitchBurst
    BY <1>3, <2>1, Fields DEF Refill
  <2>3. conn' = [conn EXCEPT ![e] = [conn[e] EXCEPT !.glitch = v]] /\ UNCHANGED wire
    BY <1>3 DEF Refill, CreditInv, TypeOK
  <2> HIDE DEF v
  <2>4. Good([conn[e] EXCEPT !.glitch = v])
    BY <2>1, <2>2, SetGood
  <2> QED
    BY <2>3, <2>4, QuietStep
<1>4. CASE UNCHANGED vars
  BY <1>4 DEF vars, CreditInv, TypeOK
<1> QED
  BY <1>1, <1>2, <1>3, <1>4, AppKeepsInv DEF Next

\* The invariant holds initially.
LEMMA InitInv == Init => CreditInv
<1> SUFFICES ASSUME Init PROVE CreditInv
  OBVIOUS
<1>1. \A e \in Ends : Good(conn[e])
  BY InitGood DEF Init
<1>2. wire \in [Ends -> Seq(SUBSET Frame)]
  BY DEF Init
<1> QED
  BY <1>1, <1>2 DEF Init, CreditInv, TypeOK, Good

\* The invariant holds always.
LEMMA CreditInvariant == Spec => []CreditInv
BY InitInv, NextKeepsInv, PTL DEF Spec

\* Every field of both connections keeps its type whatever the peer sends and
\* the application calls: no offset or limit of lib/dwnx_conn.c leaves the range
\* of a varint.
THEOREM TypeCorrect == Spec => []TypeOK
<1>1. CreditInv => TypeOK
  BY DEF CreditInv
<1> QED
  BY <1>1, CreditInvariant, PTL

\* Neither end overruns a window: tx.offset <= tx.max_offset and rx.offset <=
\* rx.max_offset <= rx.unsent_max_offset, on the connection and on each stream,
\* so that no subtraction of conn_fc_credits, conn_max_data_violated,
\* strm_should_send_max_stream_data or conn_should_send_max_data wraps.
THEOREM CreditNeverOverrun == Spec => []CreditOK
<1>1. CreditInv => CreditOK
  <2> SUFFICES ASSUME CreditInv, NEW e \in Ends
               PROVE  WithinCredit(conn[e])
    BY DEF CreditOK
  <2>1. conn[e].live \subseteq StreamIds
    BY DEF CreditInv, TypeOK, ConnType
  <2> QED
    BY <2>1 DEF CreditInv, ConnCredit, StrmCredit, WithinCredit
<1> QED
  BY <1>1, CreditInvariant, PTL
=============================================================================
