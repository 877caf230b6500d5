----------------------------- MODULE LinkProofs -----------------------------
(***************************************************************************)
(* Two endpoints that run the library never refuse each other's frames,    *)
(* lose no bytes, and agree on every limit.  This holds for every set of   *)
(* streams, all transport parameters and every bound of QmuxPair, with two *)
(* endpoints, the client and the server (Ends = Role).                     *)
(*                                                                         *)
(* The inductive invariant is PairInv: LifeInv, which QmuxLifeProofs shows *)
(* of each side whatever its peer does, and Linked: each side is Tied to   *)
(* the other by what is on the wire, followed by the frames of the record  *)
(* under construction.  BytesConserved and LimitsAgree say the same of the *)
(* sums alone and are not inductive: that a frame is accepted depends on   *)
(* the offset, the limit and the finality that it carries itself.          *)
(*                                                                         *)
(* The only error left is the one of the glitch rate limiter: it counts    *)
(* frames for streams that were closed while the frame was on its way, so  *)
(* that a peer which did nothing wrong can drain it.  OnlyGlitchesFail     *)
(* says so; NobodyRefuses is the property that the run checks, for         *)
(* limiters that do not run dry.                                           *)
(***************************************************************************)
EXTENDS TieProofs

-----------------------------------------------------------------------------
(* The record under construction                                           *)

\* What the handlers for streams do not touch: the record under construction
\* and the accounts of the connection.
Account == {"qre", "txOff", "txMax", "rxOff", "rxMax"}

\* Field k is the same.
Keeps(k, c, d) == k \in DOMAIN d /\ d[k] = c[k]

\* The account that reading frame f changes.
Changes(f, k) == \/ f.t = "STREAM" /\ k = "rxOff"
                 \/ f.t = "MAX_DATA" /\ k = "txMax"

\* The parts that the handlers are made of keep it.
LEMMA KeepsParts ==
  ASSUME NEW k \in Account, NEW c, NEW b, Keeps(k, c, b), NEW s
  PROVE  /\ Keeps(k, c, FindOrOpen(b, s)) /\ Keeps(k, c, PushIfNot(b, s))
         /\ Keeps(k, c, DrainGlitch(b)) /\ Keeps(k, c, CloseStreamIfShutRdWr(b, s))
         /\ Keeps(k, c, ScheduleReset(b, s)) /\ Keeps(k, c, ScheduleStopSending(b, s))
         /\ \A F : Keeps(k, c, SetFlags(b, s, F))
         /\ \A v : Keeps(k, c, Fail(b, v)) /\ Keeps(k, c, ExtendMaxOffset(b, v))
BY DEF Keeps, Account, FindOrOpen, CreateStream, PushIfNot, DrainGlitch, Fail, CloseStreamIfShutRdWr,
       CloseStream, SetFlags, ScheduleReset, ScheduleStopSending, ExtendMaxOffset

\* What is read changes one account at most.
LEMMA RecvKeeps ==
  ASSUME NEW k \in Account, NEW c, Good(c), NEW f \in PeerFrame
  PROVE  /\ Changes(f, k) \/ Keeps(k, c, Recv(c, f))
         /\ \A n : Keeps(k, c, RecvStreamData(c, n))
<1>1. k \in DOMAIN c
  BY DEF Good, ConnType, Account
<1> DEFINE s == f.id
           b == FindOrOpen(c, s)
<1>2. Keeps(k, c, b) /\ \A v : Keeps(k, c, Fail(c, v)) /\ Keeps(k, c, DrainGlitch(c)) /\ Keeps(k, c, c)
  <2>1. Keeps(k, c, c)
    BY <1>1 DEF Keeps
  <2> QED
    BY <2>1, KeepsParts
<1> HIDE DEF b, s
<1>3. k # "rxOff" => Keeps(k, c, RecvStream(c, f))
  <2> SUFFICES ASSUME k # "rxOff" PROVE Keeps(k, c, RecvStream(c, f))
    OBVIOUS
  <2> DEFINE d == [b EXCEPT
              !.rxOff = @ + f.len,
              !.strm[s].rxLast = f.off + f.len,
              !.rd = IF f.len = 0 THEN Idle
                     ELSE [id |-> s, left |-> f.len, fin |-> f.fin]]
             g == SetFlags(d, s, {"SHUT_RD"})
  <2>1. Keeps(k, c, d)
    BY <1>2 DEF Keeps, Account
  <2>2. RecvStream(c, f) = IF f.len = 0 /\ f.fin THEN CloseStreamIfShutRdWr(g, s) ELSE d
    BY DEF RecvStream, b, s
  <2> HIDE DEF d
  <2>3. Keeps(k, c, g)
    BY <2>1, KeepsParts
  <2> HIDE DEF g
  <2>4. Keeps(k, c, CloseStreamIfShutRdWr(g, s))
    BY <2>3, KeepsParts
  <2> QED
    BY <2>1, <2>2, <2>4
<1>4. Keeps(k, c, RecvResetStream(c, f))
  <2> DEFINE g == SetFlags(b, s, {"SHUT_RD", "RESET_STREAM_RECVED"})
  <2>1. Keeps(k, c, g)
    BY <1>2, KeepsParts
  <2>2. RecvResetStream(c, f) = CloseStreamIfShutRdWr(g, s)
    BY DEF RecvResetStream, b, s
  <2> HIDE DEF g
  <2> QED
    BY <2>1, <2>2, KeepsParts
<1>5. Keeps(k, c, RecvStopSending(c, f))
  <2> DEFINE F == b.strm[s].flags
             e == IF "SHUT_WR" \in F THEN b ELSE ScheduleReset(b, s)
             g == SetFlags(e, s, {"SHUT_WR", "STOP_SENDING_RECVED"})
  <2>1. RecvStopSending(c, f) = IF Closed(c, s) \/ "STOP_SENDING_RECVED" \in F THEN DrainGlitch(c) ELSE g
    BY DEF RecvStopSending, b, s
  <2>2. Keeps(k, c, e)
    BY <1>2, KeepsParts
  <2> HIDE DEF e
  <2>3. Keeps(k, c, g)
    BY <2>2, KeepsParts
  <2> QED
    BY <1>2, <2>1, <2>3
<1>6. Keeps(k, c, RecvMaxStreamData(c, f))
  <2> DEFINE d == [b EXCEPT !.strm[s].txMax = f.max]
  <2>1. Keeps(k, c, d)
    BY <1>2 DEF Keeps, Account
  <2>2. RecvMaxStreamData(c, f) = IF Closed(c, s) THEN DrainGlitch(c)
          ELSE IF "SHUT_WR" \in d.strm[s].flags THEN DrainGlitch(d) ELSE d
    BY DEF RecvMaxStreamData, b, s
  <2> HIDE DEF d
  <2>3. Keeps(k, c, DrainGlitch(d))
    BY <2>1, KeepsParts
  <2> QED
    BY <1>2, <2>1, <2>2, <2>3
<1>7. (k # "txMax" => Keeps(k, c, RecvMaxData(c, f))) /\ Keeps(k, c, RecvMaxStreams(c, f))
  BY <1>1 DEF Keeps, Account, RecvMaxData, RecvMaxStreams
<1>8. Keeps(k, c, RecvPing(c, f))
  BY <1>2 DEF Keeps, Account, RecvPing
<1>9. Changes(f, k) \/ Keeps(k, c, Recv(c, f))
  <2>1. f.t \in {"STREAM", "RESET_STREAM", "STOP_SENDING", "MAX_DATA", "MAX_STREAM_DATA",
                 "MAX_STREAMS", "DATA_BLOCKED", "STREAM_DATA_BLOCKED", "STREAMS_BLOCKED",
                 "QX_PING_REQUEST", "QX_PING_RESPONSE"}
    BY DEF PeerFrame, Frame
  <2>2. \/ Changes(f, k)
        \/ f.t = "QX_PING_RESPONSE" \/ Keeps(k, c, RecvAccepted(c, f))
    BY <1>2, <1>3, <1>4, <1>5, <1>6, <1>7, <1>8, <2>1 DEF RecvAccepted, Changes
  <2>3. f.t = "QX_PING_RESPONSE" => RecvError(c, f) # "NONE"
    BY DEF RecvError, RecvPingError
  <2> QED
    BY <1>2, <2>2, <2>3 DEF Recv
<1>10. ASSUME NEW n
       PROVE  Keeps(k, c, RecvStreamData(c, n))
  <2> DEFINE d == [c EXCEPT !.rd = Rest(@, n)]
             i == c.rd.id
             e == IF "STOP_SENDING" \in c.strm[i].flags THEN ExtendMaxOffset(d, n) ELSE d
             g == SetFlags(e, i, {"SHUT_RD"})
  <2>1. Keeps(k, c, d)
    BY <1>1 DEF Keeps, Account
  <2>2. RecvStreamData(c, n) = IF c.rd.fin /\ n = c.rd.left THEN CloseStreamIfShutRdWr(g, i) ELSE e
    BY DEF RecvStreamData
  <2> HIDE DEF d
  <2>3. Keeps(k, c, e)
    BY <2>1, KeepsParts
  <2> HIDE DEF e
  <2>4. Keeps(k, c, g)
    BY <2>3, KeepsParts
  <2> HIDE DEF g
  <2>5. Keeps(k, c, CloseStreamIfShutRdWr(g, i))
    BY <2>4, KeepsParts
  <2> QED
    BY <2>2, <2>3, <2>5
<1> QED
  BY <1>9, <1>10

\* Calls that write nothing change none.
LEMMA CallsKeep ==
  ASSUME NEW k \in Account, NEW c, Good(c), NEW s
  PROVE  /\ \A i : Keeps(k, c, OpenStream(c, i))
         /\ Keeps(k, c, ShutdownStreamRead(c, s)) /\ Keeps(k, c, ShutdownStreamWrite(c, s))
         /\ Keeps(k, c, ShutdownStream(c, s))
         /\ \A n : Keeps(k, c, ExtendMaxStreamOffset(c, s, n)) /\ Keeps(k, c, ExtendMaxOffset(c, n))
         /\ \A i, n : Keeps(k, c, ExtendMaxStreams(c, i, n))
<1>1. k \in DOMAIN c
  BY DEF Good, ConnType, Account
<1>2. \A i : Keeps(k, c, OpenStream(c, i))
  BY <1>1 DEF Keeps, Account, OpenStream, CreateStream
<1>3. ASSUME NEW b, k \in DOMAIN b
      PROVE  /\ Keeps(k, b, ShutdownStreamRead(b, s)) /\ Keeps(k, b, ShutdownStreamWrite(b, s))
  <2> DEFINE g == SetFlags(b, s, {"SHUT_WR"})
             h == SetFlags(b, s, {"STOP_SENDING"})
  <2>1. Keeps(k, b, g) /\ Keeps(k, b, h) /\ Keeps(k, b, b)
    <3>1. Keeps(k, b, b)
      BY <1>3 DEF Keeps
    <3> QED
      BY <3>1, KeepsParts
  <2>2. /\ ShutdownStreamWrite(b, s) = b \/ ShutdownStreamWrite(b, s) = ScheduleReset(g, s)
        /\ ShutdownStreamRead(b, s) = b \/ ShutdownStreamRead(b, s) = ScheduleStopSending(h, s)
    BY DEF ShutdownStreamWrite, ShutdownStreamRead
  <2> HIDE DEF g, h
  <2>3. Keeps(k, b, ScheduleReset(g, s)) /\ Keeps(k, b, ScheduleStopSending(h, s))
    BY <2>1, KeepsParts
  <2> QED
    BY <2>1, <2>2, <2>3
<1>4. Keeps(k, c, ShutdownStream(c, s))
  <2> DEFINE d == IF CanRead(c, s) THEN ShutdownStreamRead(c, s) ELSE c
  <2>1. Keeps(k, c, d)
    BY <1>1, <1>3 DEF Keeps
  <2>2. ShutdownStream(c, s) = IF CanWrite(c, s) THEN ShutdownStreamWrite(d, s) ELSE d
    BY DEF ShutdownStream
  <2> HIDE DEF d
  <2> QED
    BY <1>3, <2>1, <2>2 DEF Keeps
<1>5. /\ \A n : Keeps(k, c, ExtendMaxStreamOffset(c, s, n)) /\ Keeps(k, c, ExtendMaxOffset(c, n))
      /\ \A i, n : Keeps(k, c, ExtendMaxStreams(c, i, n))
  BY <1>1 DEF Keeps, Account, ExtendMaxStreamOffset, PushIfNot, ExtendMaxOffset, ExtendMaxStreams
<1> QED
  BY <1>1, <1>2, <1>3, <1>4, <1>5

\* So the record under construction stays the same.
LEMMA RecvRecord ==
  ASSUME NEW c, Good(c), NEW f \in PeerFrame
  PROVE  /\ Recv(c, f).qre = c.qre
         /\ \A n : RecvStreamData(c, n).qre = c.qre
BY RecvKeeps DEF Keeps, Account, Changes

\* In either case.
LEMMA CallsRecord ==
  ASSUME NEW c, Good(c), NEW s
  PROVE  /\ \A i : OpenStream(c, i).qre = c.qre
         /\ ShutdownStreamRead(c, s).qre = c.qre /\ ShutdownStreamWrite(c, s).qre = c.qre
         /\ ShutdownStream(c, s).qre = c.qre
         /\ \A n : ExtendMaxStreamOffset(c, s, n).qre = c.qre /\ ExtendMaxOffset(c, n).qre = c.qre
         /\ \A i, n : ExtendMaxStreams(c, i, n).qre = c.qre
<1>1. "qre" \in Account
  BY DEF Account
<1> QED
  BY <1>1, CallsKeep DEF Keeps

\* A sequence whose first element is replaced.
LEMMA FirstReplaced ==
  ASSUME NEW z \in Seq(SUBSET Frame), z # << >>, NEW F \in SUBSET Frame
  PROVE  /\ [z EXCEPT ![1] = F] \in Seq(SUBSET Frame)
         /\ Len([z EXCEPT ![1] = F]) = Len(z)
         /\ \A i \in 1..Len(z) : [z EXCEPT ![1] = F][i] = IF i = 1 THEN F ELSE z[i]
<1>1. 1 \in 1..Len(z)
  BY EmptySeq
<1> QED
  BY <1>1, ExceptSeq

\* Frames of the record under construction follow those on the wire.
LEMMA Following ==
  ASSUME NEW w \in Seq(SUBSET Frame), NEW q \in Seq(SUBSET Frame)
  PROVE  /\ w \o q \in Seq(SUBSET Frame) /\ w \o << >> = w
         /\ \A F \in SUBSET Frame : w \o Batch(q, F) = Batch(w \o q, F)
         /\ w # << >> => w \o q # << >> /\ Head(w \o q) = Head(w)
         /\ w # << >> => \A f \in Head(w) : After(w \o q, f) = After(w, f) \o q
<1>1. /\ w \o q \in Seq(SUBSET Frame) /\ w \o << >> = w /\ Len(w) \in Nat /\ Len(q) \in Nat
      /\ Len(w \o q) = Len(w) + Len(q)
      /\ \A i \in 1..(Len(w) + Len(q)) : (w \o q)[i] = IF i <= Len(w) THEN w[i] ELSE q[i - Len(w)]
  BY ConcatProperties
<1>2. ASSUME NEW F \in SUBSET Frame
      PROVE  w \o Batch(q, F) = Batch(w \o q, F)
  <2>1. CASE F = {}
    BY <2>1 DEF Batch
  <2>2. CASE F # {}
    <3>1. w \o Append(q, F) = Append(w \o q, F)
      OBVIOUS
    <3> QED
      BY <2>2, <3>1 DEF Batch
  <2> QED
    BY <2>1, <2>2
<1>3. ASSUME w # << >>
      PROVE  /\ w \o q # << >> /\ Head(w \o q) = Head(w)
             /\ \A f \in Head(w) : After(w \o q, f) = After(w, f) \o q
  <2>1. Len(w) \in Nat \ {0}
    BY <1>3, EmptySeq
  <2>2. w \o q # << >> /\ Head(w \o q) = Head(w)
    BY <1>1, <2>1
  <2>3. ASSUME NEW f \in Head(w)
        PROVE  After(w \o q, f) = After(w, f) \o q
    <3>1. CASE Head(w) = {f}
      <4>1. Tail(w \o q) = Tail(w) \o q
        <5>1. Tail(w) \in Seq(SUBSET Frame) /\ Len(Tail(w)) = Len(w) - 1
              /\ \A i \in 1..Len(Tail(w)) : Tail(w)[i] = w[i + 1]
          BY <1>3, HeadTailProperties
        <5>2. Tail(w \o q) \in Seq(SUBSET Frame) /\ Len(Tail(w \o q)) = Len(w \o q) - 1
              /\ \A i \in 1..Len(Tail(w \o q)) : Tail(w \o q)[i] = (w \o q)[i + 1]
          BY <1>1, <2>2, HeadTailProperties
        <5>3. /\ Tail(w) \o q \in Seq(SUBSET Frame) /\ Len(Tail(w) \o q) = Len(w) - 1 + Len(q)
              /\ \A i \in 1..(Len(w) - 1 + Len(q)) :
                   (Tail(w) \o q)[i] = IF i <= Len(w) - 1 THEN Tail(w)[i] ELSE q[i - (Len(w) - 1)]
          BY <5>1, ConcatProperties
        <5>4. Len(Tail(w \o q)) = Len(Tail(w) \o q)
          BY <1>1, <2>1, <5>2, <5>3
        <5>5. ASSUME NEW i \in 1..Len(Tail(w \o q))
              PROVE  Tail(w \o q)[i] = (Tail(w) \o q)[i]
          <6>1. /\ i + 1 \in 1..(Len(w) + Len(q)) /\ i \in 1..(Len(w) - 1 + Len(q))
                /\ i + 1 - Len(w) = i - (Len(w) - 1) /\ (i + 1 <= Len(w) <=> i <= Len(w) - 1)
                /\ (i <= Len(w) - 1 => i \in 1..Len(Tail(w)))
            BY <1>1, <2>1, <5>1, <5>2
          <6>2. Tail(w \o q)[i] = IF i + 1 <= Len(w) THEN w[i + 1] ELSE q[i + 1 - Len(w)]
            BY <1>1, <5>2, <6>1
          <6>3. (Tail(w) \o q)[i] = IF i <= Len(w) - 1 THEN w[i + 1] ELSE q[i - (Len(w) - 1)]
            BY <5>1, <5>3, <6>1
          <6> QED
            BY <6>1, <6>2, <6>3
        <5> QED
          BY <5>2, <5>3, <5>4, <5>5, SeqEqual
      <4> QED
        BY <2>2, <3>1, <4>1 DEF After
    <3>2. CASE Head(w) # {f}
      <4> DEFINE F == w[1] \ {f}
                 a == [w EXCEPT ![1] = F]
                 b == [w \o q EXCEPT ![1] = F]
      <4>1. w[1] \in SUBSET Frame /\ F \in SUBSET Frame /\ (w \o q)[1] = w[1]
        <5>1. 1 \in 1..Len(w)
          BY <2>1
        <5>2. w[1] \in SUBSET Frame
          BY <5>1, ElementOfSeq
        <5> QED
          BY <1>1, <2>1, <5>2
      <4>2. After(w, f) = a /\ After(w \o q, f) = b
        BY <2>2, <3>2, <4>1 DEF After
      <4> HIDE DEF F
      <4>3. /\ a \in Seq(SUBSET Frame) /\ Len(a) = Len(w)
            /\ \A i \in 1..Len(w) : a[i] = IF i = 1 THEN F ELSE w[i]
        BY <1>3, <4>1, FirstReplaced
      <4>4. /\ b \in Seq(SUBSET Frame) /\ Len(b) = Len(w \o q)
            /\ \A i \in 1..Len(w \o q) : b[i] = IF i = 1 THEN F ELSE (w \o q)[i]
        <5> DEFINE z == w \o q
        <5>1. z \in Seq(SUBSET Frame) /\ z # << >> /\ b = [z EXCEPT ![1] = F]
          BY <1>1, <2>2
        <5> HIDE DEF z, b
        <5>2. /\ b \in Seq(SUBSET Frame) /\ Len(b) = Len(z)
              /\ \A i \in 1..Len(z) : b[i] = IF i = 1 THEN F ELSE z[i]
          BY <4>1, <5>1, FirstReplaced
        <5> QED
          BY <5>2 DEF z
      <4> HIDE DEF a, b
      <4>5. /\ a \o q \in Seq(SUBSET Frame) /\ Len(a \o q) = Len(w) + Len(q)
            /\ \A i \in 1..(Len(w) + Len(q)) : (a \o q)[i] = IF i <= Len(w) THEN a[i] ELSE q[i - Len(w)]
        <5>1. a \in Seq(SUBSET Frame) /\ Len(a) = Len(w)
          BY <4>3
        <5>2. /\ a \o q \in Seq(SUBSET Frame) /\ Len(a \o q) = Len(a) + Len(q)
              /\ \A i \in 1..(Len(a) + Len(q)) : (a \o q)[i] = IF i <= Len(a) THEN a[i] ELSE q[i - Len(a)]
          BY <5>1, ConcatProperties
        <5> QED
          BY <5>1, <5>2
      <4>6. ASSUME NEW i \in 1..Len(b)
            PROVE  b[i] = (a \o q)[i]
        <5>1. i \in 1..(Len(w) + Len(q)) /\ i \in 1..Len(w \o q) /\ (i <= Len(w) => i \in 1..Len(w))
              /\ (i = 1 => i <= Len(w))
          BY <1>1, <2>1, <4>4
        <5> QED
          BY <1>1, <4>3, <4>4, <4>5, <5>1
      <4>7. b = a \o q
        BY <1>1, <4>4, <4>5, <4>6, SeqEqual, SMTT(20)
      <4> QED
        BY <4>2, <4>7
    <3> QED
      BY <3>1, <3>2
  <2> QED
    BY <2>2, <2>3
<1> QED
  BY <1>1, <1>2, <1>3

\* Connection c has w on its way to p and, behind it, the frames of the record
\* that it is building.
Bound(c, p, u, w) ==
  /\ w \in Seq(SUBSET Frame)
  /\ Tied(c, p, u, w \o c.qre.frames)
  /\ ~c.qre.started => c.qre.frames = << >>

\* What is known of a connection that is bound.
LEMMA BoundView ==
  ASSUME NEW c, NEW p, NEW u, NEW w, Bound(c, p, u, w)
  PROVE  /\ Good(c) /\ c.qre.frames \in Seq(SUBSET Frame) /\ w \in Seq(SUBSET Frame)
         /\ u \in Seq(SUBSET Frame) /\ Tied(c, p, u, w \o c.qre.frames)
<1>1. Good(c) /\ u \in Seq(SUBSET Frame)
  BY DEF Bound, Tied
<1> QED
  BY <1>1, Fields DEF Bound

\* Frames that are added to the record keep the connection bound.
LEMMA BoundStep ==
  ASSUME NEW c, NEW p, NEW u, NEW w, Bound(c, p, u, w), NEW F \in SUBSET Frame,
         NEW d, d.qre.frames = Batch(c.qre.frames, F), d.qre.started,
         Tied(d, p, u, Batch(w \o c.qre.frames, F))
  PROVE  Bound(d, p, u, w)
<1>1. c.qre.frames \in Seq(SUBSET Frame) /\ w \in Seq(SUBSET Frame)
  BY BoundView
<1>2. w \o Batch(c.qre.frames, F) = Batch(w \o c.qre.frames, F)
  BY <1>1, Following, SMTT(20)
<1> QED
  BY <1>1, <1>2 DEF Bound

\* What fits in a buffer comes first.
LEMMA FitsView ==
  ASSUME NEW F, NEW out \in Fits(F)
  PROVE  out \in FrontsOf(F) /\ out \subseteq F
BY DEF Fits, FrontsOf

\* What dwnx_conn_write_ctrl_frames did not reach is tried once more by
\* write_max_streams.
LEMMA LastView ==
  ASSUME NEW c, Good(c), Tidy(c), Sound(c), ~c.qre.started, NEW out \in CtrlFits(c),
         NEW last \in LastFits(c, out)
  PROVE  last \in SUBSET MaxStreamsFrames(WriteCtrlFrames(c, out))
<1>1. CASE CtrlFrames(c) \ MaxStreamsFrames(c) \subseteq out
  BY <1>1 DEF LastFits
<1>2. CASE ~(CtrlFrames(c) \ MaxStreamsFrames(c) \subseteq out)
  <2>1. last \in SUBSET MaxStreamsFrames(c)
    BY <1>2, FitsView DEF LastFits
  <2>2. out \in FrontsOf(CtrlFrames(c)) /\ CtrlFrames(c) \in SUBSET Frame
    BY FitsView, FramesType DEF CtrlFits
  <2>3. TidySelf(c) /\ c.strmq \subseteq StreamIds
    BY Fields DEF Tidy
  <2>4. \A f \in CtrlFrames(c) : f.t # "STREAM" /\ f \in Frame
    BY <2>3, CtrlFrameView
  <2>5. PICK g \in CtrlFrames(c) : g \notin MaxStreamsFrames(c) /\ g \notin out
    BY <1>2
  <2>6. g.t # "MAX_STREAMS"
    BY <2>3, <2>5, CtrlFrameView
  <2>7. \A f \in out : f.t # "MAX_STREAMS"
    <3>1. SUFFICES ASSUME NEW f \in out, f.t = "MAX_STREAMS" PROVE FALSE
      OBVIOUS
    <3>2. f \in CtrlFrames(c)
      BY <2>2 DEF FrontsOf
    <3>3. Place(f)[1] = 2
      BY <2>4, <3>1, <3>2, PlaceType
    <3>4. Place(g)[1] \in {0, 1}
      <4>1. g.t \in {"RESET_STREAM", "STOP_SENDING", "MAX_DATA", "MAX_STREAM_DATA",
                     "DATA_BLOCKED", "STREAM_DATA_BLOCKED"}
        BY <2>3, <2>5, <2>6, CtrlFrameView
      <4> QED
        BY <2>4, <2>5, <4>1, PlaceType
    <3>5. Before(g, f)
      BY <3>3, <3>4 DEF Before
    <3> QED
      BY <2>2, <2>4, <2>5, <3>5, FrontClosed
  <2> DEFINE d == WriteCtrlFrames(c, out)
  <2>8. \A i \in Direction : d.rxStreams[i] = c.rxStreams[i]
    BY <2>7 DEF WriteCtrlFrames, Good, ConnType, MaxStreamsFr
  <2>9. d.rxUnsentStreams = c.rxUnsentStreams
    BY DEF WriteCtrlFrames, Good, ConnType
  <2>10. MaxStreamsFrames(d) = MaxStreamsFrames(c)
    BY <2>8, <2>9 DEF MaxStreamsFrames
  <2> QED
    BY <2>1, <2>10
<1> QED
  BY <1>1, <1>2

\* A record is started.
LEMMA StartedBound ==
  ASSUME NEW c, NEW p, NEW u, NEW w, Bound(c, p, u, w), Sound(c), NEW out \in CtrlFits(c),
         NEW d, d = Started(c, out)
  PROVE  /\ Bound(d, p, u, w) /\ Sound(d) /\ d.qre.started /\ d.role = c.role
         /\ \A last \in LastFits(c, out) : last \in SUBSET MaxStreamsFrames(d)
         /\ \A s \in StreamIds :
              s \in c.live /\ "SHUT_WR" \notin c.strm[s].flags
              => s \in d.live /\ "SHUT_WR" \notin d.strm[s].flags
<1>1. Good(c) /\ Tidy(c) /\ Tied(c, p, u, w \o c.qre.frames)
  BY DEF Bound, Tied
<1>2. CASE c.qre.started
  <2>1. d = c
    BY <1>2 DEF Started
  <2>2. \A last \in LastFits(c, out) : last \in SUBSET MaxStreamsFrames(c)
    BY <1>2, FitsView DEF LastFits
  <2> QED
    BY <1>2, <2>1, <2>2
<1>3. CASE ~c.qre.started
  <2>1. d = WriteCtrlFrames(c, out) /\ out \in FrontsOf(CtrlFrames(c)) /\ out \in SUBSET Frame
    BY <1>1, <1>3, FitsView, FramesType, FitsType DEF Started, CtrlFits
  <2>2. Tied(d, p, u, Batch(w \o c.qre.frames, out))
    BY <1>1, <2>1, WriteCtrlFramesTied
  <2>3. d.qre = [started |-> TRUE, frames |-> Batch(<< >>, out)] /\ d.role = c.role
    BY <1>1, <2>1 DEF WriteCtrlFrames, Good, ConnType
  <2>4. c.qre.frames = << >>
    BY <1>3 DEF Bound
  <2>5. d.qre.started /\ d.qre.frames = Batch(c.qre.frames, out)
    BY <2>3, <2>4
  <2>6. Bound(d, p, u, w)
    BY <2>1, <2>2, <2>5, BoundStep
  <2>7. \A last \in LastFits(c, out) : last \in SUBSET MaxStreamsFrames(d)
    BY <1>1, <1>3, <2>1, LastView
  <2> QED
    BY <1>1, <2>1, <2>3, <2>5, <2>6, <2>7, WriteCtrlFramesSound
<1> QED
  BY <1>2, <1>3

\* A record is completed and put on the wire.
LEMMA LastBound ==
  ASSUME NEW c, NEW p, NEW u, NEW w, Bound(c, p, u, w), Sound(c),
         NEW last \in SUBSET MaxStreamsFrames(c), NEW d, d = WriteMaxStreams(c, last)
  PROVE  Bound(FinishRecord(d), p, u, w \o d.qre.frames) /\ FinishRecord(d).role = c.role
<1>1. /\ Good(c) /\ c.qre.frames \in Seq(SUBSET Frame) /\ w \in Seq(SUBSET Frame)
      /\ Tied(c, p, u, w \o c.qre.frames) /\ last \in SUBSET Frame
  BY BoundView, FramesType
<1>2. Tied(d, p, u, Batch(w \o c.qre.frames, last))
  BY <1>1, WriteMaxStreamsTied
<1>3. d.qre.frames = Batch(c.qre.frames, last) /\ d.role = c.role
  BY <1>1 DEF WriteMaxStreams, Good, ConnType
<1>4. w \o d.qre.frames = Batch(w \o c.qre.frames, last)
  BY <1>1, <1>3, Following
<1>5. Tied(FinishRecord(d), p, u, w \o d.qre.frames)
  BY <1>2, <1>4, AsideTied
<1>6. Good(d) /\ d.qre.frames \in Seq(SUBSET Frame)
  BY <1>1, <1>2, <1>3, BatchType DEF Tied
<1>7. FinishRecord(d).qre.frames = << >> /\ FinishRecord(d).role = d.role
  BY <1>6 DEF FinishRecord, Good, ConnType
<1>8. w \o d.qre.frames \in Seq(SUBSET Frame)
      /\ (w \o d.qre.frames) \o << >> = w \o d.qre.frames
  BY <1>1, <1>6, Following
<1> QED
  BY <1>3, <1>5, <1>7, <1>8 DEF Bound

\* The relation is the same seen from the other side.
LEMMA TiedBack ==
  ASSUME NEW c, NEW p, NEW u, NEW v, Tied(c, p, u, v)
  PROVE  Tied(p, c, v, u)
<1>1. c.role \in {0, 1} /\ p.role = 1 - c.role
  BY Numbers DEF Tied
<1> QED
  BY <1>1 DEF Tied

\* Each endpoint is bound to the other by what is on its way.
Linked ==
  \A e \in Ends :
    conn[e].role = e /\ Bound(conn[e], conn[Peer(e)], Unread(e), wire[Peer(e)])

\* The inductive invariant of the pair.
PairInv == LifeInv /\ Linked

\* The two endpoints.
LEMMA BothEnds ==
  ASSUME Ends = Role, NEW e \in Ends
  PROVE  /\ Peer(e) \in Ends /\ Peer(e) # e /\ Peer(Peer(e)) = e
         /\ \A g \in Ends : g = e \/ g = Peer(e)
BY DEF Role, Peer

\* What the invariant says of one endpoint.
LEMMA LinkView ==
  ASSUME Ends = Role, PairInv, NEW e \in Ends
  PROVE  /\ Good(conn[e]) /\ Sound(conn[e]) /\ Sound(conn[Peer(e)]) /\ conn[e].role = e
         /\ Bound(conn[e], conn[Peer(e)], Unread(e), wire[Peer(e)])
         /\ wire[e] \in Seq(SUBSET Frame) /\ wire[Peer(e)] \in Seq(SUBSET Frame)
         /\ conn[Peer(e)].qre.frames \in Seq(SUBSET Frame)
         /\ conn[e].qre.frames \in Seq(SUBSET Frame)
         /\ DOMAIN conn = Ends /\ DOMAIN wire = Ends
<1>1. Peer(e) \in Ends
  BY BothEnds
<1>2. Good(conn[e]) /\ Sound(conn[e]) /\ Good(conn[Peer(e)]) /\ Sound(conn[Peer(e)])
  BY <1>1, GoodAndSound DEF PairInv
<1>3. wire \in [Ends -> Seq(SUBSET Frame)] /\ conn \in [Ends -> ConnType]
  BY DEF PairInv, LifeInv, CreditInv, TypeOK
<1>4. conn[e].qre.frames \in Seq(SUBSET Frame) /\ conn[Peer(e)].qre.frames \in Seq(SUBSET Frame)
  BY <1>2, Fields
<1>5. conn[e].role = e /\ Bound(conn[e], conn[Peer(e)], Unread(e), wire[Peer(e)])
  BY DEF PairInv, Linked
<1> QED
  BY <1>1, <1>2, <1>3, <1>4, <1>5

\* An action that changes one connection, and the wire, keeps both linked.
LEMMA OneLink ==
  ASSUME Ends = Role, PairInv, NEW e \in Ends, NEW d, conn' = [conn EXCEPT ![e] = d],
         NEW w \in Seq(SUBSET Frame), NEW z, wire'[e] = w, wire'[Peer(e)] = z, d.role = e,
         Bound(d, conn[Peer(e)], w \o conn[Peer(e)].qre.frames, z)
  PROVE  Linked'
<1> DEFINE r == Peer(e)
           p == conn[r]
<1>1. r \in Ends /\ r # e /\ Peer(r) = e /\ \A g \in Ends : g = e \/ g = r
  BY BothEnds
<1>2. conn'[e] = d /\ conn'[r] = p
  BY <1>1, LinkView
<1>3. p.role = r /\ (~p.qre.started => p.qre.frames = << >>)
  BY <1>1, LinkView DEF Bound
<1>4. Tied(p, d, z \o d.qre.frames, w \o p.qre.frames)
  BY TiedBack DEF Bound
<1>5. Bound(p, d, z \o d.qre.frames, w)
  BY <1>3, <1>4 DEF Bound
<1>6. Unread(e)' = w \o p.qre.frames /\ Unread(r)' = z \o d.qre.frames
  BY <1>1, <1>2 DEF Unread
<1> HIDE DEF p, r
<1>7. conn'[e].role = e /\ Bound(conn'[e], conn'[Peer(e)], Unread(e)', wire'[Peer(e)])
  BY <1>2, <1>6 DEF p, r
<1>8. conn'[r].role = r /\ Bound(conn'[r], conn'[Peer(r)], Unread(r)', wire'[Peer(r)])
  BY <1>1, <1>2, <1>3, <1>5, <1>6
<1>9. \A g \in Ends : conn'[g].role = g /\ Bound(conn'[g], conn'[Peer(g)], Unread(g)', wire'[Peer(g)])
  BY <1>1, <1>7, <1>8
<1> QED
  BY <1>9 DEF Linked

\* So does one that leaves the wire alone.
LEMMA QuietLink ==
  ASSUME Ends = Role, PairInv, NEW e \in Ends, NEW d, conn' = [conn EXCEPT ![e] = d],
         UNCHANGED wire, d.role = e, Bound(d, conn[Peer(e)], Unread(e), wire[Peer(e)])
  PROVE  Linked'
<1>1. wire[e] \in Seq(SUBSET Frame) /\ wire'[e] = wire[e] /\ wire'[Peer(e)] = wire[Peer(e)]
  BY LinkView
<1>2. Bound(d, conn[Peer(e)], wire[e] \o conn[Peer(e)].qre.frames, wire[Peer(e)])
  BY DEF Unread
<1> QED
  BY <1>1, <1>2, OneLink

\* And one that leaves the record under construction alone too.
LEMMA CallLink ==
  ASSUME Ends = Role, PairInv, NEW e \in Ends, NEW d, conn' = [conn EXCEPT ![e] = d],
         UNCHANGED wire, d.qre = conn[e].qre, d.role = conn[e].role,
         Tied(d, conn[Peer(e)], Unread(e), wire[Peer(e)] \o conn[e].qre.frames)
  PROVE  Linked'
<1>1. conn[e].role = e /\ Bound(conn[e], conn[Peer(e)], Unread(e), wire[Peer(e)])
  BY LinkView
<1>2. Bound(d, conn[Peer(e)], Unread(e), wire[Peer(e)])
  BY <1>1 DEF Bound
<1> QED
  BY <1>1, <1>2, QuietLink

\* The first stream id of a side is its smallest.
LEMMA NotBeforeFirst ==
  ASSUME NEW s \in StreamIds
  PROVE  FirstStreamId(s % 2, Dir(s)) <= s
<1>1. s \in Nat
  BY DirOrdinal
<1>2. CASE BidiStream(s)
  BY <1>1, <1>2 DEF FirstStreamId, Dir
<1>3. CASE ~BidiStream(s)
  <2>1. s >= 2 /\ (s < 4 => s = (s % 2) + 2)
    BY <1>1, <1>3 DEF BidiStream
  <2>2. s % 2 \in {0, 1}
    BY <1>1
  <2> QED
    BY <1>1, <1>3, <2>1, <2>2 DEF FirstStreamId, Dir
<1> QED
  BY <1>2, <1>3

\* What one side announces for a stream is what the other starts with.
LEMMA SameInitialLimits ==
  ASSUME NEW r \in Role, NEW s \in StreamIds
  PROVE  /\ InitialMaxTx(r, s) = InitialMaxRx(1 - r, s)
         /\ "SHUT_RD" \in NewStrm(r, s).flags <=> "SHUT_WR" \in NewStrm(1 - r, s).flags
         /\ NewStrm(r, s).txOff = 0 /\ NewStrm(r, s).rxLast = 0
         /\ "SEND_RESET_STREAM" \notin NewStrm(r, s).flags
<1>1. s % 2 \in {0, 1} /\ r \in {0, 1}
  <2>1. s \in Nat
    BY DirOrdinal
  <2> QED
    BY <2>1 DEF Role
<1> QED
  BY <1>1 DEF InitialMaxTx, InitialMaxRx, NewStrm

\* Two new connections agree, with nothing on the way.
LEMMA NewChannel ==
  ASSUME NEW r \in Role, NEW c, c = NewConn(r), NEW p, p = NewConn(1 - r),
         NEW u, u = << >>
  PROVE  Good(c) /\ Tidy(c) /\ Channel(c, p, u)
<1>1. 1 - r \in Role /\ r \in {0, 1} /\ 1 - (1 - r) = r
  BY DEF Role
<1>2. /\ c.role = r /\ p.role = 1 - r /\ c.txMax = p.rxMax /\ c.txStreams = p.rxStreams
      /\ c.txOff = 0 /\ p.txOff = 0 /\ c.rxOff = 0 /\ p.rxOff = 0
      /\ c.live = {} /\ p.live = {} /\ c.idtr = {} /\ p.idtr = {} /\ c.rd = Idle /\ p.rd = Idle
      /\ TidySelf(c)
      /\ \A s \in StreamIds : c.strm[s] = NewStrm(r, s) /\ p.strm[s] = NewStrm(1 - r, s)
  BY <1>1 DEF NewConn, TidySelf
<1>3. Good(c) /\ Good(p)
  BY <1>1, InitGood
<1>4. Tidy(c)
  BY <1>2, NewStrmTidy DEF Tidy, TidyStrm, CanRead, CanWrite, LocalStream
<1>5. u \in Seq(SUBSET Frame) /\ Len(u) = 0
  OBVIOUS
<1>6. \A S : BytesIn(u, S) = 0
  BY <1>5, BytesUpToIs DEF BytesIn
<1>7. Solo(u)
  BY <1>5 DEF Solo
<1>8. FlowTo(c, p, u)
  BY <1>2, <1>3, <1>5, <1>6, Numbers DEF FlowTo, Announced, Latest
<1>9. ASSUME NEW s \in StreamIds
      PROVE  DataTo(c, p, u, s) /\ CreditTo(c, p, u, s)
  <2>1. ~Used(c, s) /\ ~Used(p, s) /\ s # -1
    <3>1. s \in Nat /\ Dir(s) \in Direction /\ FirstStreamId(s % 2, Dir(s)) <= s
      BY DirOrdinal, NotBeforeFirst
    <3>2. c.next[Dir(s)] = FirstStreamId(r, Dir(s)) /\ p.next[Dir(s)] = FirstStreamId(1 - r, Dir(s))
      BY <3>1 DEF NewConn
    <3>3. FirstStreamId(s % 2, Dir(s)) \in Int
      BY <3>1 DEF FirstStreamId
    <3> QED
      BY <1>2, <3>1, <3>2, <3>3 DEF Used, LocalStream
  <2>2. /\ c.strm[s] = NewStrm(r, s) /\ p.strm[s] = NewStrm(1 - r, s)
        /\ c.strm[s].txMax = p.strm[s].rxMax /\ c.strm[s].txMax \in Nat
    <3>1. c.strm[s].txMax \in Nat
      BY <1>3, Numbers
    <3> QED
      BY <1>2, <3>1, SameInitialLimits DEF NewStrm
  <2>3. DataTo(c, p, u, s)
    <3>1. EndRead(c, s) => Finished(p, s)
      <4>1. c.rd.id # s
        BY <1>2, <2>1 DEF Idle
      <4> QED
        BY <1>1, <2>1, <2>2, <4>1, SameInitialLimits DEF EndRead, Finished, Gone
    <3>2. p.strm[s].txOff = c.strm[s].rxLast + BytesIn(u, {s})
      BY <1>1, <1>6, <2>2, SameInitialLimits
    <3> QED
      BY <1>5, <3>1, <3>2 DEF DataTo
  <2>4. CreditTo(c, p, u, s)
    BY <1>2, <1>5, <2>1, <2>2 DEF CreditTo, Announced, Latest, Known, Allowed, Gone
  <2> QED
    BY <2>3, <2>4
<1> QED
  BY <1>3, <1>4, <1>7, <1>8, <1>9 DEF Channel

\* The endpoints are linked from the start.
LEMMA LinkInit ==
  ASSUME Ends = Role, Init
  PROVE  Linked
<1>1. SUFFICES ASSUME NEW e \in Ends
               PROVE  conn[e].role = e /\ Bound(conn[e], conn[Peer(e)], Unread(e), wire[Peer(e)])
  BY DEF Linked
<1>2. e \in Role /\ Peer(e) = 1 - e /\ Peer(e) \in Role /\ Peer(e) \in Ends
  BY BothEnds DEF Peer
<1>3. /\ conn[e] = NewConn(e) /\ conn[Peer(e)] = NewConn(1 - e)
      /\ wire[e] = << >> /\ wire[Peer(e)] = << >>
  BY <1>2 DEF Init
<1> DEFINE c == NewConn(e)
           p == NewConn(1 - e)
           b == << >>
<1>4. 1 - e \in Role /\ 1 - (1 - e) = e /\ c = NewConn(1 - (1 - e))
  BY <1>2 DEF Role
<1>5. /\ c.role = e /\ p.role = 1 - e /\ c.qre.frames = b /\ p.qre.frames = b
      /\ b \o b = b /\ b \in Seq(SUBSET Frame) /\ b = << >>
  BY DEF NewConn
<1> HIDE DEF c, p, b
<1>6. Good(c) /\ Tidy(c) /\ Channel(c, p, b)
  BY <1>2, NewChannel DEF b, c, p
<1>7. Good(p) /\ Tidy(p) /\ Channel(p, c, b)
  BY <1>4, NewChannel DEF b, p
<1>8. Tied(c, p, b, b)
  BY <1>5, <1>6, <1>7 DEF Tied
<1>9. conn[e] = c /\ conn[Peer(e)] = p /\ wire[e] = b /\ wire[Peer(e)] = b
  BY <1>3 DEF b, c, p
<1>10. Unread(e) = b
  BY <1>5, <1>9 DEF Unread
<1> QED
  BY <1>5, <1>8, <1>9, <1>10 DEF Bound

\* Reading a frame keeps the endpoints linked.
LEMMA ReadLink ==
  ASSUME Ends = Role, PairInv, NEW e \in Ends, NEW type, Read(e, type)
  PROVE  Linked'
<1> DEFINE c == conn[e]
           p == conn[Peer(e)]
           w == wire[e]
           q == p.qre.frames
           u == Unread(e)
           v == wire[Peer(e)] \o c.qre.frames
<1>1. Peer(e) \in Ends /\ Peer(e) # e
  BY BothEnds
<1>2. PICK f \in Incoming(e) :
         /\ conn' = [conn EXCEPT ![e] = Recv(@, f)]
         /\ wire' = IF Peer(e) \in Ends THEN [wire EXCEPT ![e] = After(@, f)] ELSE wire
  BY DEF Read
<1>3. w # << >> /\ f \in Head(w) /\ c.rd = Idle
  BY <1>1, <1>2 DEF Incoming, Foremost, Read
<1>4. /\ Good(c) /\ Sound(c) /\ Sound(p) /\ c.role = e /\ Bound(c, p, u, wire[Peer(e)])
      /\ w \in Seq(SUBSET Frame) /\ q \in Seq(SUBSET Frame) /\ u = w \o q
      /\ DOMAIN conn = Ends /\ DOMAIN wire = Ends /\ wire[Peer(e)] \in Seq(SUBSET Frame)
  BY LinkView DEF Unread
<1>5. /\ conn' = [conn EXCEPT ![e] = Recv(c, f)]
      /\ wire'[e] = After(w, f) /\ wire'[Peer(e)] = wire[Peer(e)]
  BY <1>1, <1>2, <1>4
<1>6. Tied(c, p, u, v)
  BY <1>4 DEF Bound
<1> HIDE DEF c, p, w, q, u, v
<1>7. u # << >> /\ f \in Head(u) /\ After(u, f) = After(w, f) \o q
  <2>1. /\ w \o q # << >> /\ Head(w \o q) = Head(w)
        /\ \A g \in Head(w) : After(w \o q, g) = After(w, g) \o q
    BY <1>3, <1>4, Following
  <2> QED
    BY <1>3, <1>4, <2>1
<1>8. After(w, f) \in Seq(SUBSET Frame)
  BY <1>3, <1>4, AfterView
<1>9. Tied(Recv(c, f), p, After(w, f) \o q, v)
  BY <1>3, <1>4, <1>6, <1>7, RecvTied
<1>10. f \in PeerFrame
  BY <1>6, <1>7, FrontView
<1> DEFINE d == Recv(c, f)
<1>11. d.qre = c.qre /\ d.role = c.role
  BY <1>3, <1>4, <1>10, RecvRecord, RecvSound DEF Kept
<1> HIDE DEF d
<1>12. Tied(d, p, After(w, f) \o q, v)
  BY <1>9 DEF d
<1>13. Bound(d, p, After(w, f) \o q, wire[Peer(e)])
  BY <1>4, <1>11, <1>12 DEF Bound, v
<1>14. Bound(d, conn[Peer(e)], After(w, f) \o conn[Peer(e)].qre.frames, wire[Peer(e)])
  BY <1>13 DEF p, q
<1>15. conn' = [conn EXCEPT ![e] = d] /\ d.role = e
  BY <1>4, <1>5, <1>11 DEF d
<1> QED
  BY <1>5, <1>8, <1>14, <1>15, OneLink

\* Calls of the application and the payload of a frame keep them linked.
LEMMA CallsLink ==
  ASSUME Ends = Role, PairInv, NEW e \in Ends,
         AppStep(e) \/ ReadStreamData(e) \/ Refill(e)
  PROVE  Linked'
<1> DEFINE c == conn[e]
           p == conn[Peer(e)]
           u == Unread(e)
           v == wire[Peer(e)] \o c.qre.frames
<1>1. Good(c) /\ Sound(c) /\ Tied(c, p, u, v)
  BY LinkView DEF Bound
<1>2. ASSUME NEW d, conn' = [conn EXCEPT ![e] = d], UNCHANGED wire,
             d.qre = c.qre, Kept(c, d), Tied(d, p, u, v)
      PROVE  Linked'
  BY <1>2, CallLink DEF Kept
<1> HIDE DEF c, p, u, v
<1>3. CASE ReadStreamData(e)
  <2>1. PICK n \in 1..c.rd.left : conn' = [conn EXCEPT ![e] = RecvStreamData(c, n)] /\ UNCHANGED wire
    BY <1>3 DEF ReadStreamData, c
  <2> DEFINE d == RecvStreamData(c, n)
  <2>2. Tied(d, p, u, v) /\ Kept(c, d)
    BY <1>1, RecvStreamDataTied, RecvStreamDataSound
  <2>3. d.qre = c.qre
    <3>1. PingFr(0) \in PeerFrame
      BY DEF PingFr, PeerFrame
    <3> QED
      BY <1>1, <3>1, RecvRecord
  <2> HIDE DEF d
  <2>4. conn' = [conn EXCEPT ![e] = d] /\ UNCHANGED wire
    BY <2>1 DEF d
  <2> QED
    BY <1>2, <2>2, <2>3, <2>4
<1>4. CASE Refill(e)
  <2> DEFINE n == c.glitch + 1
             d == [c EXCEPT !.glitch = n]
  <2>1. n \in 0..GlitchBurst
    <3>1. c.glitch \in 0..GlitchBurst
      BY <1>1, Fields
    <3>2. c.glitch < GlitchBurst
      BY <1>4 DEF Refill, c
    <3> QED
      BY <3>1, <3>2, LimitsAssumption
  <2>5. conn' = [conn EXCEPT ![e] = d] /\ UNCHANGED wire
    BY <1>4 DEF Refill, c
  <2> HIDE DEF n
  <2>2. Tied(d, p, u, v)
    BY <1>1, <2>1, AsideTied
  <2>3. Kept(c, d)
    BY <1>1, OtherAlike, AlikeSound
  <2>4. d.qre = c.qre
    OBVIOUS
  <2> HIDE DEF d
  <2> QED
    BY <1>2, <2>2, <2>3, <2>4, <2>5
<1>5. ASSUME NEW i \in Direction, Open(e, i)
      PROVE  Linked'
  <2> DEFINE d == OpenStream(c, i)
  <2>1. /\ c.next[i] \in StreamIds /\ StreamsLeft(c, i)
        /\ conn' = [conn EXCEPT ![e] = d] /\ UNCHANGED wire
    BY <1>5 DEF Open, c
  <2>2. Tied(d, p, u, v) /\ Kept(c, d) /\ d.qre = c.qre
    BY <1>1, <2>1, OpenTied, OpenStreamSound, CallsRecord
  <2> HIDE DEF d
  <2> QED
    BY <1>2, <2>1, <2>2
<1>6. ASSUME NEW i \in Direction, ExtendStreams(e, i)
      PROVE  Linked'
  <2> DEFINE d == ExtendMaxStreams(c, i, 1)
  <2>1. conn' = [conn EXCEPT ![e] = d] /\ UNCHANGED wire
    BY <1>6 DEF ExtendStreams, c
  <2>2. Tied(d, p, u, v)
    BY <1>1, ExtendTied
  <2>3. Kept(c, d)
    BY <1>1, ExtendSound
  <2>4. d.qre = c.qre
    BY <1>1, CallsRecord
  <2> HIDE DEF d
  <2> QED
    BY <1>2, <2>1, <2>2, <2>3, <2>4
<1>7. ASSUME NEW n \in 1..MaxExtend, ExtendConn(e, n)
      PROVE  Linked'
  <2> DEFINE d == ExtendMaxOffset(c, n)
  <2>1. conn' = [conn EXCEPT ![e] = d] /\ UNCHANGED wire
    BY <1>7 DEF ExtendConn, c
  <2>2. Tied(d, p, u, v) /\ Kept(c, d) /\ d.qre = c.qre
    <3>1. n \in Nat /\ "bidi" \in Direction
      BY DEF Direction
    <3> QED
      BY <1>1, <3>1, ExtendTied, ExtendSound, CallsRecord
  <2> HIDE DEF d
  <2> QED
    BY <1>2, <2>1, <2>2
<1>8. ASSUME NEW s \in StreamIds, Shutdown(e, s) \/ ShutdownRead(e, s) \/ ShutdownWrite(e, s)
      PROVE  Linked'
  <2>1. PICK d \in {ShutdownStream(c, s), ShutdownStreamRead(c, s), ShutdownStreamWrite(c, s)} :
          conn' = [conn EXCEPT ![e] = d] /\ UNCHANGED wire
    BY <1>8 DEF Shutdown, ShutdownRead, ShutdownWrite, c
  <2>2. Tied(d, p, u, v)
    BY <1>1, <2>1, ShutdownTied, ShutdownBothTied
  <2>3. Kept(c, d) /\ d.qre = c.qre
    BY <1>1, <2>1, ShutdownSound, CallsRecord
  <2> QED
    BY <1>2, <2>1, <2>2, <2>3
<1>9. ASSUME NEW s \in StreamIds, NEW n \in 1..MaxExtend, ExtendStream(e, s, n)
      PROVE  Linked'
  <2> DEFINE d == ExtendMaxStreamOffset(c, s, n)
  <2>1. conn' = [conn EXCEPT ![e] = d] /\ UNCHANGED wire
    BY <1>9 DEF ExtendStream, c
  <2>2. Tied(d, p, u, v) /\ Kept(c, d) /\ d.qre = c.qre
    <3>1. n \in Nat
      OBVIOUS
    <3>2. Tied(d, p, u, v)
      BY <1>1, <3>1, ExtendTied
    <3>3. Kept(c, d)
      BY <1>1, <3>1, ExtendStreamSound
    <3>4. d.qre = c.qre
      BY <1>1, CallsRecord
    <3> QED
      BY <3>2, <3>3, <3>4
  <2> HIDE DEF d
  <2> QED
    BY <1>2, <2>1, <2>2
<1>10. CASE AppStep(e)
  BY <1>5, <1>6, <1>7, <1>8, <1>9, <1>10 DEF AppStep
<1> QED
  BY <1>3, <1>4, <1>10

\* A record that stays open keeps them linked.
LEMMA KeepOpenLink ==
  ASSUME Ends = Role, PairInv, NEW e \in Ends, NEW d, KeepOpen(e, d),
         d.role = e, Bound(d, conn[Peer(e)], Unread(e), wire[Peer(e)])
  PROVE  Linked'
BY QuietLink DEF KeepOpen

\* And so does one that is completed.
LEMMA FinishLink ==
  ASSUME Ends = Role, PairInv, NEW e \in Ends, NEW d, d.role = e, Sound(d),
         Bound(d, conn[Peer(e)], Unread(e), wire[Peer(e)]),
         NEW last \in SUBSET MaxStreamsFrames(d), Finish(e, d, last)
  PROVE  Linked'
<1> DEFINE b == WriteMaxStreams(d, last)
           z == wire[Peer(e)]
<1>1. Peer(e) \in Ends /\ Peer(e) # e
  BY BothEnds
<1>2. /\ conn' = [conn EXCEPT ![e] = FinishRecord(b)]
      /\ wire' = [wire EXCEPT ![Peer(e)] = z \o b.qre.frames]
  BY <1>1 DEF Finish
<1>3. DOMAIN wire = Ends /\ wire[e] \in Seq(SUBSET Frame)
  BY LinkView
<1>4. wire'[e] = wire[e] /\ wire'[Peer(e)] = z \o b.qre.frames
  BY <1>1, <1>2, <1>3
<1> HIDE DEF b, z
<1>5. Bound(FinishRecord(b), conn[Peer(e)], Unread(e), z \o b.qre.frames)
      /\ FinishRecord(b).role = d.role
  BY LastBound DEF b, z
<1>6. Bound(FinishRecord(b), conn[Peer(e)], wire[e] \o conn[Peer(e)].qre.frames, z \o b.qre.frames)
  BY <1>5 DEF Unread
<1>7. FinishRecord(b).role = e
  BY <1>5
<1> QED
  BY <1>2, <1>3, <1>4, <1>6, <1>7, OneLink

\* Before a record is written the connection is bound; once it is started it
\* still is.
LEMMA StartLink ==
  ASSUME Ends = Role, PairInv, NEW e \in Ends, NEW out \in CtrlFits(conn[e]),
         NEW d, d = Started(conn[e], out)
  PROVE  /\ Bound(d, conn[Peer(e)], Unread(e), wire[Peer(e)])
         /\ Good(d) /\ Sound(d) /\ d.role = e
         /\ \A last \in LastFits(conn[e], out) : last \in SUBSET MaxStreamsFrames(d)
         /\ d.qre.started
         /\ \A s \in StreamIds :
              s \in conn[e].live /\ "SHUT_WR" \notin conn[e].strm[s].flags
              => s \in d.live /\ "SHUT_WR" \notin d.strm[s].flags
<1>1. /\ Sound(conn[e]) /\ conn[e].role = e
      /\ Bound(conn[e], conn[Peer(e)], Unread(e), wire[Peer(e)])
  BY LinkView
<1> DEFINE c == conn[e]
           p == conn[Peer(e)]
           u == Unread(e)
           w == wire[Peer(e)]
<1> HIDE DEF c, p, u, w
<1>2. Bound(c, p, u, w) /\ Sound(c) /\ out \in CtrlFits(c) /\ d = Started(c, out)
  BY <1>1 DEF c, p, u, w
<1>3. /\ Bound(d, p, u, w) /\ Sound(d) /\ d.qre.started /\ d.role = c.role
      /\ \A last \in LastFits(c, out) : last \in SUBSET MaxStreamsFrames(d)
      /\ \A s \in StreamIds :
           s \in c.live /\ "SHUT_WR" \notin c.strm[s].flags
           => s \in d.live /\ "SHUT_WR" \notin d.strm[s].flags
  BY <1>2, StartedBound
<1>4. Good(d)
  BY <1>3, BoundView
<1> QED
  BY <1>1, <1>3, <1>4 DEF c, p, u, w

\* dwnx_conn_write_record.
LEMMA WriteRecordLink ==
  ASSUME Ends = Role, PairInv, NEW e \in Ends, WriteRecord(e)
  PROVE  Linked'
<1>1. PICK out \in CtrlFits(conn[e]) :
        \E last \in LastFits(conn[e], out) : Finish(e, Started(conn[e], out), last)
  BY DEF WriteRecord
<1>2. PICK last \in LastFits(conn[e], out) : Finish(e, Started(conn[e], out), last)
  BY <1>1
<1> DEFINE d == Started(conn[e], out)
<1>3. /\ Bound(d, conn[Peer(e)], Unread(e), wire[Peer(e)])
      /\ Sound(d) /\ d.role = e /\ last \in SUBSET MaxStreamsFrames(d)
  BY StartLink
<1>4. Finish(e, d, last)
  BY <1>2
<1> HIDE DEF d
<1> QED
  BY <1>3, <1>4, FinishLink

\* Frames of the stream that is being written follow those of the record.
LEMMA FrameLink ==
  ASSUME NEW c, NEW p, NEW u, NEW w, Bound(c, p, u, w), c.qre.started,
         NEW F \in SUBSET Frame, NEW d, Tied(d, p, u, Batch(w \o c.qre.frames, F)),
         d.qre.frames = Batch(c.qre.frames, F), d.qre.started = c.qre.started
  PROVE  Bound(d, p, u, w)
BY BoundStep

\* The record stays under construction while frames are added to it.
LEMMA StaysStarted ==
  ASSUME NEW c, Good(c), NEW s \in StreamIds
  PROVE  /\ \A len, w, fin : WriteData(c, s, len, w, fin).qre.started = c.qre.started
         /\ \A out : ReportBlocked(c, s, out).qre.started = c.qre.started
<1>1. c.qre \in [started : BOOLEAN, frames : Seq(SUBSET Frame)] /\ "qre" \in DOMAIN c
  BY Fields DEF Good, ConnType
<1>2. ASSUME NEW d, "qre" \in DOMAIN d
      PROVE  /\ PushIfNot(SetFlags(d, s, {"SEND_STREAM_DATA_BLOCKED"}), s).qre = d.qre
             /\ CloseStreamIfShutRdWr(SetFlags(d, s, {"SHUT_WR"}), s).qre = d.qre
  BY <1>2 DEF SetFlags, PushIfNot, CloseStreamIfShutRdWr, CloseStream
<1>3. ASSUME NEW len, NEW w, NEW fin
      PROVE  WriteData(c, s, len, w, fin).qre.started = c.qre.started
  <2> DEFINE last == fin /\ w = len
             d == [c EXCEPT !.txOff = @ + w, !.strm[s] = Sent(@, w),
                     !.qre.frames = Append(@, {StreamFr(s, c.strm[s].txOff, w, last)})]
  <2>1. d.qre.started = c.qre.started /\ "qre" \in DOMAIN d
    BY <1>1
  <2>2. WriteData(c, s, len, w, fin) =
          IF last THEN CloseStreamIfShutRdWr(SetFlags(d, s, {"SHUT_WR"}), s) ELSE d
    BY DEF WriteData
  <2> HIDE DEF d, last
  <2> QED
    BY <1>2, <2>1, <2>2
<1>4. ASSUME NEW out
      PROVE  ReportBlocked(c, s, out).qre.started = c.qre.started
  <2> DEFINE d == [c EXCEPT
              !.txBlocked = IF DataBlockedFrames(c, s) \cap out # {} THEN c.txOff ELSE @,
              !.strm[s].txBlocked = IF StreamDataBlockedFrames(c, s) \cap out # {}
                                      THEN c.strm[s].txOff ELSE @,
              !.qre.frames = Batch(@, out)]
  <2>1. d.qre.started = c.qre.started /\ "qre" \in DOMAIN d
    BY <1>1
  <2>2. ReportBlocked(c, s, out) =
          IF out = BlockedReports(c, s) THEN d
          ELSE PushIfNot(SetFlags(d, s, {"SEND_STREAM_DATA_BLOCKED"}), s)
    BY DEF ReportBlocked
  <2> HIDE DEF d
  <2> QED
    BY <1>2, <2>1, <2>2
<1> QED
  BY <1>3, <1>4

\* Stream data is added to the record.
LEMMA DataBound ==
  ASSUME NEW c, NEW p, NEW u, NEW w, Bound(c, p, u, w), Sound(c), c.qre.started,
         NEW s \in StreamIds, s \in c.live, "SHUT_WR" \notin c.strm[s].flags,
         NEW len \in Nat, NEW n \in Nat, n <= FcCredits(c, s), NEW fin \in BOOLEAN,
         NEW d, d = WriteData(c, s, len, n, fin)
  PROVE  /\ Bound(d, p, u, w) /\ Good(d) /\ Sound(d) /\ d.qre.started /\ d.role = c.role
         /\ n # len => s \in d.live /\ "SHUT_WR" \notin d.strm[s].flags
<1> DEFINE F == {StreamFr(s, c.strm[s].txOff, n, fin /\ n = len)}
<1>1. Good(c) /\ Tied(c, p, u, w \o c.qre.frames)
  BY DEF Bound, Tied
<1>2. /\ Tied(d, p, u, Batch(w \o c.qre.frames, F)) /\ d.qre.frames = Batch(c.qre.frames, F)
      /\ n # len => s \in d.live /\ "SHUT_WR" \notin d.strm[s].flags
  BY <1>1, WriteDataTied
<1>3. F \in SUBSET Frame
  <2>1. n <= MaxVarint /\ c.strm[s].txOff \in 0..MaxVarint
    <3>1. /\ c.strm[s].txOff \in Nat /\ c.strm[s].txMax \in Nat /\ c.strm[s].txMax <= MaxVarint
          /\ c.txOff \in Nat /\ c.txMax \in Nat /\ c.strm[s].txOff <= c.strm[s].txMax
      BY <1>1, Numbers
    <3>2. MaxVarint \in Nat
      BY LimitsAssumption
    <3> QED
      BY <3>1, <3>2 DEF FcCredits, Lesser
  <2> QED
    BY <2>1 DEF StreamFr, Frame
<1>4. Sound(d) /\ Kept(c, d)
  BY <1>1, WriteDataSound
<1>5. d.qre.started = c.qre.started
  BY <1>1, StaysStarted
<1> HIDE DEF F
<1>6. Bound(d, p, u, w)
  BY <1>2, <1>3, <1>5, FrameLink
<1> QED
  BY <1>2, <1>4, <1>5, <1>6, BoundView DEF Kept

\* Reports that the stream is blocked are added to the record.
LEMMA ReportBound ==
  ASSUME NEW c, NEW p, NEW u, NEW w, Bound(c, p, u, w), Sound(c), c.qre.started,
         NEW s \in StreamIds, s \in c.live, "SHUT_WR" \notin c.strm[s].flags,
         NEW out \in Fits(BlockedReports(c, s)), NEW d, d = ReportBlocked(c, s, out)
  PROVE  Bound(d, p, u, w) /\ Sound(d) /\ d.role = c.role
<1>1. Good(c) /\ Tied(c, p, u, w \o c.qre.frames)
  BY DEF Bound, Tied
<1>2. out \in SUBSET BlockedReports(c, s) /\ out \in SUBSET Frame
  BY <1>1, FitsView, FramesType
<1>3. Tied(d, p, u, Batch(w \o c.qre.frames, out)) /\ d.qre.frames = Batch(c.qre.frames, out)
  BY <1>1, <1>2, ReportBlockedTied
<1>4. Sound(d) /\ Kept(c, d)
  BY <1>1, <1>2, ReportBlockedSound
<1>5. d.qre.started = c.qre.started
  BY <1>1, StaysStarted
<1>6. Bound(d, p, u, w)
  BY <1>2, <1>3, <1>5, FrameLink
<1> QED
  BY <1>4, <1>6 DEF Kept

\* A record to which the last frames were added stays open or is completed.
LEMMA EitherLink ==
  ASSUME Ends = Role, PairInv, NEW e \in Ends, NEW d, d.role = e, Sound(d),
         Bound(d, conn[Peer(e)], Unread(e), wire[Peer(e)]),
         KeepOpen(e, d) \/ Finish(e, d, {})
  PROVE  Linked'
<1>1. {} \in SUBSET MaxStreamsFrames(d)
  OBVIOUS
<1> QED
  BY <1>1, KeepOpenLink, FinishLink

\* dwnx_conn_writev_stream when it sends data.
LEMMA WriteStreamLink ==
  ASSUME Ends = Role, PairInv, NEW e \in Ends, NEW s \in StreamIds, NEW len \in 0..MaxWrite,
         NEW fin \in BOOLEAN, WriteStream(e, s, len, fin)
  PROVE  Linked'
<1> DEFINE p == conn[Peer(e)]
           u == Unread(e)
           z == wire[Peer(e)]
<1>1. PICK out \in CtrlFits(conn[e]) :
        LET c == Started(conn[e], out)
            credits == Lesser(len, FcCredits(c, s))
        IN
        \E w \in IF "split" \in Calls THEN 0..credits ELSE {credits} :
          /\ w = 0 => len = 0
          /\ LET d == WriteData(c, s, len, w, fin) IN
             IF credits = len
               THEN KeepOpen(e, d) \/ Finish(e, d, {})
               ELSE \E reports \in Fits(BlockedReports(d, s)) :
                      LET b == ReportBlocked(d, s, reports) IN
                      KeepOpen(e, b) \/ Finish(e, b, {})
  BY DEF WriteStream
<1> DEFINE c == Started(conn[e], out)
           credits == Lesser(len, FcCredits(c, s))
<1>2. /\ Bound(c, p, u, z) /\ Good(c) /\ Sound(c) /\ c.role = e /\ c.qre.started
      /\ s \in c.live /\ "SHUT_WR" \notin c.strm[s].flags
  <2>1. s \in conn[e].live /\ "SHUT_WR" \notin conn[e].strm[s].flags
    BY DEF WriteStream, MayWrite
  <2> QED
    BY <2>1, StartLink
<1>3. PICK w \in IF "split" \in Calls THEN 0..credits ELSE {credits} :
        LET d == WriteData(c, s, len, w, fin) IN
        IF credits = len
          THEN KeepOpen(e, d) \/ Finish(e, d, {})
          ELSE \E reports \in Fits(BlockedReports(d, s)) :
                 LET b == ReportBlocked(d, s, reports) IN
                 KeepOpen(e, b) \/ Finish(e, b, {})
  BY <1>1
<1> HIDE DEF c
<1>4. /\ len \in Nat /\ w \in Nat /\ w <= FcCredits(c, s)
      /\ credits # len => w # len
  <2>1. FcCredits(c, s) \in Nat /\ len \in Nat
    BY <1>2, CreditsType
  <2>2. credits \in Nat /\ credits <= FcCredits(c, s) /\ credits <= len
    BY <2>1 DEF Lesser
  <2> HIDE DEF credits
  <2> QED
    BY <2>1, <2>2
<1> HIDE DEF credits, p, u, z
<1> DEFINE d == WriteData(c, s, len, w, fin)
<1>5. /\ Bound(d, p, u, z) /\ Good(d) /\ Sound(d) /\ d.qre.started /\ d.role = e
      /\ w # len => s \in d.live /\ "SHUT_WR" \notin d.strm[s].flags
  BY <1>2, <1>4, DataBound
<1>6. CASE credits = len
  <2>1. KeepOpen(e, d) \/ Finish(e, d, {})
    BY <1>3, <1>6
  <2> HIDE DEF d
  <2> QED
    BY <1>5, <2>1, EitherLink DEF p, u, z
<1>7. CASE credits # len
  <2>1. PICK reports \in Fits(BlockedReports(d, s)) :
          \/ KeepOpen(e, ReportBlocked(d, s, reports))
          \/ Finish(e, ReportBlocked(d, s, reports), {})
    BY <1>3, <1>7
  <2> HIDE DEF d
  <2> DEFINE b == ReportBlocked(d, s, reports)
  <2>2. Bound(b, p, u, z) /\ Sound(b) /\ b.role = e
    BY <1>4, <1>5, <1>7, ReportBound
  <2>3. KeepOpen(e, b) \/ Finish(e, b, {})
    BY <2>1
  <2> HIDE DEF b
  <2> QED
    BY <2>2, <2>3, EitherLink DEF p, u, z
<1> QED
  BY <1>6, <1>7

\* dwnx_conn_writev_stream when it is blocked.
LEMMA WriteBlockedStreamLink ==
  ASSUME Ends = Role, PairInv, NEW e \in Ends, NEW s \in StreamIds, NEW len \in 1..MaxWrite,
         WriteBlockedStream(e, s, len)
  PROVE  Linked'
<1> DEFINE p == conn[Peer(e)]
           u == Unread(e)
           z == wire[Peer(e)]
<1>1. PICK out \in CtrlFits(conn[e]) :
        \E reports \in Fits(BlockedReports(Started(conn[e], out), s)) :
          \/ KeepOpen(e, ReportBlocked(Started(conn[e], out), s, reports))
          \/ Finish(e, ReportBlocked(Started(conn[e], out), s, reports), {})
  BY DEF WriteBlockedStream
<1> DEFINE c == Started(conn[e], out)
<1>2. /\ Bound(c, p, u, z) /\ Sound(c) /\ c.role = e /\ c.qre.started
      /\ s \in c.live /\ "SHUT_WR" \notin c.strm[s].flags
  <2>1. s \in conn[e].live /\ "SHUT_WR" \notin conn[e].strm[s].flags
    BY DEF WriteBlockedStream, MayWrite
  <2> QED
    BY <2>1, StartLink
<1>3. PICK reports \in Fits(BlockedReports(c, s)) :
        \/ KeepOpen(e, ReportBlocked(c, s, reports))
        \/ Finish(e, ReportBlocked(c, s, reports), {})
  BY <1>1
<1> HIDE DEF c, p, u, z
<1> DEFINE d == ReportBlocked(c, s, reports)
<1>4. Bound(d, p, u, z) /\ Sound(d) /\ d.role = e
  BY <1>2, ReportBound
<1>5. KeepOpen(e, d) \/ Finish(e, d, {})
  BY <1>3
<1> HIDE DEF d
<1> QED
  BY <1>4, <1>5, EitherLink DEF p, u, z

\* No step of either endpoint unties the two.
LEMMA NextPair ==
  ASSUME Ends = Role, PairInv, [Next]_vars
  PROVE  PairInv'
<1>1. LifeInv'
  BY NextLife DEF PairInv
<1>2. CASE UNCHANGED vars
  BY <1>2 DEF PairInv, LifeInv, CreditInv, TypeOK, Linked, Unread, vars
<1>3. CASE Next
  <2>1. PICK e \in Ends : ReadStep(e) \/ WriteStep(e) \/ AppStep(e) \/ Refill(e)
    BY <1>3 DEF Next
  <2>2. ASSUME ReadStep(e)
        PROVE  Linked'
    <3>1. ReadStreamData(e) \/ \E type : Read(e, type)
      BY <2>2 DEF ReadStep, ReadStream, ReadResetStream, ReadStopSending, ReadLimit,
                  ReadBlocked, ReadPing
    <3> QED
      BY <3>1, ReadLink, CallsLink
  <2>3. ASSUME WriteStep(e)
        PROVE  Linked'
    BY <2>3, WriteRecordLink, WriteStreamLink, WriteBlockedStreamLink DEF WriteStep
  <2>4. Linked'
    BY <2>1, <2>2, <2>3, CallsLink
  <2> QED
    BY <1>1, <2>4 DEF PairInv
<1> QED
  BY <1>2, <1>3 DEF PairInv

\* The invariant of two endpoints.
LEMMA PairInvariant ==
  ASSUME Ends = Role
  PROVE  Spec => []PairInv
<1>1. Init => PairInv
  BY InitLife, LinkInit DEF PairInv
<1>2. PairInv /\ [Next]_vars => PairInv'
  BY NextPair
<1> QED
  BY <1>1, <1>2, PTL DEF Spec

-----------------------------------------------------------------------------
(* What follows                                                            *)

\* What the invariant says of the frames toward one endpoint.
LEMMA ChannelView ==
  ASSUME Ends = Role, PairInv, NEW e \in Ends
  PROVE  LET c == conn[e]  p == conn[Peer(e)]  u == Unread(e) IN
         /\ Tied(c, p, u, Unread(Peer(e)))
         /\ Good(c) /\ Good(p) /\ u \in Seq(SUBSET Frame)
         /\ c.err \in {"NONE", "INTERNAL"}
         /\ FlowTo(c, p, u)
         /\ \A s \in StreamIds : DataTo(c, p, u, s) /\ CreditTo(c, p, u, s)
<1>1. Peer(Peer(e)) = e
  BY BothEnds
<1>2. Tied(conn[e], conn[Peer(e)], Unread(e), wire[Peer(e)] \o conn[e].qre.frames)
  BY LinkView DEF Bound
<1>3. Unread(Peer(e)) = wire[Peer(e)] \o conn[e].qre.frames
  BY <1>1 DEF Unread
<1>4. Tied(conn[e], conn[Peer(e)], Unread(e), Unread(Peer(e)))
  BY <1>2, <1>3
<1> QED
  BY <1>4 DEF Tied, Channel, Tidy, TidySelf

\* The only way an endpoint fails the other: the glitch rate limiter.
OnlyGlitches == \A e \in Ends : conn[e].err \in {"NONE", "INTERNAL"}

\* dwnx_ratelim_drain in the handlers is the only error between two endpoints
\* that run the library: every check of the conn_recv_* handlers passes.
THEOREM OnlyGlitchesFail ==
  ASSUME Ends = Role
  PROVE  Spec => []OnlyGlitches
<1>1. PairInv => OnlyGlitches
  BY ChannelView DEF OnlyGlitches
<1> QED
  BY <1>1, PairInvariant, PTL

\* Nobody fails as long as neither glitch limiter runs dry.
THEOREM NobodyRefuses ==
  ASSUME Ends = Role
  PROVE  Spec => []((\A e \in Ends : conn[e].err # "INTERNAL") => NoConnectionError)
<1>1. PairInv => ((\A e \in Ends : conn[e].err # "INTERNAL") => NoConnectionError)
  BY ChannelView DEF NoConnectionError
<1> QED
  BY <1>1, PairInvariant, PTL

\* The accounts of both sides agree: what one counts as sent the other has
\* received or will (tx.offset, rx.offset, rx.last_offset).
THEOREM NothingLost ==
  ASSUME Ends = Role
  PROVE  Spec => []BytesConserved
<1>1. ASSUME PairInv
      PROVE  BytesConserved
  <2>1. SUFFICES ASSUME NEW e \in Ends
                 PROVE  /\ conn[Peer(e)].txOff = conn[e].rxOff + BytesIn(Unread(e), StreamIds)
                        /\ \A s \in conn[e].live \cap conn[Peer(e)].live :
                             conn[Peer(e)].strm[s].txOff
                               = conn[e].strm[s].rxLast + BytesIn(Unread(e), {s})
    BY DEF BytesConserved
  <2> DEFINE c == conn[e]
             p == conn[Peer(e)]
             u == Unread(e)
  <2>2. Good(c) /\ FlowTo(c, p, u) /\ \A s \in StreamIds : DataTo(c, p, u, s)
    BY <1>1, ChannelView
  <2> HIDE DEF c, p, u
  <2>3. p.txOff = c.rxOff + BytesIn(u, StreamIds)
    BY <2>2 DEF FlowTo
  <2>4. ASSUME NEW s \in c.live \cap p.live
        PROVE  p.strm[s].txOff = c.strm[s].rxLast + BytesIn(u, {s})
    <3>1. s \in StreamIds /\ ~Gone(c, s) /\ ~Gone(p, s)
      BY <2>2, Fields DEF Gone
    <3> QED
      BY <2>2, <3>1 DEF DataTo
  <2> QED
    BY <2>3, <2>4 DEF c, p, u
<1> QED
  BY <1>1, PairInvariant, PTL

\* No sender works with a limit that was not announced, and with nothing on
\* its way both sides have the same limits (rx.max_offset, tx.max_offset,
\* max_streams).
THEOREM LimitsFollow ==
  ASSUME Ends = Role
  PROVE  Spec => []LimitsAgree
<1>1. ASSUME PairInv
      PROVE  LimitsAgree
  <2> SUFFICES ASSUME NEW e \in Ends
               PROVE  LET c == conn[e]  p == conn[Peer(e)] IN
                      /\ p.txMax <= c.rxMax
                      /\ \A d \in Direction : p.txStreams[d] <= c.rxStreams[d]
                      /\ \A s \in c.live \cap p.live : p.strm[s].txMax <= c.strm[s].rxMax
                      /\ conn[e].qre.frames = << >> /\ wire[Peer(e)] = << >> =>
                           /\ p.txMax = c.rxMax
                           /\ \A d \in Direction : p.txStreams[d] = c.rxStreams[d]
                           /\ \A s \in c.live \cap p.live : p.strm[s].txMax = c.strm[s].rxMax
    BY DEF LimitsAgree
  <2> DEFINE c == conn[e]
             p == conn[Peer(e)]
             u == Unread(Peer(e))
             none == conn[e].qre.frames = << >> /\ wire[Peer(e)] = << >>
  <2>1. Peer(e) \in Ends /\ Peer(Peer(e)) = e
    BY BothEnds
  <2>2. /\ Good(p) /\ Good(c) /\ FlowTo(p, c, u) /\ \A s \in StreamIds : CreditTo(p, c, u, s)
    BY <1>1, <2>1, ChannelView
  <2>3. none => u = << >> /\ Len(u) = 0
    BY <2>1 DEF Unread
  <2> HIDE DEF c, p, u, none
  <2>4. p.txMax <= c.rxMax /\ \A d \in Direction : p.txStreams[d] <= c.rxStreams[d]
    BY <2>2 DEF FlowTo, Announced
  <2>5. none => p.txMax = c.rxMax /\ \A d \in Direction : p.txStreams[d] = c.rxStreams[d]
    BY <2>2, <2>3 DEF FlowTo, Latest
  <2>6. ASSUME NEW s \in c.live \cap p.live
        PROVE  /\ p.strm[s].txMax <= c.strm[s].rxMax
               /\ none => p.strm[s].txMax = c.strm[s].rxMax
    <3>1. s \in StreamIds /\ ~Gone(c, s) /\ ~Gone(p, s)
      BY <2>2, Fields DEF Gone
    <3>2. CreditTo(p, c, u, s)
      BY <2>2, <3>1
    <3> QED
      BY <2>3, <3>1, <3>2 DEF CreditTo, Announced, Latest, Known, Allowed
  <2> QED
    BY <2>4, <2>5, <2>6 DEF c, p, none
<1> QED
  BY <1>1, PairInvariant, PTL

-----------------------------------------------------------------------------
(* Flow control of the connection                                          *)

\* What a connection that reads, or that writes, may do to its accounts.
Hears(c, d) ==
  /\ d.rxMax = c.rxMax /\ d.txOff = c.txOff
  /\ c.rxOff <= d.rxOff /\ c.txMax <= d.txMax

Speaks(c, d) ==
  /\ d.rxOff = c.rxOff /\ d.txMax = c.txMax
  /\ c.rxMax <= d.rxMax /\ c.txOff <= d.txOff

\* Saying more is saying.
LEMMA SpeaksOrder ==
  /\ \A c : Good(c) => Speaks(c, c)
  /\ \A b, c, d : Good(b) /\ Good(c) /\ Good(d) /\ Speaks(b, c) /\ Speaks(c, d) => Speaks(b, d)
<1>1. ASSUME NEW b, NEW c, NEW d, Good(b), Good(c), Good(d), Speaks(b, c), Speaks(c, d)
      PROVE  Speaks(b, d)
  <2>1. /\ b.rxMax \in Nat /\ c.rxMax \in Nat /\ d.rxMax \in Nat
        /\ b.txOff \in Nat /\ c.txOff \in Nat /\ d.txOff \in Nat
    BY <1>1, Numbers
  <2> QED
    BY <1>1, <2>1 DEF Speaks
<1>2. ASSUME NEW c, Good(c)
      PROVE  Speaks(c, c)
  <2>1. c.rxMax \in Nat /\ c.txOff \in Nat
    BY <1>2, Numbers
  <2> QED
    BY <2>1 DEF Speaks
<1> QED
  BY <1>1, <1>2

\* Nothing is read without being accounted for.
LEMMA RecvHears ==
  ASSUME NEW c, NEW p, NEW u, NEW v, Tied(c, p, u, v), Sound(c), Sound(p), c.rd = Idle,
         u # << >>, NEW f \in Head(u)
  PROVE  Hears(c, Recv(c, f))
<1> DEFINE d == Recv(c, f)
           S == StreamIds
           w == After(u, f)
           x == BytesOf({f}, S)
<1>1. Tied(d, p, w, v)
  BY RecvTied
<1>2. Good(c) /\ f \in PeerFrame /\ f \in Frame /\ u \in Seq(SUBSET Frame) /\ Solo(u)
  BY FrontView DEF Tied
<1>3. x \in Nat /\ BytesIn(w, S) + x = BytesIn(u, S)
  BY <1>2, AfterSums
<1>4. p.txOff = c.rxOff + BytesIn(u, S)
  BY DEF Tied, Channel, FlowTo
<1>5. p.txOff = d.rxOff + BytesIn(w, S) /\ Good(d) /\ w \in Seq(SUBSET Frame)
  BY <1>1 DEF Tied, Channel, FlowTo
<1>6. /\ c.rxOff \in Nat /\ d.rxOff \in Nat /\ c.txMax \in Nat /\ d.txMax \in Nat
  BY <1>2, <1>5, Numbers
<1>7. BytesIn(w, S) \in Nat /\ BytesIn(u, S) \in Nat
  <2>1. Len(w) \in Nat /\ Len(u) \in Nat
    BY <1>2, <1>5
  <2> QED
    BY <1>2, <1>5, <2>1, BytesUpToIs DEF BytesIn
<1>8. d.rxMax = c.rxMax /\ d.txOff = c.txOff /\ (f.t # "MAX_DATA" => d.txMax = c.txMax)
  BY <1>2, RecvKeeps DEF Keeps, Account, Changes
<1>9. f.t = "MAX_DATA" => c.txMax <= d.txMax
  <2> SUFFICES ASSUME f.t = "MAX_DATA" PROVE c.txMax <= d.txMax
    OBVIOUS
  <2>1. RecvMaxDataError(c, f) = "NONE"
    BY RecvLimitTied
  <2>2. d = RecvMaxData(c, f)
    BY <2>1 DEF Recv, RecvError, RecvAccepted
  <2>3. d.txMax = f.max
    BY <1>2, <2>2 DEF RecvMaxData, Good, ConnType
  <2>4. ~(c.txMax >= f.max)
    BY <2>1 DEF RecvMaxDataError
  <2> HIDE DEF d
  <2> QED
    BY <1>6, <2>3, <2>4
<1> HIDE DEF d, w, x, S
<1>10. c.rxOff <= d.rxOff
  BY <1>3, <1>4, <1>5, <1>6, <1>7
<1>11. c.txMax <= d.txMax
  BY <1>6, <1>8, <1>9
<1> QED
  BY <1>8, <1>10, <1>11 DEF Hears, d

\* What is written never takes anything back.
LEMMA WriteSpeaks ==
  ASSUME NEW c, Good(c), NEW s
  PROVE  /\ \A out : Speaks(c, WriteCtrlFrames(c, out)) /\ Speaks(c, WriteMaxStreams(c, out))
         /\ \A len, fin : \A w \in Nat : Speaks(c, WriteData(c, s, len, w, fin))
         /\ \A out : Speaks(c, ReportBlocked(c, s, out))
         /\ Speaks(c, FinishRecord(c))
<1>1. /\ c.rxMax \in Nat /\ c.rxUnsent \in Nat /\ c.rxMax <= c.rxUnsent /\ c.txOff \in Nat
      /\ {"rxMax", "rxOff", "txMax", "txOff", "qre"} \subseteq DOMAIN c
  BY Fields, Numbers DEF Good, ConnType
<1>2. \A out : Speaks(c, WriteCtrlFrames(c, out))
  BY <1>1 DEF Speaks, WriteCtrlFrames
<1>3. \A out : Speaks(c, WriteMaxStreams(c, out))
  BY <1>1 DEF Speaks, WriteMaxStreams
<1>4. Speaks(c, FinishRecord(c))
  BY <1>1 DEF Speaks, FinishRecord
<1>5. ASSUME NEW len, NEW fin, NEW w \in Nat
      PROVE  Speaks(c, WriteData(c, s, len, w, fin))
  <2> DEFINE last == fin /\ w = len
             d == [c EXCEPT !.txOff = @ + w, !.strm[s] = Sent(@, w),
                     !.qre.frames = Append(@, {StreamFr(s, c.strm[s].txOff, w, last)})]
             g == SetFlags(d, s, {"SHUT_WR"})
             h == CloseStreamIfShutRdWr(g, s)
  <2>1. WriteData(c, s, len, w, fin) = IF last THEN h ELSE d
    BY DEF WriteData
  <2>2. /\ d.rxOff = c.rxOff /\ d.txMax = c.txMax /\ d.rxMax = c.rxMax /\ d.txOff = c.txOff + w
        /\ {"rxMax", "rxOff", "txMax", "txOff"} \subseteq DOMAIN d
    BY <1>1
  <2> HIDE DEF d
  <2>3. /\ h.rxOff = d.rxOff /\ h.txMax = d.txMax /\ h.rxMax = d.rxMax /\ h.txOff = d.txOff
    BY <2>2 DEF SetFlags, CloseStreamIfShutRdWr, CloseStream
  <2> HIDE DEF g, h, last
  <2> QED
    BY <1>1, <2>1, <2>2, <2>3 DEF Speaks
<1>6. ASSUME NEW out
      PROVE  Speaks(c, ReportBlocked(c, s, out))
  <2> DEFINE d == [c EXCEPT
              !.txBlocked = IF DataBlockedFrames(c, s) \cap out # {} THEN c.txOff ELSE @,
              !.strm[s].txBlocked = IF StreamDataBlockedFrames(c, s) \cap out # {}
                                      THEN c.strm[s].txOff ELSE @,
              !.qre.frames = Batch(@, out)]
             h == PushIfNot(SetFlags(d, s, {"SEND_STREAM_DATA_BLOCKED"}), s)
  <2>1. ReportBlocked(c, s, out) = IF out = BlockedReports(c, s) THEN d ELSE h
    BY DEF ReportBlocked
  <2>2. /\ d.rxOff = c.rxOff /\ d.txMax = c.txMax /\ d.rxMax = c.rxMax /\ d.txOff = c.txOff
        /\ {"rxMax", "rxOff", "txMax", "txOff"} \subseteq DOMAIN d
    BY <1>1
  <2> HIDE DEF d
  <2>3. /\ h.rxOff = d.rxOff /\ h.txMax = d.txMax /\ h.rxMax = d.rxMax /\ h.txOff = d.txOff
    BY <2>2 DEF SetFlags, PushIfNot
  <2> HIDE DEF h
  <2> QED
    BY <1>1, <2>1, <2>2, <2>3 DEF Speaks
<1> QED
  BY <1>2, <1>3, <1>4, <1>5, <1>6

\* A call by e of either kind.
Exchanges(e) ==
  \E d : conn' = [conn EXCEPT ![e] = d] /\ (Hears(conn[e], d) \/ Speaks(conn[e], d))

\* Fields that stay the same neither hear nor speak.
LEMMA KeepsHears ==
  ASSUME NEW c, Good(c), NEW d, \A k \in Account : Keeps(k, c, d)
  PROVE  Hears(c, d)
<1>1. c.rxOff \in Nat /\ c.txMax \in Nat
  BY Numbers
<1>2. d.rxOff = c.rxOff /\ d.txMax = c.txMax /\ d.rxMax = c.rxMax /\ d.txOff = c.txOff
  BY DEF Keeps, Account
<1> QED
  BY <1>1, <1>2 DEF Hears

\* Reading.
LEMMA ReadExchanges ==
  ASSUME Ends = Role, PairInv, NEW e \in Ends, NEW type, Read(e, type)
  PROVE  Exchanges(e)
<1> DEFINE c == conn[e]
           p == conn[Peer(e)]
           w == wire[e]
           q == p.qre.frames
           u == Unread(e)
           v == wire[Peer(e)] \o c.qre.frames
<1>1. Peer(e) \in Ends
  BY BothEnds
<1>2. PICK f \in Incoming(e) : conn' = [conn EXCEPT ![e] = Recv(@, f)]
  BY DEF Read
<1>3. w # << >> /\ f \in Head(w) /\ c.rd = Idle
  BY <1>1, <1>2 DEF Incoming, Foremost, Read
<1>4. /\ Sound(c) /\ Sound(p) /\ w \in Seq(SUBSET Frame) /\ q \in Seq(SUBSET Frame)
      /\ u = w \o q /\ Tied(c, p, u, v)
  BY LinkView DEF Unread, Bound
<1>5. conn' = [conn EXCEPT ![e] = Recv(c, f)]
  BY <1>2
<1> HIDE DEF c, p, w, q, u, v
<1>6. w \o q # << >> /\ Head(w \o q) = Head(w)
  BY <1>3, <1>4, Following
<1>7. u # << >> /\ f \in Head(u)
  BY <1>3, <1>4, <1>6
<1>8. Hears(c, Recv(c, f))
  BY <1>3, <1>4, <1>7, RecvHears
<1> QED
  BY <1>5, <1>8 DEF Exchanges, c

\* The payload of a frame, the calls that write nothing and the time.
LEMMA CallsExchange ==
  ASSUME Ends = Role, PairInv, NEW e \in Ends,
         AppStep(e) \/ ReadStreamData(e) \/ Refill(e)
  PROVE  Exchanges(e)
<1> DEFINE c == conn[e]
<1>1. Good(c)
  BY LinkView
<1>2. ASSUME NEW d, conn' = [conn EXCEPT ![e] = d], \A k \in Account : Keeps(k, c, d)
      PROVE  Exchanges(e)
  BY <1>1, <1>2, KeepsHears DEF Exchanges
<1> HIDE DEF c
<1>3. CASE ReadStreamData(e)
  <2>1. PICK n \in 1..c.rd.left : conn' = [conn EXCEPT ![e] = RecvStreamData(c, n)]
    BY <1>3 DEF ReadStreamData, c
  <2>2. PingFr(0) \in PeerFrame
    BY DEF PingFr, PeerFrame
  <2> QED
    BY <1>1, <1>2, <2>1, <2>2, RecvKeeps
<1>4. CASE Refill(e)
  <2> DEFINE d == [c EXCEPT !.glitch = c.glitch + 1]
  <2>1. conn' = [conn EXCEPT ![e] = d]
    BY <1>4 DEF Refill, c
  <2>2. \A k \in Account : Keeps(k, c, d)
    BY <1>1 DEF Keeps, Account, Good, ConnType
  <2> HIDE DEF d
  <2> QED
    BY <1>2, <2>1, <2>2
<1>5. ASSUME NEW i, Open(e, i)
      PROVE  Exchanges(e)
  <2>1. conn' = [conn EXCEPT ![e] = OpenStream(c, i)]
    BY <1>5 DEF Open, c
  <2> QED
    BY <1>1, <1>2, <2>1, CallsKeep
<1>6. ASSUME NEW i, ExtendStreams(e, i)
      PROVE  Exchanges(e)
  <2>1. conn' = [conn EXCEPT ![e] = ExtendMaxStreams(c, i, 1)]
    BY <1>6 DEF ExtendStreams, c
  <2> QED
    BY <1>1, <1>2, <2>1, CallsKeep
<1>7. ASSUME NEW n, ExtendConn(e, n)
      PROVE  Exchanges(e)
  <2>1. conn' = [conn EXCEPT ![e] = ExtendMaxOffset(c, n)]
    BY <1>7 DEF ExtendConn, c
  <2> QED
    BY <1>1, <1>2, <2>1, CallsKeep
<1>8. ASSUME NEW s, Shutdown(e, s) \/ ShutdownRead(e, s) \/ ShutdownWrite(e, s)
      PROVE  Exchanges(e)
  <2>1. PICK d \in {ShutdownStream(c, s), ShutdownStreamRead(c, s), ShutdownStreamWrite(c, s)} :
          conn' = [conn EXCEPT ![e] = d]
    BY <1>8 DEF Shutdown, ShutdownRead, ShutdownWrite, c
  <2>2. \A k \in Account : Keeps(k, c, d)
    BY <1>1, <2>1, CallsKeep
  <2> QED
    BY <1>2, <2>1, <2>2
<1>9. ASSUME NEW s, NEW n, ExtendStream(e, s, n)
      PROVE  Exchanges(e)
  <2>1. conn' = [conn EXCEPT ![e] = ExtendMaxStreamOffset(c, s, n)]
    BY <1>9 DEF ExtendStream, c
  <2> QED
    BY <1>1, <1>2, <2>1, CallsKeep
<1>10. CASE AppStep(e)
  BY <1>5, <1>6, <1>7, <1>8, <1>9, <1>10 DEF AppStep
<1> QED
  BY <1>3, <1>4, <1>10

\* A record that stays open, or is completed.
LEMMA EitherExchanges ==
  ASSUME Ends = Role, PairInv, NEW e \in Ends, NEW d, Good(d), Speaks(conn[e], d),
         \/ KeepOpen(e, d)
         \/ \E last \in SUBSET Frame : Finish(e, d, last)
  PROVE  Exchanges(e)
<1>1. CASE KeepOpen(e, d)
  BY <1>1 DEF KeepOpen, Exchanges
<1>2. ASSUME NEW last \in SUBSET Frame, Finish(e, d, last)
      PROVE  Exchanges(e)
  <2> DEFINE b == WriteMaxStreams(d, last)
             f == FinishRecord(b)
  <2>1. conn' = [conn EXCEPT ![e] = f]
    BY <1>2 DEF Finish
  <2>3. Good(conn[e]) /\ Good(b) /\ Good(f)
    BY LinkView, WriteMaxStreamsGood, FinishRecordGood
  <2>4. Speaks(d, b) /\ Speaks(b, f)
    <3> HIDE DEF b, f
    <3>1. Speaks(d, b)
      BY WriteSpeaks DEF b
    <3>2. Speaks(b, f)
      BY <2>3, WriteSpeaks DEF f
    <3> QED
      BY <3>1, <3>2
  <2> HIDE DEF f, b
  <2>5. Speaks(conn[e], f)
    BY <2>3, <2>4, SpeaksOrder
  <2> QED
    BY <2>1, <2>5 DEF Exchanges
<1> QED
  BY <1>1, <1>2

\* A record that is started.
LEMMA StartSpeaks ==
  ASSUME Ends = Role, PairInv, NEW e \in Ends, NEW out \in CtrlFits(conn[e])
  PROVE  Speaks(conn[e], Started(conn[e], out)) /\ Good(Started(conn[e], out))
<1>1. Good(conn[e])
  BY LinkView
<1> QED
  BY <1>1, WriteSpeaks, SpeaksOrder, StartLink DEF Started

\* Writing.
LEMMA WriteExchanges ==
  ASSUME Ends = Role, PairInv, NEW e \in Ends, WriteStep(e)
  PROVE  Exchanges(e)

<1>1. Good(conn[e]) /\ Sound(conn[e])
  BY LinkView
<1>2. CASE WriteRecord(e)
  <2>1. PICK out \in CtrlFits(conn[e]) :
          \E last \in LastFits(conn[e], out) : Finish(e, Started(conn[e], out), last)
    BY <1>2 DEF WriteRecord
  <2>2. PICK last \in LastFits(conn[e], out) : Finish(e, Started(conn[e], out), last)
    BY <2>1
  <2> DEFINE d == Started(conn[e], out)
  <2>3. last \in SUBSET Frame /\ Finish(e, d, last)
    BY <1>1, <2>2, FramesType, FitsType DEF LastFits
  <2>4. Speaks(conn[e], d) /\ Good(d)
    BY StartSpeaks
  <2> HIDE DEF d
  <2> QED
    BY <2>3, <2>4, EitherExchanges
<1>3. ASSUME NEW s \in StreamIds, NEW len \in 0..MaxWrite, NEW fin \in BOOLEAN,
             WriteStream(e, s, len, fin)
      PROVE  Exchanges(e)
  <2>1. PICK out \in CtrlFits(conn[e]) :
          LET c == Started(conn[e], out)
              credits == Lesser(len, FcCredits(c, s))
          IN
          \E w \in IF "split" \in Calls THEN 0..credits ELSE {credits} :
            LET d == WriteData(c, s, len, w, fin) IN
            IF credits = len
              THEN KeepOpen(e, d) \/ Finish(e, d, {})
              ELSE \E reports \in Fits(BlockedReports(d, s)) :
                     LET b == ReportBlocked(d, s, reports) IN
                     KeepOpen(e, b) \/ Finish(e, b, {})
    BY <1>3 DEF WriteStream
  <2> DEFINE c == Started(conn[e], out)
             credits == Lesser(len, FcCredits(c, s))
  <2>2. Speaks(conn[e], c) /\ Good(c)
    BY StartSpeaks
  <2>3. PICK w \in IF "split" \in Calls THEN 0..credits ELSE {credits} :
          LET d == WriteData(c, s, len, w, fin) IN
          IF credits = len
            THEN KeepOpen(e, d) \/ Finish(e, d, {})
            ELSE \E reports \in Fits(BlockedReports(d, s)) :
                   LET b == ReportBlocked(d, s, reports) IN
                   KeepOpen(e, b) \/ Finish(e, b, {})
    BY <2>1
  <2> HIDE DEF c
  <2>4. len \in Nat /\ w \in Nat /\ w <= FcCredits(c, s)
    <3>1. FcCredits(c, s) \in Nat /\ len \in Nat
      BY <2>2, CreditsType
    <3>2. credits \in Nat /\ credits <= FcCredits(c, s)
      BY <3>1 DEF Lesser
    <3> HIDE DEF credits
    <3> QED
      BY <3>1, <3>2
  <2> HIDE DEF credits
  <2> DEFINE d == WriteData(c, s, len, w, fin)
  <2>5. Good(d) /\ Speaks(c, d)
    BY <2>2, <2>4, WriteDataGood, WriteSpeaks
  <2>6. Speaks(conn[e], d)
    BY <1>1, <2>2, <2>5, SpeaksOrder
  <2>7. CASE credits = len
    <3>1. KeepOpen(e, d) \/ Finish(e, d, {})
      BY <2>3, <2>7
    <3> HIDE DEF d
    <3> QED
      BY <2>5, <2>6, <3>1, EitherExchanges
  <2>8. CASE credits # len
    <3>1. PICK reports \in Fits(BlockedReports(d, s)) :
            \/ KeepOpen(e, ReportBlocked(d, s, reports))
            \/ Finish(e, ReportBlocked(d, s, reports), {})
      BY <2>3, <2>8
    <3> HIDE DEF d
    <3>2. reports \in SUBSET Frame
      BY <2>5, FramesType, FitsType
    <3> DEFINE b == ReportBlocked(d, s, reports)
    <3>3. Good(b) /\ Speaks(d, b)
      BY <2>5, <3>2, ReportBlockedGood, WriteSpeaks
    <3>4. KeepOpen(e, b) \/ Finish(e, b, {})
      BY <3>1
    <3> HIDE DEF b
    <3>5. Speaks(conn[e], b)
      BY <1>1, <2>5, <2>6, <3>3, SpeaksOrder
    <3> QED
      BY <3>3, <3>4, <3>5, EitherExchanges
  <2> QED
    BY <2>7, <2>8
<1>4. ASSUME NEW s \in StreamIds, NEW len \in 1..MaxWrite, WriteBlockedStream(e, s, len)
      PROVE  Exchanges(e)
  <2>1. PICK out \in CtrlFits(conn[e]) :
          \E reports \in Fits(BlockedReports(Started(conn[e], out), s)) :
            \/ KeepOpen(e, ReportBlocked(Started(conn[e], out), s, reports))
            \/ Finish(e, ReportBlocked(Started(conn[e], out), s, reports), {})
    BY <1>4 DEF WriteBlockedStream
  <2> DEFINE c == Started(conn[e], out)
  <2>2. Speaks(conn[e], c) /\ Good(c)
    BY StartSpeaks
  <2>3. PICK reports \in Fits(BlockedReports(c, s)) :
          \/ KeepOpen(e, ReportBlocked(c, s, reports))
          \/ Finish(e, ReportBlocked(c, s, reports), {})
    BY <2>1
  <2> HIDE DEF c
  <2>4. reports \in SUBSET Frame
    BY <2>2, FramesType, FitsType
  <2> DEFINE b == ReportBlocked(c, s, reports)
  <2>5. Good(b) /\ Speaks(c, b)
    BY <2>2, <2>4, ReportBlockedGood, WriteSpeaks
  <2>6. KeepOpen(e, b) \/ Finish(e, b, {})
    BY <2>3
  <2> HIDE DEF b
  <2>7. Speaks(conn[e], b)
    BY <1>1, <2>2, <2>5, SpeaksOrder
  <2> QED
    BY <2>5, <2>6, <2>7, EitherExchanges
<1> QED
  BY <1>2, <1>3, <1>4 DEF WriteStep

\* Every step is a call of one endpoint.
LEMMA NextExchanges ==
  ASSUME Ends = Role, PairInv, Next
  PROVE  \E e \in Ends : Exchanges(e)
<1>1. PICK e \in Ends : ReadStep(e) \/ WriteStep(e) \/ AppStep(e) \/ Refill(e)
  BY DEF Next
<1>2. ASSUME ReadStep(e)
      PROVE  Exchanges(e)
  <2>1. ReadStreamData(e) \/ \E type : Read(e, type)
    BY <1>2 DEF ReadStep, ReadStream, ReadResetStream, ReadStopSending, ReadLimit,
                ReadBlocked, ReadPing
  <2> QED
    BY <2>1, ReadExchanges, CallsExchange
<1> QED
  BY <1>1, <1>2, WriteExchanges, CallsExchange

\* What CreditFlow promises in every state, and what it is about.
InOrder(e) ==
  LET c == conn[e]  p == conn[Peer(e)] IN
  /\ c.rxOff <= p.txOff /\ p.txOff <= p.txMax /\ p.txMax <= c.rxMax
  /\ c.rxOff \in Nat /\ p.txOff \in Nat /\ p.txMax \in Nat /\ c.rxMax \in Nat

\* The invariant gives it.
LEMMA Ordered ==
  ASSUME Ends = Role, NEW e \in Ends
  PROVE  PairInv => InOrder(e)
<1> SUFFICES ASSUME PairInv PROVE InOrder(e)
  OBVIOUS
<1> DEFINE c == conn[e]
           p == conn[Peer(e)]
           u == Unread(e)
           v == Unread(Peer(e))
<1>1. Peer(e) \in Ends /\ Peer(Peer(e)) = e
  BY BothEnds
<1>2. Good(c) /\ Good(p) /\ u \in Seq(SUBSET Frame) /\ FlowTo(c, p, u) /\ FlowTo(p, c, v)
  BY <1>1, ChannelView
<1> HIDE DEF c, p, u, v
<1>3. /\ c.rxOff \in Nat /\ p.txOff \in Nat /\ p.txMax \in Nat /\ c.rxMax \in Nat
      /\ p.txOff <= p.txMax
  BY <1>2, Numbers
<1>4. BytesIn(u, StreamIds) \in Nat
  <2>1. Len(u) \in Nat
    BY <1>2
  <2> QED
    BY <1>2, <2>1, BytesUpToIs DEF BytesIn
<1>5. p.txOff = c.rxOff + BytesIn(u, StreamIds) /\ p.txMax <= c.rxMax
  BY <1>2 DEF FlowTo, Announced
<1>6. c.rxOff <= p.txOff
  BY <1>3, <1>4, <1>5
<1> QED
  BY <1>3, <1>5, <1>6 DEF InOrder, c, p

\* And so it does after every step.
LEMMA OrderedNext ==
  ASSUME Ends = Role, NEW e \in Ends
  PROVE  PairInv' => InOrder(e)'
<1>1. PairInv => InOrder(e)
  BY Ordered
<1> QED
  BY <1>1, PTL

\* Flow control of the connection toward endpoint e, as CreditFlow sees it.
Toward(e) == INSTANCE CreditFlow
  WITH Window <- Params[e].maxData, limit <- conn[e].rxMax, known <- conn[Peer(e)].txMax,
       sent <- conn[Peer(e)].txOff, got <- conn[e].rxOff

\* A step of the two endpoints is a step of CreditFlow, or leaves it alone, in
\* both directions.
LEMMA FlowStep ==
  ASSUME Ends = Role, PairInv, PairInv', [Next]_vars, NEW g \in Ends
  PROVE  [Toward(g)!Next]_(Toward(g)!vars)
<1>1. CASE UNCHANGED vars
  BY <1>1 DEF vars, Toward!vars
<1>2. CASE Next
  <2>1. PICK e \in Ends : Exchanges(e)
    BY <1>2, NextExchanges
  <2>2. PICK d : conn' = [conn EXCEPT ![e] = d] /\ (Hears(conn[e], d) \/ Speaks(conn[e], d))
    BY <2>1 DEF Exchanges
  <2> DEFINE r == Peer(e)
  <2>3. r \in Ends /\ r # e /\ Peer(r) = e /\ (g = e \/ g = r)
    BY BothEnds
  <2>4. conn'[e] = d /\ conn'[r] = conn[r]
    BY <2>2, <2>3, LinkView
  <2> HIDE DEF r
  <2>5. /\ conn'[g].rxOff <= conn'[Peer(g)].txOff /\ conn'[Peer(g)].txOff <= conn'[Peer(g)].txMax
        /\ conn'[Peer(g)].txMax <= conn'[g].rxMax
        /\ conn'[g].rxOff \in Nat /\ conn'[Peer(g)].txOff \in Nat
        /\ conn'[Peer(g)].txMax \in Nat /\ conn'[g].rxMax \in Nat
    BY OrderedNext DEF InOrder
  <2>6. /\ conn[g].rxOff \in Nat /\ conn[Peer(g)].txOff \in Nat
        /\ conn[Peer(g)].txMax \in Nat /\ conn[g].rxMax \in Nat
    BY Ordered DEF InOrder
  <2>7. CASE g = e
    <3>1. Peer(g) = r /\ conn'[Peer(g)] = conn[Peer(g)] /\ conn'[g] = d /\ conn[g] = conn[e]
      BY <2>4, <2>7 DEF r
    <3>2. CASE Hears(conn[e], d)
      <4>1. d.rxMax = conn[g].rxMax /\ conn[g].rxOff <= d.rxOff
        BY <3>1, <3>2 DEF Hears
      <4> QED
        BY <2>5, <2>6, <3>1, <4>1 DEF Toward!Next, Toward!Receive, Toward!vars
    <3>3. CASE Speaks(conn[e], d)
      <4>1. d.rxOff = conn[g].rxOff /\ conn[g].rxMax <= d.rxMax
        BY <3>1, <3>3 DEF Speaks
      <4> QED
        BY <2>5, <2>6, <3>1, <4>1 DEF Toward!Next, Toward!Grant, Toward!vars
    <3> QED
      BY <2>2, <3>2, <3>3
  <2>8. CASE g = r
    <3>1. Peer(g) = e /\ conn'[Peer(g)] = d /\ conn'[g] = conn[g] /\ conn[Peer(g)] = conn[e]
      BY <2>3, <2>4, <2>8
    <3>2. CASE Hears(conn[e], d)
      <4>1. d.txOff = conn[Peer(g)].txOff /\ conn[Peer(g)].txMax <= d.txMax
        BY <3>1, <3>2 DEF Hears
      <4> QED
        BY <2>5, <2>6, <3>1, <4>1 DEF Toward!Next, Toward!Learn, Toward!vars
    <3>3. CASE Speaks(conn[e], d)
      <4>1. d.txMax = conn[Peer(g)].txMax /\ conn[Peer(g)].txOff <= d.txOff
        BY <3>1, <3>3 DEF Speaks
      <4> QED
        BY <2>5, <2>6, <3>1, <4>1 DEF Toward!Next, Toward!Send, Toward!vars
    <3> QED
      BY <2>2, <3>2, <3>3
  <2> QED
    BY <2>3, <2>7, <2>8
<1> QED
  BY <1>1, <1>2

\* The accounts of two new connections are those that CreditFlow starts from.
LEMMA FlowInit ==
  ASSUME Ends = Role, Init, NEW g \in Ends
  PROVE  Toward(g)!Init
<1>1. g \in Role /\ Peer(g) \in Role /\ Peer(g) = 1 - g /\ 1 - (1 - g) = g
  BY BothEnds DEF Role, Peer
<1>2. conn[g] = NewConn(g) /\ conn[Peer(g)] = NewConn(1 - g)
  BY <1>1 DEF Init
<1> QED
  BY <1>1, <1>2 DEF Toward!Init, NewConn

\* The same of the client and of the server.
LEMMA BothFlows ==
  ASSUME Ends = Role
  PROVE  /\ Init => ToClient!Init /\ ToServer!Init
         /\ PairInv /\ PairInv' /\ [Next]_vars
              => [ToClient!Next]_(ToClient!vars) /\ [ToServer!Next]_(ToServer!vars)
<1>1. 0 \in Ends /\ 1 \in Ends /\ Peer(0) = 1 /\ Peer(1) = 0
  BY DEF Role, Peer
<1>2. Init => Toward(0)!Init /\ Toward(1)!Init
  BY <1>1, FlowInit
<1>3. ASSUME PairInv, PairInv', [Next]_vars
      PROVE  [Toward(0)!Next]_(Toward(0)!vars) /\ [Toward(1)!Next]_(Toward(1)!vars)
  BY <1>1, <1>3, FlowStep
<1>4. (Toward(0)!Init <=> ToClient!Init) /\ (Toward(1)!Init <=> ToServer!Init)
  BY <1>1 DEF Toward!Init, ToClient!Init, ToServer!Init
<1>5. [Toward(0)!Next]_(Toward(0)!vars) <=> [ToClient!Next]_(ToClient!vars)
  BY <1>1 DEF Toward!Next, Toward!vars, Toward!Grant, Toward!Learn, Toward!Send, Toward!Receive,
     ToClient!Next, ToClient!vars, ToClient!Grant, ToClient!Learn, ToClient!Send, ToClient!Receive
<1>6. [Toward(1)!Next]_(Toward(1)!vars) <=> [ToServer!Next]_(ToServer!vars)
  BY <1>1 DEF Toward!Next, Toward!vars, Toward!Grant, Toward!Learn, Toward!Send, Toward!Receive,
     ToServer!Next, ToServer!vars, ToServer!Grant, ToServer!Learn, ToServer!Send, ToServer!Receive
<1> QED
  BY <1>2, <1>3, <1>4, <1>5, <1>6

\* The two accounts implement CreditFlow in both directions: a limit is never
\* exceeded nor taken back, and what is sent arrives or is on its way
\* (rx.max_offset, tx.max_offset, tx.offset, rx.offset).
THEOREM FlowImplemented ==
  ASSUME Ends = Role
  PROVE  Spec => FlowControl
<1>1. Init => ToClient!Init /\ ToServer!Init
  BY BothFlows
<1>2. PairInv /\ PairInv' /\ [Next]_vars
        => [ToClient!Next]_(ToClient!vars) /\ [ToServer!Next]_(ToServer!vars)
  BY BothFlows
<1>3. Spec => []PairInv
  BY PairInvariant
<1> QED
  BY <1>1, <1>2, <1>3, PTL DEF Spec, FlowControl, ToClient!Spec, ToServer!Spec
=============================================================================
