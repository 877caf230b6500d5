--------------------------- MODULE QmuxLifeProofs ---------------------------
(***************************************************************************)
(* For every set of streams, every choice of transport parameters, every   *)
(* peer and every bound, the life of a stream in Qmux goes as it should:   *)
(* it enters and leaves the transmission queue when it has something to    *)
(* say, it leaves the map when both its sides are shut and not before its  *)
(* payload has arrived, and it never comes back.  These are the theorems   *)
(* QueueHoldsPending, FreedInTime, PayloadHasStream, LimitsRespected and   *)
(* NeverReopened.                                                          *)
(*                                                                         *)
(* Sound(c) is the inductive invariant of one connection.  To the four     *)
(* invariants it adds only that the next local id of a direction is of     *)
(* that direction and of the local role, without which opening a stream    *)
(* could replace one in the map.  In the middle of a call the stream at    *)
(* hand may have both sides shut: SoundBut(c, Z) excuses the streams Z.    *)
(* Every operator has a lemma that it keeps Sound and Kept, the relation   *)
(* between the connections before and after a call that gives NoReopen.    *)
(***************************************************************************)
EXTENDS QmuxProofs

USE StreamIdsAssumption, LimitsAssumption, ParamsAssumption

\* The ids that dwnx_conn_open_bidi_stream and its sibling hand out.
NextLocal(c) ==
  \A d \in Direction : c.next[d] % 4 = FirstStreamId(c.role, d)

\* Pending of a stream object of its own.
Asks(r, s, x) ==
  \/ x.flags \cap {"SEND_RESET_STREAM", "SEND_STOP_SENDING",
                   "SEND_STREAM_DATA_BLOCKED"} # {}
  \/ /\ x.flags \cap {"SHUT_RD", "STOP_SENDING"} = {}
     /\ InitialMaxRx(r, s) < 4 * (x.rxUnsent - x.rxMax)

\* The invariant of one connection, but for streams of Z still to be closed.
SoundBut(c, Z) ==
  /\ c.strmq \subseteq c.live
  /\ \A s \in c.live : Asks(c.role, s, c.strm[s]) => s \in c.strmq
  /\ \A s \in c.live \ Z : ~ShouldCloseStream(c.strm[s])
  /\ PayloadOpen(c)
  /\ WithinStreamLimits(c)
  /\ NextLocal(c)

Sound(c) == SoundBut(c, {})

\* d comes after c: a stream that was used stays so, and if it was gone it is
\* not back.
Kept(c, d) ==
  /\ d.role = c.role
  /\ \A s \in StreamIds : Used(c, s) => /\ Used(d, s)
                                        /\ s \notin c.live => s \notin d.live

\* What the stream limits and the ids depend on is the same.
SameLimits(c, d) ==
  /\ d.role = c.role /\ d.idtr = c.idtr /\ d.next = c.next
  /\ d.txStreams = c.txStreams /\ d.rxStreams = c.rxStreams
  /\ d.rxUnsentStreams = c.rxUnsentStreams

\* Only stream s is different, in the same map.
Touches(c, d, s) ==
  /\ SameLimits(c, d) /\ d.live = c.live
  /\ \A t \in StreamIds \ {s} : /\ d.strm[t] = c.strm[t]
                                /\ t \in d.strmq <=> t \in c.strmq

\* Nothing that Sound speaks of is different.
Alike(c, d) ==
  /\ SameLimits(c, d) /\ d.live = c.live /\ d.strmq = c.strmq
  /\ d.strm = c.strm /\ d.rd = c.rd

-----------------------------------------------------------------------------
(* Relations                                                               *)

\* The two ways to say that a stream has something to tell the peer.
LEMMA AsksIsPending ==
  ASSUME NEW c, NEW s
  PROVE  Pending(c, s) <=> Asks(c.role, s, c.strm[s])
BY DEF Pending, Asks, NeedsCredit, ShouldSendMaxStreamData

\* Kept is reflexive and transitive.
LEMMA KeptOrder ==
  /\ \A c : Kept(c, c)
  /\ \A c, d, e : Kept(c, d) /\ Kept(d, e) => Kept(c, e)
BY DEF Kept

\* A call that opens no stream and moves no limit keeps what was gone away.
LEMMA KeptIfSame ==
  ASSUME NEW c, NEW d, SameLimits(c, d), d.live \subseteq c.live
  PROVE  Kept(c, d)
BY DEF SameLimits, Kept, Used, LocalStream

\* Connections that are alike are sound together.
LEMMA AlikeSound ==
  ASSUME NEW c, NEW d, Alike(c, d)
  PROVE  /\ \A Z : SoundBut(c, Z) => SoundBut(d, Z)
         /\ Kept(c, d)
<1>1. Kept(c, d)
  BY KeptIfSame DEF Alike
<1>2. WithinStreamLimits(c) => WithinStreamLimits(d)
  BY DEF Alike, SameLimits, WithinStreamLimits, Used, LocalStream
<1>3. PayloadOpen(c) => PayloadOpen(d)
  BY DEF Alike, PayloadOpen
<1>4. NextLocal(c) => NextLocal(d)
  BY DEF Alike, SameLimits, NextLocal
<1> QED
  BY <1>1, <1>2, <1>3, <1>4 DEF SoundBut, Alike, SameLimits

\* A change of one stream of the map leaves the connection sound but for that
\* stream, if it is queued when it has something to say.
LEMMA TouchSound ==
  ASSUME NEW c, Good(c), NEW Z, SoundBut(c, Z), NEW d, NEW s \in StreamIds,
         Touches(c, d, s), PayloadOpen(d),
         s \in d.strmq => s \in c.live,
         d.strmq \subseteq StreamIds,
         s \in c.live => (Asks(c.role, s, d.strm[s]) => s \in d.strmq)
  PROVE  SoundBut(d, Z \cup {s}) /\ Kept(c, d)
<1>1. Kept(c, d)
  BY KeptIfSame DEF Touches
<1>2. WithinStreamLimits(d)
  BY DEF SoundBut, Touches, SameLimits, WithinStreamLimits, Used, LocalStream
<1>3. NextLocal(d)
  BY DEF SoundBut, Touches, SameLimits, NextLocal
<1>4. c.live \subseteq StreamIds
  BY Fields
<1>5. d.role = c.role /\ d.live = c.live
  BY DEF Touches, SameLimits
<1>6. d.strmq \subseteq d.live
  BY <1>5 DEF SoundBut, Touches
<1>7. \A t \in d.live : Asks(d.role, t, d.strm[t]) => t \in d.strmq
  BY <1>4, <1>5 DEF SoundBut, Touches
<1>8. \A t \in d.live \ (Z \cup {s}) : ~ShouldCloseStream(d.strm[t])
  BY <1>4, <1>5 DEF SoundBut, Touches
<1> QED
  BY <1>1, <1>2, <1>3, <1>6, <1>7, <1>8 DEF SoundBut

\* The stream excused need not be when it is not to be closed.
LEMMA NoExcuse ==
  ASSUME NEW c, NEW s, SoundBut(c, {s}), s \in c.live => ~ShouldCloseStream(c.strm[s])
  PROVE  Sound(c)
BY DEF Sound, SoundBut

-----------------------------------------------------------------------------
(* Primitives                                                              *)

\* A stream that is being read has an id.
LEMMA PayloadId ==
  ASSUME NEW c, Good(c), PayloadOpen(c), c.rd # Idle
  PROVE  c.rd.id \in StreamIds /\ c.rd.id \in c.live
BY Fields DEF PayloadOpen

\* A new stream has nothing to say and is not to be closed.
LEMMA NewStrmQuiet ==
  ASSUME NEW r \in Role, NEW s \in StreamIds
  PROVE  /\ ~Asks(r, s, NewStrm(r, s))
         /\ ~ShouldCloseStream(NewStrm(r, s))
<1> DEFINE x == NewStrm(r, s)
<1>1. x.flags = {} \/ x.flags = {"SHUT_RD"} \/ x.flags = {"SHUT_WR"}
  BY DEF NewStrm
<1>2. x.rxUnsent = InitialMaxRx(r, s) /\ x.rxMax = InitialMaxRx(r, s)
  BY DEF NewStrm
<1>3. InitialMaxRx(r, s) \in 0..MaxVarint
  BY NewStrmGood, <1>2 DEF StrmType, Offset
<1> HIDE DEF x
<1>4. ~(InitialMaxRx(r, s) < 4 * (x.rxUnsent - x.rxMax))
  BY <1>2, <1>3
<1>5. ~ShouldCloseStream(x)
  BY <1>1 DEF ShouldCloseStream
<1>6. x.flags \cap {"SEND_RESET_STREAM", "SEND_STOP_SENDING",
                   "SEND_STREAM_DATA_BLOCKED"} = {}
  BY <1>1
<1>7. ~Asks(r, s, x)
  BY <1>4, <1>6 DEF Asks
<1> QED
  BY <1>5, <1>7 DEF x

\* Setting flags: what it changes.
LEMMA SetFlagsView ==
  ASSUME NEW c, Good(c), NEW s \in StreamIds, NEW F \in SUBSET Flag
  PROVE  /\ Touches(c, SetFlags(c, s, F), s)
         /\ SetFlags(c, s, F).strmq = c.strmq
         /\ SetFlags(c, s, F).rd = c.rd
         /\ SetFlags(c, s, F).strm[s] = [c.strm[s] EXCEPT !.flags = @ \cup F]
BY DEF SetFlags, Touches, SameLimits, Good, ConnType

\* dwnx_conn_tx_strmq_push: what it changes.
LEMMA PushView ==
  ASSUME NEW c, Good(c), NEW s \in StreamIds
  PROVE  /\ Touches(c, PushIfNot(c, s), s)
         /\ PushIfNot(c, s).strmq = c.strmq \cup {s}
         /\ PushIfNot(c, s).rd = c.rd
         /\ PushIfNot(c, s).strm = c.strm
BY DEF PushIfNot, Touches, SameLimits, Good, ConnType

\* conn_reset_stream and conn_stop_sending: what they change.
LEMMA ScheduleView ==
  ASSUME NEW c, Good(c), NEW s \in StreamIds, NEW F \in SUBSET Flag,
         NEW d, d = PushIfNot(SetFlags(c, s, F), s)
  PROVE  /\ Touches(c, d, s)
         /\ d.strmq = c.strmq \cup {s}
         /\ d.rd = c.rd
         /\ d.strm[s] = [c.strm[s] EXCEPT !.flags = @ \cup F]
<1> DEFINE b == SetFlags(c, s, F)
<1>1. Good(b)
  BY SetFlagsGood
<1>2. /\ Touches(c, b, s) /\ b.strmq = c.strmq /\ b.rd = c.rd
      /\ b.strm[s] = [c.strm[s] EXCEPT !.flags = @ \cup F]
  BY SetFlagsView
<1> HIDE DEF b
<1>3. /\ Touches(b, d, s) /\ d.strmq = b.strmq \cup {s} /\ d.rd = b.rd
      /\ d.strm = b.strm
  BY <1>1, PushView DEF b
<1> QED
  BY <1>2, <1>3 DEF Touches, SameLimits

\* Flags of a stream that ask for nothing leave the connection sound, but the
\* stream may be to be closed.
LEMMA SetFlagsSound ==
  ASSUME NEW c, Good(c), NEW s \in StreamIds, NEW F \in SUBSET Flag,
         NEW Z, SoundBut(c, Z),
         F \cap {"SEND_RESET_STREAM", "SEND_STOP_SENDING", "SEND_STREAM_DATA_BLOCKED"} = {},
         "SHUT_RD" \in F => c.rd = Idle \/ c.rd.id # s
  PROVE  SoundBut(SetFlags(c, s, F), Z \cup {s}) /\ Kept(c, SetFlags(c, s, F))
<1> DEFINE d == SetFlags(c, s, F)
           x == c.strm[s]
           y == d.strm[s]
<1>1. /\ Touches(c, d, s) /\ d.strmq = c.strmq /\ d.rd = c.rd
      /\ d.strm[s] = [c.strm[s] EXCEPT !.flags = @ \cup F]
  BY SetFlagsView
<1>2. x \in StrmType
  BY Fields
<1> HIDE DEF d
<1>3. /\ y.flags = x.flags \cup F /\ y.rxMax = x.rxMax /\ y.rxUnsent = x.rxUnsent
      /\ y.rxLast = x.rxLast
  BY <1>1, <1>2 DEF StrmType
<1>4. Asks(c.role, s, y) => Asks(c.role, s, x)
  BY <1>3 DEF Asks
<1>5. PayloadOpen(c)
  BY DEF SoundBut
<1>6. PayloadOpen(d)
  <2> SUFFICES ASSUME d.rd # Idle PROVE PayloadOpen(d)
    BY DEF PayloadOpen
  <2>1. /\ c.rd.id \in StreamIds /\ c.rd.id \in c.live
        /\ "SHUT_RD" \notin c.strm[c.rd.id].flags /\ c.rd.left <= c.strm[c.rd.id].rxLast
    BY <1>1, <1>5, PayloadId DEF PayloadOpen
  <2>2. CASE c.rd.id = s
    BY <1>1, <1>3, <2>1, <2>2 DEF PayloadOpen, Touches
  <2>3. CASE c.rd.id # s
    BY <1>1, <2>1, <2>3 DEF PayloadOpen, Touches
  <2> QED
    BY <2>2, <2>3
<1>7. c.strmq \subseteq c.live /\ (s \in c.live => (Asks(c.role, s, x) => s \in c.strmq))
  BY DEF SoundBut
<1>8. c.strmq \subseteq StreamIds
  BY Fields
<1> HIDE DEF x, y
<1> QED
  BY <1>1, <1>4, <1>6, <1>7, <1>8, TouchSound DEF d, y

\* Flags of a stream of the map that has its turn in the queue.
LEMMA ScheduleSound ==
  ASSUME NEW c, Good(c), NEW s \in StreamIds, NEW F \in SUBSET Flag,
         NEW Z, SoundBut(c, Z), s \in c.live, "SHUT_RD" \notin F,
         NEW d, d = PushIfNot(SetFlags(c, s, F), s)
  PROVE  SoundBut(d, Z \cup {s}) /\ Kept(c, d)
<1> DEFINE x == c.strm[s]
           y == d.strm[s]
<1>1. /\ Touches(c, d, s) /\ d.strmq = c.strmq \cup {s} /\ d.rd = c.rd
      /\ d.strm[s] = [c.strm[s] EXCEPT !.flags = @ \cup F]
  BY ScheduleView
<1>2. x \in StrmType
  BY Fields
<1>3. /\ y.flags = x.flags \cup F /\ y.rxLast = x.rxLast
  BY <1>1, <1>2 DEF StrmType
<1>5. PayloadOpen(c)
  BY DEF SoundBut
<1>6. PayloadOpen(d)
  <2> SUFFICES ASSUME d.rd # Idle PROVE PayloadOpen(d)
    BY DEF PayloadOpen
  <2>1. /\ c.rd.id \in StreamIds /\ c.rd.id \in c.live
        /\ "SHUT_RD" \notin c.strm[c.rd.id].flags /\ c.rd.left <= c.strm[c.rd.id].rxLast
    BY <1>1, <1>5, PayloadId DEF PayloadOpen
  <2>2. CASE c.rd.id = s
    BY <1>1, <1>3, <2>1, <2>2 DEF PayloadOpen, Touches
  <2>3. CASE c.rd.id # s
    BY <1>1, <2>1, <2>3 DEF PayloadOpen, Touches
  <2> QED
    BY <2>2, <2>3
<1>8. d.strmq \subseteq StreamIds
  BY <1>1, Fields
<1> QED
  BY <1>1, <1>6, <1>8, TouchSound

\* dwnx_conn_close_stream_if_shut_rdwr closes the stream excused.
LEMMA CloseSound ==
  ASSUME NEW c, Good(c), NEW s \in StreamIds, SoundBut(c, {s})
  PROVE  /\ Sound(CloseStreamIfShutRdWr(c, s))
         /\ Kept(c, CloseStreamIfShutRdWr(c, s))
<1>1. CASE ~ShouldCloseStream(c.strm[s])
  BY <1>1, NoExcuse, KeptOrder DEF CloseStreamIfShutRdWr
<1>2. CASE ShouldCloseStream(c.strm[s])
  <2> DEFINE d == CloseStream(c, s)
  <2>1. /\ SameLimits(c, d) /\ d.live = c.live \ {s} /\ d.strmq = c.strmq \ {s}
        /\ d.rd = c.rd /\ \A t \in StreamIds \ {s} : d.strm[t] = c.strm[t]
    BY DEF CloseStream, SameLimits, Good, ConnType
  <2>2. d = CloseStreamIfShutRdWr(c, s)
    BY <1>2 DEF CloseStreamIfShutRdWr
  <2> HIDE DEF d
  <2>3. Kept(c, d)
    BY <2>1, KeptIfSame
  <2>4. c.live \subseteq StreamIds
    BY Fields
  <2>5. PayloadOpen(d)
    <3>1. PayloadOpen(c)
      BY DEF SoundBut
    <3>2. c.rd # Idle => c.rd.id # s /\ c.rd.id \in StreamIds
      BY <1>2, <3>1, PayloadId DEF ShouldCloseStream, PayloadOpen
    <3> QED
      BY <2>1, <3>1, <3>2 DEF PayloadOpen
  <2>6. WithinStreamLimits(d)
    BY <2>1 DEF SoundBut, SameLimits, WithinStreamLimits, Used, LocalStream
  <2>7. NextLocal(d)
    BY <2>1 DEF SoundBut, SameLimits, NextLocal
  <2>8. /\ d.strmq \subseteq d.live
        /\ \A t \in d.live : Asks(d.role, t, d.strm[t]) => t \in d.strmq
        /\ \A t \in d.live : ~ShouldCloseStream(d.strm[t])
    BY <2>1, <2>4 DEF SoundBut, SameLimits
  <2> QED
    BY <2>2, <2>3, <2>5, <2>6, <2>7, <2>8 DEF Sound, SoundBut
<1> QED
  BY <1>1, <1>2

-----------------------------------------------------------------------------
(* Opening streams                                                         *)

\* The direction and the ordinal of a stream id.
LEMMA DirOrdinal ==
  ASSUME NEW s \in StreamIds
  PROVE  s \in Nat /\ Dir(s) \in Direction /\ OrdStreamId(s) \in Nat
<1>1. s \in Nat
  OBVIOUS
<1>2. Dir(s) = "bidi" \/ Dir(s) = "uni"
  BY DEF Dir
<1>3. OrdStreamId(s) \in Nat
  <2>1. \A n \in Nat : n \div 4 + 1 \in Nat
    OBVIOUS
  <2> QED
    BY <1>1, <2>1 DEF OrdStreamId
<1> QED
  BY <1>1, <1>2, <1>3 DEF Direction

\* A stream that is not in the map and was never used, when it enters it.
LEMMA CreateSound ==
  ASSUME NEW c, Good(c), Sound(c), NEW s \in StreamIds, s \notin c.live, ~Used(c, s),
         NEW d, d.role = c.role, d.live = c.live \cup {s}, d.strmq = c.strmq,
         d.rd = c.rd, d.strm[s] = NewStrm(c.role, s),
         \A t \in StreamIds \ {s} : d.strm[t] = c.strm[t],
         WithinStreamLimits(d), NextLocal(d), \A t \in c.idtr : t \in d.idtr,
         \A i \in Direction : c.next[i] \in Nat /\ d.next[i] \in Nat /\ c.next[i] <= d.next[i]
  PROVE  Sound(d) /\ Kept(c, d)
<1>1. c.live \subseteq StreamIds /\ c.role \in Role
  BY Fields
<1>2. PayloadOpen(d)
  <2>1. PayloadOpen(c)
    BY DEF Sound, SoundBut
  <2>2. c.rd # Idle => c.rd.id # s /\ c.rd.id \in StreamIds /\ c.rd.id \in c.live
    BY <2>1, PayloadId
  <2> QED
    BY <2>1, <2>2 DEF PayloadOpen
<1>3. /\ ~Asks(d.role, s, d.strm[s])
      /\ ~ShouldCloseStream(d.strm[s])
  BY <1>1, NewStrmQuiet
<1>4. /\ d.strmq \subseteq d.live
      /\ \A t \in d.live : Asks(d.role, t, d.strm[t]) => t \in d.strmq
      /\ \A t \in d.live : ~ShouldCloseStream(d.strm[t])
  BY <1>1, <1>3 DEF Sound, SoundBut
<1>5. \A t \in StreamIds : Used(c, t) => Used(d, t)
  <2> SUFFICES ASSUME NEW t \in StreamIds, Used(c, t) PROVE Used(d, t)
    OBVIOUS
  <2>1. Dir(t) \in Direction /\ t \in Nat
    BY DirOrdinal
  <2>2. c.next[Dir(t)] \in Nat /\ d.next[Dir(t)] \in Nat /\ c.next[Dir(t)] <= d.next[Dir(t)]
    BY <2>1
  <2>3. t < c.next[Dir(t)] => t < d.next[Dir(t)]
    BY <2>1, <2>2
  <2> QED
    BY <2>3 DEF Used, LocalStream
<1> QED
  BY <1>2, <1>4, <1>5 DEF Sound, SoundBut, Kept

\* A remote stream seen for the first time is within the limit advertised.
LEMMA FindOrOpenSound ==
  ASSUME NEW c, Good(c), Sound(c), NEW s \in StreamIds, NEW side,
         StreamIdError(c, s, side) = "NONE", ~Closed(c, s)
  PROVE  /\ Sound(FindOrOpen(c, s)) /\ Kept(c, FindOrOpen(c, s))
         /\ FindOrOpen(c, s).rd = c.rd /\ s \in FindOrOpen(c, s).live
<1> DEFINE d == FindOrOpen(c, s)
<1>1. CASE s \in c.live
  BY <1>1, KeptOrder DEF FindOrOpen
<1>2. CASE s \notin c.live
  <2>1. ~LocalStream(c, s) /\ s \notin c.idtr
    BY <1>2 DEF Closed
  <2>2. /\ d.role = c.role /\ d.live = c.live \cup {s} /\ d.strmq = c.strmq
        /\ d.rd = c.rd /\ d.strm[s] = NewStrm(c.role, s)
        /\ \A t \in StreamIds \ {s} : d.strm[t] = c.strm[t]
        /\ d.next = c.next /\ d.idtr = c.idtr \cup {s}
        /\ d.txStreams = c.txStreams /\ d.rxStreams = c.rxStreams
        /\ d.rxUnsentStreams = c.rxUnsentStreams
    BY <1>2 DEF FindOrOpen, CreateStream, Good, ConnType
  <2>3. ~(c.rxStreams[Dir(s)] < OrdStreamId(s))
    BY <2>1 DEF StreamIdError
  <2>4. Dir(s) \in Direction
    BY DirOrdinal
  <2>5. c.rxStreams[Dir(s)] \in 0..MaxStreams
    BY <2>4, Fields
  <2>6. s \in Nat /\ OrdStreamId(s) \in Nat
    BY DirOrdinal
  <2>7. OrdStreamId(s) <= c.rxStreams[Dir(s)]
    BY <2>3, <2>5, <2>6
  <2> HIDE DEF d
  <2>8. WithinStreamLimits(d)
    <3>1. WithinStreamLimits(c)
      BY DEF Sound, SoundBut
    <3>2. \A t \in d.idtr : OrdStreamId(t) <= d.rxStreams[Dir(t)]
      BY <2>2, <2>7, <3>1 DEF WithinStreamLimits
    <3>3. \A t \in d.live : Used(d, t)
      BY <2>1, <2>2, <3>1 DEF WithinStreamLimits, Used, LocalStream
    <3>4. \A i \in Direction : /\ OrdStreamId(d.next[i]) <= d.txStreams[i] + 1
                               /\ d.rxStreams[i] <= d.rxUnsentStreams[i]
      BY <2>2, <3>1 DEF WithinStreamLimits
    <3> QED
      BY <3>2, <3>3, <3>4 DEF WithinStreamLimits
  <2>9. NextLocal(d)
    BY <2>2 DEF Sound, SoundBut, NextLocal
  <2>10. ~Used(c, s)
    BY <2>1 DEF Used
  <2>11. \A i \in Direction : c.next[i] \in Nat /\ d.next[i] \in Nat /\ c.next[i] <= d.next[i]
    BY <2>2, Fields
  <2>12. Sound(d) /\ Kept(c, d)
    BY <1>2, <2>2, <2>8, <2>9, <2>10, <2>11, CreateSound
  <2> QED
    BY <2>2, <2>12 DEF d
<1> QED
  BY <1>1, <1>2

\* A local id that is its turn is of its direction, local, and not in the map.
LEMMA NextLocalFacts ==
  ASSUME NEW c, Good(c), Sound(c), NEW i \in Direction, c.next[i] \in StreamIds
  PROVE  LET s == c.next[i] IN
         LocalStream(c, s) /\ Dir(s) = i /\ ~Used(c, s) /\ s \notin c.live
<1> DEFINE s == c.next[i]
<1>1. s \in Nat /\ c.role \in {0, 1}
  BY Fields DEF Role
<1>2. s % 4 = FirstStreamId(c.role, i)
  BY DEF Sound, SoundBut, NextLocal
<1> HIDE DEF s
<1>3. LocalStream(c, s) /\ Dir(s) = i
  <2>1. CASE i = "bidi"
    <3>1. s % 4 = c.role
      BY <1>2, <2>1 DEF FirstStreamId
    <3>2. s % 2 = c.role /\ (s \div 2) % 2 = 0
      BY <1>1, <3>1
    <3> QED
      BY <2>1, <3>2 DEF LocalStream, Dir, BidiStream
  <2>2. CASE i = "uni"
    <3>1. s % 4 = c.role + 2
      BY <1>2, <2>2 DEF FirstStreamId
    <3>2. s % 2 = c.role /\ (s \div 2) % 2 # 0
      BY <1>1, <3>1
    <3> QED
      BY <2>2, <3>2 DEF LocalStream, Dir, BidiStream
  <2> QED
    BY <2>1, <2>2 DEF Direction
<1>4. ~Used(c, s)
  BY <1>1, <1>3 DEF Used, s
<1>5. s \notin c.live
  BY <1>4 DEF Sound, SoundBut, WithinStreamLimits
<1> QED
  BY <1>3, <1>4, <1>5 DEF s

\* Four ids on is the next of the same direction and role.
LEMMA FourOn ==
  ASSUME NEW n \in Nat
  PROVE  (n + 4) % 4 = n % 4 /\ OrdStreamId(n + 4) = OrdStreamId(n) + 1
BY DEF OrdStreamId

\* dwnx_conn_open_bidi_stream, dwnx_conn_open_uni_stream.
LEMMA OpenStreamSound ==
  ASSUME NEW c, Good(c), Sound(c), NEW i \in Direction, c.next[i] \in StreamIds,
         StreamsLeft(c, i)
  PROVE  Sound(OpenStream(c, i)) /\ Kept(c, OpenStream(c, i))
<1> DEFINE s == c.next[i]
           d == OpenStream(c, i)
<1>1. LocalStream(c, s) /\ Dir(s) = i /\ ~Used(c, s) /\ s \notin c.live
  BY NextLocalFacts
<1>2. /\ d.role = c.role /\ d.live = c.live \cup {s} /\ d.strmq = c.strmq
      /\ d.rd = c.rd /\ d.strm[s] = NewStrm(c.role, s)
      /\ \A t \in StreamIds \ {s} : d.strm[t] = c.strm[t]
      /\ d.idtr = c.idtr /\ d.next[i] = s + 4
      /\ \A j \in Direction \ {i} : d.next[j] = c.next[j]
      /\ d.txStreams = c.txStreams /\ d.rxStreams = c.rxStreams
      /\ d.rxUnsentStreams = c.rxUnsentStreams
  BY DEF OpenStream, CreateStream, Good, ConnType
<1>3. s \in Nat /\ \A j \in Direction : c.next[j] \in Nat
  BY Fields
<1>4. c.txStreams[i] \in Nat /\ OrdStreamId(s) \in Nat /\ c.txStreams[i] >= OrdStreamId(s)
  BY <1>3, Fields DEF StreamsLeft, OrdStreamId
<1>5. WithinStreamLimits(c) /\ NextLocal(c)
  BY DEF Sound, SoundBut
<1>6. (s + 4) % 4 = s % 4 /\ OrdStreamId(s + 4) = OrdStreamId(s) + 1
  BY <1>3, FourOn
<1>7. NextLocal(d)
  BY <1>2, <1>5, <1>6 DEF NextLocal
<1>8. \A j \in Direction : c.next[j] \in Nat /\ d.next[j] \in Nat /\ c.next[j] <= d.next[j]
  BY <1>2, <1>3
<1> HIDE DEF d
<1>9. WithinStreamLimits(d)
  <2>1. \A t \in d.idtr : OrdStreamId(t) <= d.rxStreams[Dir(t)]
    BY <1>2, <1>5 DEF WithinStreamLimits
  <2>2. \A j \in Direction : /\ OrdStreamId(d.next[j]) <= d.txStreams[j] + 1
                             /\ d.rxStreams[j] <= d.rxUnsentStreams[j]
    <3> SUFFICES ASSUME NEW j \in Direction
                 PROVE  OrdStreamId(d.next[j]) <= d.txStreams[j] + 1
      BY <1>2, <1>5 DEF WithinStreamLimits
    <3>1. CASE j = i
      BY <1>2, <1>4, <1>6, <3>1
    <3>2. CASE j # i
      BY <1>2, <1>5, <3>2 DEF WithinStreamLimits
    <3> QED
      BY <3>1, <3>2
  <2>3. ASSUME NEW t \in d.live
        PROVE  Used(d, t)
    <3>1. CASE t = s
      <4>1. s < d.next[Dir(s)]
        BY <1>1, <1>2, <1>3
      <4>2. LocalStream(d, s)
        BY <1>1, <1>2 DEF LocalStream
      <4> QED
        BY <3>1, <4>1, <4>2 DEF Used
    <3>2. CASE t # s
      <4>1. t \in c.live /\ Used(c, t) /\ t \in StreamIds
        BY <1>2, <1>5, <3>2, Fields DEF WithinStreamLimits
      <4>2. Dir(t) \in Direction /\ t \in Nat
        BY <4>1, DirOrdinal
      <4>3. c.next[Dir(t)] \in Nat /\ d.next[Dir(t)] \in Nat /\ c.next[Dir(t)] <= d.next[Dir(t)]
        BY <1>8, <4>2
      <4>4. t < c.next[Dir(t)] => t < d.next[Dir(t)]
        BY <4>2, <4>3
      <4> QED
        BY <1>2, <4>1, <4>4 DEF Used, LocalStream
    <3> QED
      BY <3>1, <3>2
  <2> QED
    BY <2>1, <2>2, <2>3 DEF WithinStreamLimits
<1> HIDE DEF s
<1>10. s \in StreamIds
  BY DEF s
<1>11. \A t \in c.idtr : t \in d.idtr
  BY <1>2
<1>12. Sound(d) /\ Kept(c, d)
  BY <1>1, <1>2, <1>7, <1>8, <1>9, <1>10, <1>11, CreateSound
<1> QED
  BY <1>12 DEF d

-----------------------------------------------------------------------------
(* dwnx_conn_read                                                          *)

\* Limits on the number of streams only grow, and no more than announced, and
\* streams only leave the map.
LEMMA LimitsKept ==
  ASSUME NEW c, Good(c), WithinStreamLimits(c), NEW d, Good(d),
         d.role = c.role, d.idtr = c.idtr, d.next = c.next, d.live \subseteq c.live,
         \A i \in Direction : /\ c.txStreams[i] <= d.txStreams[i]
                              /\ c.rxStreams[i] <= d.rxStreams[i]
                              /\ d.rxStreams[i] <= d.rxUnsentStreams[i]
  PROVE  WithinStreamLimits(d) /\ Kept(c, d)
<1>1. Kept(c, d)
  BY DEF Kept, Used, LocalStream
<1>2. \A t \in d.idtr : OrdStreamId(t) <= d.rxStreams[Dir(t)]
  <2> SUFFICES ASSUME NEW t \in c.idtr PROVE OrdStreamId(t) <= d.rxStreams[Dir(t)]
    OBVIOUS
  <2>1. t \in StreamIds
    BY Fields
  <2>2. Dir(t) \in Direction /\ OrdStreamId(t) \in Nat
    BY <2>1, DirOrdinal
  <2>3. /\ OrdStreamId(t) <= c.rxStreams[Dir(t)] /\ c.rxStreams[Dir(t)] <= d.rxStreams[Dir(t)]
        /\ c.rxStreams[Dir(t)] \in 0..MaxStreams /\ d.rxStreams[Dir(t)] \in 0..MaxStreams
    BY <2>2, Fields DEF WithinStreamLimits
  <2> QED
    BY <2>2, <2>3
<1>3. ASSUME NEW i \in Direction
      PROVE  OrdStreamId(d.next[i]) <= d.txStreams[i] + 1
  <2>1. /\ OrdStreamId(c.next[i]) <= c.txStreams[i] + 1 /\ c.txStreams[i] <= d.txStreams[i]
        /\ c.txStreams[i] \in 0..MaxStreams /\ d.txStreams[i] \in 0..MaxStreams
        /\ c.next[i] \in Nat
    BY Fields DEF WithinStreamLimits
  <2>2. OrdStreamId(c.next[i]) \in Nat
    BY <2>1 DEF OrdStreamId
  <2> QED
    BY <2>1, <2>2
<1>4. \A t \in d.live : Used(d, t)
  BY DEF WithinStreamLimits, Used, LocalStream
<1>5. WithinStreamLimits(d)
  BY <1>2, <1>3, <1>4 DEF WithinStreamLimits
<1> QED
  BY <1>1, <1>5

\* A change of these limits alone.
LEMMA LimitsGrow ==
  ASSUME NEW c, Good(c), Sound(c), NEW d, Good(d),
         d.role = c.role, d.idtr = c.idtr, d.next = c.next, d.live = c.live,
         d.strmq = c.strmq, d.strm = c.strm, d.rd = c.rd,
         \A i \in Direction : /\ c.txStreams[i] <= d.txStreams[i]
                              /\ c.rxStreams[i] <= d.rxStreams[i]
                              /\ d.rxStreams[i] <= d.rxUnsentStreams[i]
  PROVE  Sound(d) /\ Kept(c, d)
<1>1. WithinStreamLimits(c) /\ PayloadOpen(c) /\ NextLocal(c)
  BY DEF Sound, SoundBut
<1>2. WithinStreamLimits(d) /\ Kept(c, d)
  BY <1>1, LimitsKept
<1>3. PayloadOpen(d) /\ NextLocal(d)
  BY <1>1 DEF PayloadOpen, NextLocal
<1> QED
  BY <1>2, <1>3 DEF Sound, SoundBut

\* dwnx_ratelim_drain.
LEMMA DrainGlitchAlike ==
  ASSUME NEW c, Good(c)
  PROVE  Alike(c, DrainGlitch(c))
BY DEF DrainGlitch, Fail, Alike, SameLimits, Good, ConnType

\* Fields that Sound does not speak of.
LEMMA OtherAlike ==
  ASSUME NEW c, Good(c), NEW v
  PROVE  /\ Alike(c, [c EXCEPT !.err = v]) /\ Alike(c, [c EXCEPT !.txMax = v])
         /\ Alike(c, [c EXCEPT !.ping = v]) /\ Alike(c, [c EXCEPT !.glitch = v])
         /\ Alike(c, [c EXCEPT !.rxUnsent = v]) /\ Alike(c, [c EXCEPT !.qre = v])
         /\ Alike(c, [c EXCEPT !.qre.frames = v])
BY DEF Alike, SameLimits, Good, ConnType

\* conn_recv_stream: the header of a STREAM frame.
LEMMA RecvStreamSound ==
  ASSUME NEW c, Good(c), Sound(c), NEW f \in PeerFrame, f.t = "STREAM",
         RecvStreamError(c, f) = "NONE"
  PROVE  Sound(RecvStream(c, f)) /\ Kept(c, RecvStream(c, f))
<1> DEFINE s == f.id
           b == FindOrOpen(c, s)
           x == b.strm[s]
           d == [b EXCEPT
                   !.rxOff = @ + f.len,
                   !.strm[s].rxLast = f.off + f.len,
                   !.rd = IF f.len = 0 THEN Idle
                          ELSE [id |-> s, left |-> f.len, fin |-> f.fin]]
<1>1. /\ s \in StreamIds /\ f.fin \in BOOLEAN
      /\ f.off \in 0..MaxVarint /\ f.len \in 0..MaxVarint
  BY PeerFrameFields
<1>2. /\ StreamIdError(c, s, "recv") = "NONE" /\ ~Closed(c, s)
      /\ "SHUT_RD" \notin x.flags
      /\ ~(MaxVarint - f.len < f.off) /\ ~(x.rxMax < f.off + f.len)
      /\ ~(c.rxMax - c.rxOff < f.len)
  BY DEF RecvStreamError
<1>3. Good(b) /\ Sound(b) /\ Kept(c, b) /\ s \in b.live
  BY <1>1, <1>2, FindOrOpenGood, FindOrOpenSound
<1>4. RecvStream(c, f) = IF f.len = 0 /\ f.fin
                           THEN CloseStreamIfShutRdWr(SetFlags(d, s, {"SHUT_RD"}), s)
                           ELSE d
  BY DEF RecvStream
<1> HIDE DEF b
<1>5. /\ Touches(b, d, s) /\ d.strmq = b.strmq
      /\ d.strm[s] = [x EXCEPT !.rxLast = f.off + f.len]
      /\ d.rd = IF f.len = 0 THEN Idle ELSE [id |-> s, left |-> f.len, fin |-> f.fin]
  BY <1>1, <1>3 DEF Touches, SameLimits, Good, ConnType
<1>6. x \in StrmType /\ StrmCredit(x)
  BY <1>1, <1>3, Fields
<1> DEFINE y == d.strm[s]
<1>7. /\ y.flags = x.flags /\ y.rxMax = x.rxMax /\ y.rxUnsent = x.rxUnsent
      /\ y.rxLast = f.off + f.len
  BY <1>5, <1>6 DEF StrmType
<1>8. Good(d)
  <2>1. f.off + f.len \in Offset /\ f.off + f.len <= x.rxMax
    BY <1>1, <1>2, <1>6 DEF StrmType, Offset
  <2>2. [x EXCEPT !.rxLast = f.off + f.len] \in StrmType
    BY <1>6, <2>1 DEF StrmType
  <2>3. StrmCredit([x EXCEPT !.rxLast = f.off + f.len])
    BY <1>6, <2>1 DEF StrmType, StrmCredit
  <2> DEFINE z == [x EXCEPT !.rxLast = f.off + f.len]
             rd == IF f.len = 0 THEN Idle ELSE [id |-> s, left |-> f.len, fin |-> f.fin]
             d1 == [b EXCEPT !.strm[s] = z]
             off == b.rxOff + f.len
             d2 == [d1 EXCEPT !.rxOff = off]
             d3 == [d2 EXCEPT !.rd = rd]
  <2>4. d = d3
    OBVIOUS
  <2>5. rd \in {Idle} \cup [id : StreamIds, left : 1..MaxVarint, fin : BOOLEAN]
    BY <1>1
  <2> HIDE DEF z, d
  <2>6. Good(d1)
    BY <1>1, <1>3, <2>2, <2>3, StrmUpdateGood DEF z
  <2>7. d1.rxMax = c.rxMax /\ b.rxOff = c.rxOff
    BY <1>3 DEF b, FindOrOpen, CreateStream
  <2>8. off \in Offset /\ off <= d1.rxMax
    BY <1>1, <1>2, <2>7, Fields, SMTT(20) DEF Offset
  <2> HIDE DEF d1, off, rd
  <2>9. Good(d2)
    BY <2>6, <2>8, RxOffGood
  <2> HIDE DEF d2
  <2>10. Good(d3)
    BY <2>5, <2>9, PayloadGood
  <2> QED
    BY <2>4, <2>10
<1>9. Asks(b.role, s, y) <=> Asks(b.role, s, x)
  BY <1>7 DEF Asks
<1>10. ShouldCloseStream(y) <=> ShouldCloseStream(x)
  BY <1>7 DEF ShouldCloseStream
<1> HIDE DEF d, x, y
<1>11. PayloadOpen(d)
  <2>1. d.rd # Idle => d.rd.id = s /\ d.rd.left = f.len
    BY <1>5
  <2>2. s \in d.live
    BY <1>3, <1>5 DEF Touches
  <2>3. "SHUT_RD" \notin d.strm[s].flags /\ f.len <= d.strm[s].rxLast
    BY <1>1, <1>2, <1>7 DEF y
  <2> QED
    BY <2>1, <2>2, <2>3 DEF PayloadOpen
<1>12. SoundBut(d, {s}) /\ Kept(b, d)
  <2>1. Asks(b.role, s, x) => s \in b.strmq
    BY <1>3 DEF Sound, SoundBut, x
  <2>2. b.strmq \subseteq StreamIds
    BY <1>3, Fields
  <2>3. {} \cup {s} = {s}
    OBVIOUS
  <2>4. SoundBut(b, {})
    BY <1>3 DEF Sound
  <2> QED
    BY <1>1, <1>3, <1>5, <1>9, <1>11, <2>1, <2>2, <2>3, <2>4, TouchSound DEF y
<1>13. Sound(d)
  <2>1. ~ShouldCloseStream(d.strm[s])
    BY <1>3, <1>10 DEF Sound, SoundBut, x, y
  <2> QED
    BY <1>12, <2>1, NoExcuse
<1>14. Kept(c, d)
  BY <1>3, <1>12, KeptOrder
<1>15. CASE f.len = 0 /\ f.fin
  <2> DEFINE g == SetFlags(d, s, {"SHUT_RD"})
  <2>1. {"SHUT_RD"} \in SUBSET Flag /\ d.rd = Idle
    BY <1>5, <1>15 DEF Flag
  <2>2. Good(g)
    BY <1>1, <1>8, <2>1, SetFlagsGood
  <2>3. SoundBut(g, {s} \cup {s}) /\ Kept(d, g)
    BY <1>1, <1>8, <1>12, <2>1, SetFlagsSound
  <2>4. {s} \cup {s} = {s}
    OBVIOUS
  <2> HIDE DEF g
  <2>5. Sound(CloseStreamIfShutRdWr(g, s)) /\ Kept(g, CloseStreamIfShutRdWr(g, s))
    BY <1>1, <2>2, <2>3, <2>4, CloseSound
  <2>6. RecvStream(c, f) = CloseStreamIfShutRdWr(g, s)
    BY <1>4, <1>15 DEF g
  <2> QED
    BY <1>14, <2>3, <2>5, <2>6, KeptOrder
<1>16. CASE ~(f.len = 0 /\ f.fin)
  BY <1>4, <1>13, <1>14, <1>16
<1> QED
  BY <1>15, <1>16

\* conn_recv_stream_data: the next bytes of the payload.
LEMMA RecvStreamDataSound ==
  ASSUME NEW c, Good(c), Sound(c), NEW n \in 1..c.rd.left
  PROVE  Sound(RecvStreamData(c, n)) /\ Kept(c, RecvStreamData(c, n))
<1> DEFINE s == c.rd.id
           rd == Rest(c.rd, n)
           d == [c EXCEPT !.rd = rd]
           e == IF "STOP_SENDING" \in c.strm[s].flags THEN ExtendMaxOffset(d, n) ELSE d
<1>1. /\ c.rd # Idle /\ c.rd \in [id : StreamIds, left : 1..MaxVarint, fin : BOOLEAN]
  BY Fields DEF Idle
<1>2. s \in StreamIds /\ n \in Nat
  BY <1>1
<1>3. /\ PayloadOpen(c) /\ SoundBut(c, {})
      /\ s \in c.live /\ "SHUT_RD" \notin c.strm[s].flags /\ c.rd.left <= c.strm[s].rxLast
      /\ ~ShouldCloseStream(c.strm[s])
      /\ Asks(c.role, s, c.strm[s]) => s \in c.strmq
  BY <1>1 DEF Sound, SoundBut, PayloadOpen
<1>4. rd = Idle \/ (rd.id = s /\ rd.left = c.rd.left - n)
  BY <1>1 DEF Rest
<1>5. Good(d)
  BY <1>1, RestType, PayloadGood
<1>6. /\ Touches(c, d, s) /\ d.strm = c.strm /\ d.strmq = c.strmq /\ d.rd = rd /\ d.live = c.live
  BY DEF Touches, SameLimits, Good, ConnType
<1>7. PayloadOpen(d)
  <2>1. c.strm[s] \in StrmType
    BY <1>2, Fields
  <2>2. c.rd.left \in Nat /\ c.strm[s].rxLast \in Nat
    BY <1>1, <2>1 DEF StrmType, Offset
  <2>3. c.rd.left - n <= c.strm[s].rxLast
    BY <1>2, <1>3, <2>2
  <2> HIDE DEF d, rd, s
  <2> QED
    BY <1>3, <1>4, <1>6, <2>3 DEF PayloadOpen
<1> HIDE DEF d, rd
<1>8. Sound(d) /\ Kept(c, d)
  <2>1. c.strmq \subseteq StreamIds
    BY Fields
  <2>2. SoundBut(d, {} \cup {s}) /\ Kept(c, d)
    BY <1>2, <1>3, <1>6, <1>7, <2>1, TouchSound
  <2>3. {} \cup {s} = {s}
    OBVIOUS
  <2> QED
    BY <1>3, <1>6, <2>2, <2>3, NoExcuse
<1>9. Good(e) /\ Alike(d, e)
  <2>1. Alike(d, d)
    BY DEF Alike, SameLimits
  <2>2. Alike(d, ExtendMaxOffset(d, n)) /\ Good(ExtendMaxOffset(d, n))
    BY <1>2, <1>5, OtherAlike, ExtendGood DEF ExtendMaxOffset
  <2> QED
    BY <1>5, <2>1, <2>2
<1>10. RecvStreamData(c, n) = IF c.rd.fin /\ n = c.rd.left
                                THEN CloseStreamIfShutRdWr(SetFlags(e, s, {"SHUT_RD"}), s)
                                ELSE e
  BY DEF RecvStreamData, d, rd
<1> HIDE DEF e, s
<1>11. Sound(e) /\ Kept(c, e)
  BY <1>8, <1>9, AlikeSound, KeptOrder DEF Sound
<1>12. CASE c.rd.fin /\ n = c.rd.left
  <2> DEFINE g == SetFlags(e, s, {"SHUT_RD"})
  <2>1. {"SHUT_RD"} \in SUBSET Flag
    BY DEF Flag
  <2>2. e.rd = Idle
    BY <1>6, <1>9, <1>12 DEF Alike, Rest, rd
  <2>3. Good(g)
    BY <1>2, <1>9, <2>1, SetFlagsGood
  <2>4. SoundBut(g, {} \cup {s}) /\ Kept(e, g)
    BY <1>2, <1>9, <1>11, <2>1, <2>2, SetFlagsSound DEF Sound
  <2>5. {} \cup {s} = {s}
    OBVIOUS
  <2> HIDE DEF g
  <2>6. Sound(CloseStreamIfShutRdWr(g, s)) /\ Kept(g, CloseStreamIfShutRdWr(g, s))
    BY <1>2, <2>3, <2>4, <2>5, CloseSound
  <2>7. RecvStreamData(c, n) = CloseStreamIfShutRdWr(g, s)
    BY <1>10, <1>12 DEF g
  <2> QED
    BY <1>11, <2>4, <2>6, <2>7, KeptOrder
<1>13. CASE ~(c.rd.fin /\ n = c.rd.left)
  BY <1>10, <1>11, <1>13
<1> QED
  BY <1>12, <1>13

\* conn_recv_reset_stream.
LEMMA RecvResetStreamSound ==
  ASSUME NEW c, Good(c), Sound(c), c.rd = Idle, NEW f \in PeerFrame, f.t = "RESET_STREAM",
         RecvResetStreamError(c, f) = "NONE"
  PROVE  Sound(RecvResetStream(c, f)) /\ Kept(c, RecvResetStream(c, f))
<1> DEFINE s == f.id
           b == FindOrOpen(c, s)
           F == {"SHUT_RD", "RESET_STREAM_RECVED"}
           g == SetFlags(b, s, F)
<1>1. s \in StreamIds /\ F \in SUBSET Flag
  BY PeerFrameFields DEF Flag
<1>2. StreamIdError(c, s, "recv") = "NONE" /\ ~Closed(c, s)
  BY DEF RecvResetStreamError
<1>3. Good(b) /\ Sound(b) /\ Kept(c, b) /\ b.rd = Idle
  BY <1>1, <1>2, FindOrOpenGood, FindOrOpenSound
<1>4. RecvResetStream(c, f) = CloseStreamIfShutRdWr(g, s)
  BY DEF RecvResetStream
<1>5. F \cap {"SEND_RESET_STREAM", "SEND_STOP_SENDING", "SEND_STREAM_DATA_BLOCKED"} = {}
  OBVIOUS
<1> HIDE DEF b, F
<1>6. Good(g)
  BY <1>1, <1>3, SetFlagsGood
<1>7. SoundBut(g, {} \cup {s}) /\ Kept(b, g)
  BY <1>1, <1>3, <1>5, SetFlagsSound DEF Sound
<1>8. {} \cup {s} = {s}
  OBVIOUS
<1> HIDE DEF g
<1>9. Sound(CloseStreamIfShutRdWr(g, s)) /\ Kept(g, CloseStreamIfShutRdWr(g, s))
  BY <1>1, <1>6, <1>7, <1>8, CloseSound
<1> QED
  BY <1>3, <1>4, <1>7, <1>9, KeptOrder

\* conn_recv_stop_sending: a RESET_STREAM is queued, so that the stream is not
\* to be closed yet, unless its write side was shut already.
LEMMA RecvStopSendingSound ==
  ASSUME NEW c, Good(c), Sound(c), NEW f \in PeerFrame, f.t = "STOP_SENDING",
         RecvStopSendingError(c, f) = "NONE"
  PROVE  Sound(RecvStopSending(c, f)) /\ Kept(c, RecvStopSending(c, f))
<1> DEFINE s == f.id
           b == FindOrOpen(c, s)
           x == b.strm[s]
           R == {"SEND_RESET_STREAM", "RESET_STREAM"}
           F == {"SHUT_WR", "STOP_SENDING_RECVED"}
           e == IF "SHUT_WR" \in x.flags THEN b ELSE ScheduleReset(b, s)
           g == SetFlags(e, s, F)
<1>1. s \in StreamIds /\ R \in SUBSET Flag /\ F \in SUBSET Flag
  BY PeerFrameFields DEF Flag
<1>2. CASE Closed(c, s) \/ "STOP_SENDING_RECVED" \in x.flags
  <2>1. RecvStopSending(c, f) = DrainGlitch(c)
    BY <1>2 DEF RecvStopSending
  <2> QED
    BY <2>1, DrainGlitchAlike, AlikeSound DEF Sound
<1>3. CASE ~(Closed(c, s) \/ "STOP_SENDING_RECVED" \in x.flags)
  <2>1. StreamIdError(c, s, "send") = "NONE" /\ ~Closed(c, s)
    BY <1>3 DEF RecvStopSendingError
  <2>2. Good(b) /\ Sound(b) /\ Kept(c, b) /\ s \in b.live
    BY <1>1, <2>1, FindOrOpenGood, FindOrOpenSound
  <2>3. RecvStopSending(c, f) = g
    BY <1>3 DEF RecvStopSending
  <2> HIDE DEF b
  <2>4. x \in StrmType
    BY <1>1, <2>2, Fields
  <2>5. ~ShouldCloseStream(x) /\ SoundBut(b, {})
    BY <2>2 DEF Sound, SoundBut
  <2>6. /\ Good(e) /\ SoundBut(e, {} \cup {s}) /\ Kept(b, e) /\ e.strm[s] \in StrmType
        /\ "SHUT_WR" \notin x.flags => "SEND_RESET_STREAM" \in e.strm[s].flags
        /\ "SHUT_WR" \in x.flags => e = b
    <3>1. CASE "SHUT_WR" \in x.flags
      <4>1. e = b
        BY <3>1
      <4>2. SoundBut(b, {} \cup {s})
        BY <2>5 DEF SoundBut
      <4> QED
        BY <2>2, <2>4, <3>1, <4>1, <4>2, KeptOrder
    <3>2. CASE "SHUT_WR" \notin x.flags
      <4>1. e = PushIfNot(SetFlags(b, s, R), s)
        BY <3>2 DEF ScheduleReset
      <4>2. e = ScheduleReset(b, s)
        BY <3>2
      <4>3. Good(e)
        BY <1>1, <2>2, <4>2, ScheduleGood
      <4>4. "SHUT_RD" \notin R
        OBVIOUS
      <4> HIDE DEF e, R
      <4>5. SoundBut(e, {} \cup {s}) /\ Kept(b, e)
        BY <1>1, <2>2, <2>5, <4>1, <4>4, ScheduleSound
      <4>6. e.strm[s] = [x EXCEPT !.flags = @ \cup R]
        BY <1>1, <2>2, <4>1, ScheduleView
      <4>7. e.strm[s].flags = x.flags \cup R
        BY <2>4, <4>6 DEF StrmType
      <4>8. "SEND_RESET_STREAM" \in e.strm[s].flags
        BY <4>7 DEF R
      <4>9. e.strm[s] \in StrmType
        BY <1>1, <4>3, Fields
      <4> QED
        BY <3>2, <4>3, <4>5, <4>8, <4>9
    <3> QED
      BY <3>1, <3>2
  <2>7. {} \cup {s} = {s} /\ {s} \cup {s} = {s}
    OBVIOUS
  <2>8. /\ F \cap {"SEND_RESET_STREAM", "SEND_STOP_SENDING", "SEND_STREAM_DATA_BLOCKED"} = {}
        /\ "SHUT_RD" \notin F
    OBVIOUS
  <2>9. x.flags \in SUBSET Flag
    BY <2>4 DEF StrmType
  <2>a. Good(e) /\ SoundBut(e, {s}) /\ Kept(b, e) /\ e.strm[s] \in StrmType
    BY <2>6, <2>7
  <2> HIDE DEF e, F
  <2>10. g.strm[s] = [e.strm[s] EXCEPT !.flags = @ \cup F]
    BY <1>1, <2>a, SetFlagsView
  <2>11. g.strm[s].flags = e.strm[s].flags \cup F
    BY <2>a, <2>10 DEF StrmType
  <2>12. SoundBut(g, {s}) /\ Kept(e, g)
    <3>1. SoundBut(g, {s} \cup {s}) /\ Kept(e, g)
      BY <1>1, <2>a, <2>8, SetFlagsSound
    <3> QED
      BY <2>7, <3>1
  <2>13. ~ShouldCloseStream(g.strm[s])
    <3>1. CASE "SHUT_WR" \in x.flags
      <4>1. g.strm[s].flags = x.flags \cup F
        BY <2>6, <2>11, <3>1
      <4> HIDE DEF x, g
      <4> QED
        BY <2>5, <2>8, <3>1, <4>1 DEF ShouldCloseStream
    <3>2. CASE "SHUT_WR" \notin x.flags
      BY <2>6, <2>11, <3>2 DEF ShouldCloseStream
    <3> QED
      BY <3>1, <3>2
  <2> HIDE DEF g
  <2>14. Sound(g)
    BY <2>12, <2>13, NoExcuse
  <2> QED
    BY <2>2, <2>3, <2>6, <2>12, <2>14, KeptOrder
<1> QED
  BY <1>2, <1>3

\* The payload's stream stays open through a change of one stream that shuts no
\* read side and moves no offset.
LEMMA PayloadTouch ==
  ASSUME NEW c, Good(c), PayloadOpen(c), NEW d, NEW s \in StreamIds, Touches(c, d, s),
         d.rd = c.rd, d.strm[s].rxLast = c.strm[s].rxLast,
         "SHUT_RD" \in d.strm[s].flags => "SHUT_RD" \in c.strm[s].flags
  PROVE  PayloadOpen(d)
<1> SUFFICES ASSUME d.rd # Idle PROVE PayloadOpen(d)
  BY DEF PayloadOpen
<1>1. /\ c.rd.id \in StreamIds /\ c.rd.id \in c.live
      /\ "SHUT_RD" \notin c.strm[c.rd.id].flags /\ c.rd.left <= c.strm[c.rd.id].rxLast
  BY PayloadId DEF PayloadOpen
<1>2. CASE c.rd.id = s
  BY <1>1, <1>2 DEF PayloadOpen, Touches
<1>3. CASE c.rd.id # s
  BY <1>1, <1>3 DEF PayloadOpen, Touches
<1> QED
  BY <1>2, <1>3

\* Fields of a stream that say nothing of its life.
LEMMA StrmAlike ==
  ASSUME NEW c, Good(c), Sound(c), NEW d, NEW s \in StreamIds, Touches(c, d, s),
         d.strmq = c.strmq, d.rd = c.rd,
         d.strm[s].flags \ {"ANY_SENT"} = c.strm[s].flags \ {"ANY_SENT"},
         d.strm[s].rxMax = c.strm[s].rxMax, d.strm[s].rxUnsent = c.strm[s].rxUnsent,
         d.strm[s].rxLast = c.strm[s].rxLast
  PROVE  Sound(d) /\ Kept(c, d)
<1> DEFINE x == c.strm[s]
           y == d.strm[s]
<1>1. \A F \in Flag \ {"ANY_SENT"} : F \in y.flags <=> F \in x.flags
  OBVIOUS
<1>2. Asks(c.role, s, y) <=> Asks(c.role, s, x)
  <2>1. /\ "SEND_RESET_STREAM" \in y.flags <=> "SEND_RESET_STREAM" \in x.flags
        /\ "SEND_STOP_SENDING" \in y.flags <=> "SEND_STOP_SENDING" \in x.flags
        /\ "SEND_STREAM_DATA_BLOCKED" \in y.flags <=> "SEND_STREAM_DATA_BLOCKED" \in x.flags
        /\ "SHUT_RD" \in y.flags <=> "SHUT_RD" \in x.flags
        /\ "STOP_SENDING" \in y.flags <=> "STOP_SENDING" \in x.flags
    BY <1>1 DEF Flag
  <2>2. y.rxMax = x.rxMax /\ y.rxUnsent = x.rxUnsent
    OBVIOUS
  <2> HIDE DEF x, y
  <2> QED
    BY <2>1, <2>2 DEF Asks
<1>3. ShouldCloseStream(y) <=> ShouldCloseStream(x)
  <2>1. /\ "SEND_RESET_STREAM" \in y.flags <=> "SEND_RESET_STREAM" \in x.flags
        /\ "SHUT_WR" \in y.flags <=> "SHUT_WR" \in x.flags
        /\ "SHUT_RD" \in y.flags <=> "SHUT_RD" \in x.flags
    BY <1>1 DEF Flag
  <2> HIDE DEF x, y
  <2> QED
    BY <2>1 DEF ShouldCloseStream
<1>4. PayloadOpen(d)
  <2>1. PayloadOpen(c)
    BY DEF Sound, SoundBut
  <2>2. "SHUT_RD" \in y.flags => "SHUT_RD" \in x.flags
    BY <1>1 DEF Flag
  <2> QED
    BY <2>1, <2>2, PayloadTouch
<1>5. /\ SoundBut(c, {})
      /\ s \in c.live => (Asks(c.role, s, x) => s \in c.strmq)
      /\ s \in c.live => ~ShouldCloseStream(x)
      /\ c.strmq \subseteq StreamIds /\ c.strmq \subseteq c.live
  BY Fields DEF Sound, SoundBut
<1>6. {} \cup {s} = {s} /\ d.live = c.live
  BY DEF Touches
<1> HIDE DEF x
<1>7. SoundBut(d, {} \cup {s}) /\ Kept(c, d)
  BY <1>2, <1>4, <1>5, TouchSound
<1> QED
  BY <1>3, <1>5, <1>6, <1>7, NoExcuse

\* conn_recv_max_stream_data.
LEMMA RecvMaxStreamDataSound ==
  ASSUME NEW c, Good(c), Sound(c), NEW f \in PeerFrame, f.t = "MAX_STREAM_DATA",
         RecvMaxStreamDataError(c, f) = "NONE"
  PROVE  Sound(RecvMaxStreamData(c, f)) /\ Kept(c, RecvMaxStreamData(c, f))
<1> DEFINE s == f.id
           b == FindOrOpen(c, s)
           x == b.strm[s]
           d == [b EXCEPT !.strm[s].txMax = f.max]
<1>1. s \in StreamIds /\ f.max \in Offset
  BY PeerFrameFields DEF Offset
<1>2. CASE Closed(c, s)
  BY <1>2, DrainGlitchAlike, AlikeSound DEF RecvMaxStreamData, Sound
<1>3. CASE ~Closed(c, s)
  <2>1. StreamIdError(c, s, "send") = "NONE" /\ ~(x.txMax >= f.max)
    BY <1>3 DEF RecvMaxStreamDataError
  <2>2. Good(b) /\ Sound(b) /\ Kept(c, b)
    BY <1>1, <1>3, <2>1, FindOrOpenGood, FindOrOpenSound
  <2>3. RecvMaxStreamData(c, f) = d \/ RecvMaxStreamData(c, f) = DrainGlitch(d)
    BY <1>3 DEF RecvMaxStreamData
  <2> HIDE DEF b
  <2>4. x \in StrmType /\ StrmCredit(x)
    BY <1>1, <2>2, Fields
  <2>5. /\ Touches(b, d, s) /\ d.strmq = b.strmq /\ d.rd = b.rd
        /\ d.strm[s] = [x EXCEPT !.txMax = f.max]
    BY <1>1, <2>2 DEF Touches, SameLimits, Good, ConnType
  <2>6. Good(d)
    <3> DEFINE y == [x EXCEPT !.txMax = f.max]
    <3>1. y \in StrmType
      BY <1>1, <2>4 DEF StrmType
    <3>2. StrmCredit(y)
      BY <1>1, <2>1, <2>4 DEF StrmCredit, StrmType, Offset
    <3>3. d = [b EXCEPT !.strm[s] = y]
      OBVIOUS
    <3> HIDE DEF y, d
    <3> QED
      BY <1>1, <2>2, <3>1, <3>2, <3>3, StrmUpdateGood
  <2>7. /\ d.strm[s].flags = x.flags /\ d.strm[s].rxMax = x.rxMax
        /\ d.strm[s].rxUnsent = x.rxUnsent /\ d.strm[s].rxLast = x.rxLast
    BY <2>4, <2>5 DEF StrmType
  <2> HIDE DEF d
  <2>8. Sound(d) /\ Kept(b, d)
    BY <1>1, <2>2, <2>5, <2>7, StrmAlike
  <2>9. Sound(DrainGlitch(d)) /\ Kept(d, DrainGlitch(d))
    BY <2>6, <2>8, DrainGlitchAlike, AlikeSound DEF Sound
  <2> QED
    BY <2>2, <2>3, <2>8, <2>9, KeptOrder
<1> QED
  BY <1>2, <1>3

\* conn_recv_max_streams.
LEMMA RecvMaxStreamsSound ==
  ASSUME NEW c, Good(c), Sound(c), NEW f \in PeerFrame, f.t = "MAX_STREAMS",
         RecvMaxStreamsError(c, f) = "NONE"
  PROVE  Sound(RecvMaxStreams(c, f)) /\ Kept(c, RecvMaxStreams(c, f))
<1> DEFINE d == RecvMaxStreams(c, f)
<1>1. Good(d)
  BY RecvMaxStreamsGood
<1>2. f.dir \in Direction /\ f.max \in Nat /\ ~(c.txStreams[f.dir] >= f.max)
  BY PeerFrameFields DEF RecvMaxStreamsError
<1>3. /\ d.role = c.role /\ d.idtr = c.idtr /\ d.next = c.next /\ d.live = c.live
      /\ d.strmq = c.strmq /\ d.strm = c.strm /\ d.rd = c.rd
      /\ d.rxStreams = c.rxStreams /\ d.rxUnsentStreams = c.rxUnsentStreams
      /\ \A i \in Direction : d.txStreams[i] = IF i = f.dir THEN f.max ELSE c.txStreams[i]
  BY <1>2 DEF RecvMaxStreams, Good, ConnType
<1>4. \A i \in Direction : c.txStreams[i] \in Nat /\ c.rxStreams[i] \in Nat
  BY Fields
<1>5. \A i \in Direction : c.rxStreams[i] <= c.rxUnsentStreams[i]
  BY DEF Sound, SoundBut, WithinStreamLimits
<1> HIDE DEF d
<1>6. \A i \in Direction : /\ c.txStreams[i] <= d.txStreams[i]
                           /\ c.rxStreams[i] <= d.rxStreams[i]
                           /\ d.rxStreams[i] <= d.rxUnsentStreams[i]
  BY <1>2, <1>3, <1>4, <1>5
<1>7. Sound(d) /\ Kept(c, d)
  BY <1>1, <1>3, <1>6, LimitsGrow
<1> QED
  BY <1>7 DEF d

\* conn_recv_qx_ping.
LEMMA RecvPingSound ==
  ASSUME NEW c, Good(c), Sound(c), NEW f
  PROVE  Sound(RecvPing(c, f)) /\ Kept(c, RecvPing(c, f))
<1> DEFINE d == DrainGlitch(c)
<1>1. Good(d) /\ Sound(d) /\ Kept(c, d)
  BY DrainGlitchGood, DrainGlitchAlike, AlikeSound DEF Sound
<1>2. RecvPing(c, f) \in {d, [d EXCEPT !.ping = f.seq]}
  BY DEF RecvPing
<1> HIDE DEF d
<1>3. Alike(d, [d EXCEPT !.ping = f.seq])
  BY <1>1, OtherAlike
<1>4. Sound([d EXCEPT !.ping = f.seq]) /\ Kept(d, [d EXCEPT !.ping = f.seq])
  BY <1>1, <1>3, AlikeSound DEF Sound
<1> QED
  BY <1>1, <1>2, <1>4, KeptOrder

\* Every frame, accepted or refused, that dwnx_conn_read takes between payloads.
LEMMA RecvSound ==
  ASSUME NEW c, Good(c), Sound(c), c.rd = Idle, NEW f \in PeerFrame
  PROVE  Sound(Recv(c, f)) /\ Kept(c, Recv(c, f))
<1>1. ASSUME NEW v
      PROVE  Sound(Fail(c, v)) /\ Kept(c, Fail(c, v))
  BY OtherAlike, AlikeSound DEF Fail, Sound
<1>2. CASE RecvError(c, f) # "NONE"
  BY <1>1, <1>2 DEF Recv
<1>3. CASE RecvError(c, f) = "NONE"
  <2>0. Recv(c, f) = RecvAccepted(c, f)
    BY <1>3 DEF Recv
  <2>1. CASE f.t = "STREAM"
    BY <1>3, <2>0, <2>1, RecvStreamSound DEF RecvError, RecvAccepted
  <2>2. CASE f.t = "RESET_STREAM"
    BY <1>3, <2>0, <2>2, RecvResetStreamSound DEF RecvError, RecvAccepted
  <2>3. CASE f.t = "STOP_SENDING"
    BY <1>3, <2>0, <2>3, RecvStopSendingSound DEF RecvError, RecvAccepted
  <2>4. CASE f.t = "MAX_DATA"
    <3>1. Recv(c, f) = [c EXCEPT !.txMax = f.max]
      BY <2>0, <2>4 DEF RecvAccepted, RecvMaxData
    <3>2. Alike(c, [c EXCEPT !.txMax = f.max])
      BY OtherAlike
    <3> QED
      BY <3>1, <3>2, AlikeSound DEF Sound
  <2>5. CASE f.t = "MAX_STREAM_DATA"
    BY <1>3, <2>0, <2>5, RecvMaxStreamDataSound DEF RecvError, RecvAccepted
  <2>6. CASE f.t = "MAX_STREAMS"
    BY <1>3, <2>0, <2>6, RecvMaxStreamsSound DEF RecvError, RecvAccepted
  <2>7. CASE f.t \in {"DATA_BLOCKED", "STREAM_DATA_BLOCKED", "STREAMS_BLOCKED"}
    BY <2>0, <2>7, KeptOrder DEF RecvAccepted
  <2>8. CASE f.t = "QX_PING_REQUEST"
    BY <2>0, <2>8, RecvPingSound DEF RecvAccepted
  <2>9. f.t # "QX_PING_RESPONSE"
    BY <1>3 DEF RecvError, RecvPingError
  <2> QED
    BY <2>1, <2>2, <2>3, <2>4, <2>5, <2>6, <2>7, <2>8, <2>9, PeerFrameFields
<1> QED
  BY <1>2, <1>3

-----------------------------------------------------------------------------
(* Calls that write nothing                                                *)

\* A side of a stream is given up and a frame that says so is queued.
LEMMA GiveUpSound ==
  ASSUME NEW c, Good(c), Sound(c), NEW s \in StreamIds, s \in c.live,
         NEW F \in SUBSET Flag, NEW G \in SUBSET Flag,
         F \cap {"SEND_RESET_STREAM", "SEND_STOP_SENDING", "SEND_STREAM_DATA_BLOCKED"} = {},
         "SHUT_RD" \notin F, "SHUT_RD" \notin G,
         \/ "SHUT_WR" \notin F /\ "SHUT_WR" \notin G
         \/ "SEND_RESET_STREAM" \in G,
         NEW d, d = PushIfNot(SetFlags(SetFlags(c, s, F), s, G), s)
  PROVE  Sound(d) /\ Kept(c, d)
<1> DEFINE x == c.strm[s]
           b == SetFlags(c, s, F)
<1>1. Good(b)
  BY SetFlagsGood
<1>2. SoundBut(b, {} \cup {s}) /\ Kept(c, b)
  BY SetFlagsSound DEF Sound
<1>3. /\ b.strm[s] = [x EXCEPT !.flags = @ \cup F] /\ b.live = c.live
  BY SetFlagsView DEF Touches
<1>4. d = PushIfNot(SetFlags(b, s, G), s)
  OBVIOUS
<1>5. x \in StrmType
  BY Fields
<1> HIDE DEF b
<1>6. b.strm[s] \in StrmType
  BY <1>1, Fields
<1>7. SoundBut(d, {} \cup {s} \cup {s}) /\ Kept(b, d)
  BY <1>1, <1>2, <1>3, <1>4, ScheduleSound
<1>8. d.strm[s] = [b.strm[s] EXCEPT !.flags = @ \cup G]
  BY <1>1, <1>4, ScheduleView
<1>9. d.strm[s].flags = x.flags \cup F \cup G
  BY <1>3, <1>5, <1>6, <1>8 DEF StrmType
<1>10. ~ShouldCloseStream(x)
  BY DEF Sound, SoundBut
<1> HIDE DEF x
<1>11. ~ShouldCloseStream(d.strm[s])
  <2>1. CASE "SEND_RESET_STREAM" \in G
    BY <1>9, <2>1 DEF ShouldCloseStream
  <2>2. CASE "SHUT_WR" \notin F /\ "SHUT_WR" \notin G
    <3> DEFINE X == x.flags
               Y == d.strm[s].flags
    <3>1. ~({"SHUT_RD", "SHUT_WR"} \subseteq X /\ "SEND_RESET_STREAM" \notin X)
      BY <1>10 DEF ShouldCloseStream
    <3>2. Y = X \cup F \cup G
      BY <1>9
    <3> HIDE DEF X, Y
    <3>3. ~({"SHUT_RD", "SHUT_WR"} \subseteq Y /\ "SEND_RESET_STREAM" \notin Y)
      BY <2>2, <3>1, <3>2
    <3> QED
      BY <3>3 DEF Y, ShouldCloseStream
  <2> QED
    BY <2>1, <2>2
<1>12. {} \cup {s} \cup {s} = {s}
  OBVIOUS
<1>13. Sound(d)
  BY <1>7, <1>11, <1>12, NoExcuse
<1> QED
  BY <1>2, <1>7, <1>13, KeptOrder

\* dwnx_conn_shutdown_stream_write, dwnx_conn_shutdown_stream_read and
\* dwnx_conn_shutdown_stream.
LEMMA ShutdownSound ==
  ASSUME NEW c, Good(c), Sound(c), NEW s \in StreamIds
  PROVE  /\ Sound(ShutdownStreamWrite(c, s)) /\ Kept(c, ShutdownStreamWrite(c, s))
         /\ Sound(ShutdownStreamRead(c, s)) /\ Kept(c, ShutdownStreamRead(c, s))
         /\ Sound(ShutdownStream(c, s)) /\ Kept(c, ShutdownStream(c, s))
<1>1. ASSUME NEW b, Good(b), Sound(b)
      PROVE  Sound(ShutdownStreamWrite(b, s)) /\ Kept(b, ShutdownStreamWrite(b, s))
  <2> DEFINE d == ShutdownStreamWrite(b, s)
             F == {"SHUT_WR"}
             G == {"SEND_RESET_STREAM", "RESET_STREAM"}
  <2>1. CASE s \notin b.live \/ "SHUT_WR" \in b.strm[s].flags
    BY <1>1, <2>1, KeptOrder DEF ShutdownStreamWrite
  <2>2. CASE ~(s \notin b.live \/ "SHUT_WR" \in b.strm[s].flags)
    <3>1. d = PushIfNot(SetFlags(SetFlags(b, s, F), s, G), s)
      BY <2>2 DEF ShutdownStreamWrite, ScheduleReset
    <3>2. F \in SUBSET Flag /\ G \in SUBSET Flag
      BY DEF Flag
    <3>3. /\ F \cap {"SEND_RESET_STREAM", "SEND_STOP_SENDING", "SEND_STREAM_DATA_BLOCKED"} = {}
          /\ "SHUT_RD" \notin F /\ "SHUT_RD" \notin G /\ "SEND_RESET_STREAM" \in G
      OBVIOUS
    <3> HIDE DEF F, G, d
    <3>4. Sound(d) /\ Kept(b, d)
      BY <1>1, <2>2, <3>1, <3>2, <3>3, GiveUpSound
    <3> QED
      BY <3>4 DEF d
  <2> QED
    BY <2>1, <2>2
<1>2. Sound(ShutdownStreamRead(c, s)) /\ Kept(c, ShutdownStreamRead(c, s))
  <2> DEFINE d == ShutdownStreamRead(c, s)
             F == {"STOP_SENDING"}
             G == {"SEND_STOP_SENDING"}
  <2>1. CASE s \notin c.live \/ c.strm[s].flags \cap {"STOP_SENDING", "SHUT_RD"} # {}
    BY <2>1, KeptOrder DEF ShutdownStreamRead
  <2>2. CASE ~(s \notin c.live \/ c.strm[s].flags \cap {"STOP_SENDING", "SHUT_RD"} # {})
    <3>1. d = PushIfNot(SetFlags(SetFlags(c, s, F), s, G), s)
      BY <2>2 DEF ShutdownStreamRead, ScheduleStopSending
    <3>2. F \in SUBSET Flag /\ G \in SUBSET Flag
      BY DEF Flag
    <3>3. /\ F \cap {"SEND_RESET_STREAM", "SEND_STOP_SENDING", "SEND_STREAM_DATA_BLOCKED"} = {}
          /\ "SHUT_RD" \notin F /\ "SHUT_RD" \notin G
          /\ "SHUT_WR" \notin F /\ "SHUT_WR" \notin G
      OBVIOUS
    <3> HIDE DEF F, G, d
    <3>4. Sound(d) /\ Kept(c, d)
      BY <2>2, <3>1, <3>2, <3>3, GiveUpSound
    <3> QED
      BY <3>4 DEF d
  <2> QED
    BY <2>1, <2>2
<1>3. Good(ShutdownStreamRead(c, s))
  BY ShutdownGood
<1>4. Sound(ShutdownStream(c, s)) /\ Kept(c, ShutdownStream(c, s))
  <2> DEFINE d == IF CanRead(c, s) THEN ShutdownStreamRead(c, s) ELSE c
  <2>1. Good(d) /\ Sound(d) /\ Kept(c, d)
    BY <1>2, <1>3, KeptOrder
  <2>2. ShutdownStream(c, s) = IF CanWrite(c, s) THEN ShutdownStreamWrite(d, s) ELSE d
    BY DEF ShutdownStream
  <2> HIDE DEF d
  <2>3. Sound(ShutdownStreamWrite(d, s)) /\ Kept(d, ShutdownStreamWrite(d, s))
    BY <1>1, <2>1
  <2> QED
    BY <2>1, <2>2, <2>3, KeptOrder
<1> QED
  BY <1>1, <1>2, <1>4

\* dwnx_conn_extend_max_stream_offset: a stream whose window has fallen behind
\* is queued.
LEMMA ExtendStreamSound ==
  ASSUME NEW c, Good(c), Sound(c), NEW s \in StreamIds, NEW n \in Nat
  PROVE  /\ Sound(ExtendMaxStreamOffset(c, s, n))
         /\ Kept(c, ExtendMaxStreamOffset(c, s, n))
<1> DEFINE x == c.strm[s]
           d == [c EXCEPT !.strm[s].rxUnsent = Lesser(@ + n, MaxVarint)]
           e == ExtendMaxStreamOffset(c, s, n)
           y == e.strm[s]
<1>1. CASE s \notin c.live
  BY <1>1, KeptOrder DEF ExtendMaxStreamOffset
<1>2. CASE s \in c.live
  <2>1. x \in StrmType
    BY Fields
  <2>2. /\ Touches(c, d, s) /\ d.strmq = c.strmq /\ d.rd = c.rd
        /\ d.strm[s] = [x EXCEPT !.rxUnsent = Lesser(x.rxUnsent + n, MaxVarint)]
    BY DEF Touches, SameLimits, Good, ConnType
  <2>3. e = IF /\ x.flags \cap {"SHUT_RD", "STOP_SENDING"} = {}
               /\ ShouldSendMaxStreamData(d, s)
              THEN PushIfNot(d, s) ELSE d
    BY <1>2 DEF ExtendMaxStreamOffset
  <2>4. ShouldSendMaxStreamData(d, s)
          <=> InitialMaxRx(c.role, s) < 4 * (d.strm[s].rxUnsent - d.strm[s].rxMax)
    BY <2>2 DEF ShouldSendMaxStreamData, Touches, SameLimits
  <2>5. d.strm[s].flags = x.flags /\ d.strm[s].rxLast = x.rxLast
    BY <2>1, <2>2 DEF StrmType
  <2>6. PushIfNot(d, s) = [d EXCEPT !.strmq = @ \cup {s}]
    BY DEF PushIfNot
  <2>7. Good(c)
    OBVIOUS
  <2>8. d \in [DOMAIN d -> {d[i] : i \in DOMAIN d}] /\ "strmq" \in DOMAIN d
    BY DEF Good, ConnType
  <2> HIDE DEF d
  <2>9. /\ PushIfNot(d, s).strm = d.strm /\ PushIfNot(d, s).strmq = d.strmq \cup {s}
        /\ PushIfNot(d, s).rd = d.rd /\ PushIfNot(d, s).live = d.live
        /\ SameLimits(d, PushIfNot(d, s))
    BY <2>6, <2>8 DEF SameLimits
  <2> HIDE DEF e
  <2>10. /\ Touches(c, e, s) /\ e.rd = c.rd /\ y = d.strm[s]
         /\ e.strmq = c.strmq \/ e.strmq = c.strmq \cup {s}
    <3>1. CASE e = d
      BY <2>2, <3>1
    <3>2. CASE e = PushIfNot(d, s)
      BY <2>2, <2>9, <3>2 DEF Touches, SameLimits
    <3> QED
      BY <2>3, <3>1, <3>2
  <2>11. SoundBut(c, {}) /\ PayloadOpen(c) /\ ~ShouldCloseStream(x)
         /\ (Asks(c.role, s, x) => s \in c.strmq)
         /\ c.strmq \subseteq StreamIds
    BY <1>2, Fields DEF Sound, SoundBut
  <2>12. Asks(c.role, s, y) => s \in e.strmq
    <3>1. CASE x.flags \cap {"SHUT_RD", "STOP_SENDING"} = {} /\ ShouldSendMaxStreamData(d, s)
      BY <2>3, <2>9, <3>1
    <3>2. CASE ~(x.flags \cap {"SHUT_RD", "STOP_SENDING"} = {} /\ ShouldSendMaxStreamData(d, s))
      <4>1. Asks(c.role, s, y) => Asks(c.role, s, x)
        BY <2>4, <2>5, <2>10, <3>2 DEF Asks
      <4> QED
        BY <2>10, <2>11, <4>1
    <3> QED
      BY <3>1, <3>2
  <2>13. y.flags = x.flags /\ y.rxLast = x.rxLast
    BY <2>5, <2>10
  <2> HIDE DEF x, y
  <2>14. PayloadOpen(e)
    BY <2>10, <2>11, <2>13, PayloadTouch DEF x, y
  <2>15. SoundBut(e, {} \cup {s}) /\ Kept(c, e)
    BY <1>2, <2>10, <2>11, <2>12, <2>14, TouchSound DEF y
  <2>16. ~ShouldCloseStream(y)
    BY <2>11, <2>13 DEF ShouldCloseStream
  <2>17. {} \cup {s} = {s}
    OBVIOUS
  <2>18. Sound(e)
    BY <2>15, <2>16, <2>17, NoExcuse DEF y
  <2> QED
    BY <2>15, <2>18 DEF e
<1> QED
  BY <1>1, <1>2

\* dwnx_conn_extend_max_offset, dwnx_conn_extend_max_streams_bidi and its sibling.
LEMMA ExtendSound ==
  ASSUME NEW c, Good(c), Sound(c), NEW n \in Nat, NEW i \in Direction
  PROVE  /\ Sound(ExtendMaxOffset(c, n)) /\ Kept(c, ExtendMaxOffset(c, n))
         /\ Sound(ExtendMaxStreams(c, i, n)) /\ Kept(c, ExtendMaxStreams(c, i, n))
<1>1. Alike(c, ExtendMaxOffset(c, n))
  BY OtherAlike DEF ExtendMaxOffset
<1>2. Sound(ExtendMaxOffset(c, n)) /\ Kept(c, ExtendMaxOffset(c, n))
  BY <1>1, AlikeSound DEF Sound
<1> DEFINE d == ExtendMaxStreams(c, i, n)
<1>3. Good(d)
  BY ExtendGood
<1>4. /\ d.role = c.role /\ d.idtr = c.idtr /\ d.next = c.next /\ d.live = c.live
      /\ d.strmq = c.strmq /\ d.strm = c.strm /\ d.rd = c.rd
      /\ d.rxStreams = c.rxStreams /\ d.txStreams = c.txStreams
      /\ \A j \in Direction : d.rxUnsentStreams[j] =
           IF j = i THEN Lesser(c.rxUnsentStreams[i] + n, MaxStreams) ELSE c.rxUnsentStreams[j]
  BY DEF ExtendMaxStreams, Good, ConnType
<1>5. \A j \in Direction : /\ c.rxStreams[j] \in 0..MaxStreams /\ c.txStreams[j] \in Nat
                           /\ c.rxUnsentStreams[j] \in Nat
                           /\ c.rxStreams[j] <= c.rxUnsentStreams[j]
  BY Fields DEF Sound, SoundBut, WithinStreamLimits
<1> HIDE DEF d
<1>6. \A j \in Direction : /\ c.txStreams[j] <= d.txStreams[j]
                           /\ c.rxStreams[j] <= d.rxStreams[j]
                           /\ d.rxStreams[j] <= d.rxUnsentStreams[j]
  BY <1>4, <1>5 DEF Lesser
<1>7. Sound(d) /\ Kept(c, d)
  BY <1>3, <1>4, <1>6, LimitsGrow
<1> QED
  BY <1>2, <1>7 DEF d

-----------------------------------------------------------------------------
(* dwnx_conn_write_vmsg                                                    *)

\* A stream that had its turn in the loop over the queue: only flags that ask
\* for a frame are cleared, and the limit announced is the one to announce.
LEMMA AfterTurnView ==
  ASSUME NEW c, Good(c), NEW s \in StreamIds, NEW out,
         NEW x, x = c.strm[s], NEW y, y = AfterTurn(c, s, out)
  PROVE  /\ y.flags = x.flags \ Cleared(c, s, out)
         /\ Cleared(c, s, out) \subseteq
              {"SEND_RESET_STREAM", "SEND_STOP_SENDING", "SEND_STREAM_DATA_BLOCKED"}
         /\ y.rxUnsent = x.rxUnsent /\ y.rxLast = x.rxLast
         /\ y.rxMax = IF CreditFrames(c, s) \cap out # {} THEN x.rxUnsent ELSE x.rxMax
<1>1. x \in StrmType
  BY Fields
<1>2. Cleared(c, s, out) \subseteq
        {"SEND_RESET_STREAM", "SEND_STOP_SENDING", "SEND_STREAM_DATA_BLOCKED"}
  BY DEF Cleared
<1> DEFINE m == IF CreditFrames(c, s) \cap out # {} THEN x.rxUnsent ELSE x.rxMax
           b == IF StreamDataBlockedFrames(c, s) \cap out # {}
                  THEN x.txOff ELSE x.txBlocked
           G == x.flags \ Cleared(c, s, out)
<1>3. y = [x EXCEPT !.flags = G, !.rxMax = m, !.txBlocked = b]
  BY DEF AfterTurn
<1> HIDE DEF m, b, G
<1>4. y.flags = G /\ y.rxUnsent = x.rxUnsent /\ y.rxLast = x.rxLast /\ y.rxMax = m
  BY <1>1, <1>3 DEF StrmType
<1> QED
  BY <1>2, <1>4 DEF G, m

\* A stream that leaves the queue and is not freed has said all it had to say.
LEMMA PoppedQuiet ==
  ASSUME NEW c, Good(c), NEW s \in StreamIds, NEW out,
         s \in Popped(c, out), ~ClosesOnReset(c, s)
  PROVE  ~Asks(c.role, s, AfterTurn(c, s, out))
<1> DEFINE x == c.strm[s]
           y == AfterTurn(c, s, out)
<1>1. /\ y.flags = x.flags \ Cleared(c, s, out)
      /\ Cleared(c, s, out) \subseteq
           {"SEND_RESET_STREAM", "SEND_STOP_SENDING", "SEND_STREAM_DATA_BLOCKED"}
      /\ y.rxUnsent = x.rxUnsent
      /\ y.rxMax = IF CreditFrames(c, s) \cap out # {} THEN x.rxUnsent ELSE x.rxMax
  BY AfterTurnView
<1>2. /\ Reached(c, s, out)
      /\ ResetFrames(c, s) \subseteq out /\ StopFrames(c, s) \subseteq out
      /\ CreditFrames(c, s) \subseteq out
  BY DEF Popped, StreamFrames
<1>3. {"SEND_RESET_STREAM", "SEND_STOP_SENDING", "SEND_STREAM_DATA_BLOCKED"}
        \subseteq Cleared(c, s, out)
  BY <1>2 DEF Cleared
<1>4. x \in StrmType /\ InitialMaxRx(c.role, s) \in Nat
  <2>1. c.role \in Role
    BY Fields
  <2>2. NewStrm(c.role, s).rxMax = InitialMaxRx(c.role, s)
    BY DEF NewStrm
  <2> QED
    BY <2>1, <2>2, Fields, NewStrmGood DEF StrmType, Offset
<1>5. x.rxUnsent \in Nat /\ x.rxMax \in Nat
  BY <1>4 DEF StrmType, Offset
<1>6. NeedsCredit(c, s) => CreditFrames(c, s) \cap out # {}
  BY <1>2 DEF CreditFrames
<1>7. NeedsCredit(c, s) <=> /\ x.flags \cap {"SHUT_RD", "STOP_SENDING"} = {}
                            /\ InitialMaxRx(c.role, s) < 4 * (x.rxUnsent - x.rxMax)
  BY DEF NeedsCredit, ShouldSendMaxStreamData
<1>8. ~NeedsCredit(c, s) => CreditFrames(c, s) = {}
  BY DEF CreditFrames
<1> HIDE DEF x, y
<1>9. /\ y.flags \cap {"SEND_RESET_STREAM", "SEND_STOP_SENDING",
                       "SEND_STREAM_DATA_BLOCKED"} = {}
      /\ y.flags \cap {"SHUT_RD", "STOP_SENDING"} = x.flags \cap {"SHUT_RD", "STOP_SENDING"}
  BY <1>1, <1>3
<1>10. ~(/\ y.flags \cap {"SHUT_RD", "STOP_SENDING"} = {}
         /\ InitialMaxRx(c.role, s) < 4 * (y.rxUnsent - y.rxMax))
  <2>1. CASE NeedsCredit(c, s)
    <3>1. y.rxMax = x.rxUnsent
      BY <1>1, <1>6, <2>1
    <3>2. y.rxUnsent - y.rxMax = 0
      BY <1>1, <1>5, <3>1
    <3> QED
      BY <1>4, <3>2
  <2>2. CASE ~NeedsCredit(c, s)
    <3>1. y.rxMax = x.rxMax
      BY <1>1, <1>8, <2>2
    <3> QED
      BY <1>1, <1>7, <1>9, <2>2, <3>1
  <2> QED
    BY <2>1, <2>2
<1>11. ~Asks(c.role, s, y)
  BY <1>9, <1>10 DEF Asks
<1> QED
  BY <1>11 DEF y

\* A stream whose last word was its RESET_STREAM is freed when it is written.
LEMMA TurnCloses ==
  ASSUME NEW c, Good(c), NEW s \in StreamIds, NEW out, s \in c.strmq,
         ~ShouldCloseStream(c.strm[s]), ShouldCloseStream(AfterTurn(c, s, out))
  PROVE  s \in Popped(c, out) /\ ClosesOnReset(c, s)
<1> DEFINE x == c.strm[s]
           y == AfterTurn(c, s, out)
<1>1. /\ y.flags = x.flags \ Cleared(c, s, out)
      /\ Cleared(c, s, out) \subseteq
           {"SEND_RESET_STREAM", "SEND_STOP_SENDING", "SEND_STREAM_DATA_BLOCKED"}
  BY AfterTurnView
<1> HIDE DEF y
<1>2. {"SHUT_RD", "SHUT_WR"} \subseteq x.flags /\ "SEND_RESET_STREAM" \in x.flags
  BY <1>1 DEF ShouldCloseStream, y
<1>3. "SEND_RESET_STREAM" \in Cleared(c, s, out)
  BY <1>1, <1>2 DEF ShouldCloseStream, y
<1>4. ClosesOnReset(c, s)
  BY <1>2 DEF ClosesOnReset
<1>5. ResetFrames(c, s) \subseteq out /\ Reached(c, s, out)
  BY <1>3 DEF Cleared
<1>6. StreamFrames(c, s) = ResetFrames(c, s)
  BY <1>4 DEF StreamFrames
<1> QED
  BY <1>4, <1>5, <1>6 DEF Popped

\* dwnx_conn_write_ctrl_frames, wherever it stops.
LEMMA WriteCtrlFramesSound ==
  ASSUME NEW c, Good(c), Sound(c), NEW out \in SUBSET Frame
  PROVE  /\ Sound(WriteCtrlFrames(c, out))
         /\ Kept(c, WriteCtrlFrames(c, out))
         /\ \A s \in StreamIds :
              s \in c.live /\ "SHUT_WR" \notin c.strm[s].flags
              => /\ s \in WriteCtrlFrames(c, out).live
                 /\ "SHUT_WR" \notin WriteCtrlFrames(c, out).strm[s].flags
<1> DEFINE d == WriteCtrlFrames(c, out)
           Freed == {s \in Popped(c, out) : ClosesOnReset(c, s)}
<1>1. /\ d.role = c.role /\ d.idtr = c.idtr /\ d.next = c.next
      /\ d.live = c.live \ Freed /\ d.strmq = c.strmq \ Popped(c, out) /\ d.rd = c.rd
      /\ d.txStreams = c.txStreams /\ d.rxUnsentStreams = c.rxUnsentStreams
      /\ \A i \in Direction : d.rxStreams[i] \in {c.rxStreams[i], c.rxUnsentStreams[i]}
  BY DEF WriteCtrlFrames, Good, ConnType
<1>2. \A s \in StreamIds :
        d.strm[s] = IF s \in Freed THEN NewStrm(c.role, s)
                    ELSE IF s \in c.strmq THEN AfterTurn(c, s, out) ELSE c.strm[s]
  BY DEF WriteCtrlFrames, Good, ConnType
<1>3. Good(d)
  BY WriteCtrlFramesGood
<1> HIDE DEF d
<1>4. /\ c.live \subseteq StreamIds /\ c.strmq \subseteq c.live
      /\ \A s \in c.live : Asks(c.role, s, c.strm[s]) => s \in c.strmq
      /\ \A s \in c.live : ~ShouldCloseStream(c.strm[s])
      /\ PayloadOpen(c) /\ WithinStreamLimits(c) /\ NextLocal(c)
  BY Fields DEF Sound, SoundBut
<1>5. \A s \in Freed : s \in Popped(c, out) /\ ClosesOnReset(c, s)
  OBVIOUS
<1>6. \A s \in StreamIds : s \in Popped(c, out) /\ ClosesOnReset(c, s) => s \in Freed
  OBVIOUS
<1>7. Popped(c, out) \subseteq c.strmq
  BY DEF Popped
<1> HIDE DEF Freed
<1>8. WithinStreamLimits(d) /\ Kept(c, d)
  <2>1. \A i \in Direction : /\ c.txStreams[i] <= d.txStreams[i]
                             /\ c.rxStreams[i] <= d.rxStreams[i]
                             /\ d.rxStreams[i] <= d.rxUnsentStreams[i]
    <3> SUFFICES ASSUME NEW i \in Direction
                 PROVE  /\ c.txStreams[i] <= d.txStreams[i]
                        /\ c.rxStreams[i] <= d.rxStreams[i]
                        /\ d.rxStreams[i] <= d.rxUnsentStreams[i]
      OBVIOUS
    <3>1. /\ c.txStreams[i] \in Nat /\ c.rxStreams[i] \in Nat /\ c.rxUnsentStreams[i] \in Nat
          /\ c.rxStreams[i] <= c.rxUnsentStreams[i]
      BY <1>4, Fields DEF WithinStreamLimits
    <3> QED
      BY <1>1, <3>1
  <2> QED
    BY <1>1, <1>3, <1>4, <2>1, LimitsKept
<1>9. ASSUME NEW s \in d.live
      PROVE  /\ s \in StreamIds /\ s \notin Freed
             /\ d.strm[s].flags \subseteq c.strm[s].flags
             /\ d.strm[s].rxLast = c.strm[s].rxLast
             /\ Asks(d.role, s, d.strm[s]) => s \in d.strmq
             /\ ~ShouldCloseStream(d.strm[s])
  <2>1. s \in StreamIds /\ s \in c.live /\ s \notin Freed
    BY <1>1, <1>4
  <2>2. CASE s \in c.strmq
    <3>1. d.strm[s] = AfterTurn(c, s, out)
      BY <1>2, <2>1, <2>2
    <3>2. d.strm[s].flags \subseteq c.strm[s].flags /\ d.strm[s].rxLast = c.strm[s].rxLast
      BY <2>1, <3>1, AfterTurnView
    <3>3. Asks(d.role, s, d.strm[s]) => s \in d.strmq
      <4>1. s \in Popped(c, out) => ~Asks(c.role, s, AfterTurn(c, s, out))
        BY <1>6, <2>1, PoppedQuiet
      <4> QED
        BY <1>1, <2>2, <3>1, <4>1
    <3>4. ~ShouldCloseStream(d.strm[s])
      BY <1>4, <1>6, <2>1, <2>2, <3>1, TurnCloses
    <3> QED
      BY <2>1, <3>2, <3>3, <3>4
  <2>3. CASE s \notin c.strmq
    BY <1>1, <1>2, <1>4, <2>1, <2>3
  <2> QED
    BY <2>2, <2>3
<1>10. ASSUME NEW s \in StreamIds, s \in c.live,
              ~({"SHUT_RD", "SHUT_WR"} \subseteq c.strm[s].flags)
       PROVE  s \in d.live
  BY <1>1, <1>5, <1>10 DEF ClosesOnReset
<1>11. PayloadOpen(d)
  <2> SUFFICES ASSUME d.rd # Idle PROVE PayloadOpen(d)
    BY DEF PayloadOpen
  <2>1. /\ c.rd.id \in StreamIds /\ c.rd.id \in c.live
        /\ "SHUT_RD" \notin c.strm[c.rd.id].flags /\ c.rd.left <= c.strm[c.rd.id].rxLast
    BY <1>1, <1>4, PayloadId DEF PayloadOpen
  <2>2. c.rd.id \in d.live
    BY <1>10, <2>1
  <2> QED
    BY <1>1, <1>9, <2>1, <2>2 DEF PayloadOpen
<1>12. NextLocal(d)
  BY <1>1, <1>4 DEF NextLocal
<1>13. d.strmq \subseteq d.live
  BY <1>1, <1>4, <1>5
<1>14. Sound(d)
  BY <1>8, <1>9, <1>11, <1>12, <1>13 DEF Sound, SoundBut
<1>15. \A s \in StreamIds :
         s \in c.live /\ "SHUT_WR" \notin c.strm[s].flags
         => s \in d.live /\ "SHUT_WR" \notin d.strm[s].flags
  BY <1>9, <1>10
<1> QED
  BY <1>8, <1>14, <1>15 DEF d

\* dwnx_conn_write_max_streams.
LEMMA WriteMaxStreamsSound ==
  ASSUME NEW c, Good(c), Sound(c), NEW out \in SUBSET Frame
  PROVE  Sound(WriteMaxStreams(c, out)) /\ Kept(c, WriteMaxStreams(c, out))
<1> DEFINE d == WriteMaxStreams(c, out)
<1>1. Good(d)
  BY WriteMaxStreamsGood
<1>2. /\ d.role = c.role /\ d.idtr = c.idtr /\ d.next = c.next /\ d.live = c.live
      /\ d.strmq = c.strmq /\ d.strm = c.strm /\ d.rd = c.rd
      /\ d.txStreams = c.txStreams /\ d.rxUnsentStreams = c.rxUnsentStreams
      /\ \A i \in Direction : d.rxStreams[i] \in {c.rxStreams[i], c.rxUnsentStreams[i]}
  BY DEF WriteMaxStreams, Good, ConnType
<1>3. \A i \in Direction : /\ c.txStreams[i] \in Nat /\ c.rxStreams[i] \in Nat
                           /\ c.rxUnsentStreams[i] \in Nat
                           /\ c.rxStreams[i] <= c.rxUnsentStreams[i]
  BY Fields DEF Sound, SoundBut, WithinStreamLimits
<1> HIDE DEF d
<1>4. ASSUME NEW i \in Direction
      PROVE  /\ c.txStreams[i] <= d.txStreams[i]
             /\ c.rxStreams[i] <= d.rxStreams[i]
             /\ d.rxStreams[i] <= d.rxUnsentStreams[i]
  BY <1>2, <1>3
<1>5. Sound(d) /\ Kept(c, d)
  BY <1>1, <1>2, <1>4, LimitsGrow
<1> QED
  BY <1>5 DEF d

\* dwnx_qre_final.
LEMMA FinishRecordSound ==
  ASSUME NEW c, Good(c), Sound(c)
  PROVE  Sound(FinishRecord(c)) /\ Kept(c, FinishRecord(c))
<1> DEFINE v == [started |-> FALSE, frames |-> << >>]
<1>1. FinishRecord(c) = [c EXCEPT !.qre = v]
  BY DEF FinishRecord
<1> HIDE DEF v
<1>2. Alike(c, [c EXCEPT !.qre = v])
  BY OtherAlike
<1> QED
  BY <1>1, <1>2, AlikeSound DEF Sound

\* A STREAM frame: the one that carries the end shuts the write side, and the
\* stream leaves the map if its read side is shut.  A stream that has more to
\* send stays.
LEMMA WriteDataSound ==
  ASSUME NEW c, Good(c), Sound(c), NEW s \in StreamIds, NEW len \in Nat, NEW w \in Nat,
         NEW fin \in BOOLEAN, w <= FcCredits(c, s)
  PROVE  /\ Sound(WriteData(c, s, len, w, fin)) /\ Kept(c, WriteData(c, s, len, w, fin))
         /\ w # len => WriteData(c, s, len, w, fin).live = c.live
<1> DEFINE last == fin /\ w = len
           x == c.strm[s]
           F == {StreamFr(s, c.strm[s].txOff, w, last)}
           d == [c EXCEPT
                   !.txOff = @ + w,
                   !.strm[s] = Sent(@, w),
                   !.qre.frames = Append(@, {StreamFr(s, c.strm[s].txOff, w, last)})]
           b == SetFlags(d, s, {"SHUT_WR"})
<1>1. WriteData(c, s, len, w, fin) = IF last THEN CloseStreamIfShutRdWr(b, s) ELSE d
  BY DEF WriteData
<1>2. last \in BOOLEAN /\ (w # len => ~last)
  OBVIOUS
<1>3. x \in StrmType
  BY Fields
<1> HIDE DEF last
<1>4. Good(d)
  BY <1>2, StreamFrameGood
<1>5. /\ Touches(c, d, s) /\ d.strmq = c.strmq /\ d.rd = c.rd /\ d.live = c.live
      /\ d.strm[s] = Sent(x, w)
  BY DEF Touches, SameLimits, Good, ConnType
<1> HIDE DEF d, x
<1>6. /\ d.strm[s].flags \ {"ANY_SENT"} = x.flags \ {"ANY_SENT"}
      /\ d.strm[s].rxMax = x.rxMax /\ d.strm[s].rxUnsent = x.rxUnsent
      /\ d.strm[s].rxLast = x.rxLast
  BY <1>3, <1>5 DEF StrmType, Sent
<1>7. Sound(d) /\ Kept(c, d)
  BY <1>5, <1>6, StrmAlike DEF x
<1>8. {"SHUT_WR"} \in SUBSET Flag
  BY DEF Flag
<1>9. /\ {"SHUT_WR"} \cap {"SEND_RESET_STREAM", "SEND_STOP_SENDING",
                           "SEND_STREAM_DATA_BLOCKED"} = {}
      /\ "SHUT_RD" \notin {"SHUT_WR"}
  OBVIOUS
<1>10. Good(b)
  BY <1>4, <1>8, SetFlagsGood
<1>11. SoundBut(b, {} \cup {s}) /\ Kept(d, b)
  <2>1. SoundBut(d, {})
    BY <1>7 DEF Sound
  <2> QED
    BY <1>4, <1>8, <1>9, <2>1, SetFlagsSound
<1>12. {} \cup {s} = {s}
  OBVIOUS
<1> HIDE DEF b
<1>13. Sound(CloseStreamIfShutRdWr(b, s)) /\ Kept(b, CloseStreamIfShutRdWr(b, s))
  BY <1>10, <1>11, <1>12, CloseSound
<1>14. Kept(c, CloseStreamIfShutRdWr(b, s))
  BY <1>7, <1>11, <1>13, KeptOrder
<1> QED
  BY <1>1, <1>2, <1>5, <1>7, <1>13, <1>14

\* A stream of the map that is blocked: a report that does not fit is queued.
LEMMA ReportBlockedSound ==
  ASSUME NEW c, Good(c), Sound(c), NEW s \in StreamIds, s \in c.live,
         NEW out \in SUBSET Frame
  PROVE  Sound(ReportBlocked(c, s, out)) /\ Kept(c, ReportBlocked(c, s, out))
<1> DEFINE x == c.strm[s]
           F == {"SEND_STREAM_DATA_BLOCKED"}
           u == IF StreamDataBlockedFrames(c, s) \cap out # {}
                  THEN c.strm[s].txOff ELSE c.strm[s].txBlocked
           d == [c EXCEPT
                   !.txBlocked = IF DataBlockedFrames(c, s) \cap out # {} THEN c.txOff ELSE @,
                   !.strm[s].txBlocked = IF StreamDataBlockedFrames(c, s) \cap out # {}
                                           THEN c.strm[s].txOff ELSE @,
                   !.qre.frames = Batch(@, out)]
           e == PushIfNot(SetFlags(d, s, F), s)
<1>1. ReportBlocked(c, s, out) \in {d, e}
  BY DEF ReportBlocked
<1>2. Good(d)
  BY ReportsGood
<1>3. /\ Touches(c, d, s) /\ d.strmq = c.strmq /\ d.rd = c.rd /\ d.live = c.live
      /\ d.strm[s] = [x EXCEPT !.txBlocked = u]
  BY DEF Touches, SameLimits, Good, ConnType
<1>4. x \in StrmType
  BY Fields
<1>5. F \in SUBSET Flag /\ "SHUT_RD" \notin F
  BY DEF Flag
<1>6. s \in c.live => ~ShouldCloseStream(x)
  BY DEF Sound, SoundBut
<1> HIDE DEF d, u, x
<1>7. /\ d.strm[s].flags = x.flags /\ d.strm[s].rxMax = x.rxMax
      /\ d.strm[s].rxUnsent = x.rxUnsent /\ d.strm[s].rxLast = x.rxLast
  BY <1>3, <1>4 DEF StrmType
<1>8. Sound(d) /\ Kept(c, d)
  BY <1>3, <1>7, StrmAlike DEF x
<1> HIDE DEF e
<1>9. SoundBut(e, {} \cup {s}) /\ Kept(d, e)
  <2>1. SoundBut(d, {}) /\ s \in d.live
    BY <1>3, <1>8 DEF Sound
  <2> QED
    BY <1>2, <1>5, <2>1, ScheduleSound DEF e
<1>10. d.strm[s] \in StrmType
  BY <1>2, Fields
<1>11. e.strm[s] = [d.strm[s] EXCEPT !.flags = @ \cup F]
  BY <1>2, <1>5, ScheduleView DEF e
<1>12. e.strm[s].flags = x.flags \cup {"SEND_STREAM_DATA_BLOCKED"}
  BY <1>7, <1>10, <1>11 DEF StrmType
<1>13. ~ShouldCloseStream(e.strm[s])
  BY <1>6, <1>12 DEF ShouldCloseStream
<1>14. {} \cup {s} = {s}
  OBVIOUS
<1>15. Sound(e)
  BY <1>9, <1>13, <1>14, NoExcuse
<1>16. Kept(c, e)
  BY <1>8, <1>9, KeptOrder
<1> QED
  BY <1>1, <1>8, <1>15, <1>16

-----------------------------------------------------------------------------
(* Steps                                                                   *)

USE EndsAssumption, BoundsAssumption, PeerFramesAssumption

\* The inductive invariant: the windows hold and every connection is sound.
LifeInv == /\ CreditInv
           /\ \A e \in Ends : Sound(conn[e])

\* What a step keeps, besides CreditInv.
LifeStep == \A e \in Ends : Sound(conn'[e]) /\ Kept(conn[e], conn'[e])

\* A step that replaces one connection.
LEMMA OneStep ==
  ASSUME LifeInv, NEW e \in Ends, NEW d, conn' = [conn EXCEPT ![e] = d],
         Sound(d), Kept(conn[e], d)
  PROVE  LifeStep
<1>1. conn \in [Ends -> ConnType]
  BY DEF LifeInv, CreditInv, TypeOK
<1>2. \A i \in Ends : conn'[i] = IF i = e THEN d ELSE conn[i]
  BY <1>1
<1> QED
  BY <1>2, KeptOrder DEF LifeStep, LifeInv

\* The connections are good and sound before a step.
LEMMA GoodAndSound ==
  ASSUME LifeInv, NEW e \in Ends
  PROVE  Good(conn[e]) /\ Sound(conn[e])
BY DEF LifeInv, CreditInv, TypeOK, Good

\* dwnx_conn_read takes a frame.
LEMMA ReadLife ==
  ASSUME LifeInv, NEW e \in Ends, NEW type, Read(e, type)
  PROVE  LifeStep
<1>1. PICK f \in Incoming(e) : conn' = [conn EXCEPT ![e] = Recv(@, f)]
  BY DEF Read
<1>2. Good(conn[e]) /\ Sound(conn[e]) /\ conn[e].rd = Idle
  BY GoodAndSound DEF Read
<1>3. f \in PeerFrame
  <2>1. CASE Peer(e) \notin Ends
    BY <1>1, <2>1 DEF Incoming
  <2>2. CASE Peer(e) \in Ends
    <3>1. wire \in [Ends -> Seq(SUBSET Frame)]
      BY DEF LifeInv, CreditInv, TypeOK
    <3>2. wire[e] \in Seq(SUBSET Frame) /\ wire[e] # << >> /\ f \in Head(wire[e])
      BY <1>1, <2>2, <3>1 DEF Incoming, Foremost
    <3>3. Head(wire[e]) \in SUBSET Frame
      BY <3>2
    <3> QED
      BY <3>2, <3>3 DEF PeerFrame
  <2> QED
    BY <2>1, <2>2
<1>4. Sound(Recv(conn[e], f)) /\ Kept(conn[e], Recv(conn[e], f))
  BY <1>2, <1>3, RecvSound
<1> QED
  BY <1>1, <1>4, OneStep

\* dwnx_conn_read takes payload.
LEMMA ReadStreamDataLife ==
  ASSUME LifeInv, NEW e \in Ends, ReadStreamData(e)
  PROVE  LifeStep
<1>1. PICK n \in 1..conn[e].rd.left : conn' = [conn EXCEPT ![e] = RecvStreamData(@, n)]
  BY DEF ReadStreamData
<1>2. Sound(RecvStreamData(conn[e], n)) /\ Kept(conn[e], RecvStreamData(conn[e], n))
  BY GoodAndSound, RecvStreamDataSound
<1> QED
  BY <1>1, <1>2, OneStep

\* The glitch rate limiter gains a token.
LEMMA RefillLife ==
  ASSUME LifeInv, NEW e \in Ends, Refill(e)
  PROVE  LifeStep
<1> DEFINE v == conn[e].glitch + 1
<1>1. conn' = [conn EXCEPT ![e] = [conn[e] EXCEPT !.glitch = v]]
  BY DEF Refill, LifeInv, CreditInv, TypeOK
<1> HIDE DEF v
<1>2. Alike(conn[e], [conn[e] EXCEPT !.glitch = v])
  BY GoodAndSound, OtherAlike
<1>3. Sound([conn[e] EXCEPT !.glitch = v]) /\ Kept(conn[e], [conn[e] EXCEPT !.glitch = v])
  BY <1>2, GoodAndSound, AlikeSound DEF Sound
<1> QED
  BY <1>1, <1>3, OneStep

\* The calls that write nothing.
LEMMA AppLife ==
  ASSUME LifeInv, NEW e \in Ends, AppStep(e)
  PROVE  LifeStep
<1>1. Good(conn[e]) /\ Sound(conn[e])
  BY GoodAndSound
<1>2. ASSUME NEW i \in Direction, Open(e, i)
      PROVE  LifeStep
  <2>1. Sound(OpenStream(conn[e], i)) /\ Kept(conn[e], OpenStream(conn[e], i))
    BY <1>1, <1>2, OpenStreamSound DEF Open
  <2> QED
    BY <1>2, <2>1, OneStep DEF Open
<1>3. ASSUME NEW i \in Direction, ExtendStreams(e, i)
      PROVE  LifeStep
  <2>1. /\ Sound(ExtendMaxStreams(conn[e], i, 1))
        /\ Kept(conn[e], ExtendMaxStreams(conn[e], i, 1))
    BY <1>1, ExtendSound
  <2> QED
    BY <1>3, <2>1, OneStep DEF ExtendStreams
<1>4. ASSUME NEW s \in StreamIds, Shutdown(e, s) \/ ShutdownRead(e, s) \/ ShutdownWrite(e, s)
      PROVE  LifeStep
  <2> DEFINE c == conn[e]
  <2>1. /\ Sound(ShutdownStreamWrite(c, s)) /\ Kept(c, ShutdownStreamWrite(c, s))
        /\ Sound(ShutdownStreamRead(c, s)) /\ Kept(c, ShutdownStreamRead(c, s))
        /\ Sound(ShutdownStream(c, s)) /\ Kept(c, ShutdownStream(c, s))
    BY <1>1, ShutdownSound
  <2> QED
    BY <1>4, <2>1, OneStep DEF Shutdown, ShutdownRead, ShutdownWrite
<1>5. ASSUME NEW s \in StreamIds, NEW n \in 1..MaxExtend, ExtendStream(e, s, n)
      PROVE  LifeStep
  <2>1. n \in Nat
    OBVIOUS
  <2>2. /\ Sound(ExtendMaxStreamOffset(conn[e], s, n))
        /\ Kept(conn[e], ExtendMaxStreamOffset(conn[e], s, n))
    BY <1>1, <2>1, ExtendStreamSound
  <2> QED
    BY <1>5, <2>2, OneStep DEF ExtendStream
<1>6. ASSUME NEW n \in 1..MaxExtend, ExtendConn(e, n)
      PROVE  LifeStep
  <2>1. n \in Nat /\ "bidi" \in Direction
    BY DEF Direction
  <2>2. Sound(ExtendMaxOffset(conn[e], n)) /\ Kept(conn[e], ExtendMaxOffset(conn[e], n))
    BY <1>1, <2>1, ExtendSound
  <2> QED
    BY <1>6, <2>2, OneStep DEF ExtendConn
<1> QED
  BY <1>2, <1>3, <1>4, <1>5, <1>6 DEF AppStep

\* Leaving the record open after a call that gives d.
LEMMA KeepOpenLife ==
  ASSUME LifeInv, NEW e \in Ends, NEW d, Sound(d), Kept(conn[e], d), KeepOpen(e, d)
  PROVE  LifeStep
BY OneStep DEF KeepOpen

\* Completing the record after a call that gives d.
LEMMA FinishLife ==
  ASSUME LifeInv, NEW e \in Ends, NEW d, Good(d), Sound(d), Kept(conn[e], d),
         NEW out \in SUBSET Frame, Finish(e, d, out)
  PROVE  LifeStep
<1> DEFINE b == WriteMaxStreams(d, out)
<1>1. conn' = [conn EXCEPT ![e] = FinishRecord(b)]
  BY DEF Finish
<1>2. Good(b) /\ Sound(b) /\ Kept(d, b)
  BY WriteMaxStreamsGood, WriteMaxStreamsSound
<1> HIDE DEF b
<1>3. Sound(FinishRecord(b)) /\ Kept(b, FinishRecord(b))
  BY <1>2, FinishRecordSound
<1>4. Kept(conn[e], FinishRecord(b))
  BY <1>2, <1>3, KeptOrder
<1> QED
  BY <1>1, <1>3, <1>4, OneStep

\* The control frames of a new record: a stream whose write side is open is
\* still there when its data has its turn.
LEMMA StartedLife ==
  ASSUME NEW c, Good(c), Sound(c), NEW out \in CtrlFits(c),
         NEW d, d = Started(c, out)
  PROVE  /\ Good(d) /\ Sound(d) /\ Kept(c, d)
         /\ \A s \in StreamIds :
              s \in c.live /\ "SHUT_WR" \notin c.strm[s].flags => s \in d.live
<1>1. Good(d)
  BY StartedGood
<1>2. CASE c.qre.started
  BY <1>1, <1>2, KeptOrder DEF Started
<1>3. CASE ~c.qre.started
  <2>1. out \in SUBSET Frame
    BY <1>3, FramesType, FitsType DEF CtrlFits
  <2>2. d = WriteCtrlFrames(c, out)
    BY <1>3 DEF Started
  <2> QED
    BY <1>1, <2>1, <2>2, WriteCtrlFramesSound
<1> QED
  BY <1>2, <1>3

\* dwnx_conn_write_record.
LEMMA WriteRecordLife ==
  ASSUME LifeInv, NEW e \in Ends, WriteRecord(e)
  PROVE  LifeStep
<1>1. Good(conn[e]) /\ Sound(conn[e])
  BY GoodAndSound
<1>2. PICK out \in CtrlFits(conn[e]) :
        \E last \in LastFits(conn[e], out) : Finish(e, Started(conn[e], out), last)
  BY DEF WriteRecord
<1>3. PICK last \in LastFits(conn[e], out) : Finish(e, Started(conn[e], out), last)
  BY <1>2
<1>4. last \in SUBSET Frame
  BY <1>1, FramesType, FitsType DEF LastFits
<1> DEFINE d == Started(conn[e], out)
<1>5. Good(d) /\ Sound(d) /\ Kept(conn[e], d)
  BY <1>1, StartedLife
<1>6. Finish(e, d, last)
  BY <1>3
<1> HIDE DEF d
<1> QED
  BY <1>4, <1>5, <1>6, FinishLife

\* What flow control allows is a number of bytes.
LEMMA CreditsType ==
  ASSUME NEW c, Good(c), NEW s \in StreamIds
  PROVE  FcCredits(c, s) \in Nat
<1>1. /\ c.strm[s].txOff \in 0..MaxVarint /\ c.strm[s].txMax \in 0..MaxVarint
      /\ c.strm[s].txOff <= c.strm[s].txMax
  BY Fields DEF StrmType, StrmCredit, Offset
<1>2. /\ c.txOff \in 0..MaxVarint /\ c.txMax \in 0..MaxVarint /\ c.txOff <= c.txMax
  BY Fields
<1> QED
  BY <1>1, <1>2 DEF FcCredits, Lesser

\* dwnx_conn_writev_stream when it sends data: a stream that could not send all
\* it was given did not send its end, and is still there to report it.
LEMMA WriteStreamLife ==
  ASSUME LifeInv, NEW e \in Ends, NEW s \in StreamIds, NEW len \in 0..MaxWrite,
         NEW fin \in BOOLEAN, WriteStream(e, s, len, fin)
  PROVE  LifeStep
<1>1. Good(conn[e]) /\ Sound(conn[e])
  BY GoodAndSound
<1>2. PICK out \in CtrlFits(conn[e]) :
        LET c == Started(conn[e], out)
            credits == Lesser(len, FcCredits(c, s))
        IN
        \E w \in IF "split" \in Calls THEN 0..credits ELSE {credits} :
          /\ w = 0 => len = 0
          /\ LET d == WriteData(c, s, len, w, fin) IN
             IF credits = len
               THEN KeepOpen(e, d) \/ Finish(e, d, {})
               ELSE \E reports \in Fits(BlockedReports(d, s)) :
                      LET b == ReportBlocked(d, s, reports) IN
                      KeepOpen(e, b) \/ Finish(e, b, {})
  BY DEF WriteStream
<1> DEFINE c == Started(conn[e], out)
           credits == Lesser(len, FcCredits(c, s))
<1>3. Good(c) /\ Sound(c) /\ Kept(conn[e], c) /\ s \in c.live
  <2>1. s \in conn[e].live /\ "SHUT_WR" \notin conn[e].strm[s].flags
    BY DEF WriteStream, MayWrite
  <2> QED
    BY <1>1, <2>1, StartedLife
<1>4. PICK w \in IF "split" \in Calls THEN 0..credits ELSE {credits} :
        LET d == WriteData(c, s, len, w, fin) IN
        IF credits = len
          THEN KeepOpen(e, d) \/ Finish(e, d, {})
          ELSE \E reports \in Fits(BlockedReports(d, s)) :
                 LET b == ReportBlocked(d, s, reports) IN
                 KeepOpen(e, b) \/ Finish(e, b, {})
  BY <1>2
<1> HIDE DEF c
<1>5. /\ len \in Nat /\ w \in Nat /\ w <= FcCredits(c, s)
      /\ credits # len => w # len
  <2>1. FcCredits(c, s) \in Nat /\ len \in Nat
    BY <1>3, CreditsType
  <2>2. credits \in Nat /\ credits <= FcCredits(c, s) /\ credits <= len
    BY <2>1 DEF Lesser
  <2> HIDE DEF credits
  <2> QED
    BY <2>1, <2>2
<1> HIDE DEF credits
<1> DEFINE d == WriteData(c, s, len, w, fin)
<1>6. Good(d) /\ Sound(d) /\ Kept(c, d) /\ (w # len => d.live = c.live)
  BY <1>3, <1>5, WriteDataGood, WriteDataSound
<1>7. Kept(conn[e], d)
  BY <1>3, <1>6, KeptOrder
<1>8. CASE credits = len
  <2>1. KeepOpen(e, d) \/ Finish(e, d, {})
    BY <1>4, <1>8
  <2> HIDE DEF d
  <2> QED
    BY <1>6, <1>7, <2>1, KeepOpenLife, FinishLife
<1>9. CASE credits # len
  <2>1. PICK reports \in Fits(BlockedReports(d, s)) :
          \/ KeepOpen(e, ReportBlocked(d, s, reports))
          \/ Finish(e, ReportBlocked(d, s, reports), {})
    BY <1>4, <1>9
  <2> HIDE DEF d
  <2>2. reports \in SUBSET Frame
    BY <1>6, FramesType, FitsType
  <2> DEFINE b == ReportBlocked(d, s, reports)
  <2>3. Good(b) /\ Sound(b) /\ Kept(d, b)
    BY <1>3, <1>5, <1>6, <1>9, <2>2, ReportBlockedGood, ReportBlockedSound
  <2>4. Kept(conn[e], b)
    BY <1>7, <2>3, KeptOrder
  <2>5. KeepOpen(e, b) \/ Finish(e, b, {})
    BY <2>1
  <2> HIDE DEF b
  <2> QED
    BY <2>3, <2>4, <2>5, KeepOpenLife, FinishLife
<1> QED
  BY <1>8, <1>9

\* dwnx_conn_writev_stream when it is blocked.
LEMMA WriteBlockedStreamLife ==
  ASSUME LifeInv, NEW e \in Ends, NEW s \in StreamIds, NEW len \in 1..MaxWrite,
         WriteBlockedStream(e, s, len)
  PROVE  LifeStep
<1>1. Good(conn[e]) /\ Sound(conn[e])
  BY GoodAndSound
<1>2. PICK out \in CtrlFits(conn[e]) :
        \E reports \in Fits(BlockedReports(Started(conn[e], out), s)) :
          LET d == ReportBlocked(Started(conn[e], out), s, reports) IN
          KeepOpen(e, d) \/ Finish(e, d, {})
  BY DEF WriteBlockedStream
<1> DEFINE c == Started(conn[e], out)
<1>3. Good(c) /\ Sound(c) /\ Kept(conn[e], c) /\ s \in c.live
  <2>1. s \in conn[e].live /\ "SHUT_WR" \notin conn[e].strm[s].flags
    BY DEF WriteBlockedStream, MayWrite
  <2> QED
    BY <1>1, <2>1, StartedLife
<1> HIDE DEF c
<1>4. PICK reports \in Fits(BlockedReports(c, s)) :
        \/ KeepOpen(e, ReportBlocked(c, s, reports))
        \/ Finish(e, ReportBlocked(c, s, reports), {})
  BY <1>2 DEF c
<1>5. reports \in SUBSET Frame
  BY <1>3, FramesType, FitsType
<1> DEFINE b == ReportBlocked(c, s, reports)
<1>6. Good(b) /\ Sound(b) /\ Kept(c, b)
  BY <1>3, <1>5, ReportBlockedGood, ReportBlockedSound
<1>7. Kept(conn[e], b)
  BY <1>3, <1>6, KeptOrder
<1>8. KeepOpen(e, b) \/ Finish(e, b, {})
  BY <1>4
<1> HIDE DEF b
<1> QED
  BY <1>6, <1>7, <1>8, KeepOpenLife, FinishLife

\* Every step keeps every connection sound, and the streams that are gone away.
LEMMA NextLife ==
  ASSUME LifeInv, [Next]_vars
  PROVE  LifeInv' /\ LifeStep
<1>1. CreditInv'
  BY NextKeepsInv DEF LifeInv
<1>2. LifeStep
  <2>1. ASSUME NEW e \in Ends, ReadStep(e)
        PROVE  LifeStep
    BY <2>1, ReadLife, ReadStreamDataLife
       DEF ReadStep, ReadStream, ReadResetStream, ReadStopSending, ReadLimit,
           ReadBlocked, ReadPing
  <2>2. ASSUME NEW e \in Ends, WriteStep(e)
        PROVE  LifeStep
    BY <2>2, WriteRecordLife, WriteStreamLife, WriteBlockedStreamLife DEF WriteStep
  <2>3. CASE UNCHANGED vars
    BY <2>3, KeptOrder DEF vars, LifeInv, LifeStep
  <2> QED
    BY <2>1, <2>2, <2>3, AppLife, RefillLife DEF Next
<1> QED
  BY <1>1, <1>2 DEF LifeInv, LifeStep

\* A connection without streams is sound.
LEMMA NewSound ==
  ASSUME NEW r \in Role, NEW c, Good(c), c.role = r, c.live = {}, c.strmq = {}, c.idtr = {},
         c.rd = Idle, c.next = [i \in Direction |-> FirstStreamId(r, i)],
         c.rxStreams = c.rxUnsentStreams
  PROVE  Sound(c)
<1>1. \A d \in Direction : FirstStreamId(r, d) \in {0, 1, 2, 3}
  BY DEF FirstStreamId, Role
<1>2. ASSUME NEW d \in Direction
      PROVE  /\ OrdStreamId(c.next[d]) <= c.txStreams[d] + 1
             /\ c.rxStreams[d] <= c.rxUnsentStreams[d]
             /\ c.next[d] % 4 = FirstStreamId(c.role, d)
  <2>1. /\ c.txStreams[d] \in Nat /\ c.rxUnsentStreams[d] \in Nat
        /\ c.next[d] = FirstStreamId(r, d) /\ FirstStreamId(r, d) \in {0, 1, 2, 3}
    BY <1>1, Fields
  <2>2. OrdStreamId(c.next[d]) = 1 /\ c.next[d] % 4 = c.next[d]
    BY <2>1 DEF OrdStreamId
  <2> QED
    BY <2>1, <2>2
<1>3. WithinStreamLimits(c) /\ NextLocal(c) /\ PayloadOpen(c)
  BY <1>2 DEF WithinStreamLimits, NextLocal, PayloadOpen
<1> QED
  BY <1>3 DEF Sound, SoundBut

\* So are the connections at the start.
LEMMA InitLife == Init => LifeInv
<1> SUFFICES ASSUME Init PROVE LifeInv
  OBVIOUS
<1>1. CreditInv
  BY InitInv
<1>2. ASSUME NEW e \in Ends
      PROVE  Sound(conn[e])
  <2> DEFINE c == conn[e]
  <2>1. e \in Role
    BY DEF Role
  <2>2. c = NewConn(e)
    BY DEF Init
  <2>3. /\ c.role = e /\ c.live = {} /\ c.strmq = {} /\ c.idtr = {} /\ c.rd = Idle
        /\ c.next = [d \in Direction |-> FirstStreamId(e, d)]
        /\ c.rxStreams = c.rxUnsentStreams
    BY <2>2 DEF NewConn
  <2>4. Good(c)
    BY <2>1, <2>2, InitGood
  <2> HIDE DEF c
  <2>5. Sound(c)
    BY <2>1, <2>3, <2>4, NewSound
  <2> QED
    BY <2>5 DEF c
<1> QED
  BY <1>1, <1>2 DEF LifeInv

\* The invariant holds always.
LEMMA LifeInvariant == Spec => []LifeInv
BY InitLife, NextLife, PTL DEF Spec

-----------------------------------------------------------------------------
(* Theorems                                                                *)

\* A stream with a RESET_STREAM, a STOP_SENDING, a blocked report or credit to
\* send is in the transmission queue (tx.strmq), also when a record ran out of
\* room at its turn, and every stream of the queue is in the map.
THEOREM QueueHoldsPending == Spec => []QueueOK
<1>1. LifeInv => QueueOK
  <2> SUFFICES ASSUME LifeInv, NEW e \in Ends
               PROVE  QueueComplete(conn[e])
    BY DEF QueueOK
  <2> QED
    BY AsksIsPending DEF LifeInv, Sound, SoundBut, QueueComplete
<1> QED
  BY <1>1, LifeInvariant, PTL

\* No call leaves a stream in the map with both sides shut and nothing to send:
\* dwnx_conn_close_stream_if_shut_rdwr is called wherever a side is shut, and
\* where the last RESET_STREAM is written.
THEOREM FreedInTime == Spec => []NoZombie
<1>1. LifeInv => NoZombie
  BY DEF LifeInv, Sound, SoundBut, NoZombie
<1> QED
  BY <1>1, LifeInvariant, PTL

\* Whatever the application does between two pieces of the payload of a STREAM
\* frame, its stream is in the map and may still receive: the assert(strm) of
\* dwnx_conn_read holds.
THEOREM PayloadHasStream == Spec => []PayloadOK
<1>1. LifeInv => PayloadOK
  BY DEF LifeInv, Sound, SoundBut, PayloadOK
<1> QED
  BY <1>1, LifeInvariant, PTL

\* The streams of the map are ones that the limits of the two sides allowed to
\* open (dwnx_conn_open_bidi_stream and the STREAM_LIMIT checks).
THEOREM LimitsRespected == Spec => []StreamLimitOK
<1>1. LifeInv => StreamLimitOK
  BY DEF LifeInv, Sound, SoundBut, StreamLimitOK
<1> QED
  BY <1>1, LifeInvariant, PTL

\* A stream that left the map does not enter it again: neither a late frame nor
\* dwnx_conn_open_bidi_stream brings it back.
THEOREM NeverReopened == Spec => NoReopen
<1>1. ASSUME LifeInv, [Next]_vars
      PROVE  [\A e \in Ends : \A s \in StreamIds \ conn[e].live :
                Used(conn[e], s) => s \notin conn'[e].live]_vars
  BY <1>1, NextLife DEF LifeStep, Kept
<1> QED
  BY <1>1, LifeInvariant, PTL DEF Spec, NoReopen
=============================================================================
