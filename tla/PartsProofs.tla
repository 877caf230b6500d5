---------------------------- MODULE PartsProofs -----------------------------
(***************************************************************************)
(* Five of the library's parts are exact, for all values of the constants. *)
(*                                                                         *)
(* dwnx_gaptr, whatever ranges were pushed: THEOREM GapsAlwaysExact, with  *)
(* a line of any length.  The inductive invariant is GapInv: the gaps are  *)
(* apart, not empty, and the complement of what was pushed.  That two of   *)
(* them never touch is what lets the first gap at or past an offset be     *)
(* found by the ends alone, as dwnx_ksl_lower_bound does.                  *)
(*                                                                         *)
(* dwnx_ratelim, for every width of the integers, resolution of the clock, *)
(* burst and rate: THEOREM ExactForAll, it is the ideal bucket.  Types are *)
(* not enough: that a full bucket carries no fraction (carry > 0 => tokens *)
(* < burst) is what keeps the level in fractions of a token within the     *)
(* bucket, and makes the refusal to add up what would overflow the same as *)
(* filling it.                                                             *)
(*                                                                         *)
(* dwnx_objalloc, in whatever order objects come and go: THEOREM           *)
(* PoolAlwaysExact.  PoolInv says where the next object of a block begins  *)
(* and that what is left of it is a whole number of objects, so that       *)
(* nothing is wasted when a new block is asked for.                        *)
(*                                                                         *)
(* dwnx_pq, whatever is pushed, popped and removed: THEOREM                *)
(* QueueAlwaysExact.  PqInv says that the array is a heap and that each    *)
(* entry knows where it is.  In the middle of a call it is a heap but for  *)
(* one entry, which may be before the one above it (HeapBut) or after      *)
(* those below it (HeapAbove); each turn of a loop moves the entry on, so  *)
(* that the loops end (UpLoop, DownLoop).  The entry that fills a hole in  *)
(* the middle is the one or the other, as the test of dwnx_pq_remove says. *)
(*                                                                         *)
(* The idle timeout, for every pair of timeouts, however long the          *)
(* connection lasts and whatever its ends do: THEOREM SilenceEnds, an end  *)
(* gives up when it has been silent for the smallest timeout promised, and *)
(* no sooner; and THEOREM EndsAgreeOnIdle, the timeouts by which the two   *)
(* ends go are less than a millisecond apart.  IdleTimesOut is not         *)
(* inductive: that no end is left alone for too long needs the timer.      *)
(* IdleInv adds that a timer that runs is at the expiry and has not been   *)
(* missed (Timed, Settled), which is the case between two events; in the   *)
(* middle of one, when records were read and update_timer is not called    *)
(* yet, only Waiting holds.  The records of one readcb are read one by     *)
(* one, by induction (ReadingWaits).                                       *)
(***************************************************************************)
EXTENDS Gaptr, Ratelim, Pool, Idle, Pq, FiniteSetTheorems, SequenceTheorems, WellFoundedInduction,
        TLAPS

-----------------------------------------------------------------------------
(* The gaps between what was pushed                                        *)

\* The offset o is in the range k.
In(o, k) == k.begin <= o /\ o < k.end

\* No range of S is empty or touches another.
Separated(S) ==
  /\ \A k \in S : k.begin \in Nat /\ k.end \in Nat /\ k.begin < k.end /\ k.end <= LineEnd
  /\ \A j, k \in S : j # k => j.end < k.begin \/ k.end < j.begin

\* The ranges of S are what is not in P.
Complement(S, P) == \A o \in 0..(LineEnd - 1) : o \notin P <=> \E k \in S : In(o, k)

\* The gaps are the complement of what was pushed, which is never all: the last
\* offset of the line is left.
GapInv ==
  /\ Separated(Listed) /\ Complement(Listed, pushed)
  /\ pushed \subseteq 0..(LineEnd - 2)

\* A range that the application can push.
Pushable(q) ==
  q.begin \in Nat /\ q.end \in Nat /\ q.begin < q.end /\ q.end <= LineEnd - 1

\* What dwnx_gaptr_push makes of one gap.
Rest(k, q) == IF Intersects(k, q) THEN Cut(k, q) ELSE {k}

\* What is left of a gap lies in it and beside q, ...
LEMMA RestWithin ==
  ASSUME NEW k, k.begin \in Nat, k.end \in Nat, k.begin < k.end,
         NEW q, Pushable(q), NEW r \in Rest(k, q)
  PROVE  /\ r.begin \in Nat /\ r.end \in Nat /\ r.begin < r.end
         /\ k.begin <= r.begin /\ r.end <= k.end
         /\ r.end <= q.begin \/ q.end <= r.begin
         /\ Intersects(k, q) => r = Span(k.begin, q.begin) \/ r = Span(q.end, k.end)
<1>1. CASE ~Intersects(k, q)
  BY <1>1 DEF Rest, Intersects, Pushable
<1>2. CASE Intersects(k, q)
  <2>1. k.begin < q.end /\ q.begin < k.end
    BY <1>2 DEF Intersects
  <2>2. r \in Cut(k, q)
    BY <1>2 DEF Rest
  <2>3. \/ r = Span(k.begin, IF q.begin > k.begin THEN q.begin ELSE k.begin) /\ r.begin < r.end
        \/ r = Span(IF q.end < k.end THEN q.end ELSE k.end, k.end) /\ r.begin < r.end
    BY <2>2 DEF Cut
  <2>4. CASE r = Span(k.begin, IF q.begin > k.begin THEN q.begin ELSE k.begin) /\ r.begin < r.end
    BY <2>1, <2>4 DEF Span, Pushable
  <2>5. CASE r = Span(IF q.end < k.end THEN q.end ELSE k.end, k.end) /\ r.begin < r.end
    BY <2>1, <2>5 DEF Span, Pushable
  <2> QED
    BY <2>3, <2>4, <2>5
<1> QED
  BY <1>1, <1>2

\* ... and everything of the gap that is beside q is left.
LEMMA RestComplete ==
  ASSUME NEW k, k.begin \in Nat, k.end \in Nat, NEW q, Pushable(q),
         NEW o \in Nat, In(o, k), ~In(o, q)
  PROVE  \E r \in Rest(k, q) : In(o, r)
<1>1. CASE ~Intersects(k, q)
  BY <1>1 DEF Rest
<1>2. CASE Intersects(k, q) /\ o < q.begin
  <2>1. Span(k.begin, q.begin) \in Cut(k, q)
    BY <1>2 DEF Cut, Span, In, Pushable
  <2>2. In(o, Span(k.begin, q.begin))
    BY <1>2 DEF Span, In
  <2> QED
    BY <1>2, <2>1, <2>2 DEF Rest
<1>3. CASE Intersects(k, q) /\ q.end <= o
  <2>1. Span(q.end, k.end) \in Cut(k, q)
    BY <1>3 DEF Cut, Span, In, Pushable
  <2>2. In(o, Span(q.end, k.end))
    BY <1>3 DEF Span, In
  <2> QED
    BY <1>3, <2>1, <2>2 DEF Rest
<1> QED
  BY <1>1, <1>2, <1>3 DEF In, Pushable

\* Pushing a range leaves the gaps apart.
LEMMA PushSeparated ==
  ASSUME NEW S, Separated(S), NEW q, Pushable(q)
  PROVE  Separated(UNION {Rest(k, q) : k \in S})
<1> DEFINE T == UNION {Rest(k, q) : k \in S}
<1>1. \A r \in T : \E k \in S : r \in Rest(k, q)
  OBVIOUS
<1>2. LineEnd \in Nat
  BY GaptrAssumption
<1> HIDE DEF T
<1>3. ASSUME NEW r \in T
      PROVE  r.begin \in Nat /\ r.end \in Nat /\ r.begin < r.end /\ r.end <= LineEnd
  <2>1. PICK k \in S : r \in Rest(k, q)
    BY <1>1
  <2>2. k.begin \in Nat /\ k.end \in Nat /\ k.begin < k.end /\ k.end <= LineEnd
    BY DEF Separated
  <2> QED
    BY <1>2, <2>1, <2>2, RestWithin
<1>4. ASSUME NEW r \in T, NEW s \in T, r # s
      PROVE  r.end < s.begin \/ s.end < r.begin
  <2>1. PICK k \in S : r \in Rest(k, q)
    BY <1>1
  <2>2. PICK j \in S : s \in Rest(j, q)
    BY <1>1
  <2>3. /\ k.begin \in Nat /\ k.end \in Nat /\ k.begin < k.end
        /\ j.begin \in Nat /\ j.end \in Nat /\ j.begin < j.end
    BY DEF Separated
  <2>4. /\ r.begin \in Nat /\ r.end \in Nat /\ s.begin \in Nat /\ s.end \in Nat
        /\ k.begin <= r.begin /\ r.end <= k.end /\ j.begin <= s.begin /\ s.end <= j.end
    BY <2>1, <2>2, <2>3, RestWithin
  <2>5. CASE k # j
    <3>1. k.end < j.begin \/ j.end < k.begin
      BY <2>5 DEF Separated
    <3> QED
      BY <2>3, <2>4, <3>1
  <2>6. CASE k = j
    <3>1. Intersects(k, q)
      BY <1>4, <2>1, <2>2, <2>6 DEF Rest
    <3>2. /\ r = Span(k.begin, q.begin) \/ r = Span(q.end, k.end)
          /\ s = Span(k.begin, q.begin) \/ s = Span(q.end, k.end)
      BY <2>1, <2>2, <2>3, <2>6, <3>1, RestWithin
    <3> QED
      BY <1>4, <3>2 DEF Span, Pushable
  <2> QED
    BY <2>5, <2>6
<1> QED
  BY <1>3, <1>4 DEF Separated, T

\* They are the complement of what was pushed before and now.
LEMMA PushComplement ==
  ASSUME NEW S, Separated(S), NEW P, Complement(S, P), NEW q, Pushable(q)
  PROVE  Complement(UNION {Rest(k, q) : k \in S}, P \cup Offsets(q))
<1> SUFFICES ASSUME NEW o \in 0..(LineEnd - 1)
             PROVE  o \notin P \cup Offsets(q) <=> \E r \in UNION {Rest(k, q) : k \in S} : In(o, r)
  BY DEF Complement
<1>1. o \in Nat /\ (o \in Offsets(q) <=> In(o, q))
  BY GaptrAssumption DEF Offsets, In, Pushable
<1>2. \A k \in S : k.begin \in Nat /\ k.end \in Nat /\ k.begin < k.end
  BY DEF Separated
<1>3. ASSUME o \notin P, ~In(o, q)
      PROVE  \E r \in UNION {Rest(k, q) : k \in S} : In(o, r)
  <2>1. PICK k \in S : In(o, k)
    BY <1>3 DEF Complement
  <2>2. PICK r \in Rest(k, q) : In(o, r)
    BY <1>1, <1>2, <1>3, <2>1, RestComplete
  <2> QED
    BY <2>2
<1>4. ASSUME NEW k \in S, NEW r \in Rest(k, q), In(o, r)
      PROVE  o \notin P /\ ~In(o, q)
  <2>1. /\ r.begin \in Nat /\ r.end \in Nat /\ k.begin <= r.begin /\ r.end <= k.end
        /\ r.end <= q.begin \/ q.end <= r.begin
    BY <1>2, <1>4, RestWithin
  <2>2. In(o, k) /\ ~In(o, q)
    BY <1>1, <1>2, <1>4, <2>1 DEF In, Pushable
  <2> QED
    BY <2>2 DEF Complement
<1> QED
  BY <1>1, <1>3, <1>4

\* The last offset is in a gap, so that there is one.
LEMMA LastGap ==
  ASSUME NEW S, NEW P, Complement(S, P), P \subseteq 0..(LineEnd - 2), Separated(S)
  PROVE  \E k \in S : In(LineEnd - 1, k) /\ k.end = LineEnd
<1>1. LineEnd - 1 \in 0..(LineEnd - 1) /\ LineEnd - 1 \notin P
  BY GaptrAssumption
<1>2. PICK k \in S : In(LineEnd - 1, k)
  BY <1>1 DEF Complement
<1>3. k.end \in Nat /\ k.end <= LineEnd
  BY DEF Separated
<1> QED
  BY <1>2, <1>3, GaptrAssumption DEF In

\* The offsets of a range that ends before the last offset.
LEMMA OffsetsWithin ==
  ASSUME NEW q, q.begin \in Nat, q.end \in Nat, q.end <= LineEnd - 1
  PROVE  Offsets(q) \subseteq 0..(LineEnd - 2)
BY GaptrAssumption DEF Offsets

\* One of the ranges of a set begins first.
LEMMA LeastBegin ==
  ASSUME NEW S, S # {}, \A k \in S : k.begin \in Nat
  PROVE  \E k \in S : \A j \in S : k.begin <= j.begin
<1> DEFINE B == {k.begin : k \in S}
           R == {ss \in Nat \X Nat : ss[1] < ss[2]}
<1>1. B \subseteq Nat /\ B # {}
  OBVIOUS
<1>2. IsWellFoundedOn(R, Nat)
  BY NatLessThanWellFounded DEF OpToRel
<1>3. PICK b \in B : \A y \in B : ~ (<<y, b>> \in R)
  <2> HIDE DEF B, R
  <2> QED
    BY <1>1, <1>2, WFMin
<1>4. PICK k \in S : k.begin = b
  OBVIOUS
<1>5. ASSUME NEW j \in S
      PROVE  k.begin <= j.begin
  <2>1. ~ (<<j.begin, k.begin>> \in R)
    BY <1>3, <1>4
  <2>2. j.begin \in Nat /\ k.begin \in Nat
    OBVIOUS
  <2> QED
    BY <2>1, <2>2
<1> QED
  BY <1>5

\* No gap is stored at first: the line is one gap.
LEMMA GapInitial == GapInit => GapInv
<1> SUFFICES ASSUME GapInit
             PROVE  GapInv
  OBVIOUS
<1>1. Listed = {Whole} /\ pushed = {}
  BY DEF GapInit, Listed
<1>2. Whole.begin = 0 /\ Whole.end = LineEnd
  BY DEF Whole, Span
<1>3. Separated({Whole})
  BY <1>2, GaptrAssumption DEF Separated
<1>4. Complement({Whole}, {})
  BY <1>2, GaptrAssumption DEF Complement, In
<1> QED
  BY <1>1, <1>3, <1>4 DEF GapInv

\* dwnx_gaptr_push
LEMMA PushKeeps ==
  ASSUME GapInv, NEW q, Pushable(q), Push(q)
  PROVE  GapInv'
<1>1. gaps' = UNION {Rest(k, q) : k \in Listed} /\ pushed' = pushed \cup Offsets(q)
  BY DEF Push, PushRange, Rest
<1>2. Separated(gaps') /\ Complement(gaps', pushed')
  BY <1>1, PushSeparated, PushComplement DEF GapInv
<1>3. pushed' \subseteq 0..(LineEnd - 2)
  BY <1>1, OffsetsWithin DEF GapInv, Pushable
<1>4. gaps' # {}
  BY <1>2, <1>3, LastGap
<1>5. Listed' = gaps'
  BY <1>4 DEF Listed
<1> QED
  BY <1>2, <1>3, <1>5 DEF GapInv

\* dwnx_gaptr_drop_first_gap
LEMMA DropKeeps ==
  ASSUME GapInv, DropFirstGap
  PROVE  GapInv'
<1>1. PICK k \in gaps : gaps' = gaps \ {k} /\ pushed' = pushed \cup Offsets(k)
                        /\ k.begin = FirstGapOffset
  BY DEF DropFirstGap
<1>2. gaps # {} /\ Listed = gaps
  BY <1>1 DEF Listed
<1>3. PICK j \in gaps : j # k
  <2>1. Cardinality({k}) = 1 /\ Cardinality(gaps) > 1
    BY FS_Singleton DEF DropFirstGap
  <2> QED
    BY <1>2, <2>1
<1>4. Separated(gaps) /\ Complement(gaps, pushed)
  BY <1>2 DEF GapInv
<1>5. \A i \in gaps : /\ i.begin \in Nat /\ i.end \in Nat /\ i.begin < i.end /\ i.end <= LineEnd
                      /\ i # k => i.end < k.begin \/ k.end < i.begin
  BY <1>4 DEF Separated
<1>6. \A i \in gaps : k.begin <= i.begin
  <2>1. PICK i \in gaps : \A h \in gaps : i.begin <= h.begin
    BY <1>2, <1>5, LeastBegin
  <2>2. \A m \in gaps : FirstGapOffset <= m.begin
    BY <1>2, <2>1 DEF FirstGapOffset
  <2> QED
    BY <1>1, <2>2
<1>7. Separated(gaps')
  BY <1>1, <1>4 DEF Separated
<1>8. Complement(gaps', pushed')
  <2> SUFFICES ASSUME NEW o \in 0..(LineEnd - 1)
               PROVE  o \notin pushed' <=> \E i \in gaps' : In(o, i)
    BY DEF Complement
  <2>1. o \in Offsets(k) <=> In(o, k)
    BY <1>5, GaptrAssumption DEF Offsets, In
  <2>2. \A i \in gaps : i # k => ~(In(o, i) /\ In(o, k))
    BY <1>5, GaptrAssumption DEF In
  <2>3. o \notin pushed <=> \E i \in gaps : In(o, i)
    BY <1>4 DEF Complement
  <2> QED
    BY <1>1, <2>1, <2>2, <2>3
<1>9. pushed' \subseteq 0..(LineEnd - 2)
  <2>1. k.end <= LineEnd - 1
    <3>1. k.end < j.begin
      BY <1>3, <1>5, <1>6
    <3> QED
      BY <1>3, <1>5, <3>1, GaptrAssumption
  <2>2. k.begin \in Nat /\ k.end \in Nat
    BY <1>5
  <2> QED
    BY <1>1, <2>1, <2>2, OffsetsWithin DEF GapInv
<1>10. Listed' = gaps'
  BY <1>1, <1>3 DEF Listed
<1> QED
  BY <1>7, <1>8, <1>9, <1>10 DEF GapInv

\* Every step keeps the invariant.
LEMMA GapStep == GapInv /\ [GapNext]_gapVars => GapInv'
<1> SUFFICES ASSUME GapInv, [GapNext]_gapVars
             PROVE  GapInv'
  OBVIOUS
<1>1. ASSUME NEW b \in 0..(MaxPush - 1), NEW e \in 0..MaxPush, b < e, Push(Span(b, e))
      PROVE  GapInv'
  <2>1. Pushable(Span(b, e))
    BY <1>1, GaptrAssumption DEF Pushable, Span
  <2> QED
    BY <1>1, <2>1, PushKeeps
<1>2. ASSUME NEW id \in 0..(MaxPush - 1), OpenId(id)
      PROVE  GapInv'
  <2>1. Pushable(Span(id, id + 1))
    BY GaptrAssumption DEF Pushable, Span
  <2> QED
    BY <1>2, <2>1, PushKeeps DEF OpenId
<1>3. CASE DropFirstGap
  BY <1>3, DropKeeps
<1>4. CASE UNCHANGED gapVars
  BY <1>4 DEF gapVars, GapInv, Listed, Separated, Complement
<1> QED
  BY <1>1, <1>2, <1>3, <1>4 DEF GapNext

\* Whatever is pushed, the gaps are its complement.
LEMMA GapsInvariant == GapSpec => []GapInv
BY GapInitial, GapStep, PTL DEF GapSpec

\* What is stored once something was pushed.
LEMMA GapView ==
  ASSUME GapInv, gaps # {}
  PROVE  /\ Separated(gaps) /\ Complement(gaps, pushed) /\ pushed \subseteq 0..(LineEnd - 2)
         /\ \A k \in gaps : k.begin \in Nat /\ k.end \in Nat /\ k.begin < k.end /\ k.end <= LineEnd
         /\ \E k \in gaps : k.end = LineEnd
<1>1. Separated(gaps) /\ Complement(gaps, pushed) /\ pushed \subseteq 0..(LineEnd - 2)
  BY DEF GapInv, Listed
<1> QED
  BY <1>1, LastGap DEF Separated

\* The search finds the first of the gaps that do not end before q.
LEMMA SearchFinds ==
  ASSUME GapInv, gaps # {}, NEW q, q.begin \in Nat, q.begin < LineEnd
  PROVE  LET k == FirstNotBefore(q) IN
         /\ k \in gaps /\ q.begin < k.end
         /\ \A j \in gaps : q.begin < j.end => k.begin <= j.begin
<1> DEFINE S == {k \in gaps : k.end > q.begin}
<1>1. S # {}
  BY GapView, GaptrAssumption
<1>2. \A k \in S : k.begin \in Nat
  BY GapView
<1>3. PICK k \in S : \A j \in S : k.begin <= j.begin
  <2> HIDE DEF S
  <2> QED
    BY <1>1, <1>2, LeastBegin
<1>4. k \in gaps /\ k.end > q.begin /\ \A j \in gaps : j.end > q.begin => k.begin <= j.begin
  BY <1>3
<1>5. LET i == FirstNotBefore(q) IN
      i \in gaps /\ i.end > q.begin /\ \A j \in gaps : j.end > q.begin => i.begin <= j.begin
  BY <1>4 DEF FirstNotBefore
<1>6. \A j \in gaps : j.end \in Nat
  BY GapView
<1> QED
  BY <1>5, <1>6

\* The pieces are what was not pushed.
LEMMA PiecesHold ==
  ASSUME GapInv, gaps # {}
  PROVE  PiecesExact
<1>1. Separated(gaps) /\ Complement(gaps, pushed) /\ LineEnd \in Nat
  BY GapView, GaptrAssumption
<1>2. \A k \in gaps : k.begin \in Nat /\ k.end \in Nat /\ k.end <= LineEnd
  BY <1>1 DEF Separated
<1>3. UNION {Offsets(k) : k \in gaps} = (0..(LineEnd - 1)) \ pushed
  <2>1. \A o \in UNION {Offsets(k) : k \in gaps} : o \in 0..(LineEnd - 1) /\ o \notin pushed
    <3> SUFFICES ASSUME NEW k \in gaps, NEW o \in Offsets(k)
                 PROVE  o \in 0..(LineEnd - 1) /\ o \notin pushed
      OBVIOUS
    <3>1. o \in 0..(LineEnd - 1) /\ In(o, k)
      BY <1>1, <1>2 DEF Offsets, In
    <3> QED
      BY <1>1, <3>1 DEF Complement
  <2>2. \A o \in 0..(LineEnd - 1) : o \notin pushed => o \in UNION {Offsets(k) : k \in gaps}
    <3> SUFFICES ASSUME NEW o \in 0..(LineEnd - 1), o \notin pushed
                 PROVE  \E k \in gaps : o \in Offsets(k)
      OBVIOUS
    <3>1. PICK k \in gaps : In(o, k)
      BY <1>1 DEF Complement
    <3>2. o \in Offsets(k)
      BY <1>1, <1>2, <3>1 DEF Offsets, In
    <3> QED
      BY <3>2
  <2> QED
    BY <2>1, <2>2
<1> QED
  BY <1>1, <1>3 DEF PiecesExact, Separated

\* The lookup answers for all of a range.
LEMMA LookupHolds ==
  ASSUME GapInv, gaps # {}
  PROVE  PushedExact
<1> SUFFICES ASSUME NEW b \in 0..MaxPush, NEW e \in 0..MaxPush, b < e
             PROVE  IsPushed(Span(b, e)) <=> Offsets(Span(b, e)) \subseteq pushed
  BY Zenon DEF PushedExact
<1> DEFINE q == Span(b, e)
           k == FirstNotBefore(q)
<1>1. q.begin = b /\ q.end = e /\ b \in Nat /\ e \in Nat /\ e < LineEnd /\ Offsets(q) = b..(e - 1)
  BY GaptrAssumption DEF Span, Offsets
<1> HIDE DEF q
<1>2. k \in gaps /\ b < k.end /\ \A j \in gaps : b < j.end => k.begin <= j.begin
  <2>1. q.begin \in Nat /\ q.begin < LineEnd
    BY <1>1, GaptrAssumption
  <2>2. k \in gaps /\ q.begin < k.end /\ \A j \in gaps : q.begin < j.end => k.begin <= j.begin
    BY <2>1, SearchFinds
  <2> QED
    BY <1>1, <2>2
<1>3. IsPushed(q) <=> ~Intersects(k, q)
  BY DEF IsPushed
<1> HIDE DEF k
<1>4. \A j \in gaps : j.begin \in Nat /\ j.end \in Nat /\ j.begin < j.end /\ j.end <= LineEnd
  BY GapView
<1>5. Intersects(k, q) <=> k.begin < e
  BY <1>1, <1>2 DEF Intersects
<1>6. Complement(gaps, pushed)
  BY GapView
<1>7. ASSUME k.begin < e
      PROVE  ~(Offsets(q) \subseteq pushed)
  <2> DEFINE o == IF k.begin < b THEN b ELSE k.begin
  <2>1. o \in Offsets(q) /\ In(o, k) /\ o \in 0..(LineEnd - 1)
    BY <1>1, <1>2, <1>4, <1>7, GaptrAssumption DEF In
  <2> QED
    BY <1>2, <1>6, <2>1 DEF Complement
<1>8. ASSUME NEW o \in Offsets(q), o \notin pushed
      PROVE  k.begin < e
  <2>1. o \in 0..(LineEnd - 1) /\ o \in Nat /\ b <= o /\ o < e
    BY <1>1, <1>8, GaptrAssumption
  <2>2. PICK j \in gaps : In(o, j)
    BY <1>6, <1>8, <2>1 DEF Complement
  <2>3. b < j.end /\ j.begin < e
    BY <1>1, <1>4, <2>1, <2>2 DEF In
  <2>4. k.begin <= j.begin
    BY <1>2, <2>3
  <2> QED
    BY <1>1, <1>2, <1>4, <2>3, <2>4
<1> QED
  BY <1>3, <1>5, <1>7, <1>8 DEF q

\* Everything before the first gap was pushed.
LEMMA FirstGapHolds ==
  ASSUME GapInv, gaps # {}
  PROVE  FirstGapExact
<1>1. /\ \A j \in gaps : j.begin \in Nat /\ j.end \in Nat /\ j.begin < j.end /\ j.end <= LineEnd
      /\ Complement(gaps, pushed)
  BY GapView
<1>2. \E k \in gaps : \A j \in gaps : k.begin <= j.begin
  BY <1>1, LeastBegin
<1>3. \E k \in gaps : FirstGapOffset = k.begin /\ \A j \in gaps : FirstGapOffset <= j.begin
  <2> DEFINE B == {k.begin : k \in gaps}
  <2>1. \E b \in B : \A k \in gaps : b <= k.begin
    <3>1. PICK k \in gaps : \A j \in gaps : k.begin <= j.begin
      BY <1>2
    <3> QED
      BY <3>1, k.begin \in B
  <2>2. FirstGapOffset \in B /\ \A k \in gaps : FirstGapOffset <= k.begin
    <3> HIDE DEF B
    <3>1. FirstGapOffset = CHOOSE b \in B : \A k \in gaps : b <= k.begin
      BY DEF FirstGapOffset, B
    <3> QED
      BY <2>1, <3>1
  <2> QED
    BY <2>2
<1>4. PICK k \in gaps : FirstGapOffset = k.begin /\ \A j \in gaps : k.begin <= j.begin
  BY <1>3
<1>5. k.begin \notin pushed
  <2>1. In(k.begin, k) /\ k.begin \in 0..(LineEnd - 1)
    BY <1>1, GaptrAssumption DEF In
  <2> QED
    BY <1>1, <2>1 DEF Complement
<1>6. ASSUME NEW o \in 0..(k.begin - 1)
      PROVE  o \in pushed
  <2>1. o \in 0..(LineEnd - 1) /\ \A j \in gaps : ~In(o, j)
    BY <1>1, <1>4, GaptrAssumption DEF In
  <2> QED
    BY <1>1, <2>1 DEF Complement
<1> QED
  BY <1>4, <1>5, <1>6 DEF FirstGapExact

\* However long the line is and whatever is pushed, looked up and dropped, the
\* list of gaps says exactly which offsets were pushed (dwnx_gaptr_push,
\* dwnx_gaptr_is_pushed, dwnx_gaptr_first_gap_offset, dwnx_idtr_open).
THEOREM GapsAlwaysExact == GapSpec => []GapsExact
<1>1. ASSUME GapInv
      PROVE  GapsExact
  <2>1. ASSUME gaps = {}
        PROVE  pushed = {}
    <3>1. \A o \in 0..(LineEnd - 1) : In(o, Whole)
      BY GaptrAssumption DEF In, Whole, Span
    <3>2. Complement({Whole}, pushed) /\ pushed \subseteq 0..(LineEnd - 2)
      <4>1. Listed = {Whole}
        BY <2>1 DEF Listed
      <4> QED
        BY <1>1, <4>1 DEF GapInv
    <3>3. \A o \in 0..(LineEnd - 1) : o \notin pushed
      BY <3>1, <3>2, Whole \in {Whole} DEF Complement
    <3>4. 0..(LineEnd - 2) \subseteq 0..(LineEnd - 1)
      BY GaptrAssumption
    <3> QED
      BY <3>2, <3>3, <3>4
  <2> QED
    BY <1>1, <2>1, PiecesHold, LookupHolds, FirstGapHolds DEF GapsExact
<1> QED
  BY <1>1, GapsInvariant, PTL

-----------------------------------------------------------------------------
(* The rate limiter                                                        *)

USE RatelimAssumption

\* The invariant: a full bucket carries no fraction.
RateInv ==
  /\ burst \in 0..MaxBurst /\ rate \in 0..U64Max /\ tokens \in 0..burst
  /\ carry \in 0..(Seconds - 1) /\ ts \in 0..MaxTime
  /\ carry > 0 => tokens < burst

\* Quotient and remainder.
LEMMA DivMod ==
  ASSUME NEW a \in Nat, NEW b \in Nat \ {0}
  PROVE  /\ a \div b \in Nat /\ a % b \in 0..(b - 1)
         /\ a = b * (a \div b) + (a % b)
BY SMT

\* Products of naturals.
LEMMA Product == \A a, b \in Nat : a * b \in Nat /\ a * b = b * a
BY SMT

\* A product grows with its factor.
LEMMA ProductMonotone ==
  ASSUME NEW a \in Nat, NEW b \in Nat, NEW k \in Nat, a <= b
  PROVE  a * k <= b * k
<1>1. PICK c \in Nat : b = a + c
  <2> b - a \in Nat /\ b = a + (b - a)
    BY SMT
  <2> QED  OBVIOUS
<1>2. (a + c) * k = a * k + c * k /\ a * k \in Nat /\ c * k \in Nat
  BY SMT
<1> QED  BY <1>1, <1>2, SMT

\* Products of sums and differences.
LEMMA Distribute == \A a, b \in Int, k \in Nat : (a + b) * k = a * k + b * k /\ (a - b) * k = a * k - b * k
BY SMT

\* A burst that was clamped, in fractions of a token, is within the integers.
LEMMA BurstFits ==
  ASSUME NEW b \in 0..MaxBurst
  PROVE  b * Seconds \in Nat /\ b * Seconds <= U64Max
<1>1. MaxBurst \in Nat /\ U64Max = Seconds * MaxBurst + (U64Max % Seconds) /\ U64Max % Seconds \in Nat
  BY DivMod, SMT DEF MaxBurst
<1>2. b * Seconds <= MaxBurst * Seconds
  BY <1>1, ProductMonotone
<1>3. MaxBurst * Seconds = Seconds * MaxBurst /\ b * Seconds \in Nat /\ MaxBurst * Seconds \in Nat
  BY <1>1, Product
<1> QED  BY <1>1, <1>2, <1>3, SMT

\* The level of a bucket of b tokens, and that it is within it.
Level(x, k) == x * Seconds + k

\* The level in fractions of a token lies within the bucket.
LEMMA LevelWithin ==
  ASSUME NEW b \in 0..MaxBurst, NEW x \in 0..b, NEW k \in 0..(Seconds - 1), k > 0 => x < b
  PROVE  /\ Level(x, k) \in Nat /\ Level(x, k) <= b * Seconds
         /\ Level(x, k) < b * Seconds <=> x < b
<1>1. MaxBurst \in Nat /\ b \in Nat /\ x \in Nat /\ k \in Nat /\ Seconds \in Nat
  BY DivMod, SMT DEF MaxBurst
<1>2. x * Seconds \in Nat /\ b * Seconds \in Nat
  BY <1>1, Product
<1>3. CASE x < b
  <2>1. (x + 1) * Seconds <= b * Seconds
    BY <1>1, <1>3, ProductMonotone, SMT
  <2>2. (x + 1) * Seconds = x * Seconds + Seconds
    BY <1>1, SMT
  <2> QED  BY <1>1, <1>2, <1>3, <2>1, <2>2, SMT DEF Level
<1>4. CASE x = b
  BY <1>1, <1>2, <1>4, SMT DEF Level
<1> QED  BY <1>1, <1>3, <1>4, SMT

\* ratelim_update fills the bucket as if nothing was ever rounded.
LEMMA UpdatedExact ==
  ASSUME RateInv, NEW t \in 0..MaxTime, t >= ts
  PROVE  LET u == Updated(t)
             gained == Level(tokens, carry) + rate * (t - ts)
         IN
         /\ u.tokens \in 0..burst /\ u.carry \in 0..(Seconds - 1)
         /\ u.carry > 0 => u.tokens < burst
         /\ Level(u.tokens, u.carry) =
              IF gained < burst * Seconds THEN gained ELSE burst * Seconds
<1> DEFINE u == Updated(t)
           d == t - ts
           gain == rate * d + carry
           gps == gain \div Seconds
           gained == Level(tokens, carry) + rate * d
<1>1. /\ MaxBurst \in Nat /\ burst \in 0..MaxBurst /\ burst \in Nat /\ rate \in Nat /\ tokens \in Nat
      /\ carry \in Nat /\ d \in Nat /\ Seconds \in Nat \ {0} /\ U64Max \in Nat
      /\ tokens <= burst /\ carry < Seconds
  BY DivMod, SMT DEF RateInv, MaxBurst
<1>2. burst * Seconds \in Nat /\ burst * Seconds <= U64Max
  BY <1>1, BurstFits
<1>3. /\ Level(tokens, carry) \in Nat /\ Level(tokens, carry) <= burst * Seconds
      /\ Level(tokens, carry) < burst * Seconds <=> tokens < burst
  BY <1>1, LevelWithin DEF RateInv
<1>4. rate * d \in Nat /\ gain \in Nat
  BY <1>1, Product, SMT
<1>5. gps \in Nat /\ gain % Seconds \in 0..(Seconds - 1) /\ gain = Seconds * gps + (gain % Seconds)
  BY <1>1, <1>4, DivMod
<1>6. CASE d = 0
  <2>1. u.tokens = tokens /\ u.carry = carry
    BY <1>6 DEF Updated
  <2>2. rate * d = 0
    BY <1>1, <1>6, SMT
  <2>3. gained = Level(tokens, carry)
    BY <1>3, <2>2, SMT
  <2> QED  BY <1>1, <1>2, <1>3, <2>1, <2>3, SMT DEF RateInv
<1>7. CASE d # 0 /\ rate <= (U64Max - carry) \div d /\ gps < burst /\ tokens < burst - gps
  <2>1. u.tokens = tokens + gps /\ u.carry = gain % Seconds
    BY <1>7 DEF Updated
  <2>2. u.tokens \in 0..burst /\ u.tokens < burst
    BY <1>1, <1>5, <1>7, <2>1, SMT
  <2>3. u.tokens * Seconds = tokens * Seconds + gps * Seconds
    BY <1>1, <1>5, <2>1, Distribute
  <2>4. gps * Seconds = Seconds * gps /\ tokens * Seconds \in Nat /\ gps * Seconds \in Nat
    BY <1>1, <1>5, Product
  <2>5. Level(u.tokens, u.carry) = gained
    <3>1. \A x, y, z, m, c, g \in Int : x = y + z /\ g + c = z + m => x + m = (y + c) + g
      BY SMT
    <3>2. u.tokens * Seconds = tokens * Seconds + gps * Seconds /\ rate * d + carry = gps * Seconds + (gain % Seconds)
      BY <1>5, <2>3, <2>4
    <3>3. /\ u.tokens * Seconds \in Int /\ tokens * Seconds \in Int /\ gps * Seconds \in Int
          /\ gain % Seconds \in Int /\ carry \in Int /\ rate * d \in Int
      <4>1. gain % Seconds \in Int
        BY <1>5
      <4>2. u.tokens * Seconds \in Int
        BY <2>3, <2>4, SMT
      <4> QED  BY <1>1, <1>4, <2>4, <4>1, <4>2
    <3>4. u.tokens * Seconds + (gain % Seconds) = (tokens * Seconds + carry) + rate * d
      <4> HIDE DEF gain, gps, d, u
      <4> QED  BY <3>1, <3>2, <3>3
    <3> QED  BY <2>1, <3>4 DEF Level
  <2>6. Level(u.tokens, u.carry) < burst * Seconds
    BY <1>1, <1>5, <2>1, <2>2, LevelWithin
  <2> QED  BY <1>2, <1>5, <2>1, <2>2, <2>5, <2>6
<1>8. CASE d # 0 /\ ~(rate <= (U64Max - carry) \div d /\ gps < burst /\ tokens < burst - gps)
  <2>1. u.tokens = burst /\ u.carry = 0
    BY <1>8 DEF Updated
  <2>2. Level(u.tokens, u.carry) = burst * Seconds
    BY <1>2, <2>1, SMT DEF Level
  <2>3. CASE gps >= burst \/ tokens >= burst - gps
    <3>1. burst <= tokens + gps /\ tokens + gps \in Nat
      BY <1>1, <1>5, <2>3, SMT
    <3>2. burst * Seconds <= (tokens + gps) * Seconds
      BY <1>1, <3>1, ProductMonotone
    <3>3. (tokens + gps) * Seconds = tokens * Seconds + gps * Seconds
      BY <1>1, <1>5, Distribute
    <3>4. gps * Seconds = Seconds * gps /\ tokens * Seconds \in Nat /\ gps * Seconds \in Nat
      BY <1>1, <1>5, Product
    <3>5. burst * Seconds <= gained
      BY <1>1, <1>2, <1>4, <1>5, <3>2, <3>3, <3>4, SMT DEF Level
    <3> QED  BY <1>1, <1>2, <1>3, <1>4, <2>1, <2>2, <3>5, SMT
  <2>4. CASE rate > (U64Max - carry) \div d
    <3> DEFINE q == (U64Max - carry) \div d
    <3>1. carry <= U64Max
      <4>1. CASE burst = 0
        BY <4>1, SMT DEF RateInv
      <4>2. CASE burst # 0
        <5>1. 1 * Seconds <= burst * Seconds
          BY <1>1, <4>2, ProductMonotone, SMT
        <5> QED  BY <1>1, <1>2, <5>1, SMT
      <4> QED  BY <4>1, <4>2
    <3>2. /\ U64Max - carry \in Nat /\ q \in Nat
          /\ U64Max - carry = d * q + ((U64Max - carry) % d) /\ (U64Max - carry) % d \in 0..(d - 1)
      <4>1. U64Max - carry \in Nat /\ d \in Nat \ {0}
        BY <1>1, <1>8, <3>1, SMT
      <4> QED  BY <4>1, DivMod
    <3>3. (q + 1) * d <= rate * d
      <4>1. q + 1 \in Nat /\ q + 1 <= rate
        <5> HIDE DEF q
        <5> QED  BY <1>1, <2>4, <3>2, SMT
      <4> HIDE DEF q
      <4> QED  BY <1>1, <4>1, ProductMonotone
    <3>4. (q + 1) * d = d * q + d /\ d * q \in Nat
      BY <1>1, <3>2, SMTT(20)
    <3>5. rate * d + carry > U64Max
      BY <1>1, <1>4, <3>2, <3>3, <3>4, SMT
    <3>6. burst * Seconds <= gained
      <4>1. tokens * Seconds \in Nat
        BY <1>1, Product
      <4> QED  BY <1>1, <1>2, <1>4, <3>5, <4>1, SMT DEF Level
    <3> QED  BY <1>1, <1>2, <1>3, <1>4, <2>1, <2>2, <3>6, SMT
  <2> QED  BY <1>1, <1>5, <1>8, <2>3, <2>4, SMT
<1> QED  BY <1>6, <1>7, <1>8

\* A step of the limiter keeps the invariant and is one of the ideal bucket.
LEMMA DrainExact ==
  ASSUME RateInv, NEW n \in 0..MaxDrain, NEW t \in 0..MaxTime, Drain(n, t)
  PROVE  RateInv' /\ Bucket!Ask(n, t)
<1> DEFINE u == Updated(t)
           gained == Level(tokens, carry) + rate * (t - ts)
           filled == IF gained < burst * Seconds THEN gained ELSE burst * Seconds
<1>1. /\ t >= ts /\ ts' = t /\ burst' = burst /\ rate' = rate /\ carry' = u.carry
      /\ tokens' = IF u.tokens < n THEN u.tokens ELSE u.tokens - n
  BY DEF Drain
<1>2. /\ u.tokens \in 0..burst /\ u.carry \in 0..(Seconds - 1)
      /\ u.carry > 0 => u.tokens < burst
      /\ Level(u.tokens, u.carry) = filled
  BY <1>1, UpdatedExact
<1>3. MaxBurst \in Nat /\ burst \in 0..MaxBurst /\ burst \in Nat /\ n \in Nat /\ Seconds \in Nat \ {0}
  BY DivMod, SMT DEF RateInv, MaxBurst
<1> HIDE DEF u, gained, filled
<1>4. u.tokens \in Nat /\ u.carry \in Nat /\ u.carry < Seconds
  BY <1>2, <1>3, SMT
<1>5. RateInv'
  BY <1>1, <1>2, <1>3, <1>4, SMT DEF RateInv
<1>6. n * Seconds \in Nat /\ u.tokens * Seconds \in Nat
  BY <1>3, <1>4, Product
<1>7. Level(tokens', carry') = IF filled >= n * Seconds THEN filled - n * Seconds ELSE filled
  <2>1. CASE u.tokens < n
    <3>1. (u.tokens + 1) * Seconds <= n * Seconds
      BY <1>3, <1>4, <2>1, ProductMonotone, SMT
    <3>2. (u.tokens + 1) * Seconds = u.tokens * Seconds + Seconds
      BY <1>3, <1>4, SMT
    <3>3. filled < n * Seconds /\ filled \in Nat
      BY <1>2, <1>3, <1>4, <1>6, <3>1, <3>2, SMT DEF Level
    <3>4. Level(tokens', carry') = filled
      BY <1>1, <1>2, <2>1
    <3> QED  BY <1>6, <3>3, <3>4, SMT
  <2>2. CASE ~(u.tokens < n)
    <3>1. n * Seconds <= u.tokens * Seconds
      BY <1>3, <1>4, <2>2, ProductMonotone, SMT
    <3>2. (u.tokens - n) * Seconds = u.tokens * Seconds - n * Seconds
      BY <1>3, <1>4, Distribute
    <3>3. filled = u.tokens * Seconds + u.carry /\ tokens' = u.tokens - n /\ carry' = u.carry
      BY <1>1, <1>2, <2>2 DEF Level
    <3>4. Level(tokens', carry') = u.tokens * Seconds - n * Seconds + u.carry
      BY <3>2, <3>3 DEF Level
    <3> QED  BY <1>4, <1>6, <3>1, <3>3, <3>4, SMT
  <2> QED  BY <2>1, <2>2
<1>8. Bucket!Ask(n, t)
  BY <1>1, <1>7 DEF Bucket!Ask, Bucket!Full, Level, filled, gained
<1> QED  BY <1>5, <1>8

\* The limiter starts as the bucket does.
LEMMA RateInitExact == RateInit => RateInv /\ Bucket!Init
<1> SUFFICES ASSUME RateInit PROVE RateInv /\ Bucket!Init
  OBVIOUS
<1>1. MaxBurst \in Nat /\ burst \in 0..MaxBurst
  <2>1. MaxBurst \in Nat
    BY DivMod DEF MaxBurst
  <2>2. PICK b \in Bursts : burst = Clamp(b)
    BY DEF RateInit
  <2>3. b \in 0..U64Max
    OBVIOUS
  <2> QED  BY <2>1, <2>2, <2>3, SMT DEF Clamp
<1>2. rate \in 0..U64Max /\ tokens = burst /\ carry = 0 /\ ts \in 0..MaxTime
  BY DEF RateInit
<1>3. burst * Seconds \in Nat
  BY <1>1, BurstFits
<1>4. tokens * Seconds + carry = burst * Seconds
  BY <1>2, <1>3, SMT
<1>5. RateInv
  BY <1>1, <1>2, SMT DEF RateInv
<1>6. burst \in Nat /\ rate \in Nat
  BY <1>1, <1>2, SMT
<1> QED  BY <1>2, <1>4, <1>5, <1>6 DEF Bucket!Init, Bucket!Full

\* Every step keeps the invariant and is a step of the bucket.
LEMMA RateStep ==
  RateInv /\ [RateNext]_rateVars =>
    RateInv' /\ [\E n \in 0..MaxDrain, t \in 0..MaxTime : Bucket!Ask(n, t)]_(Bucket!vars)
<1>1. CASE UNCHANGED rateVars
  BY <1>1 DEF rateVars, RateInv, Bucket!vars
<1>2. CASE RateNext
  BY <1>2, DrainExact DEF RateNext
<1> QED  BY <1>1, <1>2

\* The invariant has the types in it.
LEMMA InvTypes == RateInv => RatelimTypeOK
<1> SUFFICES ASSUME RateInv PROVE RatelimTypeOK
  OBVIOUS
<1>1. burst \in 0..MaxBurst /\ tokens \in 0..burst /\ carry \in 0..(Seconds - 1) /\ (carry > 0 => tokens < burst)
  BY DEF RateInv
<1>2. Level(tokens, carry) \in Nat /\ Level(tokens, carry) <= burst * Seconds
  BY <1>1, LevelWithin
<1>3. burst * Seconds \in Nat /\ burst * Seconds <= U64Max
  BY <1>1, BurstFits
<1>4. tokens * Seconds + carry <= U64Max
  BY <1>2, <1>3, SMT DEF Level
<1> QED  BY <1>4 DEF RateInv, RatelimTypeOK

\* It holds of every behaviour.
LEMMA RateInvariant == RateSpec => []RateInv
<1>1. RateInit => RateInv
  BY RateInitExact
<1>2. RateInv /\ [RateNext]_rateVars => RateInv'
  BY RateStep
<1> QED  BY <1>1, <1>2, PTL DEF RateSpec

\* No token count, fraction or level in fractions of a token leaves 64 bits,
\* whatever the burst, the rate and the times of the calls (ratelim_update).
THEOREM RatelimTypes == RateSpec => []RatelimTypeOK
BY RateInvariant, InvTypes, PTL

\* The limiter implements the ideal bucket: an answer of dwnx_ratelim_drain
\* depends on nothing that was rounded, and nothing overflows.
THEOREM ExactForAll == RateSpec => ExactBucket
<1>1. RateInit => Bucket!Init
  BY RateInitExact
<1>2. RateInv /\ [RateNext]_rateVars =>
        [\E n \in 0..MaxDrain, t \in 0..MaxTime : Bucket!Ask(n, t)]_(Bucket!vars)
  BY RateStep
<1> QED  BY <1>1, <1>2, RateInvariant, RatelimTypes, PTL DEF RateSpec, ExactBucket, Bucket!Spec

-----------------------------------------------------------------------------
(* The pool of objects                                                     *)

\* A product is a natural, and adding one to a factor adds the other.
LEMMA ProductSum ==
  ASSUME NEW a \in Nat, NEW b \in Nat
  PROVE  a * b \in Nat /\ (a + 1) * b = a * b + b
BY SMT

\* n is a multiple of k.
Multiple(n, k) == \E i \in Nat : n = k * i

\* The length of an object with what aligns the next one, and the number of
\* the current block.
Stride(p)  == AlignUp(p.objlen)
Current(p) == Len(p.blocks)

\* A pool of objects that fit in their blocks.
PoolType(p) ==
  /\ p \in [objlen : Nat \ {0}, blklen : Nat, blocks : Seq(0..(Alignment - 1)), last : Nat]
  /\ Multiple(p.blklen, Stride(p)) /\ Stride(p) <= p.blklen
  /\ BufLeft(p) \in Nat /\ Multiple(BufLeft(p), Stride(p))
  /\ p.blocks # << >> => /\ BlockBegin(p.blocks[Current(p)]) <= p.last
                         /\ Multiple(p.blocks[Current(p)] + p.last, Alignment)

\* Object o is where the pool puts its objects, and not in what is left.
Placed(p, o) ==
  /\ o \in [blk : 1..Len(p.blocks), at : Nat]
  /\ Multiple(p.blocks[o.blk] + o.at, Alignment)
  /\ BlockBegin(p.blocks[o.blk]) <= o.at
  /\ o.at + Stride(p) <= BlockBegin(p.blocks[o.blk]) + p.blklen
  /\ o.blk = Current(p) => o.at + Stride(p) <= p.last

\* What is lent or released was carved, and what was carved is lent or
\* released, once.
PoolInv ==
  /\ PoolType(pool)
  /\ \A o \in Objects : Placed(pool, o)
  /\ \A o, q \in Objects : o # q /\ o.blk = q.blk =>
       o.at + Stride(pool) <= q.at \/ q.at + Stride(pool) <= o.at
  /\ freed \in Seq(Objects) /\ IsFiniteSet(Objects)
  /\ \A i, j \in 1..Len(freed) : freed[i] = freed[j] => i = j
  /\ \A i \in 1..Len(freed) : freed[i] \notin lent
  /\ Cardinality(lent) + Len(freed) = Cardinality(Objects)
  /\ Cardinality(Objects) * Stride(pool) + BufLeft(pool) = Len(pool.blocks) * pool.blklen

\* The remainder of a multiple is nothing.
LEMMA MultipleMod ==
  ASSUME NEW k \in Nat \ {0}, NEW n \in Nat, Multiple(n, k)
  PROVE  n % k = 0
<1>1. PICK i \in Nat : n = k * i
  BY DEF Multiple
<1> DEFINE q == n \div k
           r == n % k
<1>2. q \in Nat /\ r \in 0..(k - 1) /\ n = k * q + r
  BY DivMod
<1> HIDE DEF q, r
<1>3. k * i = k * q + r
  BY <1>1, <1>2
<1>4. CASE i <= q
  <2>1. i * k <= q * k
    BY <1>2, <1>4, ProductMonotone
  <2> QED
    BY <1>2, <1>3, <2>1, SMT DEF r
<1>5. CASE q + 1 <= i
  <2>1. (q + 1) * k <= i * k
    BY <1>2, <1>5, ProductMonotone
  <2>2. (q + 1) * k = k * q + k /\ i * k = k * i
    BY <1>2, SMT
  <2> QED
    BY <1>2, <1>3, <2>1, <2>2, SMT
<1> QED
  BY <1>2, <1>4, <1>5

\* Sums of multiples are multiples, and so are differences.
LEMMA MultipleSum ==
  ASSUME NEW k \in Nat, NEW a \in Nat, NEW b \in Nat, Multiple(a, k), Multiple(b, k)
  PROVE  Multiple(a + b, k)
<1>1. PICK i \in Nat, j \in Nat : a = k * i /\ b = k * j
  BY DEF Multiple
<1>2. i + j \in Nat /\ k * (i + j) = k * i + k * j
  BY SMT
<1> QED
  BY <1>1, <1>2 DEF Multiple

\* What is left of a positive multiple without one.
LEMMA MultipleLess ==
  ASSUME NEW k \in Nat, NEW a \in Nat \ {0}, Multiple(a, k)
  PROVE  k <= a /\ a - k \in Nat /\ Multiple(a - k, k)
<1>1. PICK i \in Nat : a = k * i
  BY DEF Multiple
<1>2. i # 0
  BY <1>1, SMT
<1>3. i - 1 \in Nat /\ k * (i - 1) \in Nat /\ k * i = k * (i - 1) + k
  BY <1>2, SMT
<1> QED
  BY <1>1, <1>3 DEF Multiple

\* (n + 0xf) & ~0xf is the next multiple of the alignment.
LEMMA AlignUpView ==
  ASSUME NEW n \in Nat
  PROVE  /\ AlignUp(n) \in Nat /\ Multiple(AlignUp(n), Alignment)
         /\ n <= AlignUp(n) /\ AlignUp(n) <= n + Alignment - 1
<1> DEFINE a == n + Alignment - 1
           q == a \div Alignment
<1>1. a \in Nat /\ Alignment \in Nat \ {0}
  BY PoolAssumption
<1>2. q \in Nat /\ a % Alignment \in 0..(Alignment - 1) /\ a = Alignment * q + (a % Alignment)
  BY <1>1, DivMod
<1>3. AlignUp(n) = Alignment * q
  <2> HIDE DEF q
  <2>1. q * Alignment = Alignment * q
    BY <1>1, <1>2, SMT
  <2> QED
    BY <2>1 DEF AlignUp, q
<1>4. Alignment * q \in Nat
  <2> HIDE DEF q
  <2> QED
    BY <1>1, <1>2, SMT
<1>5. n <= Alignment * q /\ Alignment * q <= n + Alignment - 1
  <2> HIDE DEF q
  <2> QED
    BY <1>1, <1>2, <1>4, SMT DEF a
<1> HIDE DEF q
<1> QED
  BY <1>2, <1>3, <1>4, <1>5 DEF Multiple

\* Where the objects of a block begin: after its header, aligned.
LEMMA BlockView ==
  ASSUME NEW m \in 0..(Alignment - 1)
  PROVE  /\ BlockBegin(m) \in Nat /\ HeaderLen <= BlockBegin(m)
         /\ BlockBegin(m) <= HeaderLen + Alignment - 1
         /\ Multiple(m + BlockBegin(m), Alignment)
<1>1. m + HeaderLen \in Nat /\ m \in Nat /\ HeaderLen \in Nat /\ Alignment \in Nat
  BY PoolAssumption
<1>2. /\ AlignUp(m + HeaderLen) \in Nat /\ Multiple(AlignUp(m + HeaderLen), Alignment)
      /\ m + HeaderLen <= AlignUp(m + HeaderLen)
      /\ AlignUp(m + HeaderLen) <= m + HeaderLen + Alignment - 1
  BY <1>1, AlignUpView
<1>3. m + BlockBegin(m) = AlignUp(m + HeaderLen)
  BY <1>1, <1>2 DEF BlockBegin
<1> QED
  BY <1>1, <1>2, <1>3 DEF BlockBegin

\* The stride of a pool.
LEMMA StrideView ==
  ASSUME NEW p, p.objlen \in Nat \ {0}
  PROVE  Stride(p) \in Nat \ {0} /\ p.objlen <= Stride(p) /\ Multiple(Stride(p), Alignment)
BY AlignUpView DEF Stride

\* dwnx_objalloc_init
LEMMA PoolInitInv == PoolInit => PoolInv
<1> SUFFICES ASSUME PoolInit
             PROVE  PoolInv
  OBVIOUS
<1>1. PICK len \in ObjLens, n \in PerBlock : pool = NewPool(len, n)
  BY DEF PoolInit
<1>2. len \in Nat \ {0} /\ n \in Nat \ {0} /\ freed = << >> /\ lent = {} /\ pool.objlen = len
      /\ pool.blklen = AlignUp(len) * n /\ pool.blocks = << >> /\ pool.last = 0
  BY <1>1, PoolAssumption DEF PoolInit, NewPool
<1>3. Stride(pool) \in Nat \ {0} /\ Stride(pool) = AlignUp(len)
  BY <1>2, StrideView DEF Stride
<1> DEFINE st == AlignUp(len)
<1>4. st * n \in Nat /\ st * 0 = 0 /\ st * 1 = st
  <2> HIDE DEF st
  <2> QED
    BY <1>2, <1>3, SMT DEF st
<1>5. Stride(pool) <= pool.blklen
  <2>1. 1 * st <= n * st /\ n * st = st * n
    <3>1. 1 <= n /\ st \in Nat
      BY <1>2, <1>3
    <3> HIDE DEF st
    <3>2. 1 * st <= n * st
      BY <1>2, <3>1, ProductMonotone
    <3> QED
      BY <1>2, <3>1, <3>2, SMT
  <2> HIDE DEF st
  <2> QED
    BY <1>2, <1>3, <1>4, <2>1, SMT DEF st
<1>6. BufLeft(pool) = 0
  BY <1>2 DEF BufLeft
<1>7. PoolType(pool)
  <2>1. Multiple(pool.blklen, Stride(pool)) /\ Multiple(BufLeft(pool), Stride(pool))
    BY <1>2, <1>3, <1>4, <1>6 DEF Multiple
  <2>2. pool \in [objlen : Nat \ {0}, blklen : Nat, blocks : Seq(0..(Alignment - 1)), last : Nat]
    BY <1>1, <1>2, <1>4 DEF NewPool
  <2> QED
    BY <1>2, <1>5, <1>6, <2>1, <2>2 DEF PoolType
<1>8. Objects = {}
  BY <1>2 DEF Objects, ToSet
<1>9. Cardinality(lent) = 0 /\ Cardinality(Objects) = 0 /\ IsFiniteSet(Objects)
  BY <1>2, <1>8, FS_EmptySet
<1>10. Len(freed) = 0 /\ Len(pool.blocks) = 0 /\ freed \in Seq(Objects)
  BY <1>2
<1>11. 0 * Stride(pool) + BufLeft(pool) = 0 * pool.blklen
  BY <1>2, <1>3, <1>4, <1>6, SMT
<1> QED
  BY <1>7, <1>8, <1>9, <1>10, <1>11, SMT DEF PoolInv

\* The front of a list and what follows.
LEMMA TailView ==
  ASSUME NEW S, NEW s \in Seq(S), s # << >>
  PROVE  /\ Len(s) \in Nat \ {0} /\ Head(s) = s[1] /\ Tail(s) \in Seq(S)
         /\ Len(Tail(s)) = Len(s) - 1
         /\ \A i \in 1..Len(Tail(s)) : i + 1 \in 1..Len(s) /\ Tail(s)[i] = s[i + 1]
         /\ ToSet(s) = {Head(s)} \cup ToSet(Tail(s))
<1>1. /\ Len(s) \in Nat \ {0} /\ Head(s) = s[1] /\ Tail(s) \in Seq(S)
      /\ Len(Tail(s)) = Len(s) - 1
      /\ \A i \in 1..Len(Tail(s)) : i + 1 \in 1..Len(s) /\ Tail(s)[i] = s[i + 1]
  OBVIOUS
<1>2. DOMAIN s = 1..Len(s) /\ DOMAIN Tail(s) = 1..Len(Tail(s))
  BY <1>1
<1>3. ASSUME NEW x \in ToSet(s)
      PROVE  x \in {Head(s)} \cup ToSet(Tail(s))
  <2>1. PICK i \in 1..Len(s) : x = s[i]
    BY <1>2 DEF ToSet
  <2>2. CASE i = 1
    BY <1>1, <2>1, <2>2
  <2>3. CASE i # 1
    <3>1. i - 1 \in 1..Len(Tail(s)) /\ (i - 1) + 1 = i
      BY <1>1, <2>1, <2>3
    <3>2. x = Tail(s)[i - 1]
      BY <1>1, <2>1, <3>1
    <3> QED
      BY <1>2, <3>1, <3>2 DEF ToSet
  <2> QED
    BY <2>2, <2>3
<1>4. 1 \in 1..Len(s)
  BY <1>1
<1>5. {Head(s)} \cup ToSet(Tail(s)) \subseteq ToSet(s)
  BY <1>1, <1>2, <1>4 DEF ToSet
<1> QED
  BY <1>1, <1>3, <1>5

\* A list with something in front of it.
LEMMA ConsView ==
  ASSUME NEW S, NEW s \in Seq(S), NEW o \in S
  PROVE  /\ <<o>> \o s \in Seq(S) /\ Len(<<o>> \o s) = Len(s) + 1 /\ Len(s) \in Nat
         /\ (<<o>> \o s)[1] = o
         /\ \A i \in 1..Len(s) : (<<o>> \o s)[i + 1] = s[i]
         /\ ToSet(<<o>> \o s) = {o} \cup ToSet(s)
<1> DEFINE z == <<o>> \o s
<1>1. z \in Seq(S) /\ z # << >> /\ Head(z) = o /\ Tail(z) = s
  OBVIOUS
<1> HIDE DEF z
<1>2. /\ Len(z) \in Nat \ {0} /\ Head(z) = z[1] /\ Len(s) = Len(z) - 1
      /\ \A i \in 1..Len(s) : i + 1 \in 1..Len(z) /\ s[i] = z[i + 1]
      /\ ToSet(z) = {Head(z)} \cup ToSet(s)
  BY <1>1, TailView
<1> QED
  BY <1>1, <1>2 DEF z

\* A list that is not empty has a last element.
LEMMA LastView ==
  ASSUME NEW S, NEW s \in Seq(S), s # << >>
  PROVE  Len(s) \in Nat /\ Len(s) \in 1..Len(s) /\ s[Len(s)] \in S
OBVIOUS

\* A list with something behind it.
LEMMA AppendView ==
  ASSUME NEW S, NEW s \in Seq(S), NEW o \in S
  PROVE  /\ Append(s, o) \in Seq(S) /\ Len(Append(s, o)) = Len(s) + 1
         /\ Append(s, o)[Len(s) + 1] = o /\ Append(s, o) # << >>
         /\ \A i \in 1..Len(s) : Append(s, o)[i] = s[i]
OBVIOUS

\* dwnx_objalloc_get, from what was released
LEMMA GetReleasedKeeps ==
  ASSUME PoolInv, GetReleased
  PROVE  PoolInv'
<1> DEFINE o == Head(freed)
<1>1. freed # << >> /\ freed \in Seq(Objects) /\ lent' = lent \cup {o} /\ freed' = Tail(freed)
      /\ pool' = pool
  BY DEF GetReleased, PoolInv
<1>2. /\ Len(freed) \in Nat \ {0} /\ o = freed[1] /\ Tail(freed) \in Seq(Objects)
      /\ Len(Tail(freed)) = Len(freed) - 1
      /\ \A i \in 1..Len(Tail(freed)) : i + 1 \in 1..Len(freed) /\ Tail(freed)[i] = freed[i + 1]
      /\ ToSet(freed) = {o} \cup ToSet(Tail(freed))
  BY <1>1, TailView
<1>3. Objects' = Objects
  BY <1>1, <1>2 DEF Objects
<1>4. o \notin lent /\ 1 \in 1..Len(freed)
  BY <1>2 DEF PoolInv
<1>5. IsFiniteSet(lent) /\ Cardinality(lent') = Cardinality(lent) + 1 /\ Cardinality(lent) \in Nat
  <2>1. IsFiniteSet(lent)
    BY FS_Subset DEF PoolInv, Objects
  <2> QED
    BY <1>1, <1>4, <2>1, FS_AddElement, FS_CardinalityType
<1>6. \A i \in 1..Len(freed') : freed'[i] = freed[i + 1] /\ i + 1 \in 1..Len(freed) /\ i + 1 # 1
  BY <1>1, <1>2
<1>7. \A i \in 1..Len(freed') : freed'[i] \notin lent'
  BY <1>1, <1>2, <1>4, <1>6 DEF PoolInv
<1>8. \A i, j \in 1..Len(freed') : freed'[i] = freed'[j] => i = j
  <2> SUFFICES ASSUME NEW i \in 1..Len(freed'), NEW j \in 1..Len(freed'), freed'[i] = freed'[j]
               PROVE  i = j
    OBVIOUS
  <2>1. i + 1 = j + 1
    <3>1. /\ i + 1 \in 1..Len(freed) /\ j + 1 \in 1..Len(freed)
          /\ freed[i + 1] = freed[j + 1]
      BY <1>6
    <3> QED
      BY <3>1 DEF PoolInv
  <2> QED
    BY <1>1, <1>2, <2>1
<1>9. Cardinality(lent') + Len(freed') = Cardinality(Objects')
  <2>1. Cardinality(lent) + Len(freed) = Cardinality(Objects)
    BY DEF PoolInv
  <2> QED
    BY <1>1, <1>2, <1>3, <1>5, <2>1
<1> HIDE DEF o
<1> QED
  BY <1>1, <1>2, <1>3, <1>7, <1>8, <1>9 DEF PoolInv

\* dwnx_objalloc_release
LEMMA ReleaseKeeps ==
  ASSUME PoolInv, Release
  PROVE  PoolInv'
<1>1. PICK o \in lent : lent' = lent \ {o} /\ freed' = <<o>> \o freed
  BY DEF Release
<1>2. pool' = pool /\ freed \in Seq(Objects) /\ o \in Objects
  BY <1>1 DEF Release, PoolInv, Objects
<1>3. /\ freed' \in Seq(Objects) /\ Len(freed') = Len(freed) + 1 /\ Len(freed) \in Nat
      /\ freed'[1] = o
      /\ \A i \in 1..Len(freed) : freed'[i + 1] = freed[i]
      /\ ToSet(freed') = {o} \cup ToSet(freed)
  BY <1>1, <1>2, ConsView
<1>4. Objects' = Objects
  BY <1>1, <1>3 DEF Objects
<1>5. IsFiniteSet(lent) /\ Cardinality(lent') = Cardinality(lent) - 1 /\ Cardinality(lent) \in Nat
  <2>1. IsFiniteSet(lent)
    BY FS_Subset DEF PoolInv, Objects
  <2> QED
    BY <1>1, <2>1, FS_RemoveElement, FS_CardinalityType
<1>6. \A i \in 1..Len(freed') : i # 1 => i - 1 \in 1..Len(freed) /\ freed'[i] = freed[i - 1]
  <2> SUFFICES ASSUME NEW i \in 1..Len(freed'), i # 1
               PROVE  i - 1 \in 1..Len(freed) /\ freed'[i] = freed[i - 1]
    OBVIOUS
  <2>1. i - 1 \in 1..Len(freed) /\ (i - 1) + 1 = i
    BY <1>3
  <2> QED
    BY <1>3, <2>1
<1>7. \A i \in 1..Len(freed) : freed[i] \notin lent
  BY DEF PoolInv
<1>8. \A i \in 1..Len(freed') : freed'[i] \notin lent'
  BY <1>1, <1>3, <1>6, <1>7
<1>9. \A i, j \in 1..Len(freed') : freed'[i] = freed'[j] => i = j
  <2> SUFFICES ASSUME NEW i \in 1..Len(freed'), NEW j \in 1..Len(freed'), freed'[i] = freed'[j]
               PROVE  i = j
    OBVIOUS
  <2>1. CASE i = 1 \/ j = 1
    BY <1>1, <1>3, <1>6, <1>7, <2>1
  <2>2. CASE i # 1 /\ j # 1
    <3>1. i - 1 = j - 1
      BY <1>6, <2>2 DEF PoolInv
    <3> QED
      BY <1>3, <3>1
  <2> QED
    BY <2>1, <2>2
<1>10. Cardinality(lent') + Len(freed') = Cardinality(Objects')
  <2>1. Cardinality(lent) + Len(freed) = Cardinality(Objects)
    BY DEF PoolInv
  <2> QED
    BY <1>3, <1>4, <1>5, <2>1
<1> QED
  BY <1>2, <1>3, <1>4, <1>8, <1>9, <1>10 DEF PoolInv

\* A pool p from which the next object can be carved: it has what the pool
\* has, and when it has one more block, nothing was left in the one before.
Ready(p) ==
  /\ PoolType(p) /\ p.blocks # << >>
  /\ p.objlen = pool.objlen /\ p.blklen = pool.blklen /\ p.objlen <= BufLeft(p)
  /\ \A o \in Objects : Placed(p, o)
  /\ Cardinality(Objects) * Stride(p) + BufLeft(p) = Len(p.blocks) * p.blklen

\* What dwnx_balloc_get knows of the block when it carves an object.
LEMMA PoolReady ==
  ASSUME PoolInv, pool.objlen <= BufLeft(pool)
  PROVE  Ready(pool)
<1>1. pool.objlen \in Nat \ {0}
  BY DEF PoolInv, PoolType
<1>2. pool.blocks # << >>
  BY <1>1 DEF BufLeft
<1> QED
  BY <1>2 DEF Ready, PoolInv

\* A new block.
LEMMA MemblockReady ==
  ASSUME PoolInv, ~(pool.objlen <= BufLeft(pool)), NEW m \in 0..(Alignment - 1)
  PROVE  Ready(WithMemblock(pool, m))
<1> DEFINE p == WithMemblock(pool, m)
           st == Stride(pool)
           n == Len(pool.blocks)
<1>1. /\ PoolType(pool) /\ pool.objlen \in Nat \ {0} /\ pool.blklen \in Nat
      /\ pool.blocks \in Seq(0..(Alignment - 1)) /\ pool.last \in Nat /\ n \in Nat
      /\ BufLeft(pool) \in Nat /\ Multiple(BufLeft(pool), st) /\ st <= pool.blklen
      /\ Multiple(pool.blklen, st)
  BY DEF PoolInv, PoolType
<1>2. st \in Nat \ {0} /\ pool.objlen <= st
  BY <1>1, StrideView
<1>3. BufLeft(pool) = 0
  <2>1. BufLeft(pool) # 0 => st <= BufLeft(pool)
    BY <1>1, <1>2, MultipleLess
  <2> HIDE DEF st
  <2> QED
    BY <1>1, <1>2, <2>1
<1>4. /\ p.objlen = pool.objlen /\ p.blklen = pool.blklen /\ p.last = BlockBegin(m)
      /\ p.blocks = Append(pool.blocks, m) /\ Stride(p) = st
  BY <1>1 DEF WithMemblock, PoolType, Stride
<1>5. /\ p.blocks \in Seq(0..(Alignment - 1)) /\ Len(p.blocks) = n + 1 /\ p.blocks[n + 1] = m
      /\ p.blocks # << >> /\ \A b \in 1..n : p.blocks[b] = pool.blocks[b]
  <2> DEFINE before == pool.blocks
  <2>1. before \in Seq(0..(Alignment - 1)) /\ p.blocks = Append(before, m) /\ n = Len(before)
    BY <1>1, <1>4
  <2> HIDE DEF before, p, n
  <2>2. /\ p.blocks \in Seq(0..(Alignment - 1)) /\ Len(p.blocks) = n + 1 /\ p.blocks[n + 1] = m
        /\ p.blocks # << >> /\ \A b \in 1..n : p.blocks[b] = before[b]
    BY <2>1, AppendView
  <2> QED
    BY <2>2 DEF before
<1>6. BlockBegin(m) \in Nat /\ Multiple(m + BlockBegin(m), Alignment)
  BY BlockView
<1>7. BufLeft(p) = pool.blklen
  BY <1>1, <1>4, <1>5, <1>6 DEF BufLeft
<1>8. p \in [objlen : Nat \ {0}, blklen : Nat, blocks : Seq(0..(Alignment - 1)), last : Nat]
  BY <1>1, <1>4, <1>5, <1>6 DEF WithMemblock, PoolType
<1> HIDE DEF p, st
<1>9. PoolType(p)
  BY <1>1, <1>4, <1>5, <1>6, <1>7, <1>8 DEF PoolType, Current
<1>10. \A o \in Objects : Placed(p, o)
  <2> SUFFICES ASSUME NEW o \in Objects
               PROVE  Placed(p, o)
    OBVIOUS
  <2>1. Placed(pool, o)
    BY DEF PoolInv
  <2>2. o.blk \in 1..n /\ p.blocks[o.blk] = pool.blocks[o.blk]
    BY <1>5, <2>1 DEF Placed
  <2>3. o \in [blk : 1..Len(p.blocks), at : Nat] /\ o.blk # Current(p)
    BY <1>1, <1>5, <2>1, <2>2 DEF Placed, Current
  <2> QED
    BY <1>4, <2>1, <2>2, <2>3 DEF Placed, st
<1>11. Cardinality(Objects) * Stride(p) + BufLeft(p) = Len(p.blocks) * p.blklen
  <2>1. Cardinality(Objects) * st + BufLeft(pool) = n * pool.blklen
    BY DEF PoolInv, st
  <2>2. Cardinality(Objects) \in Nat
    BY FS_CardinalityType DEF PoolInv
  <2>3. Cardinality(Objects) * st \in Nat /\ (n + 1) * pool.blklen = n * pool.blklen + pool.blklen
    BY <1>1, <1>2, <2>2, ProductSum
  <2> DEFINE all == Cardinality(Objects) * st
             filled == n * pool.blklen
  <2>4. all = filled /\ all \in Nat /\ (n + 1) * pool.blklen = filled + pool.blklen
    BY <1>3, <2>1, <2>3
  <2>5. Cardinality(Objects) * Stride(p) = all /\ Len(p.blocks) * p.blklen = (n + 1) * pool.blklen
    BY <1>4, <1>5
  <2> HIDE DEF all, filled
  <2> QED
    BY <1>7, <2>4, <2>5
<1>12. p.objlen <= BufLeft(p)
  BY <1>1, <1>2, <1>4, <1>7
<1> QED
  BY <1>4, <1>5, <1>9, <1>10, <1>11, <1>12 DEF Ready, p

\* The object that is carved is where objects are put, behind all others of its
\* block, and the pool has one less to give.
LEMMA CarvedView ==
  ASSUME PoolInv, NEW p, Ready(p)
  PROVE  /\ PoolType(Carved(p)) /\ Stride(Carved(p)) = Stride(pool)
         /\ \A o \in Objects : Placed(Carved(p), o)
         /\ Placed(Carved(p), NextObject(p))
         /\ \A o \in Objects : o.blk = NextObject(p).blk =>
              o.at + Stride(pool) <= NextObject(p).at
         /\ BufLeft(p) = BufLeft(Carved(p)) + Stride(pool)
         /\ Carved(p).blocks = p.blocks /\ Carved(p).blklen = p.blklen
<1> DEFINE d == Carved(p)
           o == NextObject(p)
           st == Stride(pool)
           n == Len(p.blocks)
           begin == BlockBegin(p.blocks[n])
<1>1. /\ p \in [objlen : Nat \ {0}, blklen : Nat, blocks : Seq(0..(Alignment - 1)), last : Nat]
      /\ p.objlen = pool.objlen /\ p.objlen <= BufLeft(p) /\ p.blocks # << >>
      /\ BufLeft(p) \in Nat /\ begin <= p.last /\ Multiple(p.blocks[n] + p.last, Alignment)
      /\ Multiple(p.blklen, Stride(p)) /\ Stride(p) <= p.blklen /\ Multiple(BufLeft(p), Stride(p))
  BY DEF Ready, PoolType, Current
<1>2. n \in Nat /\ n \in 1..n /\ p.blocks[n] \in 0..(Alignment - 1) /\ p.last \in Nat /\ p.blklen \in Nat
  <2>1. p.blocks \in Seq(0..(Alignment - 1)) /\ p.last \in Nat /\ p.blklen \in Nat
    BY <1>1
  <2>2. p.blocks # << >>
    BY <1>1
  <2> HIDE DEF begin
  <2> QED
    BY <2>1, <2>2, LastView
<1>3. st = Stride(p) /\ st \in Nat \ {0} /\ Multiple(st, Alignment) /\ p.objlen <= st
  BY <1>1, StrideView DEF Stride
<1>4. begin \in Nat
  BY <1>2, BlockView
<1>5. BufLeft(p) = begin + p.blklen - p.last
  BY <1>1 DEF BufLeft
<1>6. st <= BufLeft(p) /\ BufLeft(p) - st \in Nat /\ Multiple(BufLeft(p) - st, st)
  <2>1. BufLeft(p) \in Nat \ {0}
    BY <1>1
  <2> HIDE DEF st
  <2> QED
    BY <1>1, <1>3, <2>1, MultipleLess
<1>7. /\ d.objlen = p.objlen /\ d.blklen = p.blklen /\ d.blocks = p.blocks /\ d.last = p.last + st
      /\ d \in [objlen : Nat \ {0}, blklen : Nat, blocks : Seq(0..(Alignment - 1)), last : Nat]
  <2>1. p.last + AlignUp(p.objlen) \in Nat /\ AlignUp(p.objlen) = st
    BY <1>1, <1>2, <1>3 DEF Stride
  <2> HIDE DEF st
  <2> QED
    BY <1>1, <2>1 DEF Carved
<1>8. o = [blk |-> n, at |-> p.last]
  BY DEF NextObject
<1> HIDE DEF d, st, n, begin
<1>9. Stride(d) = st
  BY <1>3, <1>7 DEF Stride
<1>10. BufLeft(d) = BufLeft(p) - st
  <2>1. BufLeft(d) = begin + p.blklen - (p.last + st)
    BY <1>1, <1>7 DEF BufLeft, begin, n
  <2> QED
    BY <1>2, <1>3, <1>4, <1>5, <2>1
<1>11. Multiple(p.blocks[n] + (p.last + st), Alignment)
  <2>1. p.blocks[n] \in Nat /\ Alignment \in Nat
    BY <1>2, PoolAssumption
  <2>2. p.blocks[n] + p.last \in Nat
    BY <1>2, <2>1
  <2>3. Multiple((p.blocks[n] + p.last) + st, Alignment)
    BY <1>1, <1>3, <2>1, <2>2, MultipleSum
  <2>4. (p.blocks[n] + p.last) + st = p.blocks[n] + (p.last + st)
    BY <1>2, <1>3, <2>1
  <2> QED
    BY <2>3, <2>4
<1>12. PoolType(d)
  <2>1. begin <= p.last + st
    BY <1>1, <1>2, <1>3, <1>4
  <2> QED
    BY <1>1, <1>3, <1>6, <1>7, <1>9, <1>10, <1>11, <2>1 DEF PoolType, Current, n, begin
<1>13. ASSUME NEW q \in Objects
       PROVE  Placed(d, q) /\ (q.blk = n => q.at + st <= p.last)
  <2>1. Placed(p, q)
    BY DEF Ready
  <2>2. q.at \in Nat /\ (q.blk = n => q.at + st <= p.last)
    BY <1>3, <2>1 DEF Placed, Current, n
  <2>3. q.blk = n => q.at + st <= p.last + st
    BY <1>2, <1>3, <2>2
  <2> QED
    BY <1>3, <1>7, <1>9, <2>1, <2>2, <2>3 DEF Placed, Current, n
<1>14. Placed(d, o)
  <2>1. o.blk = n /\ o.at = p.last /\ o \in [blk : 1..n, at : Nat]
    BY <1>2, <1>8
  <2>2. p.last + st <= begin + p.blklen
    BY <1>2, <1>3, <1>4, <1>5, <1>6
  <2> HIDE DEF o
  <2> QED
    BY <1>1, <1>7, <1>9, <2>1, <2>2 DEF Placed, Current, n, begin
<1>15. BufLeft(p) = BufLeft(d) + st
  BY <1>1, <1>3, <1>10
<1> QED
  BY <1>7, <1>8, <1>9, <1>12, <1>13, <1>14, <1>15 DEF d, st, n

\* dwnx_objalloc_get, from a block
LEMMA GetCarvedKeeps ==
  ASSUME PoolInv, GetCarved
  PROVE  PoolInv'
<1>1. PICK p : pool' = Carved(p) /\ lent' = lent \cup {NextObject(p)} /\ Ready(p)
  <2>1. CASE BufLeft(pool) >= pool.objlen
    <3>1. Ready(pool)
      BY <2>1, PoolReady DEF PoolInv, PoolType
    <3> QED
      BY <2>1, <3>1 DEF GetCarved
  <2>2. CASE ~(BufLeft(pool) >= pool.objlen)
    <3>1. ~(pool.objlen <= BufLeft(pool))
      BY <2>2 DEF PoolInv, PoolType
    <3>2. PICK m \in 0..(Alignment - 1) : /\ pool' = Carved(WithMemblock(pool, m))
                                          /\ lent' = lent \cup {NextObject(WithMemblock(pool, m))}
      BY <2>2 DEF GetCarved
    <3> QED
      BY <3>1, <3>2, MemblockReady
  <2> QED
    BY <2>1, <2>2
<1>2. freed = << >> /\ freed' = << >>
  BY DEF GetCarved
<1> DEFINE o == NextObject(p)
           d == Carved(p)
           st == Stride(pool)
<1>3. /\ PoolType(d) /\ Stride(d) = st
      /\ \A q \in Objects : Placed(d, q)
      /\ Placed(d, o)
      /\ \A q \in Objects : q.blk = o.blk => q.at + st <= o.at
      /\ BufLeft(p) = BufLeft(d) + st
      /\ d.blocks = p.blocks /\ d.blklen = p.blklen
  BY <1>1, CarvedView
<1> HIDE DEF o, d
<1>4. st \in Nat \ {0} /\ Stride(p) = st /\ BufLeft(d) \in Nat
  <2>1. p.objlen = pool.objlen /\ pool.objlen \in Nat \ {0} /\ PoolType(d)
    BY <1>1, <1>3 DEF Ready, PoolInv, PoolType
  <2> QED
    BY <2>1, StrideView DEF Stride, PoolType
<1>5. Objects = lent /\ Objects' = Objects \cup {o}
  BY <1>1, <1>2 DEF Objects, ToSet, o
<1>6. o \notin Objects
  <2>1. \A q \in Objects : q.at \in Nat
    BY <1>3 DEF Placed
  <2> HIDE DEF st
  <2> QED
    BY <1>3, <1>4, <2>1
<1>7. /\ IsFiniteSet(Objects) /\ IsFiniteSet(Objects') /\ Cardinality(Objects) \in Nat
      /\ Cardinality(Objects') = Cardinality(Objects) + 1
  BY <1>5, <1>6, FS_AddElement, FS_CardinalityType DEF PoolInv
<1>8. \A q \in Objects' : Placed(pool', q)
  BY <1>1, <1>3, <1>5 DEF d
<1>9. Stride(pool)' = st
  BY <1>1, <1>3 DEF Stride, d
<1>10. \A k, q \in Objects' : k # q /\ k.blk = q.blk =>
         k.at + st <= q.at \/ q.at + st <= k.at
  BY <1>3, <1>5 DEF PoolInv
<1>11. Cardinality(Objects') * st + BufLeft(d) = Len(d.blocks) * d.blklen
  <2>1. Cardinality(Objects) * st + BufLeft(p) = Len(p.blocks) * p.blklen
    BY <1>1, <1>4 DEF Ready
  <2> HIDE DEF st
  <2>2. (Cardinality(Objects) + 1) * st = Cardinality(Objects) * st + st
        /\ Cardinality(Objects) * st \in Nat
    BY <1>4, <1>7, SMT
  <2> QED
    BY <1>3, <1>4, <1>7, <2>1, <2>2
<1>12. Cardinality(lent') + Len(freed') = Cardinality(Objects')
  <2>1. lent' = Objects'
    BY <1>1, <1>5 DEF o
  <2> QED
    BY <1>2, <1>7, <2>1
<1>13. pool' = d
  BY <1>1 DEF d
<1>14. freed' \in Seq(Objects') /\ Len(freed') = 0
  BY <1>2
<1> HIDE DEF st
<1>15. PoolType(pool') /\ Cardinality(Objects') * st + BufLeft(pool') = Len(pool'.blocks) * pool'.blklen
  BY <1>3, <1>11, <1>13
<1> QED
  BY <1>7, <1>8, <1>9, <1>10, <1>12, <1>14, <1>15, SMT DEF PoolInv

\* dwnx_objalloc_clear
LEMMA ClearKeeps ==
  ASSUME PoolInv, PoolClear
  PROVE  PoolInv'
<1> DEFINE d == [pool EXCEPT !.blocks = << >>, !.last = 0]
<1>1. PoolType(pool) /\ pool' = d /\ freed' = << >> /\ lent' = {}
  BY DEF PoolClear, PoolInv
<1>2. /\ d.objlen = pool.objlen /\ d.blklen = pool.blklen /\ d.blocks = << >> /\ d.last = 0
      /\ d \in [objlen : Nat \ {0}, blklen : Nat, blocks : Seq(0..(Alignment - 1)), last : Nat]
  <2>1. pool \in [objlen : Nat \ {0}, blklen : Nat, blocks : Seq(0..(Alignment - 1)), last : Nat]
    BY <1>1 DEF PoolType
  <2>2. << >> \in Seq(0..(Alignment - 1))
    OBVIOUS
  <2> QED
    BY <2>1, <2>2
<1> HIDE DEF d
<1>3. BufLeft(d) = 0 /\ Stride(d) = Stride(pool) /\ Stride(pool) \in Nat /\ d.blklen \in Nat
  BY <1>1, <1>2, StrideView DEF BufLeft, Stride, PoolType
<1>4. Multiple(BufLeft(d), Stride(d))
  <2>1. Stride(d) * 0 = 0
    BY <1>3, SMT
  <2> QED
    BY <1>3, <2>1 DEF Multiple
<1>5. PoolType(d)
  BY <1>1, <1>2, <1>3, <1>4 DEF PoolType
<1>6. Objects' = {}
  BY <1>1 DEF Objects, ToSet
<1>7. Cardinality(lent') = 0 /\ Cardinality(Objects') = 0 /\ IsFiniteSet(Objects')
  BY <1>1, <1>6, FS_EmptySet
<1>8. Len(freed') = 0 /\ Len(d.blocks) = 0 /\ freed' \in Seq(Objects')
  BY <1>1, <1>2
<1>9. 0 * Stride(d) + BufLeft(d) = 0 * d.blklen
  BY <1>3, SMT
<1> QED
  BY <1>1, <1>5, <1>6, <1>7, <1>8, <1>9, SMT DEF PoolInv

\* No call changes what the pool is known to be.
LEMMA PoolStep == PoolInv /\ [PoolNext]_poolVars => PoolInv'
<1> SUFFICES ASSUME PoolInv, [PoolNext]_poolVars
             PROVE  PoolInv'
  OBVIOUS
<1>1. CASE GetReleased
  BY <1>1, GetReleasedKeeps
<1>2. CASE GetCarved
  BY <1>2, GetCarvedKeeps
<1>3. CASE Release
  BY <1>3, ReleaseKeeps
<1>4. CASE PoolClear
  BY <1>4, ClearKeeps
<1>5. CASE UNCHANGED poolVars
  BY <1>5 DEF poolVars, PoolInv, Objects
<1> QED
  BY <1>1, <1>2, <1>3, <1>4, <1>5 DEF PoolNext

\* It makes the pool exact.
LEMMA InvExact ==
  ASSUME PoolInv
  PROVE  PoolExact
<1> DEFINE st == Stride(pool)
<1>1. /\ PoolType(pool) /\ pool.objlen \in Nat \ {0} /\ pool.blocks \in Seq(0..(Alignment - 1))
      /\ pool.blklen \in Nat
  BY DEF PoolInv, PoolType
<1>2. st \in Nat \ {0} /\ pool.objlen <= st
  BY <1>1, StrideView
<1>3. ASSUME NEW o \in Objects
      PROVE  /\ (pool.blocks[o.blk] + o.at) % Alignment = 0
             /\ HeaderLen <= o.at /\ o.at + pool.objlen <= MemblockLen(pool)
  <2> DEFINE m == pool.blocks[o.blk]
  <2>1. /\ o.blk \in 1..Len(pool.blocks) /\ o.at \in Nat /\ Multiple(m + o.at, Alignment)
        /\ BlockBegin(m) <= o.at /\ o.at + st <= BlockBegin(m) + pool.blklen
    BY DEF PoolInv, Placed
  <2>2. m \in 0..(Alignment - 1)
    <3>1. o.blk \in 1..Len(pool.blocks)
      BY <2>1
    <3> QED
      BY <1>1, <3>1, ElementOfSeq
  <2> HIDE DEF m, st
  <2>3. BlockBegin(m) \in Nat /\ HeaderLen <= BlockBegin(m) /\ BlockBegin(m) <= HeaderLen + Alignment - 1
    BY <2>2, BlockView
  <2>4. (m + o.at) % Alignment = 0
    <3>1. m + o.at \in Nat /\ Alignment \in Nat \ {0}
      BY <2>1, <2>2, PoolAssumption
    <3> QED
      BY <2>1, <3>1, MultipleMod
  <2>5. HeaderLen <= o.at
    BY <2>1, <2>3, PoolAssumption
  <2>6. o.at + pool.objlen <= MemblockLen(pool)
    BY <1>1, <1>2, <2>1, <2>3, PoolAssumption, SMTT(20) DEF MemblockLen
  <2> QED
    BY <2>4, <2>5, <2>6 DEF m
<1>4. ASSUME NEW o \in Objects, NEW q \in Objects \ {o}
      PROVE  Apart(o, q)
  <2>1. o.blk = q.blk => o.at + st <= q.at \/ q.at + st <= o.at
    BY DEF PoolInv
  <2>2. o.at \in Nat /\ q.at \in Nat
    BY DEF PoolInv, Placed
  <2> HIDE DEF st
  <2> QED
    BY <1>1, <1>2, <2>1, <2>2 DEF Apart
<1>5. /\ Cardinality(lent) + Len(freed) = Cardinality(Objects)
      /\ Cardinality(Objects) * AlignUp(pool.objlen) + BufLeft(pool) = Len(pool.blocks) * pool.blklen
  BY DEF PoolInv, Stride
<1> QED
  BY <1>3, <1>4, <1>5 DEF PoolExact

\* However long the objects are, however memory is aligned and in whatever
\* order objects are asked for and released, no two share a byte, each is
\* aligned and within its block, and none is lost (dwnx_balloc_get,
\* dwnx_objalloc_get, dwnx_objalloc_release, dwnx_objalloc_clear).
THEOREM PoolAlwaysExact == PoolSpec => []PoolExact
BY PoolInitInv, PoolStep, InvExact, PTL DEF PoolSpec

-----------------------------------------------------------------------------

\* A set of natural numbers that holds 0 and, with each number, the next.
LEMMA SetInduction ==
  ASSUME NEW T \in SUBSET Nat, 0 \in T, \A n \in T : n + 1 \in T
  PROVE  T = Nat
<1> DEFINE R == {ss \in Nat \X Nat : ss[1] < ss[2]}
           U == Nat \ T
<1>1. IsWellFoundedOn(R, Nat)
  BY NatLessThanWellFounded DEF OpToRel
<1>2. SUFFICES ASSUME U # {}
               PROVE  FALSE
  OBVIOUS
<1>3. PICK x \in U : \A y \in U : ~ (<<y, x>> \in R)
  <2> HIDE DEF U, R
  <2>1. U \subseteq Nat
    BY DEF U
  <2> QED
    BY <1>1, <1>2, <2>1, WFMin
<1>4. x - 1 \in U /\ x - 1 \in Nat /\ x \in Nat /\ x - 1 < x
  OBVIOUS
<1>5. <<x - 1, x>> \in R
  BY <1>4
<1> QED
  BY <1>3, <1>4, <1>5

-----------------------------------------------------------------------------
(* The idle timeout                                                        *)

\* What an end is.
Ends ==
  [local : Nat, remote : Nat, idleTs : Nat, state : {"open", "closing"}, heard : BOOLEAN,
   sent : Nat, held : Seq({"params", "data"}), wev : BOOLEAN, timer : Nat, period : Nat,
   fed : BOOLEAN, over : {"no", "idle", "closed"}, last : Nat, idleFor : Int]

\* A timeout is none, or a millisecond at least.
Lasting(timeout) == timeout \in Nat /\ (timeout = 0 \/ timeout >= NsPerMs)

\* What holds of an end in the middle of an event, when the timer may be late:
\* the peer's timeout is what it told, here when that is told, activity was
\* noted, the timer has not been missed and one that does not run has no period,
\* and who gave up had waited.
Waiting(x, told, t) ==
  /\ x \in Ends /\ Lasting(x.local)
  /\ x.remote = IF x.heard THEN told ELSE 0
  /\ x.over = "no" => x.idleTs = x.last /\ x.idleTs <= t
  /\ x.timer # Never => x.timer >= t
  /\ x.timer = Never => x.period = 0
  /\ x.over # "no" => ~x.fed /\ x.timer = Never
  /\ x.over = "idle" => \E d \in {x.local, x.remote} \ {0} : x.idleFor >= d

\* The timer is at the expiry, or fires at once.
Timed(x, t) ==
  x.over = "no" /\ x.held = << >> /\ x.timer # Never
    => x.timer = IdleExpiry(x) \/ (x.fed /\ IdleExpiry(x) <= t)

\* Between events.
Settled(x, told, t) == Waiting(x, told, t) /\ Timed(x, t)

\* What is left as it is by all that an end does.
SameTimeouts(x, y) == y.local = x.local

\* The fields of an end.
LEMMA EndFields ==
  ASSUME NEW x \in Ends
  PROVE  /\ x.local \in Nat /\ x.remote \in Nat /\ x.idleTs \in Nat /\ x.timer \in Nat
         /\ x.period \in Nat /\ x.last \in Nat /\ x.idleFor \in Int /\ x.sent \in Nat
         /\ x.held \in Seq({"params", "data"})
BY DEF Ends

\* The expiry is a time, and no later than the smaller timeout allows.
LEMMA ExpiryView ==
  ASSUME NEW x \in Ends
  PROVE  LET T == SmallerTimeout(x) IN
         /\ IdleExpiry(x) \in Nat /\ T \in Nat /\ T \in {x.local, x.remote}
         /\ T = 0 => IdleExpiry(x) = MaxTimestamp
         /\ T # 0 => /\ x.local # 0 => T <= x.local
                     /\ x.remote # 0 => T <= x.remote
                     /\ IdleExpiry(x) = x.idleTs + T
                        \/ (IdleExpiry(x) = MaxTimestamp /\ MaxTimestamp < x.idleTs + T)
         /\ T = 0 => x.local = 0 /\ x.remote = 0
<1>1. x.local \in Nat /\ x.remote \in Nat /\ x.idleTs \in Nat /\ MaxTimestamp \in Nat
  BY EndFields, IdleAssumption
<1> QED
  BY <1>1 DEF SmallerTimeout, IdleExpiry

\* What Told returns of a timeout that lasts.
LEMMA ToldView ==
  ASSUME NEW timeout, Lasting(timeout)
  PROVE  /\ Told(timeout) \in Nat /\ Told(timeout) <= timeout
         /\ timeout - Told(timeout) < NsPerMs
         /\ Told(timeout) = 0 <=> timeout = 0
<1>1. NsPerMs \in Nat \ {0} /\ timeout \in Nat
  BY IdleAssumption DEF Lasting
<1>2. timeout % NsPerMs \in 0..(NsPerMs - 1)
  BY <1>1
<1>3. timeout = 0 => timeout % NsPerMs = 0
  BY <1>1
<1>4. timeout % NsPerMs <= timeout
  BY <1>1, <1>2, <1>3 DEF Lasting
<1> QED
  BY <1>1, <1>2, <1>3, <1>4 DEF Told, Lasting

\* update_timer: the timer is right, whatever it was.
LEMMA UpdateTimerSettles ==
  ASSUME NEW x, NEW told, now \in Nat, Waiting(x, told, now), x.over = "no"
  PROVE  /\ Settled(UpdateTimer(x), told, now)
         /\ UpdateTimer(x).over = "no" /\ SameTimeouts(x, UpdateTimer(x))
         /\ UpdateTimer(x).held = x.held
<1>1. x \in Ends /\ IdleExpiry(x) \in Nat
  BY ExpiryView DEF Waiting
<1>2. CASE IdleExpiry(x) <= now
  <2> DEFINE y == [x EXCEPT !.fed = TRUE]
  <2>1. UpdateTimer(x) = y
    BY <1>2 DEF UpdateTimer
  <2>2. y \in Ends /\ IdleExpiry(y) = IdleExpiry(x) /\ y.fed
    BY <1>1 DEF Ends, IdleExpiry, SmallerTimeout
  <2>3. /\ y.local = x.local /\ y.remote = x.remote /\ y.heard = x.heard /\ y.over = x.over
        /\ y.idleTs = x.idleTs /\ y.last = x.last /\ y.timer = x.timer /\ y.idleFor = x.idleFor
        /\ y.held = x.held /\ y.period = x.period
    BY <1>1 DEF Ends
  <2> HIDE DEF y
  <2> QED
    BY <1>2, <2>1, <2>2, <2>3 DEF Settled, Waiting, Timed, SameTimeouts
<1>3. CASE ~(IdleExpiry(x) <= now)
  <2> DEFINE y == [x EXCEPT !.timer = IdleExpiry(x), !.period = IdleExpiry(x) - now]
  <2>1. UpdateTimer(x) = y
    BY <1>3 DEF UpdateTimer
  <2>2. IdleExpiry(x) - now \in Nat
    BY <1>1, <1>3
  <2>3. y \in Ends /\ IdleExpiry(y) = IdleExpiry(x)
    BY <1>1, <2>2 DEF Ends, IdleExpiry, SmallerTimeout
  <2>4. /\ y.local = x.local /\ y.remote = x.remote /\ y.heard = x.heard /\ y.over = x.over
        /\ y.idleTs = x.idleTs /\ y.last = x.last /\ y.timer = IdleExpiry(x)
        /\ y.idleFor = x.idleFor /\ y.held = x.held
    BY <1>1 DEF Ends
  <2>5. IdleExpiry(x) >= now /\ IdleExpiry(x) # Never
    BY <1>1, <1>3 DEF Never
  <2> HIDE DEF y
  <2> QED
    BY <2>1, <2>3, <2>4, <2>5 DEF Settled, Waiting, Timed, SameTimeouts
<1> QED
  BY <1>2, <1>3

\* A record that was read or written is noted.
LEMMA BusyWaits ==
  ASSUME NEW x, NEW told, now \in Nat, Waiting(x, told, now), x.over = "no"
  PROVE  /\ Waiting(Busy(x), told, now) /\ Busy(x).over = "no" /\ Busy(x).held = x.held
         /\ SameTimeouts(x, Busy(x)) /\ Busy(x).sent = x.sent
<1>1. x \in Ends
  BY DEF Waiting
<1> DEFINE y == Busy(x)
<1>2. y \in Ends
  BY <1>1 DEF Busy, Ends
<1>3. /\ y.local = x.local /\ y.remote = x.remote /\ y.heard = x.heard /\ y.over = x.over
      /\ y.idleTs = now /\ y.last = now /\ y.timer = x.timer /\ y.held = x.held /\ y.sent = x.sent
      /\ y.period = x.period
  BY <1>1 DEF Busy, Ends
<1> HIDE DEF y
<1> QED
  BY <1>2, <1>3 DEF Waiting, SameTimeouts, y

\* An end that stops, for having waited if that is why.
LEMMA StopSettles ==
  ASSUME NEW x, NEW told, now \in Nat, Waiting(x, told, now), NEW why \in {"idle", "closed"},
         why = "idle" => \E d \in {x.local, x.remote} \ {0} : now - x.last >= d
  PROVE  Settled(Stop(x, why), told, now) /\ SameTimeouts(x, Stop(x, why)) /\ Stop(x, why).over = why
<1>1. x \in Ends
  BY DEF Waiting
<1> DEFINE y == Stop(x, why)
<1>2. y \in Ends
  <2> DEFINE n == IF why = "idle" THEN now - x.last ELSE 0
             none == << >>
             z == [x EXCEPT !.over = why, !.idleFor = n, !.timer = 0, !.period = 0, !.fed = FALSE,
                            !.wev = FALSE, !.held = none, !.idleTs = 0, !.last = 0,
                            !.state = "open", !.sent = 0]
  <2>1. n \in Int /\ none \in Seq({"params", "data"})
    BY <1>1, EndFields
  <2>2. y = z
    BY DEF Stop, Never
  <2> HIDE DEF n, none, y
  <2>3. z \in Ends
    BY <1>1, <2>1 DEF Ends
  <2> QED
    BY <2>2, <2>3
<1>3. /\ y.local = x.local /\ y.remote = x.remote /\ y.heard = x.heard /\ y.over = why
      /\ y.timer = Never /\ y.period = 0 /\ ~y.fed /\ (why = "idle" => y.idleFor = now - x.last)
  BY <1>1 DEF Stop, Ends
<1> HIDE DEF y
<1> QED
  BY <1>2, <1>3 DEF Settled, Waiting, Timed, SameTimeouts, y

\* A record of the peer, in the middle of readcb.
LEMMA HearWaits ==
  ASSUME NEW p \in Peers, NEW x, NEW rec, now \in Nat,
         NEW told, told = Told(ends[Opposite(p)].local), told \in Nat, Waiting(x, told, now)
  PROVE  /\ Waiting(HearRecord(p, x, rec), told, now)
         /\ SameTimeouts(x, HearRecord(p, x, rec))
<1>1. x \in Ends
  BY DEF Waiting
<1>2. CASE x.over # "no"
  BY <1>2 DEF HearRecord, SameTimeouts
<1>3. CASE x.over = "no" /\ (x.state = "closing" \/ rec = "close" \/ (rec = "data" /\ ~x.heard))
  <2>1. HearRecord(p, x, rec) = Stop(x, "closed")
    BY <1>3 DEF HearRecord
  <2> QED
    BY <2>1, StopSettles DEF Settled
<1>4. CASE x.over = "no" /\ ~(x.state = "closing" \/ rec = "close" \/ (rec = "data" /\ ~x.heard))
           /\ rec = "data"
  <2>1. HearRecord(p, x, rec) = Busy(x)
    BY <1>4 DEF HearRecord
  <2> QED
    BY <1>4, <2>1, BusyWaits
<1>5. CASE x.over = "no" /\ ~(x.state = "closing" \/ rec = "close" \/ (rec = "data" /\ ~x.heard))
           /\ rec # "data"
  <2> DEFINE y == [x EXCEPT !.heard = TRUE, !.remote = told]
  <2>1. HearRecord(p, x, rec) = Busy(y)
    BY <1>5 DEF HearRecord
  <2>2. y \in Ends
    BY <1>1 DEF Ends
  <2>3. /\ y.local = x.local /\ y.remote = told /\ y.heard /\ y.over = "no"
        /\ y.idleTs = x.idleTs /\ y.last = x.last /\ y.timer = x.timer /\ y.period = x.period
    BY <1>1, <1>5 DEF Ends
  <2> HIDE DEF y
  <2>4. Waiting(y, told, now)
    BY <1>5, <2>2, <2>3 DEF Waiting
  <2> QED
    BY <2>1, <2>3, <2>4, BusyWaits DEF SameTimeouts
<1> QED
  BY <1>2, <1>3, <1>4, <1>5

\* What a record can be.
Records == {"params", "data", "close"}

\* Times and connections that wait, as in Waiting; between events they are settled.
IdleInv ==
  /\ now \in Nat /\ now < MaxTimestamp
  /\ ends \in [Peers -> Ends] /\ wires \in [Peers -> Seq(Records)]
  /\ \A p \in Peers : Settled(ends[p], Told(ends[Opposite(p)].local), now)

\* The two ends.
LEMMA TwoPeers ==
  ASSUME NEW p \in Peers
  PROVE  /\ Opposite(p) \in Peers /\ Opposite(p) # p /\ Opposite(Opposite(p)) = p
         /\ \A q \in Peers : q = p \/ q = Opposite(p)
BY DEF Peers, Opposite

\* What the invariant says of one end.
LEMMA EndView ==
  ASSUME IdleInv, NEW p \in Peers
  PROVE  LET told == Told(ends[Opposite(p)].local) IN
         /\ now \in Nat /\ told \in Nat /\ told <= ends[Opposite(p)].local
         /\ ends[p] \in Ends /\ Settled(ends[p], told, now) /\ Waiting(ends[p], told, now)
         /\ Lasting(ends[p].local) /\ wires[p] \in Seq(Records)
<1>1. Opposite(p) \in Peers
  BY TwoPeers
<1>2. \A q \in Peers : Settled(ends[q], Told(ends[Opposite(q)].local), now) /\ Lasting(ends[q].local)
  BY DEF IdleInv, Settled, Waiting
<1>3. Told(ends[Opposite(p)].local) \in Nat /\ Told(ends[Opposite(p)].local) <= ends[Opposite(p)].local
  BY <1>1, <1>2, ToldView
<1> QED
  BY <1>2, <1>3 DEF IdleInv, Settled

\* Two ends that differ in what does not concern the timeout.
Alike(x, y) ==
  /\ y.local = x.local /\ y.remote = x.remote /\ y.heard = x.heard /\ y.over = x.over
  /\ y.idleTs = x.idleTs /\ y.last = x.last /\ y.idleFor = x.idleFor
  /\ y.timer = x.timer /\ y.period = x.period /\ y.fed = x.fed

\* What does not concern the timeout.
LEMMA ChangeWaits ==
  ASSUME NEW x, NEW told, NEW t, Waiting(x, told, t), NEW y \in Ends, Alike(x, y)
  PROVE  Waiting(y, told, t) /\ SameTimeouts(x, y)
BY DEF Waiting, SameTimeouts, Alike

\* readcb has read some of what arrived.
LEMMA ReadingWaits ==
  ASSUME IdleInv, NEW p \in Peers, NEW n \in 1..Len(wires[p])
  PROVE  /\ Waiting(AfterReading(p, n), Told(ends[Opposite(p)].local), now)
         /\ SameTimeouts(ends[p], AfterReading(p, n))
<1> DEFINE told == Told(ends[Opposite(p)].local)
           X == {x \in Ends : Waiting(x, told, now) /\ SameTimeouts(ends[p], x)}
           Reads(g) == g = [k \in 0..n |-> IF k = 0 THEN ends[p]
                                           ELSE HearRecord(p, g[k - 1], wires[p][k])]
<1>1. now \in Nat /\ told \in Nat /\ Waiting(ends[p], told, now) /\ n \in Nat
  BY EndView
<1>2. ends[p] \in X
  BY <1>1 DEF Waiting, SameTimeouts
<1>3. ASSUME NEW x \in X, NEW rec
      PROVE  HearRecord(p, x, rec) \in X
  <2>1. Waiting(x, told, now) /\ SameTimeouts(ends[p], x)
    OBVIOUS
  <2> DEFINE y == HearRecord(p, x, rec)
  <2>2. Waiting(y, told, now) /\ SameTimeouts(x, y)
    BY <1>1, <2>1, HearWaits
  <2> HIDE DEF y
  <2>3. y \in Ends /\ Waiting(y, told, now) /\ SameTimeouts(ends[p], y)
    BY <2>1, <2>2 DEF Waiting, SameTimeouts
  <2> QED
    BY <2>3 DEF y
<1> HIDE DEF X, told
<1>4. \A k \in 1..n, x \in X : HearRecord(p, x, wires[p][k]) \in X
  BY <1>3
<1>5. \E g \in [0..n -> X] :
        g[0] = ends[p] /\ \A i \in 1..n : g[i] = HearRecord(p, g[i - 1], wires[p][i])
  <2> DEFINE Upto(k) == \E g \in [0..k -> X] :
               g[0] = ends[p] /\ \A i \in 1..k : g[i] = HearRecord(p, g[i - 1], wires[p][i])
             T == {k \in Nat : k <= n => Upto(k)}
  <2>1. 0 \in T
    <3> DEFINE g == [i \in 0..0 |-> ends[p]]
    <3>1. g \in [0..0 -> X] /\ g[0] = ends[p]
      BY <1>2, 0 \in 0..0
    <3> HIDE DEF g
    <3>2. Upto(0)
      BY <3>1, \A i \in 1..0 : FALSE
    <3> QED
      BY <3>2
  <2>2. ASSUME NEW k \in T
        PROVE  k + 1 \in T
    <3>1. k \in Nat /\ (k <= n => Upto(k))
      <4> HIDE DEF Upto
      <4> QED
        BY <2>2
    <3>2. SUFFICES ASSUME k + 1 <= n
                   PROVE  Upto(k + 1)
      <4> HIDE DEF Upto
      <4> QED
        BY <3>1
    <3>3. PICK g \in [0..k -> X] :
            g[0] = ends[p] /\ \A i \in 1..k : g[i] = HearRecord(p, g[i - 1], wires[p][i])
      BY <1>1, <3>1, <3>2, k <= n
    <3> DEFINE b == HearRecord(p, g[k], wires[p][k + 1])
               h == [i \in 0..(k + 1) |-> IF i = k + 1 THEN b ELSE g[i]]
    <3>4. b \in X
      <4>1. k + 1 \in 1..n /\ g[k] \in X
        BY <1>1, <3>1, <3>2
      <4> QED
        BY <1>4, <4>1
    <3> HIDE DEF b
    <3>5. h \in [0..(k + 1) -> X] /\ h[0] = ends[p]
      <4>1. \A i \in 0..(k + 1) : i # k + 1 => g[i] \in X
        BY <3>1
      <4>2. \A i \in 0..(k + 1) : h[i] \in X
        BY <3>4, <4>1
      <4>3. h[0] = g[0] /\ h = [i \in 0..(k + 1) |-> h[i]]
        BY <3>1
      <4> HIDE DEF h
      <4> QED
        BY <3>3, <4>2, <4>3
    <3>6. ASSUME NEW i \in 1..(k + 1)
          PROVE  h[i] = HearRecord(p, h[i - 1], wires[p][i])
      <4>1. h[i - 1] = g[i - 1]
        BY <3>1
      <4>2. CASE i = k + 1
        <5>1. h[i] = b /\ i - 1 = k
          BY <3>1, <4>2
        <5> QED
          BY <4>1, <4>2, <5>1 DEF b
      <4>3. CASE i # k + 1
        <5>1. i \in 1..k /\ h[i] = g[i]
          BY <3>1, <4>3
        <5> HIDE DEF h
        <5> QED
          BY <3>3, <4>1, <5>1
      <4> QED
        BY <4>2, <4>3
    <3> HIDE DEF h
    <3> QED
      BY <3>5, <3>6
  <2>3. T = Nat
    <3> HIDE DEF T
    <3>1. T \subseteq Nat
      BY DEF T
    <3> QED
      BY <2>1, <2>2, <3>1, SetInduction
  <2>4. n \in T
    BY <1>1, <2>3
  <2> HIDE DEF Upto
  <2>5. Upto(n)
    BY <1>1, <2>4
  <2> QED
    BY <2>5 DEF Upto
<1>6. PICK g \in [0..n -> X] :
        g[0] = ends[p] /\ \A i \in 1..n : g[i] = HearRecord(p, g[i - 1], wires[p][i])
  BY <1>5
<1>7. Reads(g)
  <2>1. \A k \in 0..n : g[k] = IF k = 0 THEN ends[p] ELSE HearRecord(p, g[k - 1], wires[p][k])
    BY <1>6
  <2>2. g = [k \in 0..n |-> g[k]]
    OBVIOUS
  <2> QED
    BY <2>1, <2>2
<1> DEFINE h == CHOOSE f : Reads(f)
<1>8. Reads(h)
  BY <1>7
<1>9. AfterReading(p, n) = h[n]
  BY DEF AfterReading
<1>10. h = [k \in 0..n |-> IF k = 0 THEN ends[p] ELSE HearRecord(p, h[k - 1], wires[p][k])]
  BY <1>8
<1> HIDE DEF h, Reads
<1>11. h[0] = ends[p] /\ \A k \in 1..n : h[k] = HearRecord(p, h[k - 1], wires[p][k])
  BY <1>1, <1>10
<1>12. h[n] \in X
  <2> DEFINE T == {k \in Nat : k <= n => h[k] \in X}
  <2>1. 0 \in T
    BY <1>2, <1>11
  <2>2. ASSUME NEW k \in T
        PROVE  k + 1 \in T
    <3>1. k + 1 <= n => k + 1 \in 1..n /\ (k + 1) - 1 = k /\ h[k] \in X
      BY <1>1
    <3>2. k + 1 <= n => h[k + 1] = HearRecord(p, h[k], wires[p][k + 1])
      BY <1>11, <3>1
    <3>3. k + 1 <= n => h[k + 1] \in X
      BY <1>3, <3>1, <3>2
    <3> QED
      BY <3>3
  <2>3. T = Nat
    <3> HIDE DEF T
    <3>1. T \subseteq Nat
      BY DEF T
    <3> QED
      BY <2>1, <2>2, <3>1, SetInduction
  <2> QED
    BY <1>1, <2>3
<1> QED
  BY <1>9, <1>12 DEF X, told

\* Records that wait for the socket.
LEMMA HeldEnd ==
  ASSUME NEW x \in Ends
  PROVE  /\ \A h \in Seq({"params", "data"}), b \in BOOLEAN : [x EXCEPT !.held = h, !.wev = b] \in Ends
         /\ [x EXCEPT !.wev = FALSE, !.held = << >>] \in Ends
<1>1. \A h \in Seq({"params", "data"}), b \in BOOLEAN :
        /\ [x EXCEPT !.held = h, !.wev = b] \in Ends
        /\ [x EXCEPT !.wev = b, !.held = h] \in Ends
  BY DEF Ends
<1>2. << >> \in Seq({"params", "data"})
  OBVIOUS
<1> QED
  BY <1>1, <1>2

\* write_data
LEMMA WriteDataSettles ==
  ASSUME NEW p, NEW x, NEW told, now \in Nat, Waiting(x, told, now), x.over = "no",
         NEW w \in WriteDataOf(p, x)
  PROVE  Settled(w.end, told, now) /\ SameTimeouts(x, w.end) /\ w.out \in Seq(Records)
<1> DEFINE next == IF x.sent = 0 THEN "params" ELSE "data"
           idle == [x EXCEPT !.wev = FALSE, !.held = << >>]
           wrote == Busy([idle EXCEPT !.sent = @ + 1])
           mayWrite == x.state = "open" /\ x.sent < MaxIdleRecords[p]
<1>1. x \in Ends /\ x.sent \in Nat /\ x.held \in Seq({"params", "data"}) /\ next \in {"params", "data"}
  BY EndFields DEF Waiting
<1>2. Waiting(idle, told, now) /\ SameTimeouts(x, idle) /\ idle.over = "no"
  <2>1. idle \in Ends
    BY <1>1, HeldEnd
  <2>2. Alike(x, idle)
    BY <1>1 DEF Ends, Alike
  <2> HIDE DEF idle
  <2> QED
    BY <2>1, <2>2, ChangeWaits DEF Alike
<1>3. Waiting(wrote, told, now) /\ SameTimeouts(x, wrote) /\ wrote.over = "no" /\ wrote \in Ends
  <2> DEFINE y == [idle EXCEPT !.sent = @ + 1]
  <2>1. idle \in Ends /\ idle.sent \in Nat
    BY <1>2, EndFields DEF Waiting
  <2> HIDE DEF idle
  <2>2. y \in Ends
    BY <2>1, SMTT(20) DEF Ends
  <2>3. Alike(idle, y)
    BY <2>1 DEF Ends, Alike
  <2> HIDE DEF y
  <2>4. Waiting(y, told, now) /\ SameTimeouts(idle, y)
    BY <1>2, <2>2, <2>3, ChangeWaits
  <2>5. Waiting(Busy(y), told, now) /\ SameTimeouts(y, Busy(y)) /\ Busy(y).over = "no"
    BY <1>2, <2>3, <2>4, BusyWaits DEF Alike
  <2> QED
    BY <1>2, <2>4, <2>5 DEF Waiting, SameTimeouts, y
<1>4. CASE \E b \in BOOLEAN : x.held # << >> /\ w = [end |-> [x EXCEPT !.wev = b], out |-> << >>]
  <2>1. PICK b \in BOOLEAN : x.held # << >> /\ w = [end |-> [x EXCEPT !.wev = b], out |-> << >>]
    BY <1>4
  <2> DEFINE y == [x EXCEPT !.wev = b]
  <2>2. y \in Ends
    BY <1>1 DEF Ends
  <2>3. Alike(x, y) /\ y.held = x.held
    BY <1>1 DEF Ends, Alike
  <2>4. w.end = y /\ w.out = << >>
    BY <2>1
  <2> HIDE DEF y
  <2>5. Waiting(y, told, now) /\ SameTimeouts(x, y) /\ Timed(y, now)
    BY <2>1, <2>2, <2>3, ChangeWaits DEF Timed, Alike
  <2>6. << >> \in Seq(Records)
    OBVIOUS
  <2> QED
    BY <2>4, <2>5, <2>6 DEF Settled
<1>5. CASE w = [end |-> UpdateTimer(idle), out |-> x.held]
  <2>1. w.end = UpdateTimer(idle) /\ w.out = x.held
    BY <1>5
  <2>2. x.held \in Seq(Records)
    BY <1>1 DEF Records
  <2> HIDE DEF idle
  <2> QED
    BY <1>2, <2>1, <2>2, UpdateTimerSettles DEF SameTimeouts
<1>6. CASE w = [end |-> UpdateTimer(wrote), out |-> Append(x.held, next)]
  <2>1. w.end = UpdateTimer(wrote) /\ w.out = Append(x.held, next)
    BY <1>6
  <2>2. Append(x.held, next) \in Seq(Records)
    BY <1>1, AppendProperties DEF Records
  <2> HIDE DEF wrote, next
  <2> QED
    BY <1>3, <2>1, <2>2, UpdateTimerSettles DEF SameTimeouts
<1>7. CASE \E b \in BOOLEAN :
             w = [end |-> UpdateTimer([wrote EXCEPT !.held = <<next>>, !.wev = b]), out |-> x.held]
  <2> HIDE DEF wrote, next
  <2>1. PICK b \in BOOLEAN :
          w = [end |-> UpdateTimer([wrote EXCEPT !.held = <<next>>, !.wev = b]), out |-> x.held]
    BY <1>7
  <2> DEFINE y == [wrote EXCEPT !.held = <<next>>, !.wev = b]
  <2>2. y \in Ends
    <3>1. <<next>> \in Seq({"params", "data"})
      BY <1>1
    <3> QED
      BY <1>3, <3>1, HeldEnd
  <2>3. Alike(wrote, y)
    BY <1>3 DEF Ends, Alike
  <2>4. w.end = UpdateTimer(y) /\ w.out = x.held
    BY <2>1
  <2>5. x.held \in Seq(Records)
    BY <1>1 DEF Records
  <2> HIDE DEF y
  <2>6. Waiting(y, told, now) /\ SameTimeouts(wrote, y)
    BY <1>3, <2>2, <2>3, ChangeWaits
  <2> QED
    BY <1>3, <2>3, <2>4, <2>5, <2>6, UpdateTimerSettles DEF SameTimeouts, Alike
<1> QED
  BY <1>4, <1>5, <1>6, <1>7 DEF WriteDataOf

\* An end that changes, and what that sends.
LEMMA MovesKeeps ==
  ASSUME IdleInv, NEW p \in Peers, NEW x, NEW rest \in Seq(Records), NEW out \in Seq(Records),
         Settled(x, Told(ends[Opposite(p)].local), now), SameTimeouts(ends[p], x),
         Moves(p, x, rest, out), UNCHANGED now
  PROVE  IdleInv'
<1> DEFINE q == Opposite(p)
           e == [ends EXCEPT ![p] = x]
           w == [wires EXCEPT ![p] = rest, ![q] = @ \o out]
<1>1. q \in Peers /\ q # p /\ Opposite(q) = p /\ \A r \in Peers : r = p \/ r = q
  BY TwoPeers
<1>2. x \in Ends /\ x.local = ends[p].local
  BY DEF Settled, Waiting, SameTimeouts
<1>3. ends \in [Peers -> Ends] /\ wires \in [Peers -> Seq(Records)]
  BY DEF IdleInv
<1>4. ends' = e /\ wires' = Carry(e, w)
  BY DEF Moves
<1> HIDE DEF q
<1>5. e \in [Peers -> Ends] /\ e[p] = x /\ e[q] = ends[q]
  BY <1>1, <1>2, <1>3
<1>6. w \in [Peers -> Seq(Records)]
  <2>1. wires[q] \o out \in Seq(Records)
    BY <1>1, <1>3, ConcatProperties
  <2> QED
    BY <1>1, <1>3, <2>1
<1> HIDE DEF e, w
<1>7. Carry(e, w) \in [Peers -> Seq(Records)]
  <2>1. << >> \in Seq(Records)
    OBVIOUS
  <2>2. \A r \in Peers : (IF e[r].over = "no" THEN w[r] ELSE << >>) \in Seq(Records)
    BY <1>6, <2>1
  <2> QED
    BY <2>2 DEF Carry
<1>8. Settled(e[p], Told(e[q].local), now)
  BY <1>5 DEF q
<1>9. Settled(e[q], Told(e[p].local), now)
  <2>1. Settled(ends[q], Told(ends[Opposite(q)].local), now)
    BY <1>1 DEF IdleInv
  <2> QED
    BY <1>1, <1>2, <1>5, <2>1
<1>10. \A r \in Peers : Settled(e[r], Told(e[Opposite(r)].local), now)
  <2> TAKE r \in Peers
  <2>1. CASE r = p
    BY <1>8, <2>1 DEF q
  <2>2. CASE r = q
    BY <1>1, <1>9, <2>2
  <2> QED
    BY <1>1, <2>1, <2>2
<1>11. ends' \in [Peers -> Ends] /\ wires' \in [Peers -> Seq(Records)]
       /\ \A r \in Peers : Settled(ends'[r], Told(ends'[Opposite(r)].local), now')
  BY <1>4, <1>5, <1>7, <1>10
<1>12. now' \in Nat /\ now' < MaxTimestamp
  BY DEF IdleInv
<1> QED
  BY <1>11, <1>12 DEF IdleInv

-----------------------------------------------------------------------------
(* Every action                                                            *)

\* writecb
LEMMA WritableKeeps ==
  ASSUME IdleInv, NEW p \in Peers, Writable(p)
  PROVE  IdleInv'
<1> DEFINE told == Told(ends[Opposite(p)].local)
<1>1. Waiting(ends[p], told, now) /\ now \in Nat /\ wires[p] \in Seq(Records)
  BY EndView
<1>2. PICK w \in WriteDataOf(p, ends[p]) :
        ends[p].over = "no" /\ Moves(p, w.end, wires[p], w.out) /\ UNCHANGED now
  BY DEF Writable
<1>3. Settled(w.end, told, now) /\ SameTimeouts(ends[p], w.end) /\ w.out \in Seq(Records)
  BY <1>1, <1>2, WriteDataSettles
<1> QED
  BY <1>1, <1>2, <1>3, MovesKeeps

\* readcb
LEMMA ReadableKeeps ==
  ASSUME IdleInv, NEW p \in Peers, Readable(p)
  PROVE  IdleInv'
<1> DEFINE told == Told(ends[Opposite(p)].local)
<1>1. now \in Nat /\ wires[p] \in Seq(Records) /\ ends[p].over = "no" /\ UNCHANGED now
  BY EndView DEF Readable
<1>2. PICK n \in 1..Len(wires[p]) :
        LET x == AfterReading(p, n)
            rest == SubSeq(wires[p], n + 1, Len(wires[p]))
        IN  \/ x.over # "no" /\ Moves(p, x, rest, << >>)
            \/ /\ x.over = "no"
               /\ \E y \in {UpdateTimer(x), [x EXCEPT !.wev = x.held # << >>]} :
                    \E w \in WriteDataOf(p, y) : Moves(p, w.end, rest, w.out)
  BY DEF Readable
<1> DEFINE x == AfterReading(p, n)
           rest == SubSeq(wires[p], n + 1, Len(wires[p]))
<1>3. Waiting(x, told, now) /\ SameTimeouts(ends[p], x)
  BY ReadingWaits
<1>4. rest \in Seq(Records)
  BY <1>1, SubSeqProperties
<1> HIDE DEF x, rest, told
<1>5. CASE x.over # "no" /\ Moves(p, x, rest, << >>)
  <2>1. Settled(x, told, now) /\ << >> \in Seq(Records)
    BY <1>3, <1>5 DEF Settled, Timed
  <2> QED
    BY <1>1, <1>3, <1>4, <1>5, <2>1, MovesKeeps DEF told
<1>6. CASE /\ x.over = "no"
           /\ \E y \in {UpdateTimer(x), [x EXCEPT !.wev = x.held # << >>]} :
                \E w \in WriteDataOf(p, y) : Moves(p, w.end, rest, w.out)
  <2>1. PICK y \in {UpdateTimer(x), [x EXCEPT !.wev = x.held # << >>]} :
          \E w \in WriteDataOf(p, y) : Moves(p, w.end, rest, w.out)
    BY <1>6
  <2>2. PICK w \in WriteDataOf(p, y) : Moves(p, w.end, rest, w.out)
    BY <2>1
  <2>3. Waiting(y, told, now) /\ SameTimeouts(x, y) /\ y.over = "no"
    <3>1. CASE y = UpdateTimer(x)
      BY <1>1, <1>3, <1>6, <3>1, UpdateTimerSettles DEF Settled
    <3>2. CASE y = [x EXCEPT !.wev = x.held # << >>]
      <4>1. x \in Ends
        BY <1>3 DEF Waiting
      <4>2. y \in Ends
        BY <3>2, <4>1 DEF Ends
      <4>3. Alike(x, y)
        BY <3>2, <4>1 DEF Ends, Alike
      <4> QED
        BY <1>3, <1>6, <4>2, <4>3, ChangeWaits DEF Alike
    <3> QED
      BY <3>1, <3>2
  <2>4. Settled(w.end, told, now) /\ SameTimeouts(y, w.end) /\ w.out \in Seq(Records)
    BY <1>1, <2>3, WriteDataSettles
  <2>5. SameTimeouts(ends[p], w.end)
    BY <1>3, <2>3, <2>4 DEF SameTimeouts
  <2> QED
    BY <1>1, <1>4, <2>2, <2>4, <2>5, MovesKeeps DEF told
<1> QED
  BY <1>2, <1>5, <1>6 DEF x, rest

\* The socket is closed.
LEMMA SocketClosedKeeps ==
  ASSUME IdleInv, NEW p \in Peers, SocketClosed(p)
  PROVE  IdleInv'
<1> DEFINE x == Stop(ends[p], "closed")
<1>1. /\ Settled(x, Told(ends[Opposite(p)].local), now) /\ SameTimeouts(ends[p], x)
  BY EndView, StopSettles
<1>2. Moves(p, x, << >>, << >>) /\ UNCHANGED now /\ << >> \in Seq(Records)
  BY DEF SocketClosed
<1> QED
  BY <1>1, <1>2, MovesKeeps

\* timeoutcb: the connection has been idle, or the timer starts again.
LEMMA TimerFiresKeeps ==
  ASSUME IdleInv, NEW p \in Peers, TimerFires(p)
  PROVE  IdleInv'
<1> DEFINE told == Told(ends[Opposite(p)].local)
           x == ends[p]
<1>1. /\ now \in Nat /\ now < MaxTimestamp /\ MaxTimestamp \in Nat
      /\ x \in Ends /\ Waiting(x, told, now) /\ Timed(x, now) /\ wires[p] \in Seq(Records)
  BY EndView, IdleAssumption DEF IdleInv, Settled
<1>2. x.fed \/ (x.timer = now /\ x.timer # Never)
  BY DEF TimerFires
<1>3. UNCHANGED now
  BY DEF TimerFires
<1>4. CASE IdleExpiry(x) <= now
  <2>1. Moves(p, Stop(x, "idle"), wires[p], << >>)
    BY <1>4 DEF TimerFires, HandleExpiry, CcerrType, CloseRecord
  <2>2. CASE x.over = "no"
    <3>1. \E d \in {x.local, x.remote} \ {0} : now - x.last >= d
      <4>1. /\ x.idleTs = x.last /\ x.idleTs \in Nat
        BY <1>1, <2>2, EndFields DEF Waiting
      <4>2. SmallerTimeout(x) # 0 /\ SmallerTimeout(x) \in {x.local, x.remote}
        BY <1>1, <1>4, ExpiryView
      <4>3. SmallerTimeout(x) \in Nat /\ IdleExpiry(x) = x.idleTs + SmallerTimeout(x)
        BY <1>1, <1>4, <4>2, ExpiryView
      <4>4. now - x.last >= SmallerTimeout(x)
        BY <1>1, <1>4, <4>1, <4>3
      <4> QED
        BY <4>2, <4>4
    <3>2. Settled(Stop(x, "idle"), told, now) /\ SameTimeouts(x, Stop(x, "idle"))
      BY <1>1, <3>1, StopSettles
    <3>3. << >> \in Seq(Records)
      OBVIOUS
    <3> QED
      BY <1>1, <1>3, <2>1, <3>2, <3>3, MovesKeeps
  <2> QED
    BY <1>1, <1>2, <2>2 DEF Waiting
<1>5. CASE ~(IdleExpiry(x) <= now)
  <2> DEFINE y == [x EXCEPT !.wev = x.held # << >>, !.fed = FALSE,
                            !.timer = IF @ = now THEN now + x.period ELSE @]
  <2>1. Moves(p, y, wires[p], << >>)
    BY <1>5 DEF TimerFires, HandleExpiry
  <2>2. IdleExpiry(x) \in Nat /\ x.timer \in Nat /\ x.period \in Nat
    BY <1>1, ExpiryView, EndFields
  <2> DEFINE v == IF x.timer = now THEN now + x.period ELSE x.timer
  <2>3. v \in Nat /\ v >= x.timer /\ (x.timer # now => v = x.timer)
    BY <1>1, <2>2
  <2>4. y = [x EXCEPT !.wev = x.held # << >>, !.fed = FALSE, !.timer = v]
    BY <1>1 DEF Ends
  <2> HIDE DEF v
  <2>5. y \in Ends
    BY <1>1, <2>3, <2>4 DEF Ends
  <2>6. /\ y.local = x.local /\ y.remote = x.remote /\ y.heard = x.heard /\ y.over = x.over
        /\ y.idleTs = x.idleTs /\ y.last = x.last /\ y.timer = v /\ y.idleFor = x.idleFor
        /\ y.held = x.held /\ y.period = x.period
    BY <1>1, <2>3, <2>4 DEF Ends
  <2>7. IdleExpiry(y) = IdleExpiry(x)
    BY <2>6 DEF IdleExpiry, SmallerTimeout
  <2> HIDE DEF y
  <2>8. Waiting(y, told, now) /\ SameTimeouts(x, y)
    <3>1. x.over = "no"
      BY <1>1, <1>2 DEF Waiting
    <3>2. v # Never => v >= now
      BY <1>1, <2>2, <2>3 DEF Waiting, Never
    <3>3. v = Never => x.period = 0
      BY <1>1, <2>2, <2>3 DEF Waiting, Never
    <3> QED
      BY <1>1, <2>5, <2>6, <3>1, <3>2, <3>3 DEF Waiting, SameTimeouts
  <2>9. Timed(y, now)
    <3>1. SUFFICES ASSUME y.over = "no", y.held = << >>, y.timer # Never
                   PROVE  y.timer = IdleExpiry(y)
      BY DEF Timed
    <3>2. CASE x.timer = Never
      <4>1. x.period = 0
        BY <1>1, <3>2 DEF Waiting
      <4>2. v = Never
        BY <1>1, <2>2, <3>2, <4>1 DEF Never, v
      <4> QED
        BY <2>6, <3>1, <4>2
    <3>3. CASE x.timer # Never
      <4>1. x.timer = IdleExpiry(x)
        BY <1>1, <1>5, <2>6, <3>1, <3>3 DEF Timed
      <4> QED
        BY <1>1, <1>5, <2>2, <2>3, <2>6, <2>7, <4>1
    <3> QED
      BY <3>2, <3>3
  <2>10. Settled(y, told, now) /\ << >> \in Seq(Records)
    BY <2>8, <2>9 DEF Settled
  <2> QED
    BY <1>1, <1>3, <2>1, <2>8, <2>10, MovesKeeps
<1> QED
  BY <1>4, <1>5

\* dwnx_conn_write_connection_close
LEMMA WriteConnectionCloseKeeps ==
  ASSUME IdleInv, NEW p \in Peers, WriteConnectionClose(p)
  PROVE  IdleInv'
<1> DEFINE told == Told(ends[Opposite(p)].local)
           x == ends[p]
           y == [x EXCEPT !.state = "closing"]
<1>1. x \in Ends /\ Waiting(x, told, now) /\ Timed(x, now) /\ wires[p] \in Seq(Records)
  BY EndView DEF Settled
<1>2. PICK type \in {"TRANSPORT", "APPLICATION"} : Moves(p, y, wires[p], CloseRecord(type))
  BY DEF WriteConnectionClose
<1>3. UNCHANGED now /\ CloseRecord(type) \in Seq(Records)
  <2>1. "close" \in Records
    BY DEF Records
  <2>2. << >> \in Seq(Records) /\ <<"close">> \in Seq(Records)
    BY <2>1
  <2> QED
    BY <2>2 DEF WriteConnectionClose, CloseRecord
<1>4. y \in Ends
  BY <1>1 DEF Ends
<1>5. Alike(x, y) /\ y.held = x.held /\ IdleExpiry(y) = IdleExpiry(x)
  BY <1>1 DEF Ends, Alike, IdleExpiry, SmallerTimeout
<1> HIDE DEF y
<1>6. Settled(y, told, now) /\ SameTimeouts(x, y)
  BY <1>1, <1>4, <1>5, ChangeWaits DEF Settled, Timed, Alike
<1> QED
  BY <1>1, <1>2, <1>3, <1>6, MovesKeeps

\* Time goes on when no timer is due.
LEMMA TickKeeps ==
  ASSUME IdleInv, NEW t \in StartTimes, Tick(t)
  PROVE  IdleInv'
<1>1. now \in Nat /\ now' = now + 1 /\ now' < MaxTimestamp /\ UNCHANGED <<ends, wires>>
  BY DEF IdleInv, Tick
<1>2. ASSUME NEW p \in Peers
      PROVE  Settled(ends[p], Told(ends[Opposite(p)].local), now + 1)
  <2>1. ends[p].timer \in Nat /\ ends[p].idleTs \in Nat /\ Settled(ends[p], Told(ends[Opposite(p)].local), now)
    BY EndView, EndFields
  <2>2. ~ends[p].fed /\ (ends[p].timer = Never \/ ends[p].timer >= now + 1)
    BY <1>1, <2>1 DEF Tick
  <2>3. Timed(ends[p], now + 1)
    BY <2>1, <2>2 DEF Settled, Timed
  <2>4. Waiting(ends[p], Told(ends[Opposite(p)].local), now + 1)
    BY <1>1, <2>1, <2>2 DEF Settled, Waiting
  <2> QED
    BY <2>3, <2>4 DEF Settled
<1> QED
  BY <1>1, <1>2 DEF IdleInv

-----------------------------------------------------------------------------
(* The theorems                                                            *)

\* A connection that begins.
LEMMA IdleStarts ==
  ASSUME IdleInit
  PROVE  IdleInv
<1>1. now \in Nat /\ now < MaxTimestamp /\ now \in StartTimes
  BY IdleAssumption DEF IdleInit
<1>2. PICK c \in IdleChoices :
        ends = [p \in Peers |->
                  IF p = "server" THEN UpdateTimer(NewEnd(c, p, now)) ELSE NewEnd(c, p, now)]
  BY DEF IdleInit
<1>3. ASSUME NEW p \in Peers, NEW told
      PROVE  /\ Waiting(NewEnd(c, p, now), told, now) /\ Timed(NewEnd(c, p, now), now)
             /\ NewEnd(c, p, now).over = "no"
  <2> DEFINE x == NewEnd(c, p, now)
  <2>1. Lasting(c[p])
    BY IdleAssumption DEF Peers, Lasting
  <2>2. x \in Ends
    BY <1>1, <2>1 DEF Ends, NewEnd, Lasting, Never
  <2>3. /\ x.local = c[p] /\ x.remote = 0 /\ ~x.heard /\ x.over = "no" /\ x.idleTs = now
        /\ x.last = now /\ x.timer = Never /\ x.period = 0 /\ ~x.fed
    BY DEF NewEnd
  <2> HIDE DEF x
  <2> QED
    BY <1>1, <2>1, <2>2, <2>3 DEF Waiting, Timed, x
<1>4. ASSUME NEW p \in Peers
      PROVE  /\ ends[p] \in Ends /\ Settled(ends[p], Told(ends[Opposite(p)].local), now)
  <2> DEFINE told == Told(ends[Opposite(p)].local)
             x == NewEnd(c, p, now)
  <2>1. Waiting(x, told, now) /\ Timed(x, now) /\ x.over = "no"
    BY <1>3
  <2>2. ends[p] = IF p = "server" THEN UpdateTimer(x) ELSE x
    BY <1>2
  <2> HIDE DEF x, told
  <2>3. Settled(ends[p], told, now)
    BY <1>1, <2>1, <2>2, UpdateTimerSettles DEF Settled
  <2> QED
    BY <2>3 DEF Settled, Waiting, told
<1>5. ends \in [Peers -> Ends]
  BY <1>2, <1>4
<1>6. wires \in [Peers -> Seq(Records)]
  <2>1. << >> \in Seq(Records)
    OBVIOUS
  <2> QED
    BY <2>1 DEF IdleInit
<1> QED
  BY <1>1, <1>4, <1>5, <1>6 DEF IdleInv

\* The invariant of both ends.
THEOREM IdleInvariant == IdleSpec => []IdleInv
<1>1. IdleInv /\ [IdleNext]_idleVars => IdleInv'
  <2> SUFFICES ASSUME IdleInv, [IdleNext]_idleVars
               PROVE  IdleInv'
    OBVIOUS
  <2>1. ASSUME NEW p \in Peers, Writable(p)
        PROVE  IdleInv'
    BY <2>1, WritableKeeps
  <2>2. ASSUME NEW p \in Peers, Readable(p)
        PROVE  IdleInv'
    BY <2>2, ReadableKeeps
  <2>3. ASSUME NEW p \in Peers, SocketClosed(p)
        PROVE  IdleInv'
    BY <2>3, SocketClosedKeeps
  <2>4. ASSUME NEW p \in Peers, TimerFires(p)
        PROVE  IdleInv'
    BY <2>4, TimerFiresKeeps
  <2>5. ASSUME NEW p \in Peers, WriteConnectionClose(p)
        PROVE  IdleInv'
    BY <2>5, WriteConnectionCloseKeeps
  <2>6. ASSUME NEW t \in StartTimes, Tick(t)
        PROVE  IdleInv'
    BY <2>6, TickKeeps
  <2>7. CASE UNCHANGED idleVars
    BY <2>7 DEF idleVars, IdleInv
  <2> QED
    BY <2>1, <2>2, <2>3, <2>4, <2>5, <2>6, <2>7 DEF IdleNext
<1> QED
  BY <1>1, IdleStarts, PTL DEF IdleSpec

\* An end that is silent for the smallest timeout that it was promised, and no
\* less, is over, whatever the timeouts are (dwnx_conn_get_idle_expiry,
\* update_timer, timeoutcb).
THEOREM SilenceEnds == IdleSpec => []IdleTimesOut
<1>1. IdleInv => IdleTimesOut
  <2> SUFFICES ASSUME IdleInv, NEW p \in Peers
               PROVE  /\ ends[p].over = "idle" => \E t \in Promised(p) : ends[p].idleFor >= t
                      /\ \A t \in Promised(p) :
                           ends[p].over = "no" /\ ends[p].held = << >> /\ ends[p].timer # Never
                             => now - ends[p].last <= t \/ ends[p].fed
    BY DEF IdleTimesOut
  <2> DEFINE x == ends[p]
             told == Told(ends[Opposite(p)].local)
  <2>1. /\ now \in Nat /\ x \in Ends /\ Waiting(x, told, now) /\ Timed(x, now)
        /\ now < MaxTimestamp /\ MaxTimestamp \in Nat
    BY EndView, IdleAssumption DEF Settled, IdleInv
  <2>2. Promised(p) = {x.local, x.remote} \ {0}
    BY <2>1 DEF Promised, Waiting
  <2>3. x.over = "idle" => \E t \in Promised(p) : x.idleFor >= t
    BY <2>1, <2>2 DEF Waiting
  <2>4. ASSUME NEW t \in Promised(p), x.over = "no", x.held = << >>, x.timer # Never
        PROVE  now - x.last <= t \/ x.fed
    <3>1. /\ x.local \in Nat /\ x.remote \in Nat /\ x.last \in Nat /\ x.timer \in Nat
          /\ t \in Nat \ {0} /\ t \in {x.local, x.remote}
      BY <2>1, <2>2, EndFields
    <3>2. x.idleTs = x.last
      BY <2>1, <2>4 DEF Waiting
    <3>3. IdleExpiry(x) \in Nat /\ IdleExpiry(x) <= x.last + t
      BY <2>1, <3>1, <3>2, ExpiryView
    <3>4. x.timer >= now
      BY <2>1, <2>4 DEF Waiting
    <3>5. x.timer = IdleExpiry(x) \/ x.fed
      BY <2>1, <2>4 DEF Timed
    <3> QED
      BY <2>1, <3>1, <3>3, <3>4, <3>5
  <2> QED
    BY <2>3, <2>4
<1> QED
  BY <1>1, IdleInvariant, PTL

\* Both ends, once each has heard the other, go by timeouts that are both none
\* or differ by less than a millisecond (dwnx_conn_get_idle_expiry,
\* dwnx_transport_params_encode).
THEOREM EndsAgreeOnIdle == IdleSpec => []TimeoutsAgree
<1>1. IdleInv => TimeoutsAgree
  <2> SUFFICES ASSUME IdleInv, \A p \in Peers : ends[p].heard
               PROVE  LET a == SmallerTimeout(ends["client"])
                          b == SmallerTimeout(ends["server"])
                      IN  /\ a = 0 <=> b = 0
                          /\ a - b \in (1 - NsPerMs)..(NsPerMs - 1)
    BY DEF TimeoutsAgree
  <2> DEFINE lc == ends["client"].local
             ls == ends["server"].local
             rc == ends["client"].remote
             rs == ends["server"].remote
  <2>1. Opposite("client") = "server" /\ Opposite("server") = "client"
        /\ "client" \in Peers /\ "server" \in Peers
    BY TwoPeers DEF Peers
  <2>2. Lasting(lc) /\ Lasting(ls) /\ rc = Told(ls) /\ rs = Told(lc)
    BY <2>1, EndView DEF Waiting
  <2>3. /\ rc \in Nat /\ rc <= ls /\ ls - rc < NsPerMs /\ (rc = 0 <=> ls = 0)
        /\ rs \in Nat /\ rs <= lc /\ lc - rs < NsPerMs /\ (rs = 0 <=> lc = 0)
    BY <2>2, ToldView
  <2>4. lc \in Nat /\ ls \in Nat /\ NsPerMs \in Nat \ {0}
    BY <2>2, IdleAssumption DEF Lasting
  <2>5. /\ SmallerTimeout(ends["client"]) = IF rc = 0 \/ (lc # 0 /\ lc < rc) THEN lc ELSE rc
        /\ SmallerTimeout(ends["server"]) = IF rs = 0 \/ (ls # 0 /\ ls < rs) THEN ls ELSE rs
    BY DEF SmallerTimeout
  <2> HIDE DEF lc, ls, rc, rs
  <2> QED
    BY <2>3, <2>4, <2>5
<1> QED
  BY <1>1, IdleInvariant, PTL

-----------------------------------------------------------------------------
(* The heap of dwnx_pq                                                     *)

\* The indices of the array, and what is in it.
Pos(p) == 0..(Len(p.q) - 1)
Holds(p) == {At(p, i) : i \in Pos(p)}

\* An array of entries that know where they are.
Indexed(p) ==
  /\ p \in [q : Seq(Entries), index : [Entries -> Int]]
  /\ \A i \in Pos(p) : p.index[At(p, i)] = i

\* The heap s holds what p does, and the other entries were left alone.
SameEntries(p, s) ==
  /\ Indexed(s) /\ Len(s.q) = Len(p.q) /\ Holds(s) = Holds(p)
  /\ \A a \in Entries \ Holds(p) : s.index[a] = p.index[a]

\* The entry at i is not before the one above it; nor are the entries below i
\* before the one above i; all are in order; all but the one at i and those
\* above it; all but those right below i.
Ordered(p, i) == PqKey[At(p, Parent(i))] <= PqKey[At(p, i)]
Skips(p, i) ==
  i > 0 => \A j \in Pos(p) \ {0} : Parent(j) = i => PqKey[At(p, Parent(i))] <= PqKey[At(p, j)]
IsHeap(p) == \A j \in Pos(p) \ {0} : Ordered(p, j)
HeapBut(p, i) == Skips(p, i) /\ \A j \in Pos(p) \ {0, i} : Ordered(p, j)
HeapAbove(p, i) == Skips(p, i) /\ \A j \in Pos(p) \ {0} : Parent(j) # i => Ordered(p, j)

\* The index above is a smaller one, with two indices below it.
LEMMA ParentIs ==
  ASSUME NEW i \in Nat, i > 0
  PROVE  Parent(i) \in Nat /\ Parent(i) < i /\ (i = 2 * Parent(i) + 1 \/ i = 2 * Parent(i) + 2)
BY DEF Parent

\* The entries of an array have keys.
LEMMA Keys ==
  ASSUME NEW p, Indexed(p), NEW i \in Pos(p)
  PROVE  /\ At(p, i) \in Entries /\ PqKey[At(p, i)] \in Int /\ At(p, i) \in Holds(p)
         /\ i \in Nat /\ Len(p.q) \in Nat /\ i < Len(p.q)
<1>1. p.q \in Seq(Entries) /\ i + 1 \in 1..Len(p.q) /\ Len(p.q) \in Nat
  BY DEF Indexed, Pos
<1>2. At(p, i) \in Entries
  BY <1>1 DEF At
<1> QED
  BY <1>1, <1>2, PqAssumption DEF Pos, Holds

\* Each entry is in the array once.
LEMMA AtOnce ==
  ASSUME NEW p, Indexed(p), NEW i \in Pos(p), NEW j \in Pos(p), At(p, i) = At(p, j)
  PROVE  i = j
BY DEF Indexed

\* s is p with a at the index i.
StoredAt(p, i, a, s) ==
  /\ s \in [q : Seq(Entries), index : [Entries -> Int]] /\ Len(s.q) = Len(p.q)
  /\ \A k \in Pos(p) : At(s, k) = IF k = i THEN a ELSE At(p, k)
  /\ \A c \in Entries : s.index[c] = IF c = a THEN i ELSE p.index[c]

\* That is what Store does.
LEMMA StoreIs ==
  ASSUME NEW p \in [q : Seq(Entries), index : [Entries -> Int]], NEW i \in Pos(p),
         NEW a \in Entries
  PROVE  StoredAt(p, i, a, Store(p, i, a))
<1> DEFINE u == [p.q EXCEPT ![i + 1] = a]
           v == [p.index EXCEPT ![a] = i]
           s == Store(p, i, a)
<1>1. p.q \in Seq(Entries) /\ p.index \in [Entries -> Int] /\ Len(p.q) \in Nat
      /\ i + 1 \in 1..Len(p.q) /\ i \in Int
  BY DEF Pos
<1>2. s = [q |-> u, index |-> v]
  <2>1. p = [q |-> p.q, index |-> p.index]
    OBVIOUS
  <2>2. s = [[p EXCEPT !.q = u] EXCEPT !.index = v]
    BY <2>1 DEF Store
  <2> HIDE DEF u, v, s
  <2> QED
    BY <2>1, <2>2
<1>3. u \in Seq(Entries) /\ Len(u) = Len(p.q)
      /\ \A k \in 1..Len(p.q) : u[k] = IF k = i + 1 THEN a ELSE p.q[k]
  BY <1>1
<1>4. v \in [Entries -> Int] /\ \A c \in Entries : v[c] = IF c = a THEN i ELSE p.index[c]
  BY <1>1
<1> HIDE DEF u, v, s
<1>5. s \in [q : Seq(Entries), index : [Entries -> Int]] /\ s.q = u /\ s.index = v
  BY <1>2, <1>3, <1>4
<1>6. \A k \in Pos(p) : At(s, k) = IF k = i THEN a ELSE At(p, k)
  <2>1. SUFFICES ASSUME NEW k \in Pos(p)
                 PROVE  At(s, k) = IF k = i THEN a ELSE At(p, k)
    OBVIOUS
  <2>2. k \in Int /\ k + 1 \in 1..Len(p.q) /\ (k + 1 = i + 1 <=> k = i)
    BY <1>1 DEF Pos
  <2>3. u[k + 1] = IF k + 1 = i + 1 THEN a ELSE p.q[k + 1]
    BY <1>3, <2>2
  <2> QED
    BY <1>5, <2>2, <2>3, Zenon DEF At
<1>7. StoredAt(p, i, a, s)
  BY <1>3, <1>4, <1>5, <1>6 DEF StoredAt
<1> QED
  BY <1>7 DEF s

\* What Swap does.
LEMMA SwapIs ==
  ASSUME NEW p, Indexed(p), NEW i \in Pos(p), NEW j \in Pos(p)
  PROVE  /\ SameEntries(p, Swap(p, i, j))
         /\ \A k \in Pos(p) : At(Swap(p, i, j), k) = IF k = i THEN At(p, j)
                                                     ELSE IF k = j THEN At(p, i) ELSE At(p, k)
<1> DEFINE a == At(p, i)
           b == At(p, j)
           s == Store(p, i, b)
           t == Store(s, j, a)
<1>1. a \in Entries /\ b \in Entries /\ p \in [q : Seq(Entries), index : [Entries -> Int]]
  BY Keys DEF Indexed
<1>2. StoredAt(p, i, b, s)
  <2> HIDE DEF a, b
  <2> QED
    BY <1>1, StoreIs
<1>3. StoredAt(s, j, a, t)
  <2>1. j \in Pos(s) /\ s \in [q : Seq(Entries), index : [Entries -> Int]]
    <3> HIDE DEF s
    <3> QED
      BY <1>2 DEF StoredAt, Pos
  <2> HIDE DEF a, s
  <2> QED
    BY <1>1, <2>1, StoreIs
<1>4. t = Swap(p, i, j)
  BY DEF Swap
<1> HIDE DEF t, s
<1>5. Pos(t) = Pos(p) /\ Pos(s) = Pos(p) /\ Len(t.q) = Len(p.q)
  BY <1>2, <1>3 DEF Pos, StoredAt
<1>6. \A k \in Pos(p) : At(t, k) = IF k = i THEN At(p, j)
                                   ELSE IF k = j THEN At(p, i) ELSE At(p, k)
  BY <1>2, <1>3, <1>5 DEF StoredAt
<1>7. \A c \in Entries : t.index[c] = IF c = a THEN j ELSE IF c = b THEN i ELSE p.index[c]
  BY <1>2, <1>3 DEF StoredAt
<1>8. Holds(t) = Holds(p)
  BY <1>5, <1>6 DEF Holds
<1>9. \A k \in Pos(t) : t.index[At(t, k)] = k
  <2>1. SUFFICES ASSUME NEW k \in Pos(p)
                 PROVE  t.index[At(t, k)] = k
    BY <1>5
  <2>2. At(p, k) \in Entries /\ p.index[At(p, k)] = k /\ p.index \in [Entries -> Int]
        /\ p.index[a] = i /\ p.index[b] = j
    BY <1>1, Keys DEF Indexed
  <2>3. CASE k = i
    BY <1>1, <1>6, <1>7, <2>2, <2>3
  <2>4. CASE k # i /\ k = j
    BY <1>1, <1>6, <1>7, <2>2, <2>4
  <2>5. CASE k # i /\ k # j
    <3>1. At(t, k) = At(p, k) /\ At(p, k) # a /\ At(p, k) # b
      BY <1>6, <2>2, <2>5
    <3> HIDE DEF a, b
    <3> QED
      BY <1>1, <1>7, <2>2, <3>1
  <2> QED
    BY <2>3, <2>4, <2>5
<1>10. \A c \in Entries \ Holds(p) : t.index[c] = p.index[c]
  <2>1. a \in Holds(p) /\ b \in Holds(p)
    BY Keys
  <2> HIDE DEF a, b
  <2> QED
    BY <1>1, <1>7, <2>1
<1> QED
  BY <1>3, <1>4, <1>5, <1>6, <1>8, <1>9, <1>10 DEF SameEntries, Indexed, StoredAt

\* SameEntries is transitive.
LEMMA SameTwice ==
  ASSUME NEW p, NEW s, NEW t, SameEntries(p, s), SameEntries(s, t)
  PROVE  SameEntries(p, t)
BY DEF SameEntries

-----------------------------------------------------------------------------
(* The turns of the loops                                                  *)

LEMMA UpTurn ==
  ASSUME NEW t, Indexed(t.p), t.i \in Pos(t.p), HeapBut(t.p, t.i)
  PROVE  /\ SameEntries(t.p, TurnUp(t).p) /\ TurnUp(t).i \in Pos(t.p)
         /\ HeapBut(TurnUp(t).p, TurnUp(t).i)
         /\ IF IsHeap(t.p) THEN TurnUp(t) = t
            ELSE TurnUp(t).i < t.i
<1> DEFINE p == t.p
           i == t.i
           o == Parent(i)
<1>1. Indexed(p) /\ i \in Pos(p) /\ HeapBut(p, i) /\ i \in Nat
  BY DEF Pos
<1>2. CASE ~(i > 0 /\ Less(At(p, i), At(p, o)))
  <2>1. TurnUp(t) = t
    BY <1>2 DEF TurnUp, Turn, Above
  <2>2. i > 0 => Ordered(p, i)
    <3>1. i > 0 => o \in Pos(p)
      BY <1>1, ParentIs DEF Pos
    <3> QED
      BY <1>1, <1>2, <3>1, Keys DEF Ordered, Less
  <2>3. IsHeap(p)
    BY <1>1, <2>2 DEF IsHeap, HeapBut, Pos
  <2> QED
    BY <1>1, <2>1, <2>3 DEF SameEntries
<1>3. CASE i > 0 /\ Less(At(p, i), At(p, o))
  <2> DEFINE s == Swap(p, o, i)
  <2>1. o \in Nat /\ o < i /\ o \in Pos(p)
    BY <1>1, <1>3, ParentIs DEF Pos
  <2>2. TurnUp(t).p = s /\ TurnUp(t).i = o
    BY <1>3, <2>1 DEF TurnUp, Turn, Above
  <2>3. /\ SameEntries(p, s)
        /\ \A k \in Pos(p) : At(s, k) = IF k = o THEN At(p, i)
                                        ELSE IF k = i THEN At(p, o) ELSE At(p, k)
    BY <1>1, <2>1, SwapIs
  <2>4. ~IsHeap(p)
    BY <1>1, <1>3, <2>1, Keys DEF IsHeap, Ordered, Less
  <2>16. o = Parent(i)
    OBVIOUS
  <2> HIDE DEF s, p, i, o
  <2>5. Pos(s) = Pos(p) /\ Indexed(s)
    BY <2>3 DEF SameEntries, Pos
  <2>6. PqKey[At(p, i)] < PqKey[At(p, o)] /\ PqKey[At(p, i)] \in Int /\ PqKey[At(p, o)] \in Int
    BY <1>1, <1>3, <2>1, Keys DEF Less
  <2>7. o > 0 => /\ Parent(o) \in Pos(p) /\ Parent(o) \in Nat /\ Parent(o) < o
                 /\ PqKey[At(p, Parent(o))] <= PqKey[At(p, o)] /\ PqKey[At(p, Parent(o))] \in Int
    <3>1. SUFFICES ASSUME o > 0
                   PROVE  /\ Parent(o) \in Pos(p) /\ Parent(o) \in Nat /\ Parent(o) < o
                          /\ PqKey[At(p, Parent(o))] <= PqKey[At(p, o)]
                          /\ PqKey[At(p, Parent(o))] \in Int
      OBVIOUS
    <3>2. Parent(o) \in Pos(p) /\ Parent(o) \in Nat /\ Parent(o) < o
      BY <2>1, <3>1, ParentIs DEF Pos
    <3>3. Ordered(p, o)
      BY <1>1, <2>1, <3>1 DEF HeapBut
    <3> QED
      BY <1>1, <3>2, <3>3, Keys DEF Ordered
  <2>8. \A j \in Pos(p) \ {0} : /\ j \in Nat /\ Parent(j) \in Pos(p) /\ Parent(j) < j
                               /\ PqKey[At(p, Parent(j))] \in Int /\ PqKey[At(p, j)] \in Int
    <3>1. \A j \in Pos(p) \ {0} : j \in Nat /\ Parent(j) \in Pos(p) /\ Parent(j) < j
      BY ParentIs DEF Pos
    <3> QED
      BY <1>1, <3>1, Keys
  <2>9. \A j \in Pos(p) : PqKey[At(s, j)] = IF j = o THEN PqKey[At(p, i)]
                                            ELSE IF j = i THEN PqKey[At(p, o)]
                                            ELSE PqKey[At(p, j)]
    BY <2>3
  <2>10. \A j \in Pos(p) \ {0, i} : PqKey[At(p, Parent(j))] <= PqKey[At(p, j)]
    BY <1>1 DEF HeapBut, Ordered
  <2>11. \A j \in Pos(p) \ {0} : Parent(j) = i => PqKey[At(p, o)] <= PqKey[At(p, j)]
    BY <1>1, <1>3, <2>16 DEF HeapBut, Skips
  <2>12. \A j \in Pos(s) \ {0, o} : Ordered(s, j)
    <3>1. SUFFICES ASSUME NEW j \in Pos(p) \ {0, o}
                   PROVE  PqKey[At(s, Parent(j))] <= PqKey[At(s, j)]
      BY <2>5 DEF Ordered
    <3>2. CASE j = i
      BY <2>1, <2>6, <2>9, <2>16, <1>1, <3>2
    <3>3. CASE j # i /\ Parent(j) = o
      BY <2>1, <2>6, <2>8, <2>9, <2>10, <3>3
    <3>4. CASE j # i /\ Parent(j) = i
      BY <2>1, <2>6, <2>8, <2>9, <2>11, <3>4
    <3>5. CASE j # i /\ Parent(j) # i /\ Parent(j) # o
      BY <2>8, <2>9, <2>10, <3>5
    <3> QED
      BY <3>2, <3>3, <3>4, <3>5
  <2>13. Skips(s, o)
    <3>1. SUFFICES ASSUME o > 0, NEW j \in Pos(p) \ {0}, Parent(j) = o
                   PROVE  PqKey[At(s, Parent(o))] <= PqKey[At(s, j)]
      BY <2>5 DEF Skips
    <3>2. PqKey[At(s, Parent(o))] = PqKey[At(p, Parent(o))]
      <4>1. Parent(o) \in Pos(p) /\ Parent(o) # o /\ Parent(o) # i
        BY <1>1, <2>1, <2>7, <3>1
      <4> QED
        BY <2>9, <4>1
    <3>3. CASE j = i
      BY <2>1, <2>7, <2>9, <3>1, <3>2, <3>3
    <3>4. CASE j # i
      <4>1. PqKey[At(s, j)] = PqKey[At(p, j)] /\ PqKey[At(p, o)] <= PqKey[At(p, j)]
        BY <2>1, <2>8, <2>9, <2>10, <3>1, <3>4
      <4> QED
        BY <2>6, <2>7, <2>8, <3>1, <3>2, <4>1
    <3> QED
      BY <3>3, <3>4
  <2>14. HeapBut(s, o)
    BY <2>12, <2>13 DEF HeapBut
  <2>15. p = t.p /\ i = t.i
    BY DEF p, i
  <2> QED
    BY <2>1, <2>2, <2>3, <2>4, <2>14, <2>15
<1> QED
  BY <1>2, <1>3
\* The smaller of two entries, of which the first need not be there.
LEMMA SmallerIs ==
  ASSUME NEW p, Indexed(p), NEW j \in Nat, NEW k \in Pos(p)
  PROVE  LET m == Smaller(p, j, k) IN
         /\ m \in Pos(p) /\ m \in {j, k}
         /\ PqKey[At(p, m)] <= PqKey[At(p, k)] /\ (m # k => PqKey[At(p, m)] < PqKey[At(p, k)])
         /\ j \in Pos(p) => PqKey[At(p, m)] <= PqKey[At(p, j)]
<1>1. Len(p.q) \in Nat /\ (j < Len(p.q) <=> j \in Pos(p))
  BY Keys DEF Pos
<1>2. PqKey[At(p, k)] \in Int /\ (j \in Pos(p) => PqKey[At(p, j)] \in Int)
  BY Keys
<1> QED
  BY <1>1, <1>2 DEF Smaller, Less

\* The smallest of an entry and those right below it.
LEMMA UnderIs ==
  ASSUME NEW p, Indexed(p), NEW i \in Pos(p)
  PROVE  LET m == Under(p, i) IN
         /\ m \in Pos(p) /\ PqKey[At(p, m)] <= PqKey[At(p, i)]
         /\ m # i => m > i /\ Parent(m) = i /\ PqKey[At(p, m)] < PqKey[At(p, i)]
         /\ \A j \in Pos(p) \ {0} : Parent(j) = i => PqKey[At(p, m)] <= PqKey[At(p, j)]
<1> DEFINE n == Smaller(p, 2 * i + 1, i)
           m == Smaller(p, 2 * i + 2, n)
<1>1. i \in Nat /\ PqKey[At(p, i)] \in Int
  BY Keys
<1>2. /\ n \in Pos(p) /\ n \in {2 * i + 1, i}
      /\ PqKey[At(p, n)] <= PqKey[At(p, i)] /\ (n # i => PqKey[At(p, n)] < PqKey[At(p, i)])
      /\ 2 * i + 1 \in Pos(p) => PqKey[At(p, n)] <= PqKey[At(p, 2 * i + 1)]
  <2>1. 2 * i + 1 \in Nat
    BY <1>1
  <2> QED
    BY <2>1, SmallerIs
<1>3. /\ m \in Pos(p) /\ m \in {2 * i + 2, n}
      /\ PqKey[At(p, m)] <= PqKey[At(p, n)] /\ (m # n => PqKey[At(p, m)] < PqKey[At(p, n)])
      /\ 2 * i + 2 \in Pos(p) => PqKey[At(p, m)] <= PqKey[At(p, 2 * i + 2)]
  <2>1. 2 * i + 2 \in Nat
    BY <1>1
  <2> HIDE DEF n
  <2> QED
    BY <1>2, <2>1, SmallerIs
<1>4. m = Under(p, i)
  BY DEF Under
<1> HIDE DEF m, n
<1>5. /\ PqKey[At(p, m)] \in Int /\ PqKey[At(p, n)] \in Int
      /\ \A j \in Pos(p) : PqKey[At(p, j)] \in Int
  BY <1>2, <1>3, Keys
<1>6. m # i => m > i /\ Parent(m) = i /\ PqKey[At(p, m)] < PqKey[At(p, i)]
  <2>1. Parent(2 * i + 1) = i /\ Parent(2 * i + 2) = i
    BY <1>1 DEF Parent
  <2> QED
    BY <1>1, <1>2, <1>3, <1>5, <2>1
<1>7. \A j \in Pos(p) \ {0} : Parent(j) = i => PqKey[At(p, m)] <= PqKey[At(p, j)]
  <2>1. SUFFICES ASSUME NEW j \in Pos(p) \ {0}, Parent(j) = i
                 PROVE  PqKey[At(p, m)] <= PqKey[At(p, j)]
    OBVIOUS
  <2>2. j = 2 * i + 1 \/ j = 2 * i + 2
    <3>1. j \in Nat /\ j > 0
      BY <2>1, Keys
    <3> QED
      BY <2>1, <3>1, ParentIs
  <2>3. j \in Pos(p) /\ PqKey[At(p, j)] \in Int
    BY <1>5
  <2> QED
    BY <1>2, <1>3, <1>5, <2>2, <2>3
<1> QED
  BY <1>1, <1>2, <1>3, <1>4, <1>5, <1>6, <1>7

LEMMA DownTurn ==
  ASSUME NEW t, Indexed(t.p), t.i \in Pos(t.p), HeapAbove(t.p, t.i)
  PROVE  /\ SameEntries(t.p, TurnDown(t).p) /\ TurnDown(t).i \in Pos(t.p)
         /\ HeapAbove(TurnDown(t).p, TurnDown(t).i)
         /\ IF IsHeap(t.p) THEN TurnDown(t) = t ELSE TurnDown(t).i > t.i
<1> DEFINE p == t.p
           i == t.i
           m == Under(p, i)
<1>1. Indexed(p) /\ i \in Pos(p) /\ HeapAbove(p, i) /\ i \in Nat
  BY DEF Pos
<1>2. /\ m \in Pos(p) /\ PqKey[At(p, m)] <= PqKey[At(p, i)]
      /\ m # i => m > i /\ Parent(m) = i /\ PqKey[At(p, m)] < PqKey[At(p, i)]
      /\ \A j \in Pos(p) \ {0} : Parent(j) = i => PqKey[At(p, m)] <= PqKey[At(p, j)]
  <2> HIDE DEF p, i
  <2> QED
    BY <1>1, UnderIs
<1>3. CASE m = i
  <2>1. TurnDown(t) = t
    BY <1>3 DEF TurnDown, Turn
  <2>2. IsHeap(p)
    BY <1>1, <1>2, <1>3 DEF IsHeap, HeapAbove, Ordered
  <2>3. SameEntries(t.p, t.p)
    BY <1>1 DEF SameEntries
  <2>4. IsHeap(t.p)
    BY <2>2
  <2> QED
    BY <2>1, <2>3, <2>4
<1>4. CASE m # i
  <2> DEFINE s == Swap(p, m, i)
  <2>1. TurnDown(t).p = s /\ TurnDown(t).i = m
    BY <1>4 DEF TurnDown, Turn
  <2> HIDE DEF m
  <2>2. /\ SameEntries(p, s)
        /\ \A k \in Pos(p) : At(s, k) = IF k = m THEN At(p, i)
                                        ELSE IF k = i THEN At(p, m) ELSE At(p, k)
    <3> HIDE DEF p, i
    <3> QED
      BY <1>1, <1>2, SwapIs
  <2>3. p = t.p /\ i = t.i
    OBVIOUS
  <2> HIDE DEF s, p, i
  <2>4. Pos(s) = Pos(p) /\ Indexed(s)
    BY <2>2 DEF SameEntries, Pos
  <2>5. /\ m \in Nat /\ m > i /\ Parent(m) = i /\ m \in Pos(p)
        /\ PqKey[At(p, m)] \in Int /\ PqKey[At(p, i)] \in Int
        /\ PqKey[At(p, m)] < PqKey[At(p, i)]
    BY <1>1, <1>2, <1>4, Keys
  <2>6. ~IsHeap(p)
    BY <1>1, <2>5 DEF IsHeap, Ordered
  <2>7. \A j \in Pos(p) \ {0} : /\ j \in Nat /\ Parent(j) \in Pos(p) /\ Parent(j) < j
                               /\ Parent(j) \in Nat
                               /\ PqKey[At(p, Parent(j))] \in Int /\ PqKey[At(p, j)] \in Int
    <3>1. \A j \in Pos(p) \ {0} : /\ j \in Nat /\ Parent(j) \in Pos(p) /\ Parent(j) < j
                                  /\ Parent(j) \in Nat
      BY ParentIs DEF Pos
    <3> QED
      BY <1>1, <3>1, Keys
  <2>8. \A j \in Pos(p) : PqKey[At(s, j)] = IF j = m THEN PqKey[At(p, i)]
                                            ELSE IF j = i THEN PqKey[At(p, m)]
                                            ELSE PqKey[At(p, j)]
    BY <2>2
  <2>9. \A j \in Pos(p) \ {0} : Parent(j) # i => PqKey[At(p, Parent(j))] <= PqKey[At(p, j)]
    BY <1>1 DEF HeapAbove, Ordered
  <2>10. \A j \in Pos(p) \ {0} :
           i > 0 /\ Parent(j) = i => PqKey[At(p, Parent(i))] <= PqKey[At(p, j)]
    BY <1>1 DEF HeapAbove, Skips
  <2>11. \A j \in Pos(s) \ {0} : Parent(j) # m => Ordered(s, j)
    <3>1. SUFFICES ASSUME NEW j \in Pos(p) \ {0}, Parent(j) # m
                   PROVE  PqKey[At(s, Parent(j))] <= PqKey[At(s, j)]
      BY <2>4 DEF Ordered
    <3>2. CASE j = m
      BY <1>1, <2>5, <2>8, <3>2
    <3>3. CASE j # m /\ Parent(j) = i
      BY <1>1, <1>2, <2>5, <2>7, <2>8, <3>3
    <3>4. CASE j = i
      <4>1. PqKey[At(p, Parent(i))] <= PqKey[At(p, m)]
        BY <1>1, <2>5, <2>10, <3>4
      <4> QED
        BY <1>1, <2>5, <2>7, <2>8, <3>4, <4>1, <3>1
    <3>5. CASE j # m /\ j # i /\ Parent(j) # i
      BY <2>7, <2>8, <2>9, <3>1, <3>5
    <3> QED
      BY <3>2, <3>3, <3>4, <3>5
  <2>12. Skips(s, m)
    <3>1. SUFFICES ASSUME NEW j \in Pos(p) \ {0}, Parent(j) = m
                   PROVE  PqKey[At(s, Parent(m))] <= PqKey[At(s, j)]
      BY <2>4 DEF Skips
    <3>2. PqKey[At(s, Parent(m))] = PqKey[At(p, m)]
      BY <1>1, <2>5, <2>8
    <3>3. PqKey[At(s, j)] = PqKey[At(p, j)] /\ PqKey[At(p, m)] <= PqKey[At(p, j)]
      BY <1>1, <2>5, <2>7, <2>8, <2>9, <3>1
    <3> QED
      BY <3>2, <3>3
  <2> QED
    BY <2>1, <2>2, <2>3, <2>5, <2>6, <2>11, <2>12 DEF HeapAbove
<1> QED
  BY <1>3, <1>4

-----------------------------------------------------------------------------
(* The loops                                                               *)

\* A set that holds 0 and, up to n, the next of each.
LEMMA UpTo ==
  ASSUME NEW n \in Nat, NEW X, 0 \in X, \A k \in 0..(n - 1) : k \in X => k + 1 \in X
  PROVE  \A k \in 0..n : k \in X
<1> DEFINE Y == {k \in Nat : k <= n => k \in X}
<1>1. 0 \in Y
  OBVIOUS
<1>2. ASSUME NEW k \in Y
      PROVE  k + 1 \in Y
  OBVIOUS
<1>3. Y = Nat
  <2> HIDE DEF Y
  <2>1. Y \subseteq Nat
    BY DEF Y
  <2> QED
    BY <1>1, <1>2, <2>1, SetInduction
<1> QED
  BY <1>3

\* g[k] is what the k-th application of f makes of s.
Iterates(S, f, s, n, g) ==
  g \in [0..n -> S] /\ g[0] = s /\ \A k \in 1..n : g[k] = f[g[k - 1]]

LEMMA Iterated ==
  ASSUME NEW S, NEW f, f \in [S -> S], NEW s \in S, NEW n \in Nat
  PROVE  \E g : Iterates(S, f, s, n, g)
<1> DEFINE Up(m, g) == g[0] = s /\ \A k \in 1..m : g[k] = f[g[k - 1]]
           X == {m \in Nat : \E g \in [0..m -> S] : Up(m, g)}
<1>1. 0 \in X
  <2>1. [k \in 0..0 |-> s] \in [0..0 -> S] /\ Up(0, [k \in 0..0 |-> s])
    OBVIOUS
  <2> QED
    BY <2>1
<1>2. ASSUME NEW m \in X
      PROVE  m + 1 \in X
  <2>1. PICK g \in [0..m -> S] : Up(m, g)
    OBVIOUS
  <2> DEFINE h == [k \in 0..(m + 1) |-> IF k = m + 1 THEN f[g[m]] ELSE g[k]]
  <2>2. h \in [0..(m + 1) -> S]
    OBVIOUS
  <2>3. Up(m + 1, h)
    BY <2>1
  <2>4. m + 1 \in Nat
    OBVIOUS
  <2> HIDE DEF h, Up
  <2> QED
    BY <2>2, <2>3, <2>4
<1>3. X = Nat
  <2> HIDE DEF X
  <2>1. X \subseteq Nat
    BY DEF X
  <2> QED
    BY <1>1, <1>2, <2>1, SetInduction
<1>4. n \in X
  BY <1>3
<1> QED
  BY <1>4 DEF Iterates

\* What the loops start from and go through: heaps of p's entries.
Loops(p) == {t \in [p : [q : Seq(Entries), index : [Entries -> Int]], i : Nat] :
               SameEntries(p, t.p) /\ t.i \in Pos(p)}

LEMMA UpLoop ==
  ASSUME NEW p, Indexed(p), NEW i \in Pos(p), HeapBut(p, i)
  PROVE  SameEntries(p, BubbleUp(p, i)) /\ IsHeap(BubbleUp(p, i))
<1> DEFINE n == Len(p.q)
           s == [p |-> p, i |-> i]
           S == {t \in Loops(p) : HeapBut(t.p, t.i)}
           f == [t \in S |-> TurnUp(t)]
           Is(g) == g = [k \in 0..n |-> IF k = 0 THEN s ELSE TurnUp(g[k - 1])]
           h == CHOOSE g : Is(g)
<1>1. n \in Nat /\ Pos(p) = 0..(n - 1) /\ i \in Nat /\ i < n
  BY Keys DEF Pos
<1>2. s \in S
  BY <1>1 DEF Loops, SameEntries, Indexed
<1>3. ASSUME NEW t \in S
      PROVE  /\ TurnUp(t) \in S
             /\ IF IsHeap(t.p) THEN TurnUp(t) = t ELSE TurnUp(t).i < t.i
  <2>1. Indexed(t.p) /\ t.i \in Pos(t.p) /\ HeapBut(t.p, t.i) /\ SameEntries(p, t.p)
        /\ Pos(t.p) = Pos(p) /\ t.i \in Pos(p)
    BY DEF Loops, SameEntries, Pos
  <2>2. /\ SameEntries(t.p, TurnUp(t).p) /\ TurnUp(t).i \in Pos(t.p)
        /\ HeapBut(TurnUp(t).p, TurnUp(t).i)
        /\ IF IsHeap(t.p) THEN TurnUp(t) = t ELSE TurnUp(t).i < t.i
    BY <2>1, UpTurn
  <2>3. SameEntries(p, TurnUp(t).p)
    BY <2>1, <2>2, SameTwice
  <2>4. TurnUp(t) \in [p : [q : Seq(Entries), index : [Entries -> Int]], i : Nat]
    <3>1. TurnUp(t).p \in [q : Seq(Entries), index : [Entries -> Int]] /\ TurnUp(t).i \in Nat
      BY <2>1, <2>2, <2>3 DEF SameEntries, Indexed, Pos
    <3>2. TurnUp(t) = [p |-> TurnUp(t).p, i |-> TurnUp(t).i]
      BY DEF TurnUp, Turn, Loops
    <3> HIDE DEF S
    <3> QED
      BY <3>1, <3>2
  <2> QED
    BY <2>1, <2>2, <2>3, <2>4 DEF Loops
<1>4. PICK g : Iterates(S, f, s, n, g)
  <2>1. f \in [S -> S]
    BY <1>3
  <2>2. n \in Nat
    BY <1>1
  <2> HIDE DEF f, S, s, n, Is, h
  <2> QED
    BY <1>2, <2>1, <2>2, Iterated
<1>5. Is(g)
  <2>1. \A k \in 1..n : g[k] = TurnUp(g[k - 1])
    <3>1. \A k \in 1..n : g[k - 1] \in S
      <4>1. n \in Nat /\ g \in [0..n -> S]
        BY <1>1, <1>4 DEF Iterates
      <4> HIDE DEF S, n
      <4>2. \A k \in 1..n : k - 1 \in 0..n
        BY <4>1
      <4> QED
        BY <4>1, <4>2
    <3> QED
      BY <1>4, <3>1 DEF Iterates
  <2>2. \A k \in 0..n : g[k] = IF k = 0 THEN s ELSE TurnUp(g[k - 1])
    BY <1>1, <1>4, <2>1 DEF Iterates
  <2>3. g \in [0..n -> S]
    BY <1>4 DEF Iterates
  <2> HIDE DEF s, S, n
  <2> QED
    BY <2>2, <2>3
<1>6. Is(h)
  BY <1>5
<1> HIDE DEF h
<1>7. h[0] = s /\ \A k \in 0..(n - 1) : h[k + 1] = TurnUp(h[k])
  <2> HIDE DEF s, n
  <2> QED
    BY <1>1, <1>6
<1>8. \A k \in 0..n : h[k] \in S /\ (IsHeap(h[k].p) \/ h[k].i + k <= i)
  <2> DEFINE X == {k \in Nat : h[k] \in S /\ (IsHeap(h[k].p) \/ h[k].i + k <= i)}
  <2>1. 0 \in X
    BY <1>1, <1>2, <1>7
  <2>2. ASSUME NEW k \in 0..(n - 1), k \in X
        PROVE  k + 1 \in X
    <3>1. h[k + 1] = TurnUp(h[k]) /\ h[k] \in S /\ (IsHeap(h[k].p) \/ h[k].i + k <= i)
      BY <1>7, <2>2
    <3>2. h[k + 1] \in S /\ h[k].i \in Nat /\ h[k + 1].i \in Nat
      BY <1>3, <3>1 DEF Loops
    <3>3. IsHeap(h[k + 1].p) \/ h[k + 1].i + (k + 1) <= i
      <4>1. CASE IsHeap(h[k].p)
        BY <1>3, <3>1, <4>1
      <4>2. CASE ~IsHeap(h[k].p)
        <5>1. h[k + 1].i < h[k].i
          BY <1>3, <3>1, <4>2
        <5> HIDE DEF S
        <5> QED
          BY <1>1, <3>1, <3>2, <4>2, <5>1
      <4> QED
        BY <4>1, <4>2
    <3> HIDE DEF S
    <3> QED
      BY <1>1, <3>2, <3>3
  <2>3. \A k \in 0..n : k \in X
    <3> HIDE DEF X, n
    <3> QED
      BY <1>1, <2>1, <2>2, UpTo
  <2> QED
    BY <2>3
<1>9. h[n].p = BubbleUp(p, i)
  BY DEF BubbleUp, h
<1>10. h[n] \in S /\ h[n].i \in Nat /\ (IsHeap(h[n].p) \/ h[n].i + n <= i)
  <2>1. n \in 0..n
    BY <1>1
  <2> QED
    BY <1>8, <2>1 DEF Loops
<1>11. IsHeap(h[n].p)
  <2> HIDE DEF S, n
  <2> QED
    BY <1>1, <1>10
<1> QED
  BY <1>9, <1>10, <1>11 DEF Loops
LEMMA DownLoop ==
  ASSUME NEW p, Indexed(p), NEW i \in Pos(p), HeapAbove(p, i)
  PROVE  SameEntries(p, BubbleDown(p, i)) /\ IsHeap(BubbleDown(p, i))
<1> DEFINE n == Len(p.q)
           s == [p |-> p, i |-> i]
           S == {t \in Loops(p) : HeapAbove(t.p, t.i)}
           f == [t \in S |-> TurnDown(t)]
           Is(g) == g = [k \in 0..n |-> IF k = 0 THEN s ELSE TurnDown(g[k - 1])]
           h == CHOOSE g : Is(g)
<1>1. n \in Nat /\ Pos(p) = 0..(n - 1) /\ i \in Nat /\ i < n
  BY Keys DEF Pos
<1>2. s \in S
  BY <1>1 DEF Loops, SameEntries, Indexed
<1>3. ASSUME NEW t \in S
      PROVE  /\ TurnDown(t) \in S
             /\ IF IsHeap(t.p) THEN TurnDown(t) = t ELSE TurnDown(t).i > t.i
  <2>1. Indexed(t.p) /\ t.i \in Pos(t.p) /\ HeapAbove(t.p, t.i) /\ SameEntries(p, t.p)
        /\ Pos(t.p) = Pos(p) /\ t.i \in Pos(p)
    BY DEF Loops, SameEntries, Pos
  <2>2. /\ SameEntries(t.p, TurnDown(t).p) /\ TurnDown(t).i \in Pos(t.p)
        /\ HeapAbove(TurnDown(t).p, TurnDown(t).i)
        /\ IF IsHeap(t.p) THEN TurnDown(t) = t ELSE TurnDown(t).i > t.i
    BY <2>1, DownTurn
  <2>3. SameEntries(p, TurnDown(t).p)
    BY <2>1, <2>2, SameTwice
  <2>4. TurnDown(t) \in [p : [q : Seq(Entries), index : [Entries -> Int]], i : Nat]
    <3>1. TurnDown(t).p \in [q : Seq(Entries), index : [Entries -> Int]] /\ TurnDown(t).i \in Nat
      BY <2>1, <2>2, <2>3 DEF SameEntries, Indexed, Pos
    <3>2. TurnDown(t) = [p |-> TurnDown(t).p, i |-> TurnDown(t).i]
      BY DEF TurnDown, Turn, Loops
    <3> HIDE DEF S
    <3> QED
      BY <3>1, <3>2
  <2> QED
    BY <2>1, <2>2, <2>3, <2>4 DEF Loops
<1>4. PICK g : Iterates(S, f, s, n, g)
  <2>1. f \in [S -> S]
    BY <1>3
  <2>2. n \in Nat
    BY <1>1
  <2> HIDE DEF f, S, s, n, Is, h
  <2> QED
    BY <1>2, <2>1, <2>2, Iterated
<1>5. Is(g)
  <2>1. \A k \in 1..n : g[k] = TurnDown(g[k - 1])
    <3>1. \A k \in 1..n : g[k - 1] \in S
      <4>1. n \in Nat /\ g \in [0..n -> S]
        BY <1>1, <1>4 DEF Iterates
      <4> HIDE DEF S, n
      <4>2. \A k \in 1..n : k - 1 \in 0..n
        BY <4>1
      <4> QED
        BY <4>1, <4>2
    <3> QED
      BY <1>4, <3>1 DEF Iterates
  <2>2. \A k \in 0..n : g[k] = IF k = 0 THEN s ELSE TurnDown(g[k - 1])
    BY <1>1, <1>4, <2>1 DEF Iterates
  <2>3. g \in [0..n -> S]
    BY <1>4 DEF Iterates
  <2> HIDE DEF s, S, n
  <2> QED
    BY <2>2, <2>3
<1>6. Is(h)
  BY <1>5
<1> HIDE DEF h
<1>7. h[0] = s /\ \A k \in 0..(n - 1) : h[k + 1] = TurnDown(h[k])
  <2> HIDE DEF s, n
  <2> QED
    BY <1>1, <1>6
<1>8. \A k \in 0..n : h[k] \in S /\ (IsHeap(h[k].p) \/ h[k].i >= i + k)
  <2> DEFINE X == {k \in Nat : h[k] \in S /\ (IsHeap(h[k].p) \/ h[k].i >= i + k)}
  <2>1. 0 \in X
    BY <1>1, <1>2, <1>7
  <2>2. ASSUME NEW k \in 0..(n - 1), k \in X
        PROVE  k + 1 \in X
    <3>1. h[k + 1] = TurnDown(h[k]) /\ h[k] \in S /\ (IsHeap(h[k].p) \/ h[k].i >= i + k)
      BY <1>7, <2>2
    <3>2. h[k + 1] \in S /\ h[k].i \in Nat /\ h[k + 1].i \in Nat
      BY <1>3, <3>1 DEF Loops
    <3>3. IsHeap(h[k + 1].p) \/ h[k + 1].i >= i + (k + 1)
      <4>1. CASE IsHeap(h[k].p)
        BY <1>3, <3>1, <4>1
      <4>2. CASE ~IsHeap(h[k].p)
        <5>1. h[k + 1].i > h[k].i
          BY <1>3, <3>1, <4>2
        <5> HIDE DEF S
        <5> QED
          BY <1>1, <3>1, <3>2, <4>2, <5>1
      <4> QED
        BY <4>1, <4>2
    <3> HIDE DEF S
    <3> QED
      BY <1>1, <3>2, <3>3
  <2>3. \A k \in 0..n : k \in X
    <3> HIDE DEF X, n
    <3> QED
      BY <1>1, <2>1, <2>2, UpTo
  <2> QED
    BY <2>3
<1>9. h[n].p = BubbleDown(p, i)
  BY DEF BubbleDown, h
<1>10. h[n] \in S /\ h[n].i \in 0..(n - 1) /\ (IsHeap(h[n].p) \/ h[n].i >= i + n)
  <2>1. n \in 0..n
    BY <1>1
  <2> QED
    BY <1>1, <1>8, <2>1 DEF Loops
<1>11. IsHeap(h[n].p)
  <2> HIDE DEF S, n
  <2> QED
    BY <1>1, <1>10
<1> QED
  BY <1>9, <1>10, <1>11 DEF Loops
-----------------------------------------------------------------------------
(* Taking an entry out                                                     *)

\* s holds what p does but a; entries that p does not hold were left alone.
Taken(p, a, s) ==
  /\ Indexed(s) /\ Len(s.q) = Len(p.q) - 1 /\ Holds(s) = Holds(p) \ {a}
  /\ \A c \in Entries \ Holds(p) : s.index[c] = p.index[c]

LEMMA TakenAndMoved ==
  ASSUME NEW p, NEW a, NEW s, NEW t, Taken(p, a, s), SameEntries(s, t)
  PROVE  Taken(p, a, t)
BY DEF Taken, SameEntries

\* The last entry goes to the index i.
LEMMA MoveLastIs ==
  ASSUME NEW p, Indexed(p), NEW i \in Pos(p)
  PROVE  /\ Taken(p, At(p, i), MoveLast(p, i))
         /\ \A k \in Pos(MoveLast(p, i)) :
              At(MoveLast(p, i), k) = IF k = i THEN At(p, Len(p.q) - 1) ELSE At(p, k)
<1> DEFINE n == Len(p.q)
           b == At(p, n - 1)
           s == Store(p, i, b)
           m == MoveLast(p, i)
<1>1. n \in Nat /\ n > 0 /\ i \in Nat /\ i < n /\ n - 1 \in Pos(p) /\ Pos(p) = 0..(n - 1)
  BY Keys DEF Pos
<1>2. b \in Entries /\ p \in [q : Seq(Entries), index : [Entries -> Int]] /\ b \in Holds(p)
  BY <1>1, Keys DEF Indexed
<1>3. StoredAt(p, i, b, s)
  <2> HIDE DEF b
  <2> QED
    BY <1>2, StoreIs
<1>4. m = [s EXCEPT !.q = SubSeq(s.q, 1, n - 1)]
  BY DEF MoveLast
<1> HIDE DEF m, s
<1>5. /\ s.q \in Seq(Entries) /\ Len(s.q) = n /\ s.index \in [Entries -> Int]
      /\ s = [q |-> s.q, index |-> s.index]
  BY <1>3 DEF StoredAt
<1>6. m.q = SubSeq(s.q, 1, n - 1) /\ m.index = s.index /\ m = [q |-> m.q, index |-> m.index]
  BY <1>4, <1>5
<1>7. m.q \in Seq(Entries) /\ Len(m.q) = n - 1 /\ \A k \in 1..(n - 1) : m.q[k] = s.q[k]
  <2> DEFINE r == s.q
  <2>1. r \in Seq(Entries) /\ Len(r) = n
    BY <1>5
  <2> HIDE DEF r, n
  <2>2. SubSeq(r, 1, n - 1) \in Seq(Entries) /\ Len(SubSeq(r, 1, n - 1)) = n - 1
        /\ \A k \in 1..(n - 1) : SubSeq(r, 1, n - 1)[k] = r[k]
    BY <1>1, <2>1
  <2> QED
    BY <1>6, <2>2 DEF r
<1>8. Pos(m) = 0..(n - 2) /\ \A k \in Pos(m) : k \in Pos(p) /\ k # n - 1
  BY <1>1, <1>7 DEF Pos
<1>9. \A k \in Pos(m) : At(m, k) = IF k = i THEN b ELSE At(p, k)
  <2>1. SUFFICES ASSUME NEW k \in Pos(m)
                 PROVE  At(m, k) = IF k = i THEN b ELSE At(p, k)
    OBVIOUS
  <2>2. m.q[k + 1] = s.q[k + 1]
    BY <1>1, <1>7, <1>8
  <2>3. At(s, k) = IF k = i THEN b ELSE At(p, k)
    BY <1>3, <1>8 DEF StoredAt
  <2> QED
    BY <2>2, <2>3 DEF At
<1>10. \A c \in Entries : m.index[c] = IF c = b THEN i ELSE p.index[c]
  BY <1>3, <1>6 DEF StoredAt
<1>11. Indexed(m)
  <2>1. ASSUME NEW k \in Pos(m)
        PROVE  m.index[At(m, k)] = k
    <3>1. k \in Pos(p) /\ k # n - 1 /\ At(p, k) \in Entries /\ p.index[At(p, k)] = k
      BY <1>8, Keys DEF Indexed
    <3>2. At(p, k) # b
      BY <1>1, <3>1, AtOnce
    <3> HIDE DEF b
    <3> QED
      BY <1>2, <1>9, <1>10, <3>1, <3>2
  <2>2. m \in [q : Seq(Entries), index : [Entries -> Int]]
    BY <1>5, <1>6, <1>7
  <2> QED
    BY <2>1, <2>2 DEF Indexed
<1>12. Holds(m) = Holds(p) \ {At(p, i)}
  <2>1. ASSUME NEW k \in Pos(m)
        PROVE  At(m, k) \in Holds(p) \ {At(p, i)}
    <3>1. k \in Pos(p) /\ k # n - 1 /\ At(p, k) \in Holds(p)
      BY <1>8, Keys
    <3>2. k = i => b # At(p, i)
      BY <1>1, <3>1, AtOnce
    <3>3. k # i => At(p, k) # At(p, i)
      BY <3>1, AtOnce
    <3> HIDE DEF b
    <3> QED
      BY <1>2, <1>9, <3>1, <3>2, <3>3
  <2>2. ASSUME NEW k \in Pos(p), At(p, k) # At(p, i)
        PROVE  At(p, k) \in Holds(m)
    <3>1. k # i
      BY <2>2
    <3>2. CASE k = n - 1
      <4>1. i \in Pos(m) /\ At(m, i) = At(p, k)
        BY <1>1, <1>8, <1>9, <3>1, <3>2
      <4> QED
        BY <4>1 DEF Holds
    <3>3. CASE k # n - 1
      <4>1. k \in Pos(m) /\ At(m, k) = At(p, k)
        BY <1>1, <1>8, <1>9, <3>1, <3>3
      <4> QED
        BY <4>1 DEF Holds
    <3> QED
      BY <3>2, <3>3
  <2> QED
    BY <2>1, <2>2 DEF Holds
<1>13. \A c \in Entries \ Holds(p) : m.index[c] = p.index[c]
  BY <1>2, <1>10
<1> QED
  BY <1>7, <1>9, <1>11, <1>12, <1>13 DEF Taken, m

\* dwnx_pq_pop
LEMMA WithoutTopIs ==
  ASSUME NEW p, Indexed(p), IsHeap(p), Len(p.q) # 0
  PROVE  Taken(p, At(p, 0), WithoutTop(p)) /\ IsHeap(WithoutTop(p))
<1> DEFINE n == Len(p.q)
           m == MoveLast(p, 0)
<1>1. n \in Nat /\ n > 0 /\ Pos(p) = 0..(n - 1) /\ 0 \in Pos(p)
  BY DEF Indexed, Pos
<1>2. /\ Taken(p, At(p, 0), m)
      /\ \A k \in Pos(m) : At(m, k) = IF k = 0 THEN At(p, n - 1) ELSE At(p, k)
  BY <1>1, MoveLastIs
<1>3. Pos(m) = 0..(n - 2) /\ Indexed(m)
  BY <1>2 DEF Taken, Pos
<1>4. CASE n = 1
  <2>1. WithoutTop(p) = m
    BY <1>4 DEF WithoutTop
  <2>2. IsHeap(m)
    BY <1>3, <1>4 DEF IsHeap
  <2> QED
    BY <1>2, <2>1, <2>2
<1>5. CASE n # 1
  <2>1. WithoutTop(p) = BubbleDown(m, 0)
    BY <1>5 DEF WithoutTop
  <2> HIDE DEF m, n
  <2>2. HeapAbove(m, 0)
    <3>1. Skips(m, 0)
      BY DEF Skips
    <3>2. ASSUME NEW j \in Pos(m) \ {0}, Parent(j) # 0
          PROVE  Ordered(m, j)
      <4>1. j \in Nat /\ j > 0 /\ j \in Pos(p)
        BY <1>1, <1>3
      <4>2. Parent(j) \in Nat /\ Parent(j) < j /\ Parent(j) \in Pos(m)
        BY <1>1, <1>3, <4>1, ParentIs
      <4>3. At(m, j) = At(p, j) /\ At(m, Parent(j)) = At(p, Parent(j))
        BY <1>2, <3>2, <4>2
      <4>4. Ordered(p, j)
        BY <4>1 DEF IsHeap
      <4> QED
        BY <4>3, <4>4 DEF Ordered
    <3> QED
      BY <3>1, <3>2 DEF HeapAbove
  <2>3. 0 \in Pos(m)
    BY <1>1, <1>3, <1>5
  <2>4. SameEntries(m, BubbleDown(m, 0)) /\ IsHeap(BubbleDown(m, 0))
    BY <1>3, <2>2, <2>3, DownLoop
  <2> QED
    BY <1>2, <2>1, <2>4, TakenAndMoved
<1> QED
  BY <1>4, <1>5

\* dwnx_pq_remove
LEMMA RemovedIs ==
  ASSUME NEW p, Indexed(p), IsHeap(p), NEW i \in Pos(p)
  PROVE  Taken(p, At(p, i), Removed(p, At(p, i))) /\ IsHeap(Removed(p, At(p, i)))
<1> DEFINE n == Len(p.q)
           a == At(p, i)
           m == MoveLast(p, i)
           u == [p EXCEPT !.q = SubSeq(p.q, 1, i)]
<1>1. n \in Nat /\ i \in Nat /\ i < n /\ n - 1 \in Pos(p) /\ Pos(p) = 0..(n - 1)
      /\ p.q \in Seq(Entries) /\ p.index \in [Entries -> Int]
      /\ p = [q |-> p.q, index |-> p.index]
  BY Keys DEF Pos, Indexed
<1>2. p.index[a] = i
  BY DEF Indexed
<1>3. CASE i = 0
  <2>1. Removed(p, a) = WithoutTop(p)
    BY <1>2, <1>3 DEF Removed
  <2> QED
    BY <1>1, <1>3, <2>1, WithoutTopIs
<1>4. CASE i # 0 /\ i = n - 1
  <2>1. Removed(p, a) = u
    <3>1. p.index[a] # 0 /\ p.index[a] = Len(p.q) - 1
      BY <1>2, <1>4
    <3> HIDE DEF a
    <3>2. Removed(p, a) = [p EXCEPT !.q = SubSeq(@, 1, p.index[a])]
      BY <3>1, Zenon DEF Removed
    <3> QED
      BY <1>2, <3>2
  <2>2. u.q = SubSeq(p.q, 1, i) /\ u.index = p.index /\ u = [q |-> u.q, index |-> u.index]
    <3> DEFINE v == SubSeq(p.q, 1, i)
    <3> HIDE DEF v
    <3>1. p = [q |-> p.q, index |-> p.index]
      BY <1>1
    <3>2. [p EXCEPT !.q = v] = [q |-> v, index |-> p.index]
      BY <3>1
    <3>3. u = [q |-> v, index |-> p.index]
      BY <3>2 DEF v
    <3> HIDE DEF u
    <3>4. u.q = v /\ u.index = p.index /\ u = [q |-> u.q, index |-> u.index]
      BY <3>3
    <3> QED
      BY <3>4 DEF v
  <2> HIDE DEF u
  <2>3. u.q \in Seq(Entries) /\ Len(u.q) = i /\ \A k \in 1..i : u.q[k] = p.q[k]
    <3> DEFINE r == p.q
    <3>1. r \in Seq(Entries) /\ Len(r) \in Nat /\ i \in Nat /\ i < Len(r)
      BY <1>1
    <3> HIDE DEF r
    <3>2. SubSeq(r, 1, i) \in Seq(Entries) /\ Len(SubSeq(r, 1, i)) = i
          /\ \A k \in 1..i : SubSeq(r, 1, i)[k] = r[k]
      BY <3>1
    <3> QED
      BY <2>2, <3>2 DEF r
  <2>4. Pos(u) = 0..(i - 1) /\ \A k \in Pos(u) : k \in Pos(p) /\ k # i /\ At(u, k) = At(p, k)
    <3>1. Pos(u) = 0..(i - 1)
      BY <2>3 DEF Pos
    <3>2. ASSUME NEW k \in 0..(i - 1)
          PROVE  k \in Pos(p) /\ k # i /\ At(u, k) = At(p, k)
      <4>1. k \in Pos(p) /\ k # i /\ k + 1 \in 1..i
        BY <1>1
      <4> QED
        BY <2>3, <4>1 DEF At
    <3> QED
      BY <3>1, <3>2
  <2>5. Indexed(u)
    BY <1>1, <2>2, <2>3, <2>4 DEF Indexed
  <2>6. Holds(u) = Holds(p) \ {a}
    <3>1. ASSUME NEW k \in Pos(u)
          PROVE  At(u, k) \in Holds(p) \ {a}
      BY <2>4, AtOnce DEF Holds
    <3>2. ASSUME NEW k \in Pos(p), At(p, k) # a
          PROVE  At(p, k) \in Holds(u)
      <4>1. k \in Pos(u) /\ At(u, k) = At(p, k)
        BY <1>1, <1>4, <2>4, <3>2
      <4> QED
        BY <4>1 DEF Holds
    <3> QED
      BY <3>1, <3>2 DEF Holds
  <2>7. Taken(p, a, u)
    BY <1>1, <1>4, <2>2, <2>3, <2>5, <2>6 DEF Taken
  <2>8. IsHeap(u)
    <3>1. SUFFICES ASSUME NEW j \in Pos(u) \ {0}
                   PROVE  Ordered(u, j)
      BY DEF IsHeap
    <3>2. j \in Nat /\ j > 0 /\ j \in Pos(p) /\ j < i
      BY <1>1, <2>4
    <3>3. Parent(j) \in Pos(u)
      BY <1>1, <2>4, <3>2, ParentIs
    <3> QED
      BY <2>4, <3>2, <3>3 DEF IsHeap, Ordered
  <2> QED
    BY <2>1, <2>7, <2>8
<1>5. CASE i # 0 /\ i # n - 1
  <2>1. Removed(p, a) = IF Less(a, At(m, i)) THEN BubbleDown(m, i) ELSE BubbleUp(m, i)
    BY <1>2, <1>5 DEF Removed
  <2>2. Taken(p, a, m) /\ \A k \in Pos(m) : At(m, k) = IF k = i THEN At(p, n - 1) ELSE At(p, k)
    BY MoveLastIs
  <2>3. Pos(m) = 0..(n - 2) /\ Indexed(m) /\ i \in Pos(m)
    BY <1>1, <1>5, <2>2 DEF Taken, Pos
  <2> HIDE DEF m
  <2>4. /\ \A j \in Pos(p) : PqKey[At(p, j)] \in Int
        /\ \A j \in Pos(m) : PqKey[At(m, j)] \in Int
    BY <2>3, Keys
  <2>5. \A j \in Pos(m) \ {0} : /\ j \in Nat /\ j \in Pos(p) /\ Parent(j) \in Pos(m)
                               /\ Parent(j) \in Nat /\ Parent(j) < j /\ Parent(j) \in Pos(p)
                               /\ PqKey[At(p, Parent(j))] <= PqKey[At(p, j)]
    <3>1. SUFFICES ASSUME NEW j \in Pos(m) \ {0}
                   PROVE  /\ j \in Nat /\ j \in Pos(p) /\ Parent(j) \in Pos(m)
                          /\ Parent(j) \in Nat /\ Parent(j) < j /\ Parent(j) \in Pos(p)
                          /\ PqKey[At(p, Parent(j))] <= PqKey[At(p, j)]
      OBVIOUS
    <3>2. j \in Nat /\ j > 0 /\ j \in Pos(p) /\ j <= n - 2
      BY <1>1, <2>3
    <3>3. Parent(j) \in Nat /\ Parent(j) < j
      BY <3>2, ParentIs
    <3>4. Parent(j) \in Pos(m) /\ Parent(j) \in Pos(p)
      BY <1>1, <2>3, <3>2, <3>3
    <3> QED
      BY <3>2, <3>3, <3>4 DEF IsHeap, Ordered
  <2>6. Skips(m, i)
    <3>1. SUFFICES ASSUME NEW j \in Pos(m) \ {0}, Parent(j) = i
                   PROVE  PqKey[At(m, Parent(i))] <= PqKey[At(m, j)]
      BY DEF Skips
    <3>2. Parent(i) # i /\ j # i /\ Parent(i) \in Pos(m) /\ Parent(i) \in Pos(p)
          /\ PqKey[At(p, Parent(i))] <= PqKey[At(p, i)] /\ PqKey[At(p, i)] <= PqKey[At(p, j)]
          /\ j \in Pos(p) /\ i \in Pos(p)
      BY <1>5, <2>3, <2>5, <3>1
    <3>3. At(m, Parent(i)) = At(p, Parent(i)) /\ At(m, j) = At(p, j)
      BY <2>2, <3>2
    <3> QED
      BY <2>4, <3>2, <3>3
  <2>7. CASE Less(a, At(m, i))
    <3>1. HeapAbove(m, i)
      <4>1. SUFFICES ASSUME NEW j \in Pos(m) \ {0}, Parent(j) # i
                     PROVE  PqKey[At(m, Parent(j))] <= PqKey[At(m, j)]
        BY <2>6 DEF HeapAbove, Ordered
      <4>2. At(m, Parent(j)) = At(p, Parent(j))
        BY <2>2, <2>5, <4>1
      <4>3. CASE j = i
        <5>1. PqKey[a] < PqKey[At(m, i)]
          BY <2>7 DEF Less
        <5>2. PqKey[At(p, Parent(i))] <= PqKey[a] /\ PqKey[a] \in Int
              /\ PqKey[At(p, Parent(i))] \in Int /\ PqKey[At(m, i)] \in Int
          BY <2>3, <2>4, <2>5, <4>1, <4>3
        <5> HIDE DEF a
        <5> QED
          BY <4>2, <4>3, <5>1, <5>2
      <4>4. CASE j # i
        BY <2>2, <2>5, <4>1, <4>2, <4>4
      <4> QED
        BY <4>3, <4>4
    <3>2. SameEntries(m, BubbleDown(m, i)) /\ IsHeap(BubbleDown(m, i))
      BY <2>3, <3>1, DownLoop
    <3> QED
      BY <2>1, <2>2, <2>7, <3>2, TakenAndMoved
  <2>8. CASE ~Less(a, At(m, i))
    <3>1. HeapBut(m, i)
      <4>1. SUFFICES ASSUME NEW j \in Pos(m) \ {0, i}
                     PROVE  PqKey[At(m, Parent(j))] <= PqKey[At(m, j)]
        BY <2>6 DEF HeapBut, Ordered
      <4>2. At(m, j) = At(p, j)
        BY <2>2, <4>1
      <4>3. CASE Parent(j) = i
        <5>1. ~(PqKey[a] < PqKey[At(m, i)])
          BY <2>8 DEF Less
        <5>2. PqKey[a] <= PqKey[At(p, j)] /\ PqKey[a] \in Int
              /\ PqKey[At(p, j)] \in Int /\ PqKey[At(m, i)] \in Int
          BY <2>3, <2>4, <2>5, <4>1, <4>3
        <5> HIDE DEF a
        <5> QED
          BY <4>2, <4>3, <5>1, <5>2
      <4>4. CASE Parent(j) # i
        BY <2>2, <2>5, <4>1, <4>2, <4>4
      <4> QED
        BY <4>3, <4>4
    <3>2. SameEntries(m, BubbleUp(m, i)) /\ IsHeap(BubbleUp(m, i))
      BY <2>3, <3>1, UpLoop
    <3> QED
      BY <2>1, <2>2, <2>8, <3>2, TakenAndMoved
  <2> QED
    BY <2>7, <2>8
<1> QED
  BY <1>3, <1>4, <1>5

\* dwnx_pq_push
LEMMA PushedIs ==
  ASSUME NEW p, Indexed(p), IsHeap(p), NEW a \in Entries, a \notin Holds(p)
  PROVE  LET s == Pushed(p, a) IN
         /\ Indexed(s) /\ IsHeap(s) /\ Len(s.q) = Len(p.q) + 1 /\ Holds(s) = Holds(p) \cup {a}
         /\ \A c \in Entries \ Holds(s) : s.index[c] = p.index[c]
<1> DEFINE n == Len(p.q)
           u == [q |-> Append(p.q, a), index |-> [p.index EXCEPT ![a] = n]]
           s == BubbleUp(u, n)
<1>1. n \in Nat /\ Pos(p) = 0..(n - 1) /\ p.q \in Seq(Entries) /\ p.index \in [Entries -> Int]
  BY DEF Pos, Indexed
<1>2. /\ u \in [q : Seq(Entries), index : [Entries -> Int]] /\ Len(u.q) = n + 1
      /\ \A k \in 1..(n + 1) : u.q[k] = IF k = n + 1 THEN a ELSE p.q[k]
      /\ \A c \in Entries : u.index[c] = IF c = a THEN n ELSE p.index[c]
  BY <1>1
<1>3. s = Pushed(p, a)
  BY DEF Pushed
<1> HIDE DEF u
<1>4. Pos(u) = 0..n /\ \A k \in Pos(u) : At(u, k) = IF k = n THEN a ELSE At(p, k)
  <2>1. Pos(u) = 0..n
    BY <1>1, <1>2 DEF Pos
  <2>2. ASSUME NEW k \in 0..n
        PROVE  At(u, k) = IF k = n THEN a ELSE At(p, k)
    <3>1. k + 1 \in 1..(n + 1) /\ (k + 1 = n + 1 <=> k = n)
      BY <1>1
    <3> QED
      BY <1>2, <3>1 DEF At
  <2> QED
    BY <2>1, <2>2
<1>5. Indexed(u)
  <2>1. ASSUME NEW k \in Pos(u)
        PROVE  u.index[At(u, k)] = k
    <3>1. CASE k = n
      BY <1>2, <1>4, <3>1
    <3>2. CASE k # n
      <4>1. k \in Pos(p) /\ At(u, k) = At(p, k)
        BY <1>1, <1>4, <3>2
      <4>2. At(p, k) \in Entries /\ At(p, k) # a /\ p.index[At(p, k)] = k
        BY <4>1, Keys DEF Indexed
      <4> QED
        BY <1>2, <4>1, <4>2
    <3> QED
      BY <3>1, <3>2
  <2> QED
    BY <1>2, <2>1 DEF Indexed
<1>6. Holds(u) = Holds(p) \cup {a}
  <2>1. ASSUME NEW k \in Pos(u)
        PROVE  At(u, k) \in Holds(p) \cup {a}
    <3>1. k # n => k \in Pos(p)
      BY <1>1, <1>4
    <3> QED
      BY <1>4, <3>1 DEF Holds
  <2>2. a \in Holds(u)
    <3>1. n \in Pos(u) /\ At(u, n) = a
      BY <1>1, <1>4
    <3> QED
      BY <3>1 DEF Holds
  <2>3. ASSUME NEW k \in Pos(p)
        PROVE  At(p, k) \in Holds(u)
    <3>1. k \in Pos(u) /\ At(u, k) = At(p, k)
      BY <1>1, <1>4
    <3> QED
      BY <3>1 DEF Holds
  <2> QED
    BY <2>1, <2>2, <2>3 DEF Holds
<1>7. HeapBut(u, n)
  <2>1. ASSUME NEW j \in Pos(u) \ {0}
        PROVE  j \in Nat /\ j > 0 /\ Parent(j) \in Nat /\ Parent(j) < j /\ Parent(j) < n
    <3>1. j \in Nat /\ j > 0 /\ j <= n
      BY <1>1, <1>4
    <3>2. Parent(j) \in Nat /\ Parent(j) < j
      BY <3>1, ParentIs
    <3> QED
      BY <1>1, <3>1, <3>2
  <2>2. Skips(u, n)
    BY <1>1, <2>1 DEF Skips
  <2>3. ASSUME NEW j \in Pos(u) \ {0, n}
        PROVE  Ordered(u, j)
    <3>1. j \in Pos(p) /\ j # 0 /\ Parent(j) \in Pos(u) /\ Parent(j) # n
      BY <1>1, <1>4, <2>1
    <3>2. At(u, j) = At(p, j) /\ At(u, Parent(j)) = At(p, Parent(j))
      BY <1>4, <2>3, <3>1
    <3> QED
      BY <3>1, <3>2 DEF IsHeap, Ordered
  <2> QED
    BY <2>2, <2>3 DEF HeapBut
<1>8. SameEntries(u, s) /\ IsHeap(s)
  <2>1. n \in Pos(u)
    BY <1>1, <1>4
  <2> HIDE DEF n
  <2> QED
    BY <1>5, <1>7, <2>1, UpLoop
<1> HIDE DEF s
<1>9. \A c \in Entries \ Holds(s) : s.index[c] = p.index[c]
  BY <1>2, <1>6, <1>8 DEF SameEntries
<1> QED
  BY <1>2, <1>3, <1>6, <1>8, <1>9 DEF SameEntries

-----------------------------------------------------------------------------
(* The calls                                                               *)

\* The array is a heap of what was pushed, and of nothing else.
PqInv ==
  /\ Indexed(pq) /\ IsHeap(pq) /\ queued = Holds(pq)
  /\ IsFiniteSet(queued) /\ Cardinality(queued) = Len(pq.q)
  /\ \A a \in Entries \ queued : pq.index[a] = BadIndex

\* No entry of a heap is before the one on top.
LEMMA TopOfHeap ==
  ASSUME NEW p, Indexed(p), IsHeap(p), NEW i \in Pos(p)
  PROVE  PqKey[At(p, 0)] <= PqKey[At(p, i)]
<1> DEFINE X == {n \in Nat : \A j \in Pos(p) : j <= n => PqKey[At(p, 0)] <= PqKey[At(p, j)]}
<1>1. /\ \A j \in Pos(p) : j \in Nat /\ PqKey[At(p, j)] \in Int
      /\ 0 \in Pos(p) /\ Len(p.q) \in Nat /\ Pos(p) = 0..(Len(p.q) - 1)
  BY Keys DEF Pos
<1>2. 0 \in X
  BY <1>1
<1>3. ASSUME NEW n \in X
      PROVE  n + 1 \in X
  <2>1. SUFFICES ASSUME NEW j \in Pos(p), j = n + 1
                 PROVE  PqKey[At(p, 0)] <= PqKey[At(p, j)]
    BY <1>1
  <2>2. Parent(j) \in Nat /\ Parent(j) < j
    BY <2>1, ParentIs
  <2>3. Parent(j) \in Pos(p) /\ Parent(j) <= n
    BY <1>1, <2>1, <2>2
  <2>4. PqKey[At(p, Parent(j))] <= PqKey[At(p, j)]
    BY <1>1, <2>1 DEF IsHeap, Ordered
  <2>5. PqKey[At(p, 0)] <= PqKey[At(p, Parent(j))]
    BY <2>3
  <2> QED
    BY <1>1, <2>3, <2>4, <2>5
<1>4. X = Nat
  <2> HIDE DEF X
  <2>1. X \subseteq Nat
    BY DEF X
  <2> QED
    BY <1>2, <1>3, <2>1, SetInduction
<1>5. i \in X
  BY <1>1, <1>4
<1> QED
  BY <1>1, <1>5

LEMMA HeapExact == PqInv => PqExact
<1> SUFFICES ASSUME PqInv
             PROVE  PqExact
  OBVIOUS
<1>1. /\ Indexed(pq) /\ IsHeap(pq) /\ queued = Holds(pq) /\ Cardinality(queued) = Len(pq.q)
      /\ \A a \in Entries \ queued : pq.index[a] = BadIndex
  BY DEF PqInv
<1>2. ASSUME NEW a \in queued
      PROVE  /\ pq.index[a] \in Pos(pq) /\ At(pq, pq.index[a]) = a
             /\ ~Less(a, At(pq, 0))
  <2>1. PICK i \in Pos(pq) : a = At(pq, i)
    BY <1>1 DEF Holds
  <2>2. pq.index[a] = i
    BY <1>1, <2>1 DEF Indexed
  <2>3. PqKey[At(pq, 0)] <= PqKey[At(pq, i)] /\ PqKey[At(pq, i)] \in Int
    BY <1>1, TopOfHeap, Keys
  <2>4. PqKey[At(pq, 0)] \in Int
    <3>1. 0 \in Pos(pq)
      BY <1>1, Keys DEF Pos
    <3> QED
      BY <1>1, <3>1, Keys
  <2> QED
    BY <2>1, <2>2, <2>3, <2>4 DEF Less
<1>3. IndexesRight
  BY <1>1, <1>2 DEF IndexesRight, Pos
<1>4. TopIsLeast
  BY <1>2 DEF TopIsLeast
<1> QED
  BY <1>3, <1>4 DEF PqExact

LEMMA PqStarts == PqInit => PqInv
<1> SUFFICES ASSUME PqInit
             PROVE  PqInv
  OBVIOUS
<1> DEFINE index == [a \in Entries |-> BadIndex]
<1>1. pq = [q |-> << >>, index |-> index] /\ queued = {}
  BY DEF PqInit
<1>2. index \in [Entries -> Int] /\ \A a \in Entries : index[a] = BadIndex
  BY DEF BadIndex
<1> HIDE DEF index
<1>3. pq.q = << >> /\ pq.index = index /\ Pos(pq) = {}
      /\ pq \in [q : Seq(Entries), index : [Entries -> Int]]
  BY <1>1, <1>2 DEF Pos
<1>4. Indexed(pq) /\ IsHeap(pq) /\ Holds(pq) = {}
  BY <1>3 DEF Indexed, IsHeap, Holds
<1>5. IsFiniteSet({}) /\ Cardinality({}) = 0
  BY FS_EmptySet
<1> QED
  BY <1>1, <1>2, <1>3, <1>4, <1>5 DEF PqInv

\* An entry that was taken out is reset.
LEMMA ResetIs ==
  ASSUME NEW p, Indexed(p), IsHeap(p), NEW a \in Entries, a \notin Holds(p)
  PROVE  /\ Indexed(Reset(p, a)) /\ IsHeap(Reset(p, a)) /\ Holds(Reset(p, a)) = Holds(p)
         /\ Reset(p, a).q = p.q
         /\ \A c \in Entries : Reset(p, a).index[c] = IF c = a THEN BadIndex ELSE p.index[c]
<1> DEFINE s == Reset(p, a)
           v == [p.index EXCEPT ![a] = BadIndex]
<1>1. p.q \in Seq(Entries) /\ p.index \in [Entries -> Int] /\ p = [q |-> p.q, index |-> p.index]
  BY DEF Indexed
<1>2. s = [q |-> p.q, index |-> v]
  <2>1. s = [p EXCEPT !.index = v]
    BY <1>1 DEF Reset
  <2> HIDE DEF s, v
  <2> QED
    BY <1>1, <2>1
<1>3. v \in [Entries -> Int] /\ \A c \in Entries : v[c] = IF c = a THEN BadIndex ELSE p.index[c]
  BY <1>1 DEF BadIndex
<1> HIDE DEF s, v
<1>4. s.q = p.q /\ s.index = v /\ s \in [q : Seq(Entries), index : [Entries -> Int]]
  BY <1>1, <1>2, <1>3
<1>5. Pos(s) = Pos(p) /\ \A k : At(s, k) = At(p, k)
  BY <1>4 DEF Pos, At
<1>6. Holds(s) = Holds(p) /\ IsHeap(s)
  BY <1>5 DEF Holds, IsHeap, Ordered
<1>7. Indexed(s)
  <2>1. ASSUME NEW k \in Pos(p)
        PROVE  s.index[At(p, k)] = k
    <3>1. At(p, k) # a /\ At(p, k) \in Entries /\ p.index[At(p, k)] = k
      BY Keys DEF Indexed
    <3> QED
      BY <1>3, <1>4, <3>1
  <2> QED
    BY <1>4, <1>5, <2>1 DEF Indexed
<1> QED
  BY <1>3, <1>4, <1>6, <1>7 DEF s

LEMMA PushEntryKeeps ==
  ASSUME PqInv, NEW a \in Entries, PushEntry(a)
  PROVE  PqInv'
<1> DEFINE s == Pushed(pq, a)
<1>1. /\ Indexed(pq) /\ IsHeap(pq) /\ queued = Holds(pq) /\ IsFiniteSet(queued)
      /\ Cardinality(queued) = Len(pq.q)
      /\ \A c \in Entries \ queued : pq.index[c] = BadIndex
  BY DEF PqInv
<1>2. pq.index[a] = BadIndex /\ pq' = s /\ queued' = queued \cup {a}
  BY DEF PushEntry
<1>3. a \notin queued
  <2>1. SUFFICES ASSUME NEW i \in Pos(pq), a = At(pq, i)
                 PROVE  FALSE
    BY <1>1 DEF Holds
  <2>2. pq.index[a] = i /\ i \in Nat
    BY <1>1, <2>1, Keys DEF Indexed
  <2> QED
    BY <1>2, <2>2 DEF BadIndex
<1>4. /\ Indexed(s) /\ IsHeap(s) /\ Len(s.q) = Len(pq.q) + 1 /\ Holds(s) = Holds(pq) \cup {a}
      /\ \A c \in Entries \ Holds(s) : s.index[c] = pq.index[c]
  BY <1>1, <1>3, PushedIs
<1>5. IsFiniteSet(queued \cup {a}) /\ Cardinality(queued \cup {a}) = Cardinality(queued) + 1
  BY <1>1, <1>3, FS_AddElement
<1> HIDE DEF s
<1>6. \A c \in Entries \ (queued \cup {a}) : s.index[c] = BadIndex
  BY <1>1, <1>4
<1>7. /\ Indexed(pq') /\ IsHeap(pq') /\ queued' = Holds(pq') /\ IsFiniteSet(queued')
      /\ Cardinality(queued') = Len(pq'.q)
      /\ \A c \in Entries \ queued' : pq'.index[c] = BadIndex
  BY <1>1, <1>2, <1>4, <1>5, <1>6
<1> QED
  BY <1>7 DEF PqInv, Indexed, IsHeap, Holds, Pos, At, Ordered

\* An entry that is taken out, by dwnx_pq_pop or dwnx_pq_remove, and reset.
LEMMA TakeKeeps ==
  ASSUME PqInv, NEW a \in queued, NEW s, Taken(pq, a, s), IsHeap(s),
         pq' = Reset(s, a), queued' = queued \ {a}
  PROVE  PqInv'
<1>1. /\ Indexed(pq) /\ queued = Holds(pq) /\ IsFiniteSet(queued)
      /\ Cardinality(queued) = Len(pq.q)
      /\ \A c \in Entries \ queued : pq.index[c] = BadIndex
  BY DEF PqInv
<1>2. a \in Entries
  BY <1>1, Keys DEF Holds
<1>3. /\ Indexed(s) /\ Len(s.q) = Len(pq.q) - 1 /\ Holds(s) = queued \ {a}
      /\ \A c \in Entries \ queued : s.index[c] = pq.index[c]
  BY <1>1 DEF Taken
<1>4. /\ Indexed(pq') /\ IsHeap(pq') /\ Holds(pq') = Holds(s) /\ pq'.q = s.q
      /\ \A c \in Entries : pq'.index[c] = IF c = a THEN BadIndex ELSE s.index[c]
  BY <1>2, <1>3, ResetIs
<1>5. IsFiniteSet(queued \ {a}) /\ Cardinality(queued \ {a}) = Cardinality(queued) - 1
  BY <1>1, FS_RemoveElement
<1>6. \A c \in Entries \ queued' : pq'.index[c] = BadIndex
  BY <1>1, <1>3, <1>4
<1>7. /\ Indexed(pq') /\ IsHeap(pq') /\ queued' = Holds(pq') /\ IsFiniteSet(queued')
      /\ Cardinality(queued') = Len(pq'.q)
      /\ \A c \in Entries \ queued' : pq'.index[c] = BadIndex
  BY <1>1, <1>3, <1>4, <1>5, <1>6
<1> QED
  BY <1>7 DEF PqInv, Indexed, IsHeap, Holds, Pos, At, Ordered

LEMMA PopEntryKeeps ==
  ASSUME PqInv, PopEntry
  PROVE  PqInv'
<1> DEFINE top == At(pq, 0)
           s == WithoutTop(pq)
<1>1. pq.q # << >> /\ pq' = Reset(s, top) /\ queued' = queued \ {top}
  BY DEF PopEntry
<1>2. Indexed(pq) /\ IsHeap(pq) /\ queued = Holds(pq)
  BY DEF PqInv
<1>3. Len(pq.q) # 0 /\ 0 \in Pos(pq)
  BY <1>1, <1>2 DEF Indexed, Pos
<1>4. Taken(pq, top, s) /\ IsHeap(s) /\ top \in queued
  BY <1>2, <1>3, WithoutTopIs, Keys
<1> HIDE DEF s, top
<1> QED
  BY <1>1, <1>4, TakeKeeps

LEMMA RemoveEntryKeeps ==
  ASSUME PqInv, NEW a \in Entries, RemoveEntry(a)
  PROVE  PqInv'
<1> DEFINE s == Removed(pq, a)
<1>1. pq.index[a] # BadIndex /\ pq' = Reset(s, a) /\ queued' = queued \ {a}
  BY DEF RemoveEntry
<1>2. /\ Indexed(pq) /\ IsHeap(pq) /\ queued = Holds(pq)
      /\ \A c \in Entries \ queued : pq.index[c] = BadIndex
  BY DEF PqInv
<1>3. a \in queued
  BY <1>1, <1>2
<1>4. PICK i \in Pos(pq) : a = At(pq, i)
  BY <1>2, <1>3 DEF Holds
<1>5. Taken(pq, a, s) /\ IsHeap(s)
  BY <1>2, <1>4, RemovedIs
<1> HIDE DEF s
<1> QED
  BY <1>1, <1>3, <1>5, TakeKeeps

LEMMA PqStep == PqInv /\ [PqNext]_pqVars => PqInv'
<1> SUFFICES ASSUME PqInv, [PqNext]_pqVars
             PROVE  PqInv'
  OBVIOUS
<1>1. CASE PopEntry
  BY <1>1, PopEntryKeeps
<1>2. ASSUME NEW a \in Entries, PushEntry(a)
      PROVE  PqInv'
  BY <1>2, PushEntryKeeps
<1>3. ASSUME NEW a \in Entries, RemoveEntry(a)
      PROVE  PqInv'
  BY <1>3, RemoveEntryKeeps
<1>4. CASE UNCHANGED pqVars
  BY <1>4 DEF pqVars, PqInv, Indexed, IsHeap, Holds, Pos, At, Ordered
<1> QED
  BY <1>1, <1>2, <1>3, <1>4 DEF PqNext

\* dwnx_pq, whatever is pushed, popped and removed, and in whatever order: the
\* array holds what was pushed and not taken out, each entry knows where it is
\* (assert(pq->q[item->index] == item) of dwnx_pq_remove), and the one on top
\* is a least one (dwnx_pq_top).
THEOREM QueueAlwaysExact == PqSpec => []PqExact
<1>1. PqSpec => []PqInv
  BY PqStarts, PqStep, PTL DEF PqSpec
<1> QED
  BY <1>1, HeapExact, PTL
=============================================================================
