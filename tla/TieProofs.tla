----------------------------- MODULE TieProofs ------------------------------
(***************************************************************************)
(* What ties a connection to its peer.  Tied(c, p, u, v) says of two       *)
(* connections, with the frames u on their way from p to c and v from c to *)
(* p, that every frame is what its reader expects when it gets there:      *)
(*                                                                         *)
(*   DataTo    a STREAM, RESET_STREAM or STREAM_DATA_BLOCKED frame stands  *)
(*             where the reader will be (rx.last_offset and what is on its *)
(*             way before it), within rx.max_offset, and nothing follows   *)
(*             the last one of its stream                                  *)
(*   CreditTo  the limits on their way for a stream rise from what the     *)
(*             reader knows to what the writer promised                    *)
(*   FlowTo    the same for the bytes of the connection and the number of  *)
(*             streams                                                     *)
(*                                                                         *)
(* The first part is about the sequences of batches on their way, whatever *)
(* the connections at their ends, a batch being what one call of           *)
(* dwnx_conn_write_record or dwnx_conn_write_stream adds to a record: how  *)
(* many bytes are in them (BytesUpTo, BytesIn), and how a limit that the   *)
(* writer raises is announced by the frames on their way, each higher than *)
(* the one before and none beyond the writer's own (Announced, Latest).    *)
(*                                                                         *)
(* The relation mentions neither calls nor actions.  A step of one side is *)
(* described by what it Sends and what it Reads, and StepTied, ReadTied    *)
(* show that such a step keeps the two sides tied.  The rest shows it for  *)
(* the calls that the peer does not hear of, for every handler, and for    *)
(* every writer of dwnx_conn.c.  For a handler this needs that it refuses  *)
(* nothing: each check of conn_recv_stream, conn_recv_reset_stream and the *)
(* others is passed because of what Tied says of the frame at hand, so     *)
(* that the state that it leaves is the one its lemma describes.  For a    *)
(* writer it needs that the frames say what the state says: the offset     *)
(* that dwnx_conn_write_stream gives, the limits that                      *)
(* dwnx_conn_write_ctrl_frames announces and records as announced.         *)
(***************************************************************************)
EXTENDS QmuxPair, QmuxLifeProofs, WellFoundedInduction, SequenceTheorems

-----------------------------------------------------------------------------
(* Induction, and sums of bytes                                            *)

\* A set of natural numbers that holds 0 and, with each number, the next.
LEMMA SetInduction ==
  ASSUME NEW T \in SUBSET Nat, 0 \in T, \A n \in T : n + 1 \in T
  PROVE  T = Nat
<1> DEFINE R == {ss \in Nat \X Nat : ss[1] < ss[2]}
           U == Nat \ T
<1>1. IsWellFoundedOn(R, Nat)
  BY NatLessThanWellFounded DEF OpToRel
<1>2. SUFFICES ASSUME U # {}
               PROVE  FALSE
  OBVIOUS
<1>3. PICK x \in U : \A y \in U : ~ (<<y, x>> \in R)
  <2> HIDE DEF U, R
  <2>1. U \subseteq Nat
    BY DEF U
  <2> QED
    BY <1>1, <1>2, <2>1, WFMin
<1>4. x - 1 \in U /\ x - 1 \in Nat /\ x \in Nat /\ x - 1 < x
  OBVIOUS
<1>5. <<x - 1, x>> \in R
  BY <1>4
<1> QED
  BY <1>3, <1>4, <1>5

\* The sums of the first values of a sequence exist.
LEMMA SumsExist ==
  ASSUME NEW n \in Nat, NEW w \in [1..n -> Nat]
  PROVE  \E g \in [0..n -> Nat] : g[0] = 0 /\ \A i \in 1..n : g[i] = g[i - 1] + w[i]
<1> DEFINE P(k) == \E g \in [0..k -> Nat] : g[0] = 0 /\ \A i \in 1..k : g[i] = g[i - 1] + w[i]
           T == {k \in Nat : k <= n => P(k)}
<1>1. 0 \in T
  <2> DEFINE g == [i \in 0..0 |-> 0]
  <2>1. g \in [0..0 -> Nat] /\ g[0] = 0 /\ \A i \in 1..0 : g[i] = g[i - 1] + w[i]
    BY 0 \in 0..0, \A i \in 1..0 : FALSE
  <2> HIDE DEF g
  <2>2. P(0)
    BY <2>1
  <2> QED
    BY <2>2
<1>2. ASSUME NEW k \in T
      PROVE  k + 1 \in T
  <2>1. k \in Nat /\ (k <= n => P(k))
    <3> HIDE DEF P
    <3> QED
      BY <1>2
  <2>2. SUFFICES ASSUME k + 1 <= n
                 PROVE  P(k + 1)
    <3> HIDE DEF P
    <3> QED
      BY <2>1
  <2>3. PICK g \in [0..k -> Nat] : g[0] = 0 /\ \A i \in 1..k : g[i] = g[i - 1] + w[i]
    BY <2>1, <2>2, k <= n
  <2> DEFINE h == [i \in 0..(k + 1) |-> IF i = k + 1 THEN g[k] + w[k + 1] ELSE g[i]]
  <2>4. h \in [0..(k + 1) -> Nat] /\ h[0] = 0
    <3>1. w[k + 1] \in Nat /\ g[k] \in Nat
      BY <2>1, <2>2
    <3>2. \A i \in 0..(k + 1) : i # k + 1 => g[i] \in Nat
      BY <2>1
    <3>3. \A i \in 0..(k + 1) : h[i] \in Nat
      BY <3>1, <3>2
    <3>4. h[0] = g[0] /\ h = [i \in 0..(k + 1) |-> h[i]]
      BY <2>1
    <3> HIDE DEF h
    <3> QED
      BY <2>3, <3>3, <3>4
  <2>5. ASSUME NEW i \in 1..(k + 1)
        PROVE  h[i] = h[i - 1] + w[i]
    <3>1. h[i - 1] = g[i - 1]
      BY <2>1
    <3>2. CASE i = k + 1
      BY <2>1, <3>1, <3>2
    <3>3. CASE i # k + 1
      BY <2>1, <2>3, <3>1, <3>3
    <3> QED
      BY <3>2, <3>3
  <2> HIDE DEF h
  <2> QED
    BY <2>4, <2>5
<1>3. T = Nat
  <2> HIDE DEF T
  <2>1. T \subseteq Nat
    BY DEF T
  <2> QED
    BY <1>1, <1>2, <2>1, SetInduction
<1>4. n \in T
  BY <1>3
<1> HIDE DEF P
<1>5. P(n)
  BY <1>4
<1> QED
  BY <1>5 DEF P

\* The bytes of one frame, and of frames none of which carries any.
LEMMA BytesOfIs ==
  ASSUME NEW S
  PROVE  /\ \A F \in SUBSET Frame : BytesOf(F, S) \in Nat
         /\ \A f \in Frame : BytesOf({f}, S) = IF f.t = "STREAM" /\ f.id \in S THEN f.len ELSE 0
         /\ \A F : (\A f \in F : f.t # "STREAM") => BytesOf(F, S) = 0
<1>3. \A F \in SUBSET Frame : BytesOf(F, S) \in Nat
  <2> TAKE F \in SUBSET Frame
  <2> DEFINE data == {f \in F : f.t = "STREAM" /\ f.id \in S}
  <2>1. CASE data = {}
    BY <2>1 DEF BytesOf
  <2>2. CASE data # {}
    <3>1. (CHOOSE f \in data : TRUE) \in data
      BY <2>2
    <3>2. \A f \in data : f.len \in Nat
      BY PeerFrameFields DEF PeerFrame
    <3> QED
      BY <2>2, <3>1, <3>2 DEF BytesOf
  <2> QED
    BY <2>1, <2>2
<1>1. ASSUME NEW f \in Frame
      PROVE  BytesOf({f}, S) = IF f.t = "STREAM" /\ f.id \in S THEN f.len ELSE 0
  <2> DEFINE data == {g \in {f} : g.t = "STREAM" /\ g.id \in S}
  <2>1. CASE f.t = "STREAM" /\ f.id \in S
    <3>1. data = {f}
      BY <2>1
    <3>2. (CHOOSE g \in data : TRUE) = f
      BY <3>1
    <3> QED
      BY <2>1, <3>1, <3>2 DEF BytesOf
  <2>2. CASE ~ (f.t = "STREAM" /\ f.id \in S)
    BY <2>2 DEF BytesOf
  <2> QED
    BY <2>1, <2>2
<1>2. ASSUME NEW F, \A f \in F : f.t # "STREAM"
      PROVE  BytesOf(F, S) = 0
  <2>1. {f \in F : f.t = "STREAM" /\ f.id \in S} = {}
    BY <1>2
  <2> QED
    BY <2>1 DEF BytesOf
<1> QED
  BY <1>1, <1>2, <1>3

\* What BytesUpTo returns for batches of frames.
LEMMA BytesUpToIs ==
  ASSUME NEW b \in Seq(SUBSET Frame), NEW S
  PROVE  /\ BytesUpTo(b, S) \in [0..Len(b) -> Nat]
         /\ BytesUpTo(b, S)[0] = 0
         /\ \A n \in 1..Len(b) : BytesUpTo(b, S)[n] = BytesUpTo(b, S)[n - 1] + BytesOf(b[n], S)
<1> DEFINE w == [n \in 1..Len(b) |-> BytesOf(b[n], S)]
           Sums(g) == g = [n \in 0..Len(b) |-> IF n = 0 THEN 0 ELSE g[n - 1] + BytesOf(b[n], S)]
<1>1. \A F \in SUBSET Frame : BytesOf(F, S) \in Nat
  BY BytesOfIs
<1>2. Len(b) \in Nat /\ \A n \in 1..Len(b) : b[n] \in SUBSET Frame
  OBVIOUS
<1>3. w \in [1..Len(b) -> Nat]
  BY <1>1, <1>2
<1>4. PICK g \in [0..Len(b) -> Nat] : g[0] = 0 /\ \A i \in 1..Len(b) : g[i] = g[i - 1] + w[i]
  <2> HIDE DEF w
  <2> QED
    BY <1>2, <1>3, SumsExist
<1>5. Sums(g)
  <2>1. \A i \in 0..Len(b) : g[i] = IF i = 0 THEN 0 ELSE g[i - 1] + BytesOf(b[i], S)
    BY <1>2, <1>4
  <2> QED
    BY <2>1
<1>6. Sums(BytesUpTo(b, S))
  <2>1. BytesUpTo(b, S) = CHOOSE h : Sums(h)
    BY DEF BytesUpTo
  <2> QED
    BY <1>5, <2>1
<1> DEFINE h == BytesUpTo(b, S)
<1>7. /\ h = [n \in 0..Len(b) |-> IF n = 0 THEN 0 ELSE h[n - 1] + BytesOf(b[n], S)]
  BY <1>6
<1> HIDE DEF h
<1>8. h[0] = 0 /\ \A n \in 1..Len(b) : h[n] = h[n - 1] + BytesOf(b[n], S)
  BY <1>2, <1>7
<1>9. \A n \in 0..Len(b) : h[n] \in Nat
  <2> DEFINE T == {n \in Nat : n <= Len(b) => h[n] \in Nat}
  <2>1. 0 \in T
    BY <1>8
  <2>2. ASSUME NEW n \in T
        PROVE  n + 1 \in T
    <3>1. n + 1 <= Len(b) => h[n + 1] = h[n] + BytesOf(b[n + 1], S) /\ h[n] \in Nat
      BY <1>2, <1>8
    <3>2. n + 1 <= Len(b) => BytesOf(b[n + 1], S) \in Nat
      BY <1>1, <1>2
    <3> QED
      BY <3>1, <3>2
  <2>3. T = Nat
    <3> HIDE DEF T
    <3>1. T \subseteq Nat
      BY DEF T
    <3> QED
      BY <2>1, <2>2, <3>1, SetInduction
  <2> QED
    BY <2>3, <1>2
<1> QED
  BY <1>7, <1>8, <1>9 DEF h

\* The first m batches of d carry what those of b carry from k on.
SameBytes(d, b, S, k, m) == \A n \in 1..m : BytesOf(d[n], S) = BytesOf(b[n + k], S)

\* The sums of d are those of b from the k-th batch on.
SumsFrom(d, b, S, k, m) ==
  \A n \in 0..m : BytesUpTo(d, S)[n] + BytesUpTo(b, S)[k] = BytesUpTo(b, S)[n + k]

\* Batches that agree, up to a shift, have the same sums up to a difference.
LEMMA SumsShift ==
  ASSUME NEW b \in Seq(SUBSET Frame), NEW d \in Seq(SUBSET Frame), NEW S,
         NEW k \in Nat, NEW m \in Nat, m <= Len(d), m + k <= Len(b),
         SameBytes(d, b, S, k, m)
  PROVE  SumsFrom(d, b, S, k, m)
<1> DEFINE x == BytesUpTo(b, S)[k]
<1>0. \A n \in 1..m : BytesOf(d[n], S) = BytesOf(b[n + k], S)
  BY DEF SameBytes
<1> DEFINE g == BytesUpTo(d, S)
           h == BytesUpTo(b, S)
           T == {n \in Nat : n <= m => g[n] + x = h[n + k]}
<1>1. /\ g \in [0..Len(d) -> Nat] /\ g[0] = 0
      /\ \A n \in 1..Len(d) : g[n] = g[n - 1] + BytesOf(d[n], S)
      /\ h \in [0..Len(b) -> Nat] /\ h[0] = 0
      /\ \A n \in 1..Len(b) : h[n] = h[n - 1] + BytesOf(b[n], S)
  BY BytesUpToIs
<1>2. /\ Len(b) \in Nat /\ Len(d) \in Nat /\ x = h[k] /\ x \in Nat
      /\ \A n \in 1..Len(d) : BytesOf(d[n], S) \in Nat
  <2>1. \A n \in 1..Len(d) : d[n] \in SUBSET Frame
    OBVIOUS
  <2>2. \A n \in 1..Len(d) : BytesOf(d[n], S) \in Nat
    BY <2>1, BytesOfIs, Zenon
  <2>3. k \in 0..Len(b)
    OBVIOUS
  <2>4. x \in Nat
    BY <1>1, <2>3 DEF h
  <2> QED
    BY <2>2, <2>4 DEF h
<1> HIDE DEF g, h, x
<1>3. 0 \in T
  BY <1>1, <1>2
<1>4. ASSUME NEW n \in Nat, n + 1 <= m, g[n] + x = h[n + k]
      PROVE  g[n + 1] + x = h[n + 1 + k]
  <2>1. g[n + 1] = g[n] + BytesOf(d[n + 1], S) /\ g[n] \in Nat /\ g[n + 1] \in Nat
    <3>1. PICK i \in 1..Len(d) : i = n + 1 /\ i - 1 = n
      BY <1>2, <1>4
    <3>2. i - 1 \in 0..Len(d) /\ i \in 0..Len(d)
      BY <1>2
    <3>3. g[i - 1] \in Nat /\ g[i] \in Nat
      BY <1>1, <3>2
    <3>4. g[i] = g[i - 1] + BytesOf(d[i], S)
      BY <1>1
    <3> QED
      BY <3>1, <3>3, <3>4, Zenon
  <2>2. h[n + 1 + k] = h[n + k] + BytesOf(b[n + 1 + k], S) /\ h[n + k] \in Nat
        /\ h[n + 1 + k] \in Nat
    <3>1. PICK i \in 1..Len(b) : i = n + 1 + k /\ i - 1 = n + k
      BY <1>2, <1>4
    <3>2. i - 1 \in 0..Len(b) /\ i \in 0..Len(b)
      BY <1>2
    <3>3. h[i - 1] \in Nat /\ h[i] \in Nat
      BY <1>1, <3>2
    <3>4. h[i] = h[i - 1] + BytesOf(b[i], S)
      BY <1>1
    <3> QED
      BY <3>1, <3>3, <3>4, Zenon
  <2>3. BytesOf(d[n + 1], S) = BytesOf(b[n + 1 + k], S)
    <3>1. n + 1 \in 1..m
      BY <1>4
    <3> QED
      BY <1>0, <3>1
  <2>4. BytesOf(d[n + 1], S) \in Nat
    BY <1>2, <1>4
  <2>5. PICK y \in Nat : y = BytesOf(d[n + 1], S)
    BY <2>4
  <2>6. g[n + 1] = g[n] + y /\ h[n + 1 + k] = h[n + k] + y /\ x \in Nat
    BY <1>2, <2>1, <2>2, <2>3, <2>5, Zenon
  <2>7. PICK a \in Nat, c \in Nat, z \in Nat : a = g[n] /\ c = h[n + k] /\ z = x
    BY <2>1, <2>2, <2>6, Zenon
  <2>8. a + z = c
    BY <1>4, <2>7, Zenon
  <2>9. (a + y) + z = c + y
    BY <2>8
  <2>10. g[n + 1] = a + y /\ h[n + 1 + k] = c + y
    BY <2>6, <2>7, Zenon
  <2> QED
    BY <2>7, <2>9, <2>10, Zenon
<1>5. ASSUME NEW n \in T
      PROVE  n + 1 \in T
  <2>1. n \in Nat /\ n + 1 \in Nat /\ (n <= m => g[n] + x = h[n + k])
    BY <1>5
  <2>2. n + 1 <= m => g[n + 1] + x = h[n + 1 + k]
    <3>1. n + 1 <= m => n <= m
      BY <2>1
    <3> QED
      BY <1>4, <2>1, <3>1, Zenon
  <2> QED
    BY <2>1, <2>2
<1>6. T = Nat
  <2> HIDE DEF T
  <2>1. T \subseteq Nat
    BY DEF T
  <2> QED
    BY <1>3, <1>5, <2>1, SetInduction
<1>7. \A n \in 0..m : g[n] + x = h[n + k]
  <2> TAKE n \in 0..m
  <2>1. n \in T /\ n <= m
    BY <1>6
  <2> QED
    BY <2>1
<1> QED
  BY <1>7 DEF g, h, x, SumsFrom

-----------------------------------------------------------------------------
(* Batches of frames on their way                                          *)

\* A STREAM frame is alone in its batch.
Solo(b) == \A i \in 1..Len(b) : \A f \in b[i] : f.t = "STREAM" => b[i] = {f}

\* Adding a batch, which may be empty.
LEMMA BatchView ==
  ASSUME NEW b \in Seq(SUBSET Frame), NEW F \in SUBSET Frame
  PROVE  LET d == Batch(b, F) IN
         /\ d \in Seq(SUBSET Frame)
         /\ Len(d) = IF F = {} THEN Len(b) ELSE Len(b) + 1
         /\ \A i \in 1..Len(b) : d[i] = b[i]
         /\ F # {} => d[Len(b) + 1] = F
BY AppendProperties DEF Batch

\* The sums of bytes when a batch is added.
LEMMA BatchSums ==
  ASSUME NEW b \in Seq(SUBSET Frame), NEW F \in SUBSET Frame, NEW S
  PROVE  /\ \A n \in 0..Len(b) : BytesUpTo(Batch(b, F), S)[n] = BytesUpTo(b, S)[n]
         /\ BytesIn(Batch(b, F), S) = BytesIn(b, S) + BytesOf(F, S)
<1> DEFINE d == Batch(b, F)
<1>1. /\ d \in Seq(SUBSET Frame) /\ Len(b) \in Nat
      /\ Len(d) = IF F = {} THEN Len(b) ELSE Len(b) + 1
      /\ \A i \in 1..Len(b) : d[i] = b[i]
      /\ F # {} => d[Len(b) + 1] = F
  BY BatchView
<1> HIDE DEF d
<1>2. BytesUpTo(b, S) \in [0..Len(b) -> Nat] /\ BytesUpTo(b, S)[0] = 0
  BY BytesUpToIs
<1>3. BytesUpTo(d, S) \in [0..Len(d) -> Nat]
  BY <1>1, BytesUpToIs
<1>5. \A n \in 0..Len(b) : BytesUpTo(d, S)[n] = BytesUpTo(b, S)[n]
  <2>1. SameBytes(d, b, S, 0, Len(b))
    BY <1>1 DEF SameBytes
  <2>2. Len(b) <= Len(d) /\ Len(b) + 0 <= Len(b) /\ Len(b) \in Nat
    BY <1>1
  <2>3. SumsFrom(d, b, S, 0, Len(b))
    BY <1>1, <2>1, <2>2, SumsShift
  <2> TAKE n \in 0..Len(b)
  <2>4. n \in 0..Len(d) /\ n + 0 = n
    BY <1>1
  <2>5. BytesUpTo(d, S)[n] \in Nat /\ BytesUpTo(b, S)[n] \in Nat
    BY <1>2, <1>3, <2>4
  <2> QED
    BY <1>2, <2>3, <2>4, <2>5 DEF SumsFrom
<1>6. BytesIn(d, S) = BytesIn(b, S) + BytesOf(F, S)
  <2>1. CASE F = {}
    BY <1>1, <1>2, <1>5, <2>1, BytesOfIs DEF BytesIn
  <2>2. CASE F # {}
    <3>1. BytesUpTo(d, S)[Len(b) + 1] = BytesUpTo(d, S)[Len(b)] + BytesOf(d[Len(b) + 1], S)
      BY <1>1, <2>2, BytesUpToIs, Len(b) + 1 \in 1..Len(d), Len(b) + 1 - 1 = Len(b)
    <3> QED
      BY <1>1, <1>5, <2>2, <3>1 DEF BytesIn
  <2> QED
    BY <2>1, <2>2
<1> QED
  BY <1>5, <1>6 DEF d

\* Reading a frame of the first batch moves the others by Shift(b, f) places.
Shift(b, f) == IF Head(b) = {f} THEN 1 ELSE 0

\* The batches that are left when a frame of the first one has been read.
LEMMA AfterView ==
  ASSUME NEW b \in Seq(SUBSET Frame), b # << >>, NEW f \in Head(b)
  PROVE  LET d == After(b, f)
             k == Shift(b, f)
         IN
         /\ d \in Seq(SUBSET Frame) /\ k \in {0, 1}
         /\ Len(d) = Len(b) - k /\ Len(d) \in Nat /\ Len(b) \in Nat \ {0}
         /\ \A i \in 1..Len(d) : /\ i + k \in 1..Len(b)
                                 /\ d[i] = IF i + k = 1 THEN b[1] \ {f} ELSE b[i + k]
         /\ k = 1 => b[1] = {f}
<1>1. Head(b) = b[1] /\ Len(b) \in Nat \ {0} /\ b[1] \in SUBSET Frame /\ 1 \in 1..Len(b)
  <2>1. Len(b) \in Nat \ {0}
    BY EmptySeq
  <2>2. 1 \in 1..Len(b)
    BY <2>1
  <2> QED
    BY <2>1, <2>2, ElementOfSeq
<1>2. CASE Head(b) = {f}
  BY <1>1, <1>2, HeadTailProperties DEF After, Shift
<1>3. CASE Head(b) # {f}
  <2>1. b[1] \ {f} \in SUBSET Frame
    BY <1>1
  <2> DEFINE d == [b EXCEPT ![1] = b[1] \ {f}]
  <2>2. d \in Seq(SUBSET Frame) /\ Len(d) = Len(b)
        /\ \A j \in 1..Len(b) : d[j] = IF j = 1 THEN b[1] \ {f} ELSE b[j]
    <3> DEFINE F == b[1] \ {f}
    <3>1. F \in SUBSET Frame
      BY <2>1
    <3> HIDE DEF F
    <3>2. /\ [b EXCEPT ![1] = F] \in Seq(SUBSET Frame) /\ Len([b EXCEPT ![1] = F]) = Len(b)
          /\ \A j \in 1..Len(b) : [b EXCEPT ![1] = F][j] = IF j = 1 THEN F ELSE b[j]
      BY <1>1, <3>1, ExceptSeq
    <3> QED
      BY <3>2 DEF F
  <2>3. After(b, f) = d /\ Shift(b, f) = 0
    BY <1>3 DEF After, Shift
  <2> HIDE DEF d
  <2>4. \A i \in 1..Len(d) : /\ i + 0 \in 1..Len(b)
                              /\ d[i] = IF i + 0 = 1 THEN b[1] \ {f} ELSE b[i + 0]
    <3> TAKE i \in 1..Len(d)
    <3>1. i + 0 = i /\ i \in 1..Len(b)
      BY <2>2
    <3> QED
      BY <2>2, <3>1
  <2>5. Len(d) = Len(b) - 0 /\ Len(d) \in Nat /\ 0 \in {0, 1} /\ 0 # 1
    BY <1>1, <2>2
  <2> QED
    BY <1>1, <2>2, <2>3, <2>4, <2>5, Zenon
<1> QED
  BY <1>2, <1>3

\* What reading a frame does to the bytes on their way.
LEMMA AfterSums ==
  ASSUME NEW b \in Seq(SUBSET Frame), Solo(b), b # << >>, NEW f \in Head(b), NEW S
  PROVE  LET d == After(b, f)
             k == Shift(b, f)
             x == BytesOf({f}, S)
         IN
         /\ x \in Nat
         /\ BytesUpTo(d, S) \in [0..Len(d) -> Nat]
         /\ \A n \in 0..Len(d) : BytesUpTo(d, S)[n] + x = BytesUpTo(b, S)[n + k]
         /\ BytesIn(d, S) + x = BytesIn(b, S)
<1> DEFINE d == After(b, f)
           k == Shift(b, f)
           x == BytesOf({f}, S)
<1>1. /\ d \in Seq(SUBSET Frame) /\ k \in {0, 1}
      /\ Len(d) = Len(b) - k /\ Len(d) \in Nat /\ Len(b) \in Nat \ {0}
      /\ \A i \in 1..Len(d) : /\ i + k \in 1..Len(b)
                              /\ d[i] = IF i + k = 1 THEN b[1] \ {f} ELSE b[i + k]
      /\ k = 1 => b[1] = {f}
  BY AfterView
<1>2. Head(b) = b[1] /\ 1 \in 1..Len(b) /\ b[1] \in SUBSET Frame /\ f \in Frame
  <2>1. Head(b) = b[1] /\ 1 \in 1..Len(b)
    BY <1>1
  <2> QED
    BY <2>1, ElementOfSeq
<1>3. x \in Nat
  BY <1>2, BytesOfIs, {f} \in SUBSET Frame
<1>4. BytesUpTo(d, S) \in [0..Len(d) -> Nat]
  BY <1>1, BytesUpToIs
<1>5. BytesUpTo(b, S) \in [0..Len(b) -> Nat] /\ BytesUpTo(b, S)[0] = 0
  BY BytesUpToIs
<1>6. BytesUpTo(b, S)[k] = x
  <2>1. CASE k = 1
    <3>1. BytesUpTo(b, S)[1] = BytesUpTo(b, S)[1 - 1] + BytesOf(b[1], S)
      BY <1>2, BytesUpToIs
    <3>2. b[1] = {f} /\ 1 - 1 = 0
      BY <1>1, <2>1
    <3>3. BytesUpTo(b, S)[1] = 0 + x
      BY <1>5, <3>1, <3>2
    <3> HIDE DEF k, x
    <3> QED
      BY <1>3, <2>1, <3>3
  <2>2. CASE k = 0
    <3>1. Head(b) # {f}
      BY <2>2 DEF Shift
    <3>2. f.t # "STREAM"
      BY <1>2, <3>1 DEF Solo
    <3> QED
      BY <1>2, <1>5, <2>2, <3>2, BytesOfIs
  <2> QED
    BY <1>1, <2>1, <2>2
<1> HIDE DEF d, k, x
<1>7. SameBytes(d, b, S, k, Len(d))
  <2> SUFFICES ASSUME NEW i \in 1..Len(d)
               PROVE  BytesOf(d[i], S) = BytesOf(b[i + k], S)
    BY DEF SameBytes
  <2>1. CASE i + k # 1
    BY <1>1, <2>1
  <2>2. CASE i + k = 1
    <3>1. d[i] = b[1] \ {f}
      BY <1>1, <2>2
    <3>2. k = 0
      BY <1>1, <2>2
    <3>3. b[1] # {f}
      BY <1>2, <3>2 DEF k, Shift
    <3>4. \A g \in b[1] : g.t # "STREAM"
      BY <1>2, <3>3 DEF Solo
    <3>5. BytesOf(b[1], S) = 0 /\ BytesOf(b[1] \ {f}, S) = 0
      BY <3>4, BytesOfIs
    <3> QED
      BY <2>2, <3>1, <3>5
  <2> QED
    BY <2>1, <2>2
<1>8. SumsFrom(d, b, S, k, Len(d))
  BY <1>1, <1>7, SumsShift, k \in Nat, Len(d) <= Len(d), Len(d) + k <= Len(b)
<1>9. \A n \in 0..Len(d) : BytesUpTo(d, S)[n] + x = BytesUpTo(b, S)[n + k]
  BY <1>6, <1>8 DEF SumsFrom
<1>10. BytesIn(d, S) + x = BytesIn(b, S)
  <2>1. Len(d) \in 0..Len(d) /\ Len(d) + k = Len(b)
    BY <1>1
  <2> QED
    BY <1>9, <2>1 DEF BytesIn
<1> QED
  BY <1>3, <1>4, <1>9, <1>10 DEF d, k, x

\* STREAM frames stay alone.
LEMMA SoloKept ==
  ASSUME NEW b \in Seq(SUBSET Frame), Solo(b)
  PROVE  /\ \A F \in SUBSET Frame :
              (\A f \in F : f.t = "STREAM" => F = {f}) => Solo(Batch(b, F))
         /\ b # << >> => \A f \in Head(b) : Solo(After(b, f))
<1>1. ASSUME NEW F \in SUBSET Frame, \A f \in F : f.t = "STREAM" => F = {f}
      PROVE  Solo(Batch(b, F))
  <2> DEFINE d == Batch(b, F)
  <2>1. /\ d \in Seq(SUBSET Frame)
        /\ Len(d) = IF F = {} THEN Len(b) ELSE Len(b) + 1
        /\ \A i \in 1..Len(b) : d[i] = b[i]
        /\ F # {} => d[Len(b) + 1] = F
    BY BatchView
  <2> HIDE DEF d
  <2>2. \A i \in 1..Len(d) : i \in 1..Len(b) \/ (F # {} /\ i = Len(b) + 1)
    BY <2>1
  <2>3. Solo(d)
    BY <1>1, <2>1, <2>2 DEF Solo
  <2> QED
    BY <2>3 DEF d
<1>2. ASSUME b # << >>, NEW f \in Head(b)
      PROVE  Solo(After(b, f))
  <2> DEFINE d == After(b, f)
             k == Shift(b, f)
  <2>1. /\ d \in Seq(SUBSET Frame) /\ k \in {0, 1}
        /\ Len(b) \in Nat \ {0}
        /\ \A i \in 1..Len(d) : /\ i + k \in 1..Len(b)
                                /\ d[i] = IF i + k = 1 THEN b[1] \ {f} ELSE b[i + k]
    BY <1>2, AfterView
  <2>2. Head(b) = b[1] /\ 1 \in 1..Len(b)
    BY <2>1
  <2> HIDE DEF d, k
  <2>3. ASSUME NEW i \in 1..Len(d), NEW g \in d[i], g.t = "STREAM"
        PROVE  d[i] = {g}
    <3>1. CASE i + k = 1
      <4>1. d[i] = b[1] \ {f}
        BY <2>1, <3>1
      <4>2. b[1] = {g}
        BY <2>2, <2>3, <4>1 DEF Solo
      <4> QED
        BY <1>2, <2>2, <2>3, <4>1, <4>2
    <3>2. CASE i + k # 1
      BY <2>1, <2>3, <3>2 DEF Solo
    <3> QED
      BY <3>1, <3>2
  <2>4. Solo(d)
    BY <2>3 DEF Solo
  <2> QED
    BY <2>4 DEF d
<1> QED
  BY <1>1, <1>2

-----------------------------------------------------------------------------
(* Limits on their way                                                     *)

\* The frames of K announce limits above known, none of them twice and in
\* increasing order, up to limit.
Announced(b, K, known, limit) ==
  /\ known <= limit
  /\ \A i \in 1..Len(b) : \A f \in b[i] \cap K :
       /\ known < f.max /\ f.max <= limit
       /\ \A g \in b[i] \cap K : g = f
       /\ \A j \in (i + 1)..Len(b) : \A g \in b[j] \cap K : f.max < g.max

\* The limit itself is known, or on its way.
Latest(b, K, known, limit) ==
  known = limit \/ \E i \in 1..Len(b) : \E f \in b[i] \cap K : f.max = limit

\* Sets of frames with a limit.
Limit(K) == K \subseteq Frame /\ \A f \in K : f.max \in Nat

\* The batch F announces that a limit goes from old to new, or says nothing of it.
Raises(F, K, old, new) ==
  \/ old = new /\ F \cap K = {}
  \/ old < new /\ \E f \in F : F \cap K = {f} /\ f.max = new

\* A limit that the sender raises is announced by what it writes.
LEMMA AnnouncedBatch ==
  ASSUME NEW b \in Seq(SUBSET Frame), NEW F \in SUBSET Frame, NEW K, Limit(K),
         NEW known \in Int, NEW old \in Int, NEW new \in Int, Raises(F, K, old, new),
         Announced(b, K, known, old)
  PROVE  /\ Announced(Batch(b, F), K, known, new)
         /\ Latest(b, K, known, old) => Latest(Batch(b, F), K, known, new)
<1> DEFINE d == Batch(b, F)
<1>1. /\ d \in Seq(SUBSET Frame) /\ Len(b) \in Nat
      /\ Len(d) = IF F = {} THEN Len(b) ELSE Len(b) + 1
      /\ \A i \in 1..Len(b) : d[i] = b[i]
      /\ F # {} => d[Len(b) + 1] = F
  BY BatchView
<1> HIDE DEF d
<1>2. \A i \in 1..Len(d) : i \in 1..Len(b) \/ (F # {} /\ i = Len(b) + 1)
  BY <1>1
<1>3. \A i \in 1..Len(b) : i \in 1..Len(d)
  BY <1>1
<1>4. known <= old /\ old <= new /\ \A f \in K : f.max \in Nat
  BY DEF Announced, Raises, Limit
<1>5. CASE old = new /\ F \cap K = {}
  <2>1. \A i \in 1..Len(d) : \A f \in d[i] \cap K : i \in 1..Len(b) /\ d[i] = b[i]
    BY <1>1, <1>2, <1>5
  <2>2. Announced(d, K, known, new)
    <3> SUFFICES ASSUME NEW i \in 1..Len(d), NEW f \in d[i] \cap K
                 PROVE  /\ known < f.max /\ f.max <= new
                        /\ \A g \in d[i] \cap K : g = f
                        /\ \A j \in (i + 1)..Len(d) : \A g \in d[j] \cap K : f.max < g.max
      BY <1>4 DEF Announced
    <3>1. i \in 1..Len(b) /\ d[i] = b[i] /\ f \in b[i] \cap K
      BY <2>1
    <3>2. /\ known < f.max /\ f.max <= new
          /\ \A g \in d[i] \cap K : g = f
      BY <1>5, <3>1 DEF Announced
    <3>3. ASSUME NEW j \in (i + 1)..Len(d), NEW g \in d[j] \cap K
          PROVE  f.max < g.max
      <4>1. j \in 1..Len(d)
        OBVIOUS
      <4>2. j \in 1..Len(b) /\ d[j] = b[j]
        BY <2>1, <4>1
      <4>3. j \in (i + 1)..Len(b)
        BY <1>1, <4>2
      <4> QED
        BY <3>1, <4>2, <4>3 DEF Announced
    <3> QED
      BY <3>2, <3>3
  <2>3. Latest(b, K, known, old) => Latest(d, K, known, new)
    BY <1>1, <1>3, <1>5 DEF Latest
  <2> QED
    BY <2>2, <2>3 DEF d
<1>6. CASE old < new /\ \E f \in F : F \cap K = {f} /\ f.max = new
  <2>1. PICK x \in F : F \cap K = {x} /\ x.max = new
    BY <1>6
  <2>2. F # {} /\ d[Len(b) + 1] = F /\ Len(d) = Len(b) + 1 /\ Len(b) + 1 \in 1..Len(d)
    BY <1>1, <2>1
  <2>3. Announced(d, K, known, new)
    <3> SUFFICES ASSUME NEW i \in 1..Len(d), NEW f \in d[i] \cap K
                 PROVE  /\ known < f.max /\ f.max <= new
                        /\ \A g \in d[i] \cap K : g = f
                        /\ \A j \in (i + 1)..Len(d) : \A g \in d[j] \cap K : f.max < g.max
      BY <1>4 DEF Announced
    <3>1. CASE i = Len(b) + 1
      <4>1. f = x /\ \A g \in d[i] \cap K : g = x
        BY <2>1, <2>2, <3>1
      <4>2. \A j \in (i + 1)..Len(d) : FALSE
        BY <1>1, <2>2, <3>1
      <4> QED
        BY <1>4, <1>6, <2>1, <4>1, <4>2
    <3>2. CASE i \in 1..Len(b)
      <4>1. d[i] = b[i] /\ f \in b[i] \cap K
        BY <1>1, <3>2
      <4>2. /\ known < f.max /\ f.max <= old
            /\ \A g \in d[i] \cap K : g = f
        BY <3>2, <4>1 DEF Announced
      <4>3. ASSUME NEW j \in (i + 1)..Len(d), NEW g \in d[j] \cap K
            PROVE  f.max < g.max
        <5>1. CASE j \in 1..Len(b)
          <6>1. d[j] = b[j] /\ j \in (i + 1)..Len(b)
            BY <1>1, <5>1
          <6> QED
            BY <3>2, <4>1, <6>1 DEF Announced
        <5>2. CASE j = Len(b) + 1
          <6>1. g = x
            BY <2>1, <2>2, <5>2
          <6> QED
            BY <1>4, <1>6, <2>1, <4>2, <6>1
        <5> QED
          BY <1>1, <2>2, <5>1, <5>2
      <4> QED
        BY <1>4, <4>2, <4>3
    <3> QED
      BY <1>2, <3>1, <3>2
  <2>4. Latest(d, K, known, new)
    BY <2>1, <2>2 DEF Latest
  <2> QED
    BY <2>3, <2>4 DEF d
<1> QED
  BY <1>5, <1>6 DEF Raises

\* A frame of another kind is read, or one of K: it is the first.
LEMMA AnnouncedAfter ==
  ASSUME NEW b \in Seq(SUBSET Frame), b # << >>, NEW f \in Head(b), NEW K, Limit(K),
         NEW known \in Int, NEW limit \in Int, Announced(b, K, known, limit)
  PROVE  /\ f \notin K => /\ Announced(After(b, f), K, known, limit)
                          /\ Latest(b, K, known, limit) => Latest(After(b, f), K, known, limit)
         /\ f \in K => /\ known < f.max /\ f.max <= limit
                       /\ Announced(After(b, f), K, f.max, limit)
                       /\ Latest(b, K, known, limit) => Latest(After(b, f), K, f.max, limit)
<1> DEFINE d == After(b, f)
           k == Shift(b, f)
<1>1. /\ d \in Seq(SUBSET Frame) /\ k \in {0, 1}
      /\ Len(d) = Len(b) - k /\ Len(d) \in Nat /\ Len(b) \in Nat \ {0}
      /\ \A i \in 1..Len(d) : /\ i + k \in 1..Len(b)
                              /\ d[i] = IF i + k = 1 THEN b[1] \ {f} ELSE b[i + k]
      /\ k = 1 => b[1] = {f}
  BY AfterView
<1>2. Head(b) = b[1] /\ 1 \in 1..Len(b)
  BY <1>1
<1> HIDE DEF d, k
<1>3. \A i \in 1..Len(d) : i + k \in 1..Len(b) /\ d[i] \subseteq b[i + k]
  BY <1>1
<1>4. /\ known <= limit /\ \A g \in K : g.max \in Nat
      /\ \A i \in 1..Len(b) : \A g \in b[i] \cap K :
           /\ known < g.max /\ g.max <= limit
           /\ \A h \in b[i] \cap K : h = g
           /\ \A j \in (i + 1)..Len(b) : \A h \in b[j] \cap K : g.max < h.max
  BY DEF Announced, Limit
<1>5. ASSUME NEW i \in 1..Len(d), NEW g \in d[i] \cap K
      PROVE  /\ known < g.max /\ g.max <= limit
             /\ \A h \in d[i] \cap K : h = g
             /\ \A j \in (i + 1)..Len(d) : \A h \in d[j] \cap K : g.max < h.max
  <2>1. i + k \in 1..Len(b) /\ g \in b[i + k] \cap K /\ d[i] \subseteq b[i + k]
    BY <1>3
  <2>2. /\ known < g.max /\ g.max <= limit
        /\ \A h \in d[i] \cap K : h = g
    BY <1>4, <2>1
  <2>3. ASSUME NEW j \in (i + 1)..Len(d), NEW h \in d[j] \cap K
        PROVE  g.max < h.max
    <3>1. j \in 1..Len(d) /\ j + k \in (i + k + 1)..Len(b)
      BY <1>1
    <3>2. h \in b[j + k] \cap K
      BY <1>3, <3>1
    <3> QED
      BY <1>4, <2>1, <3>1, <3>2
  <2> QED
    BY <2>2, <2>3
<1>6. ASSUME f \notin K
      PROVE  /\ Announced(d, K, known, limit)
             /\ Latest(b, K, known, limit) => Latest(d, K, known, limit)
  <2>1. Announced(d, K, known, limit)
    BY <1>4, <1>5 DEF Announced
  <2>2. ASSUME NEW i \in 1..Len(b), NEW g \in b[i] \cap K
        PROVE  i - k \in 1..Len(d) /\ g \in d[i - k] \cap K
    <3>1. i - k \in 1..Len(d)
      BY <1>1, <1>6, <2>2
    <3>2. d[i - k] = IF i = 1 THEN b[1] \ {f} ELSE b[i]
      BY <1>1, <3>1, i - k + k = i
    <3> QED
      BY <1>6, <3>1, <3>2
  <2>3. Latest(b, K, known, limit) => Latest(d, K, known, limit)
    BY <2>2 DEF Latest
  <2> QED
    BY <2>1, <2>3
<1>7. ASSUME f \in K
      PROVE  /\ known < f.max /\ f.max <= limit
             /\ Announced(d, K, f.max, limit)
             /\ Latest(b, K, known, limit) => Latest(d, K, f.max, limit)
  <2>1. f \in b[1] \cap K /\ f.max \in Nat
    BY <1>2, <1>4, <1>7
  <2>2. /\ known < f.max /\ f.max <= limit
        /\ \A h \in b[1] \cap K : h = f
        /\ \A j \in 2..Len(b) : \A h \in b[j] \cap K : f.max < h.max
    BY <1>2, <1>4, <2>1, 1 + 1 = 2
  <2>3. ASSUME NEW i \in 1..Len(d), NEW g \in d[i] \cap K
        PROVE  f.max < g.max
    <3>1. i + k # 1
      BY <1>1, <2>2
    <3>2. i + k \in 2..Len(b) /\ g \in b[i + k] \cap K
      BY <1>1, <1>3, <3>1
    <3> QED
      BY <2>2, <3>2
  <2>4. Announced(d, K, f.max, limit)
    BY <1>5, <2>2, <2>3 DEF Announced
  <2>5. ASSUME Latest(b, K, known, limit), f.max # limit
        PROVE  Latest(d, K, f.max, limit)
    <3>1. PICK i \in 1..Len(b) : \E g \in b[i] \cap K : g.max = limit
      <4>1. known # limit
        BY <2>1, <2>2
      <4> QED
        BY <2>5, <4>1 DEF Latest
    <3>2. PICK g \in b[i] \cap K : g.max = limit
      BY <3>1
    <3>3. i # 1
      BY <2>2, <2>5, <3>2
    <3>4. i - k \in 1..Len(d) /\ d[i - k] = b[i]
      <4>1. i - k \in 1..Len(d) /\ i - k + k = i
        BY <1>1, <3>3
      <4> QED
        BY <1>1, <3>3, <4>1
    <3> QED
      BY <3>2, <3>4 DEF Latest
  <2>6. Latest(b, K, known, limit) => Latest(d, K, f.max, limit)
    BY <2>5 DEF Latest
  <2> QED
    BY <2>2, <2>4, <2>6
<1> QED
  BY <1>6, <1>7 DEF d

\* Limits that nobody cares for any more.
LEMMA AnnouncedLoosely ==
  ASSUME NEW b \in Seq(SUBSET Frame), NEW K, Limit(K), NEW known \in Int, NEW limit \in Int,
         Announced(b, K, known, limit), NEW less \in Int, NEW more \in Int,
         less <= known, limit <= more
  PROVE  Announced(b, K, less, more)
<1>1. \A f \in K : f.max \in Nat
  BY DEF Limit
<1> QED
  BY <1>1 DEF Announced

-----------------------------------------------------------------------------
(* What ties a connection to its peer                                      *)

\* The stream was freed.
Gone(c, s) == s \notin c.live /\ Used(c, s)

\* The end of what the peer sends on the stream has been read.
EndRead(c, s) ==
  \/ Gone(c, s) \/ "SHUT_RD" \in c.strm[s].flags
  \/ c.rd.id = s /\ c.rd.fin

\* The end of what is sent on the stream has been written.
Finished(c, s) ==
  \/ Gone(c, s)
  \/ "SHUT_WR" \in c.strm[s].flags /\ "SEND_RESET_STREAM" \notin c.strm[s].flags

\* The frames that say how far the sender of stream s is, and where.
DataOf(s) ==
  {f \in Frame : f.t \in {"STREAM", "RESET_STREAM", "STREAM_DATA_BLOCKED"} /\ f.id = s}

\* Where the sender stands on the stream, as the frame says.
At(f) == IF f.t = "STREAM" THEN f.off ELSE IF f.t = "RESET_STREAM" THEN f.size ELSE f.max

\* The frame is the last of its stream.
Final(f) == f.t = "RESET_STREAM" \/ (f.t = "STREAM" /\ f.fin)

\* The frames that announce a limit: on a stream, the connection, streams.
CreditOf(s)     == {f \in Frame : f.t = "MAX_STREAM_DATA" /\ f.id = s}
MaxDataOf       == {f \in Frame : f.t = "MAX_DATA"}
MaxStreamsOf(d) == {f \in Frame : f.t = "MAX_STREAMS" /\ f.dir = d}

\* What p sends on stream s and c reads, while u is on its way from p to c:
\* every frame continues where c will be, the last one is the last, and
\* neither goes back on having finished.
DataTo(c, p, u, s) ==
  /\ \A i \in 1..Len(u) : \A f \in u[i] \cap DataOf(s) :
       /\ ~EndRead(c, s) /\ CanWrite(p, s) /\ Used(p, s)
       /\ At(f) = c.strm[s].rxLast + BytesUpTo(u, {s})[i - 1]
       /\ f.t = "STREAM" => f.off + f.len <= c.strm[s].rxMax
       /\ u[i] \cap DataOf(s) = {f}
       /\ Final(f) => /\ Finished(p, s)
                      /\ \A j \in (i + 1)..Len(u) : u[j] \cap DataOf(s) = {}
  /\ EndRead(c, s) => Finished(p, s)
  /\ ~Gone(p, s) /\ ~Gone(c, s) => p.strm[s].txOff = c.strm[s].rxLast + BytesIn(u, {s})

\* The limits for stream s that p announces to c, as long as they matter, and
\* what else p may say about the stream.
Known(c, s)   == IF Gone(c, s) THEN -1 ELSE c.strm[s].txMax
Allowed(p, s) == IF Gone(p, s) THEN MaxVarint ELSE p.strm[s].rxMax

\* What p announces and asks for on stream s while u is on its way to c.
CreditTo(c, p, u, s) ==
  /\ Announced(u, CreditOf(s), Known(c, s), Allowed(p, s))
  /\ ~Gone(p, s) /\ ~Gone(c, s) => Latest(u, CreditOf(s), c.strm[s].txMax, p.strm[s].rxMax)
  /\ \A i \in 1..Len(u) : \A f \in u[i] :
       f.t \in {"MAX_STREAM_DATA", "STOP_SENDING"} /\ f.id = s => CanRead(p, s) /\ Used(p, s)
  /\ s \in c.idtr => Used(p, s)

\* The same for the connection as a whole.
FlowTo(c, p, u) ==
  /\ p.txOff = c.rxOff + BytesIn(u, StreamIds)
  /\ Announced(u, MaxDataOf, c.txMax, p.rxMax)
  /\ Latest(u, MaxDataOf, c.txMax, p.rxMax)
  /\ \A d \in Direction : /\ Announced(u, MaxStreamsOf(d), c.txStreams[d], p.rxStreams[d])
                          /\ Latest(u, MaxStreamsOf(d), c.txStreams[d], p.rxStreams[d])
  /\ \A i \in 1..Len(u) : \A f \in u[i] : /\ f.t = "DATA_BLOCKED" => f.max <= c.rxMax
                                          /\ f.t # "QX_PING_RESPONSE"

\* What p sends to c, with u on its way.
Channel(c, p, u) ==
  /\ Solo(u) /\ FlowTo(c, p, u)
  /\ \A s \in StreamIds : DataTo(c, p, u, s) /\ CreditTo(c, p, u, s)

\* What a connection that only meets another one is, on its own.
TidyStrm(c, s) ==
  LET F == c.strm[s].flags IN
  /\ s \notin c.live => c.strm[s] = NewStrm(c.role, s)
  /\ "SEND_RESET_STREAM" \in F => "SHUT_WR" \in F
  /\ ~CanWrite(c, s) => "SHUT_WR" \in F /\ "SEND_RESET_STREAM" \notin F
  /\ ~CanRead(c, s) => "SHUT_RD" \in F

\* No PING is under way, and nothing but the glitch limit closed the connection.
TidySelf(c) == c.ping = -1 /\ c.pong = -1 /\ c.err \in {"NONE", "INTERNAL"}

Tidy(c) == TidySelf(c) /\ \A s \in StreamIds : TidyStrm(c, s)

\* Connections c and p, with u on its way from p to c and v from c to p.
Tied(c, p, u, v) ==
  /\ Good(c) /\ Good(p) /\ Tidy(c) /\ Tidy(p) /\ p.role = 1 - c.role
  /\ u \in Seq(SUBSET Frame) /\ v \in Seq(SUBSET Frame)
  /\ Channel(c, p, u) /\ Channel(p, c, v)

-----------------------------------------------------------------------------
(* What a call changes for the peer                                        *)

\* From c to d, which has written F, for stream s.
SendsData(c, d, F, s) ==
  /\ Finished(c, s) => Finished(d, s)
  /\ \A f \in F \cap DataOf(s) :
       /\ F \cap DataOf(s) = {f}
       /\ CanWrite(c, s) /\ Used(c, s) /\ ~Finished(c, s)
       /\ At(f) = c.strm[s].txOff
       /\ f.t = "STREAM" => f.off + f.len <= c.strm[s].txMax
       /\ Final(f) => Finished(d, s)
  /\ ~Gone(d, s) => d.strm[s].txOff = c.strm[s].txOff + BytesOf(F, {s})

\* F announces the limit of stream s when it was raised, and only then.
SendsCredit(c, d, F, s) ==
  /\ \A f \in F : f.t \in {"MAX_STREAM_DATA", "STOP_SENDING"} /\ f.id = s
                  => CanRead(c, s) /\ Used(c, s)
  /\ Gone(d, s) => F \cap CreditOf(s) = {}
  /\ ~Gone(d, s) => Raises(F, CreditOf(s), c.strm[s].rxMax, d.strm[s].rxMax)

\* The same for the accounts of the connection.
SendsFlow(c, d, F) ==
  /\ d.txOff = c.txOff + BytesOf(F, StreamIds)
  /\ Raises(F, MaxDataOf, c.rxMax, d.rxMax)
  /\ \A i \in Direction : Raises(F, MaxStreamsOf(i), c.rxStreams[i], d.rxStreams[i])
  /\ \A f \in F : /\ f.t = "DATA_BLOCKED" => f.max <= c.txMax
                  /\ f.t # "QX_PING_RESPONSE"
                  /\ f.t = "STREAM" => F = {f}

\* All that the peer learns of a step in which c writes F.
Sends(c, d, F) ==
  /\ SendsFlow(c, d, F)
  /\ \A s \in StreamIds : SendsData(c, d, F, s) /\ SendsCredit(c, d, F, s)

\* From c to d, which has read the frames G, one or none.
ReadsData(c, d, G, s) ==
  /\ EndRead(d, s) <=> EndRead(c, s) \/ \E f \in G \cap DataOf(s) : Final(f)
  /\ ~Gone(d, s) => /\ d.strm[s].rxLast = c.strm[s].rxLast + BytesOf(G, {s})
                    /\ c.strm[s].rxMax <= d.strm[s].rxMax

\* A limit for stream s is taken over as it was announced.
ReadsCredit(c, d, G, s) ==
  ~Gone(d, s) =>
    /\ G \cap CreditOf(s) = {} => d.strm[s].txMax = c.strm[s].txMax
    /\ \A f \in G \cap CreditOf(s) : d.strm[s].txMax = f.max

\* The same for the accounts of the connection.
ReadsFlow(c, d, G) ==
  /\ d.rxOff = c.rxOff + BytesOf(G, StreamIds)
  /\ c.rxMax <= d.rxMax
  /\ G \cap MaxDataOf = {} => d.txMax = c.txMax
  /\ \A f \in G \cap MaxDataOf : d.txMax = f.max
  /\ \A i \in Direction :
       /\ G \cap MaxStreamsOf(i) = {} => d.txStreams[i] = c.txStreams[i]
       /\ \A f \in G \cap MaxStreamsOf(i) : d.txStreams[i] = f.max

\* All that a step in which c reads G owes to the peer.
Reads(c, d, G) ==
  /\ ReadsFlow(c, d, G)
  /\ \A s \in StreamIds : ReadsData(c, d, G, s) /\ ReadsCredit(c, d, G, s)

-----------------------------------------------------------------------------
(* Frames                                                                  *)

\* The fields that a frame of each type has.
LEMMA FrameFields ==
  ASSUME NEW f \in Frame
  PROVE  /\ f.t = "STREAM" => /\ f.id \in StreamIds /\ f.fin \in BOOLEAN
                              /\ f.off \in 0..MaxVarint /\ f.len \in 0..MaxVarint
         /\ f.t \in {"RESET_STREAM", "STOP_SENDING", "MAX_STREAM_DATA", "DATA_BLOCKED",
                     "STREAM_DATA_BLOCKED"} => f.id \in StreamIds
         /\ f.t = "RESET_STREAM" => f.size \in 0..MaxVarint
         /\ f.t \in {"MAX_DATA", "MAX_STREAM_DATA", "DATA_BLOCKED", "STREAM_DATA_BLOCKED"}
            => f.max \in 0..MaxVarint
         /\ f.t = "MAX_STREAMS" => f.dir \in Direction /\ f.max \in 0..MaxStreams
         /\ f.t \in {"STREAM", "RESET_STREAM", "STOP_SENDING", "MAX_DATA",
                     "MAX_STREAM_DATA", "MAX_STREAMS", "DATA_BLOCKED",
                     "STREAM_DATA_BLOCKED", "QX_PING_RESPONSE"}
BY DEF Frame

\* The frames that announce limits carry a number.
LEMMA LimitFrames ==
  /\ \A s : Limit(CreditOf(s))
  /\ Limit(MaxDataOf)
  /\ \A d : Limit(MaxStreamsOf(d))
<1>1. \A f \in Frame : f.t \in {"MAX_DATA", "MAX_STREAM_DATA", "MAX_STREAMS"} => f.max \in Nat
  BY FrameFields, LimitsAssumption
<1> QED
  BY <1>1 DEF Limit, CreditOf, MaxDataOf, MaxStreamsOf

\* The position a data frame gives.
LEMMA DataFields ==
  ASSUME NEW s, NEW f \in DataOf(s)
  PROVE  /\ f \in Frame /\ f.id = s /\ s \in StreamIds /\ At(f) \in Nat
         /\ BytesOf({f}, {s}) = IF f.t = "STREAM" THEN f.len ELSE 0
         /\ f.t = "STREAM" => f.len \in Nat /\ f.off \in Nat /\ At(f) = f.off
<1>1. f \in Frame /\ f.id = s /\ f.t \in {"STREAM", "RESET_STREAM", "STREAM_DATA_BLOCKED"}
  BY DEF DataOf
<1>2. s \in StreamIds /\ At(f) \in Nat /\ (f.t = "STREAM" => f.len \in Nat /\ f.off \in Nat /\ At(f) = f.off)
  BY <1>1, FrameFields, LimitsAssumption DEF At
<1>3. BytesOf({f}, {s}) = IF f.t = "STREAM" THEN f.len ELSE 0
  BY <1>1, BytesOfIs, s \in {s}
<1> QED
  BY <1>1, <1>2, <1>3

\* The numbers of a connection, as natural numbers.
LEMMA Numbers ==
  ASSUME NEW c, Good(c)
  PROVE  /\ c.role \in {0, 1} /\ c.txOff \in Nat /\ c.txMax \in Nat /\ c.rxOff \in Nat
         /\ c.rxMax \in Nat /\ c.rxUnsent \in Nat /\ c.txOff <= c.txMax /\ c.rxOff <= c.rxMax
         /\ \A i \in Direction : c.txStreams[i] \in Nat /\ c.rxStreams[i] \in Nat
         /\ \A s \in StreamIds : LET x == c.strm[s] IN
              /\ x.flags \in SUBSET Flag /\ x.txOff \in Nat /\ x.txMax \in Nat
              /\ x.rxLast \in Nat /\ x.rxMax \in Nat /\ x.rxUnsent \in Nat
              /\ x.txOff <= x.txMax /\ x.rxLast <= x.rxMax /\ x.rxMax <= x.rxUnsent
              /\ x.rxMax <= MaxVarint /\ x.txMax <= MaxVarint
<1>1. \A s \in StreamIds : c.strm[s] \in StrmType /\ StrmCredit(c.strm[s])
  BY Fields
<1>2. \A x \in StrmType : /\ x.flags \in SUBSET Flag /\ x.txOff \in Nat /\ x.txMax \in Nat
              /\ x.rxLast \in Nat /\ x.rxMax \in Nat /\ x.rxUnsent \in Nat
              /\ x.rxMax <= MaxVarint /\ x.txMax <= MaxVarint
  BY LimitsAssumption DEF StrmType, Offset
<1>3. \A s \in StreamIds : LET x == c.strm[s] IN
              /\ x.flags \in SUBSET Flag /\ x.txOff \in Nat /\ x.txMax \in Nat
              /\ x.rxLast \in Nat /\ x.rxMax \in Nat /\ x.rxUnsent \in Nat
              /\ x.txOff <= x.txMax /\ x.rxLast <= x.rxMax /\ x.rxMax <= x.rxUnsent
              /\ x.rxMax <= MaxVarint /\ x.txMax <= MaxVarint
  BY <1>1, <1>2 DEF StrmCredit
<1>4. /\ c.role \in {0, 1} /\ c.txOff \in Nat /\ c.txMax \in Nat /\ c.rxOff \in Nat
      /\ c.rxMax \in Nat /\ c.rxUnsent \in Nat /\ c.txOff <= c.txMax /\ c.rxOff <= c.rxMax
  BY Fields, LimitsAssumption DEF Role
<1>5. \A i \in Direction : c.txStreams[i] \in Nat /\ c.rxStreams[i] \in Nat
  BY Fields, LimitsAssumption
<1> QED
  BY <1>3, <1>4, <1>5

-----------------------------------------------------------------------------
(* What a step of one side leaves of the ties                              *)

\* A stream that was used or freed stays so, and keeps its sides.
LEMMA KeptSides ==
  ASSUME NEW c, NEW d, Kept(c, d), NEW s \in StreamIds
  PROVE  /\ Used(c, s) => Used(d, s)
         /\ Gone(c, s) => Gone(d, s)
         /\ CanWrite(d, s) <=> CanWrite(c, s)
         /\ CanRead(d, s) <=> CanRead(c, s)
BY DEF Kept, Gone, CanWrite, CanRead, LocalStream

\* Writing F keeps what is on its way on stream s in order.
LEMMA DataSent ==
  ASSUME NEW c, Good(c), NEW p, Good(p), NEW q, Good(q), NEW u \in Seq(SUBSET Frame),
         NEW F \in SUBSET Frame, NEW s \in StreamIds, Kept(p, q),
         DataTo(c, p, u, s), SendsData(p, q, F, s),
         ~Gone(p, s) /\ ~Gone(c, s) => p.strm[s].txMax <= c.strm[s].rxMax
  PROVE  DataTo(c, q, Batch(u, F), s)
<1> DEFINE d == Batch(u, F)
           here == c.strm[s].rxLast
<1>1. /\ d \in Seq(SUBSET Frame) /\ Len(u) \in Nat
      /\ Len(d) = IF F = {} THEN Len(u) ELSE Len(u) + 1
      /\ \A i \in 1..Len(u) : d[i] = u[i]
      /\ F # {} => d[Len(u) + 1] = F
  BY BatchView
<1>2. /\ \A n \in 0..Len(u) : BytesUpTo(d, {s})[n] = BytesUpTo(u, {s})[n]
      /\ BytesIn(d, {s}) = BytesIn(u, {s}) + BytesOf(F, {s})
  BY BatchSums
<1>3. BytesUpTo(u, {s})[Len(u)] = BytesIn(u, {s}) /\ BytesIn(u, {s}) \in Nat
  BY <1>1, BytesUpToIs, Len(u) \in 0..Len(u) DEF BytesIn
<1>4. BytesOf(F, {s}) \in Nat
  BY BytesOfIs
<1> HIDE DEF d
<1>5. \A i \in 1..Len(d) : i \in 1..Len(u) \/ (F # {} /\ i = Len(u) + 1)
  BY <1>1
<1>6. /\ Used(p, s) => Used(q, s)
      /\ Gone(p, s) => Gone(q, s)
      /\ CanWrite(q, s) <=> CanWrite(p, s)
  BY KeptSides
<1>7. /\ here \in Nat /\ c.strm[s].rxMax \in Nat
      /\ p.strm[s].txOff \in Nat /\ p.strm[s].txMax \in Nat
  BY Numbers
<1>8. Finished(p, s) => Finished(q, s)
  BY DEF SendsData
<1>9. ASSUME NEW f \in F \cap DataOf(s)
      PROVE  /\ F \cap DataOf(s) = {f} /\ CanWrite(p, s) /\ Used(p, s) /\ ~Finished(p, s)
             /\ ~EndRead(c, s) /\ ~Gone(p, s) /\ ~Gone(c, s)
             /\ At(f) = here + BytesIn(u, {s})
             /\ f.t = "STREAM" => f.off + f.len <= c.strm[s].rxMax
             /\ Final(f) => Finished(q, s)
  <2>1. /\ F \cap DataOf(s) = {f} /\ CanWrite(p, s) /\ Used(p, s) /\ ~Finished(p, s)
        /\ At(f) = p.strm[s].txOff
        /\ f.t = "STREAM" => f.off + f.len <= p.strm[s].txMax
        /\ Final(f) => Finished(q, s)
    BY DEF SendsData
  <2>2. ~EndRead(c, s)
    BY <2>1 DEF DataTo
  <2>3. ~Gone(p, s) /\ ~Gone(c, s)
    BY <2>1, <2>2 DEF EndRead, Finished
  <2>4. p.strm[s].txOff = here + BytesIn(u, {s})
    BY <2>3 DEF DataTo
  <2>5. f.t = "STREAM" => f.len \in Nat /\ f.off \in Nat
    BY DataFields
  <2> QED
    BY <1>7, <2>1, <2>2, <2>3, <2>4, <2>5
<1>10. ASSUME NEW i \in 1..Len(u), NEW f \in u[i] \cap DataOf(s)
       PROVE  /\ ~EndRead(c, s) /\ CanWrite(p, s) /\ Used(p, s)
              /\ At(f) = here + BytesUpTo(u, {s})[i - 1]
              /\ f.t = "STREAM" => f.off + f.len <= c.strm[s].rxMax
              /\ u[i] \cap DataOf(s) = {f}
              /\ Final(f) => /\ Finished(p, s)
                             /\ \A j \in (i + 1)..Len(u) : u[j] \cap DataOf(s) = {}
  BY <1>10 DEF DataTo
<1>11. ASSUME NEW i \in 1..Len(d), NEW f \in d[i] \cap DataOf(s)
       PROVE  /\ ~EndRead(c, s) /\ CanWrite(q, s) /\ Used(q, s)
              /\ At(f) = here + BytesUpTo(d, {s})[i - 1]
              /\ f.t = "STREAM" => f.off + f.len <= c.strm[s].rxMax
              /\ d[i] \cap DataOf(s) = {f}
              /\ Final(f) => /\ Finished(q, s)
                             /\ \A j \in (i + 1)..Len(d) : d[j] \cap DataOf(s) = {}
  <2>1. CASE i \in 1..Len(u)
    <3>1. d[i] = u[i] /\ f \in u[i] \cap DataOf(s)
      BY <1>1, <1>11, <2>1
    <3>2. BytesUpTo(d, {s})[i - 1] = BytesUpTo(u, {s})[i - 1]
      BY <1>2, <2>1, i - 1 \in 0..Len(u)
    <3>3. ASSUME Final(f), NEW j \in (i + 1)..Len(d)
          PROVE  d[j] \cap DataOf(s) = {}
      <4>1. CASE j \in 1..Len(u)
        <5>1. j \in (i + 1)..Len(u) /\ d[j] = u[j]
          BY <1>1, <3>3, <4>1
        <5> QED
          BY <1>10, <2>1, <3>1, <3>3, <5>1
      <4>2. CASE F # {} /\ j = Len(u) + 1
        <5>1. Finished(p, s)
          BY <1>10, <2>1, <3>1, <3>3
        <5>2. F \cap DataOf(s) = {}
          BY <1>9, <5>1
        <5> QED
          BY <1>1, <4>2, <5>2
      <4>3. j \in 1..Len(d)
        BY <3>3
      <4> QED
        BY <1>5, <4>1, <4>2, <4>3
    <3> QED
      BY <1>6, <1>8, <1>10, <2>1, <3>1, <3>2, <3>3
  <2>2. CASE F # {} /\ i = Len(u) + 1
    <3>1. d[i] = F /\ f \in F \cap DataOf(s)
      BY <1>1, <1>11, <2>2
    <3>2. i - 1 = Len(u) /\ Len(u) \in 0..Len(u)
      BY <1>1, <2>2
    <3>3. BytesUpTo(d, {s})[i - 1] = BytesIn(u, {s})
      BY <1>2, <1>3, <3>2
    <3>4. \A j \in (i + 1)..Len(d) : FALSE
      BY <1>1, <2>2
    <3> QED
      BY <1>6, <1>9, <3>1, <3>3, <3>4
  <2> QED
    BY <1>5, <2>1, <2>2
<1>12. EndRead(c, s) => Finished(q, s)
  BY <1>8 DEF DataTo
<1>13. ~Gone(q, s) /\ ~Gone(c, s) => q.strm[s].txOff = here + BytesIn(d, {s})
  <2> SUFFICES ASSUME ~Gone(q, s), ~Gone(c, s)
               PROVE  q.strm[s].txOff = here + BytesIn(d, {s})
    OBVIOUS
  <2>1. q.strm[s].txOff = p.strm[s].txOff + BytesOf(F, {s})
    BY DEF SendsData
  <2>2. p.strm[s].txOff = here + BytesIn(u, {s})
    BY <1>6 DEF DataTo
  <2>3. BytesIn(d, {s}) = BytesIn(u, {s}) + BytesOf(F, {s})
    BY <1>2 DEF d
  <2> QED
    BY <1>3, <1>4, <1>7, <2>1, <2>2, <2>3
<1> QED
  BY <1>11, <1>12, <1>13 DEF DataTo, d

\* So does a call of the reader that reads no frame.
LEMMA DataKept ==
  ASSUME NEW c, Good(c), NEW d, Good(d), NEW p, Good(p), NEW u \in Seq(SUBSET Frame),
         NEW s \in StreamIds, Kept(c, d), DataTo(c, p, u, s), ReadsData(c, d, {}, s)
  PROVE  DataTo(d, p, u, s)
<1>1. EndRead(d, s) <=> EndRead(c, s)
  BY DEF ReadsData
<1>2. Gone(c, s) => Gone(d, s)
  BY KeptSides
<1>3. BytesOf({}, {s}) = 0
  BY BytesOfIs
<1>4. c.strm[s].rxLast \in Nat /\ c.strm[s].rxMax \in Nat /\ d.strm[s].rxMax \in Nat
  BY Numbers
<1>5. ~Gone(d, s) => d.strm[s].rxLast = c.strm[s].rxLast /\ c.strm[s].rxMax <= d.strm[s].rxMax
  BY <1>3, <1>4 DEF ReadsData
<1>6. ~EndRead(d, s) => ~Gone(d, s)
  BY DEF EndRead
<1>7. ASSUME NEW i \in 1..Len(u), NEW f \in u[i] \cap DataOf(s)
      PROVE  /\ ~EndRead(d, s) /\ CanWrite(p, s) /\ Used(p, s)
             /\ At(f) = d.strm[s].rxLast + BytesUpTo(u, {s})[i - 1]
             /\ f.t = "STREAM" => f.off + f.len <= d.strm[s].rxMax
             /\ u[i] \cap DataOf(s) = {f}
             /\ Final(f) => /\ Finished(p, s)
                            /\ \A j \in (i + 1)..Len(u) : u[j] \cap DataOf(s) = {}
  <2>1. /\ ~EndRead(c, s) /\ CanWrite(p, s) /\ Used(p, s)
        /\ At(f) = c.strm[s].rxLast + BytesUpTo(u, {s})[i - 1]
        /\ f.t = "STREAM" => f.off + f.len <= c.strm[s].rxMax
        /\ u[i] \cap DataOf(s) = {f}
        /\ Final(f) => /\ Finished(p, s)
                       /\ \A j \in (i + 1)..Len(u) : u[j] \cap DataOf(s) = {}
    BY <1>7 DEF DataTo
  <2>2. f.t = "STREAM" => f.len \in Nat /\ f.off \in Nat
    BY DataFields
  <2>3. f.t = "STREAM" => f.off + f.len <= d.strm[s].rxMax
    BY <1>1, <1>4, <1>5, <1>6, <2>1, <2>2
  <2> QED
    BY <1>1, <1>5, <1>6, <2>1, <2>3
<1>8. EndRead(d, s) => Finished(p, s)
  BY <1>1 DEF DataTo
<1>9. ~Gone(p, s) /\ ~Gone(d, s) => p.strm[s].txOff = d.strm[s].rxLast + BytesIn(u, {s})
  BY <1>2, <1>5 DEF DataTo
<1> QED
  BY <1>7, <1>8, <1>9 DEF DataTo

\* So does reading a frame: the others continue where it ended.
LEMMA DataRead ==
  ASSUME NEW c, Good(c), NEW d, Good(d), NEW p, Good(p), NEW u \in Seq(SUBSET Frame),
         Solo(u), u # << >>, NEW f \in Head(u),
         NEW s \in StreamIds, Kept(c, d), DataTo(c, p, u, s), ReadsData(c, d, {f}, s)
  PROVE  DataTo(d, p, After(u, f), s)
<1> DEFINE w == After(u, f)
           k == Shift(u, f)
           x == BytesOf({f}, {s})
<1>1. /\ w \in Seq(SUBSET Frame) /\ k \in {0, 1}
      /\ Len(w) = Len(u) - k /\ Len(w) \in Nat /\ Len(u) \in Nat \ {0}
      /\ \A i \in 1..Len(w) : /\ i + k \in 1..Len(u)
                              /\ w[i] = IF i + k = 1 THEN u[1] \ {f} ELSE u[i + k]
  BY AfterView
<1>2. /\ x \in Nat
      /\ BytesUpTo(w, {s}) \in [0..Len(w) -> Nat]
      /\ \A n \in 0..Len(w) : BytesUpTo(w, {s})[n] + x = BytesUpTo(u, {s})[n + k]
      /\ BytesIn(w, {s}) + x = BytesIn(u, {s})
  BY AfterSums
<1>3. Head(u) = u[1] /\ 1 \in 1..Len(u) /\ f \in u[1]
  BY <1>1
<1>4. BytesIn(w, {s}) \in Nat
  BY <1>1, <1>2, Len(w) \in 0..Len(w) DEF BytesIn
<1> HIDE DEF w, k, x
<1>5. EndRead(d, s) <=> EndRead(c, s) \/ (f \in DataOf(s) /\ Final(f))
  BY DEF ReadsData
<1>6. Gone(c, s) => Gone(d, s)
  BY KeptSides
<1>7. c.strm[s].rxLast \in Nat /\ c.strm[s].rxMax \in Nat /\ d.strm[s].rxMax \in Nat
      /\ d.strm[s].rxLast \in Nat /\ p.strm[s].txOff \in Nat
  BY Numbers
<1>8. ~Gone(d, s) => d.strm[s].rxLast = c.strm[s].rxLast + x /\ c.strm[s].rxMax <= d.strm[s].rxMax
  BY DEF ReadsData, x
<1>9. ~EndRead(d, s) => ~Gone(d, s)
  BY DEF EndRead
<1>10. ASSUME NEW i \in 1..Len(u), NEW g \in u[i] \cap DataOf(s)
       PROVE  /\ ~EndRead(c, s) /\ CanWrite(p, s) /\ Used(p, s)
              /\ At(g) = c.strm[s].rxLast + BytesUpTo(u, {s})[i - 1]
              /\ g.t = "STREAM" => g.off + g.len <= c.strm[s].rxMax
              /\ u[i] \cap DataOf(s) = {g}
              /\ Final(g) => /\ Finished(p, s)
                             /\ \A j \in (i + 1)..Len(u) : u[j] \cap DataOf(s) = {}
  BY <1>10 DEF DataTo
<1>11. ASSUME NEW i \in 1..Len(w), NEW g \in w[i] \cap DataOf(s)
       PROVE  /\ ~EndRead(d, s) /\ CanWrite(p, s) /\ Used(p, s)
              /\ At(g) = d.strm[s].rxLast + BytesUpTo(w, {s})[i - 1]
              /\ g.t = "STREAM" => g.off + g.len <= d.strm[s].rxMax
              /\ w[i] \cap DataOf(s) = {g}
              /\ Final(g) => /\ Finished(p, s)
                             /\ \A j \in (i + 1)..Len(w) : w[j] \cap DataOf(s) = {}
  <2> DEFINE m == i + k
  <2>1. m \in 1..Len(u) /\ g \in u[m] \cap DataOf(s) /\ w[i] \subseteq u[m]
        /\ (m = 1 => w[i] = u[1] \ {f})
    BY <1>1
  <2> HIDE DEF m
  <2>2. /\ ~EndRead(c, s) /\ CanWrite(p, s) /\ Used(p, s)
        /\ At(g) = c.strm[s].rxLast + BytesUpTo(u, {s})[m - 1]
        /\ g.t = "STREAM" => g.off + g.len <= c.strm[s].rxMax
        /\ u[m] \cap DataOf(s) = {g}
        /\ Final(g) => /\ Finished(p, s)
                       /\ \A j \in (m + 1)..Len(u) : u[j] \cap DataOf(s) = {}
    BY <1>10, <2>1
  <2>3. ~(f \in DataOf(s) /\ Final(f))
    <3> SUFFICES ASSUME f \in DataOf(s), Final(f)
                 PROVE  FALSE
      OBVIOUS
    <3>1. u[1] \cap DataOf(s) = {f}
      BY <1>3, <1>10
    <3>2. \A j \in (1 + 1)..Len(u) : u[j] \cap DataOf(s) = {}
      BY <1>3, <1>10
    <3>3. m # 1
      BY <2>1, <3>1
    <3>4. m \in (1 + 1)..Len(u)
      BY <1>1, <2>1, <3>3
    <3> QED
      BY <2>1, <3>2, <3>4
  <2>4. ~EndRead(d, s) /\ ~Gone(d, s)
    BY <1>5, <1>9, <2>2, <2>3
  <2>5. At(g) = d.strm[s].rxLast + BytesUpTo(w, {s})[i - 1]
    <3>1. i - 1 \in 0..Len(w) /\ i - 1 + k = m - 1
      BY <1>1 DEF m
    <3>2. BytesUpTo(w, {s})[i - 1] + x = BytesUpTo(u, {s})[m - 1]
          /\ BytesUpTo(w, {s})[i - 1] \in Nat
      BY <1>2, <3>1
    <3>3. d.strm[s].rxLast = c.strm[s].rxLast + x
      BY <1>8, <2>4
    <3> QED
      BY <1>2, <1>7, <2>2, <3>2, <3>3, SMTT(20)
  <2>6. g.t = "STREAM" => g.off + g.len <= d.strm[s].rxMax
    <3>1. g.t = "STREAM" => g.len \in Nat /\ g.off \in Nat
      BY DataFields
    <3> QED
      BY <1>7, <1>8, <2>2, <2>4, <3>1
  <2>7. w[i] \cap DataOf(s) = {g}
    BY <1>11, <2>1, <2>2
  <2>8. ASSUME Final(g), NEW j \in (i + 1)..Len(w)
        PROVE  w[j] \cap DataOf(s) = {}
    <3>1. j \in 1..Len(w) /\ j + k \in (m + 1)..Len(u) /\ j + k # 1
      BY <1>1, <2>1 DEF m
    <3>2. w[j] = u[j + k]
      BY <1>1, <3>1
    <3> QED
      BY <2>2, <2>8, <3>1, <3>2
  <2> QED
    BY <2>2, <2>4, <2>5, <2>6, <2>7, <2>8
<1>12. EndRead(d, s) => Finished(p, s)
  <2>1. EndRead(c, s) => Finished(p, s)
    BY DEF DataTo
  <2>2. f \in DataOf(s) /\ Final(f) => Finished(p, s)
    BY <1>3, <1>10
  <2> QED
    BY <1>5, <2>1, <2>2
<1>13. ~Gone(p, s) /\ ~Gone(d, s) => p.strm[s].txOff = d.strm[s].rxLast + BytesIn(w, {s})
  <2> SUFFICES ASSUME ~Gone(p, s), ~Gone(d, s)
               PROVE  p.strm[s].txOff = d.strm[s].rxLast + BytesIn(w, {s})
    OBVIOUS
  <2> DEFINE sent == p.strm[s].txOff
             was == c.strm[s].rxLast
             now == d.strm[s].rxLast
             rest == BytesIn(w, {s})
             all == BytesIn(u, {s})
  <2>1. sent = was + all
    BY <1>6 DEF DataTo
  <2>2. now = was + x /\ rest + x = all
    BY <1>2, <1>8
  <2>3. was \in Nat /\ rest \in Nat /\ x \in Nat
    BY <1>2, <1>4, <1>7
  <2> HIDE DEF sent, was, now, rest, all
  <2>4. sent = now + rest
    BY <2>1, <2>2, <2>3
  <2> QED
    BY <2>4 DEF sent, now, rest
<1> QED
  BY <1>11, <1>12, <1>13 DEF DataTo, w

\* The frames of a channel after a batch was added, or a frame read.
LEMMA Frames ==
  ASSUME NEW u \in Seq(SUBSET Frame)
  PROVE  /\ \A F \in SUBSET Frame : \A i \in 1..Len(Batch(u, F)) :
              Batch(u, F)[i] = F \/ (i \in 1..Len(u) /\ Batch(u, F)[i] = u[i])
         /\ u # << >> => \A f \in Head(u) : \A i \in 1..Len(After(u, f)) :
              \E j \in 1..Len(u) : After(u, f)[i] \subseteq u[j]
         /\ u # << >> => 1 \in 1..Len(u) /\ Head(u) = u[1] /\ Head(u) \subseteq Frame
<1>1. ASSUME NEW F \in SUBSET Frame, NEW i \in 1..Len(Batch(u, F))
      PROVE  Batch(u, F)[i] = F \/ (i \in 1..Len(u) /\ Batch(u, F)[i] = u[i])
  <2> DEFINE d == Batch(u, F)
  <2>1. /\ Len(u) \in Nat
        /\ Len(d) = IF F = {} THEN Len(u) ELSE Len(u) + 1
        /\ \A n \in 1..Len(u) : d[n] = u[n]
        /\ F # {} => d[Len(u) + 1] = F
    BY BatchView
  <2>2. i \in 1..Len(d)
    OBVIOUS
  <2> HIDE DEF d
  <2>3. d[i] = F \/ (i \in 1..Len(u) /\ d[i] = u[i])
    BY <2>1, <2>2
  <2> QED
    BY <2>3 DEF d
<1>2. ASSUME u # << >>, NEW f \in Head(u), NEW i \in 1..Len(After(u, f))
      PROVE  \E j \in 1..Len(u) : After(u, f)[i] \subseteq u[j]
  <2> DEFINE d == After(u, f)
             k == Shift(u, f)
  <2>1. \A n \in 1..Len(d) : /\ n + k \in 1..Len(u)
                             /\ d[n] = IF n + k = 1 THEN u[1] \ {f} ELSE u[n + k]
    BY <1>2, AfterView
  <2>2. i \in 1..Len(d)
    OBVIOUS
  <2> HIDE DEF d
  <2>3. d[i] \subseteq u[i + k] /\ i + k \in 1..Len(u)
    BY <2>1, <2>2
  <2> QED
    BY <2>3 DEF d
<1>3. ASSUME u # << >>
      PROVE  1 \in 1..Len(u) /\ Head(u) = u[1] /\ Head(u) \subseteq Frame
  <2>1. Len(u) \in Nat \ {0}
    BY <1>3, EmptySeq
  <2>2. 1 \in 1..Len(u)
    BY <2>1
  <2> QED
    BY <2>2, ElementOfSeq
<1> QED
  BY <1>1, <1>2, <1>3

\* Writing F keeps the limits on their way announced in order.
LEMMA CreditSent ==
  ASSUME NEW c, Good(c), NEW p, Good(p), NEW q, Good(q), NEW u \in Seq(SUBSET Frame),
         NEW F \in SUBSET Frame, NEW s \in StreamIds, Kept(p, q),
         CreditTo(c, p, u, s), SendsCredit(p, q, F, s)
  PROVE  CreditTo(c, q, Batch(u, F), s)
<1> DEFINE K == CreditOf(s)
           d == Batch(u, F)
<1>1. /\ Used(p, s) => Used(q, s)
      /\ Gone(p, s) => Gone(q, s)
      /\ CanRead(q, s) <=> CanRead(p, s)
  BY KeptSides
<1>2. /\ c.strm[s].txMax \in Nat /\ p.strm[s].rxMax \in Nat /\ q.strm[s].rxMax \in Nat
      /\ p.strm[s].rxMax <= MaxVarint /\ MaxVarint \in Nat
  BY Numbers, LimitsAssumption
<1>3. Known(c, s) \in Int /\ Allowed(p, s) \in Int /\ Allowed(p, s) <= MaxVarint
      /\ Allowed(q, s) \in Int
  BY <1>2 DEF Known, Allowed
<1>4. Limit(K)
  BY LimitFrames
<1>5. Announced(u, K, Known(c, s), Allowed(p, s))
  BY DEF CreditTo
<1>6. ~Gone(q, s) => Raises(F, K, p.strm[s].rxMax, q.strm[s].rxMax)
  BY DEF SendsCredit
<1>7. Gone(q, s) => F \cap K = {}
  BY DEF SendsCredit
<1>8. ~Gone(p, s) /\ ~Gone(c, s) => Latest(u, K, Known(c, s), Allowed(p, s))
  BY DEF CreditTo, Known, Allowed
<1> HIDE DEF K, d
<1>9. Announced(d, K, Known(c, s), Allowed(q, s))
      /\ (~Gone(q, s) /\ ~Gone(c, s) => Latest(d, K, Known(c, s), Allowed(q, s)))
  <2>1. CASE Gone(q, s)
    <3>1. Announced(u, K, Known(c, s), MaxVarint)
      BY <1>2, <1>3, <1>4, <1>5, AnnouncedLoosely, Known(c, s) <= Known(c, s)
    <3>2. Raises(F, K, MaxVarint, MaxVarint)
      BY <1>7, <2>1 DEF Raises
    <3>3. Known(c, s) \in Int /\ MaxVarint \in Int
      BY <1>2, <1>3
    <3>4. Announced(Batch(u, F), K, Known(c, s), MaxVarint)
      BY <1>4, <3>1, <3>2, <3>3, AnnouncedBatch
    <3> QED
      BY <2>1, <3>4 DEF Allowed, d
  <2>2. CASE ~Gone(q, s)
    <3>1. Allowed(p, s) = p.strm[s].rxMax /\ Allowed(q, s) = q.strm[s].rxMax
      BY <1>1, <2>2 DEF Allowed
    <3>2. Raises(F, K, Allowed(p, s), Allowed(q, s))
      BY <1>6, <2>2, <3>1
    <3> QED
      BY <1>1, <1>3, <1>4, <1>5, <1>8, <2>2, <3>2, AnnouncedBatch DEF d
  <2> QED
    BY <2>1, <2>2
<1>10. ASSUME NEW i \in 1..Len(d), NEW f \in d[i],
              f.t \in {"MAX_STREAM_DATA", "STOP_SENDING"}, f.id = s
       PROVE  CanRead(q, s) /\ Used(q, s)
  <2>1. d[i] = F \/ (i \in 1..Len(u) /\ d[i] = u[i])
    BY <1>10, Frames DEF d
  <2>2. CASE d[i] = F
    BY <1>1, <1>10, <2>2 DEF SendsCredit
  <2>3. CASE i \in 1..Len(u) /\ d[i] = u[i]
    BY <1>1, <1>10, <2>3 DEF CreditTo
  <2> QED
    BY <2>1, <2>2, <2>3
<1>11. s \in c.idtr => Used(q, s)
  BY <1>1 DEF CreditTo
<1>12. ~Gone(q, s) /\ ~Gone(c, s)
       => Known(c, s) = c.strm[s].txMax /\ Allowed(q, s) = q.strm[s].rxMax
  BY DEF Known, Allowed
<1> QED
  BY <1>9, <1>10, <1>11, <1>12 DEF CreditTo, K, d

\* So does a call of the reader that reads no frame.
LEMMA CreditKept ==
  ASSUME NEW c, Good(c), NEW d, Good(d), NEW p, Good(p), NEW u \in Seq(SUBSET Frame),
         NEW s \in StreamIds, Kept(c, d), CreditTo(c, p, u, s), ReadsCredit(c, d, {}, s),
         s \in d.idtr => s \in c.idtr \/ Used(p, s)
  PROVE  CreditTo(d, p, u, s)
<1> DEFINE K == CreditOf(s)
<1>1. Gone(c, s) => Gone(d, s)
  BY KeptSides
<1>2. /\ c.strm[s].txMax \in Nat /\ d.strm[s].txMax \in Nat /\ p.strm[s].rxMax \in Nat
      /\ MaxVarint \in Nat
  BY Numbers, LimitsAssumption
<1>3. Known(c, s) \in Int /\ Allowed(p, s) \in Int /\ -1 <= Known(c, s) /\ Known(d, s) \in Int
  BY <1>2 DEF Known, Allowed
<1>4. Known(d, s) = Known(c, s) \/ Known(d, s) = -1
  BY <1>1 DEF Known, ReadsCredit
<1>5. Announced(u, K, Known(d, s), Allowed(p, s))
  <2>1. Limit(K) /\ Announced(u, K, Known(c, s), Allowed(p, s))
    BY LimitFrames DEF CreditTo
  <2>2. Known(d, s) <= Known(c, s) /\ Allowed(p, s) <= Allowed(p, s)
    BY <1>3, <1>4
  <2> HIDE DEF K
  <2> QED
    BY <1>3, <2>1, <2>2, AnnouncedLoosely
<1> QED
  BY <1>1, <1>5 DEF CreditTo, ReadsCredit

\* So does reading a frame.
LEMMA CreditRead ==
  ASSUME NEW c, Good(c), NEW d, Good(d), NEW p, Good(p), NEW u \in Seq(SUBSET Frame),
         u # << >>, NEW f \in Head(u), NEW s \in StreamIds, Kept(c, d),
         CreditTo(c, p, u, s), ReadsCredit(c, d, {f}, s), s \in d.idtr => s \in c.idtr
  PROVE  CreditTo(d, p, After(u, f), s)
<1> DEFINE K == CreditOf(s)
           w == After(u, f)
<1>1. Gone(c, s) => Gone(d, s)
  BY KeptSides
<1>2. /\ c.strm[s].txMax \in Nat /\ d.strm[s].txMax \in Nat /\ p.strm[s].rxMax \in Nat
      /\ MaxVarint \in Nat
  BY Numbers, LimitsAssumption
<1>3. Known(c, s) \in Int /\ Allowed(p, s) \in Int /\ -1 <= Known(c, s) /\ Known(d, s) \in Int
      /\ Allowed(p, s) <= Allowed(p, s)
  BY <1>2 DEF Known, Allowed
<1>4. /\ f \notin K => Known(d, s) = Known(c, s) \/ Known(d, s) = -1
      /\ f \in K => Known(d, s) = f.max \/ Known(d, s) = -1
      /\ ~Gone(d, s) => Known(d, s) = IF f \in K THEN f.max ELSE Known(c, s)
  BY <1>1 DEF Known, ReadsCredit
<1>5. Limit(K) /\ Announced(u, K, Known(c, s), Allowed(p, s)) /\ \A g \in K : g.max \in Nat
  BY LimitFrames DEF CreditTo, Limit
<1>6. w \in Seq(SUBSET Frame)
  BY AfterView
<1>7. ~Gone(p, s) /\ ~Gone(c, s) => Latest(u, K, Known(c, s), Allowed(p, s))
  BY DEF CreditTo, Known, Allowed
<1> HIDE DEF K, w
<1>8. /\ f \notin K => /\ Announced(w, K, Known(c, s), Allowed(p, s))
                       /\ Latest(u, K, Known(c, s), Allowed(p, s))
                          => Latest(w, K, Known(c, s), Allowed(p, s))
      /\ f \in K => /\ Announced(w, K, f.max, Allowed(p, s))
                    /\ Latest(u, K, Known(c, s), Allowed(p, s))
                       => Latest(w, K, f.max, Allowed(p, s))
  BY <1>3, <1>5, AnnouncedAfter DEF w
<1>9. Announced(w, K, Known(d, s), Allowed(p, s))
  <2>1. CASE f \notin K
    BY <1>3, <1>4, <1>5, <1>6, <1>8, <2>1, AnnouncedLoosely
  <2>2. CASE f \in K
    <3>1. f.max \in Int /\ Known(d, s) <= f.max
      BY <1>4, <1>5, <2>2
    <3> QED
      BY <1>3, <1>5, <1>6, <1>8, <2>2, <3>1, AnnouncedLoosely
  <2> QED
    BY <2>1, <2>2
<1>10. ~Gone(p, s) /\ ~Gone(d, s) => Latest(w, K, d.strm[s].txMax, p.strm[s].rxMax)
  <2> SUFFICES ASSUME ~Gone(p, s), ~Gone(d, s)
               PROVE  Latest(w, K, d.strm[s].txMax, p.strm[s].rxMax)
    OBVIOUS
  <2>1. Latest(w, K, Known(d, s), Allowed(p, s))
    BY <1>1, <1>4, <1>7, <1>8
  <2> QED
    BY <2>1 DEF Known, Allowed
<1>11. ASSUME NEW i \in 1..Len(w), NEW g \in w[i],
              g.t \in {"MAX_STREAM_DATA", "STOP_SENDING"}, g.id = s
       PROVE  CanRead(p, s) /\ Used(p, s)
  <2>1. PICK j \in 1..Len(u) : w[i] \subseteq u[j]
    BY <1>11, Frames DEF w
  <2> QED
    BY <1>11, <2>1 DEF CreditTo
<1>12. s \in d.idtr => Used(p, s)
  BY DEF CreditTo
<1> QED
  BY <1>9, <1>10, <1>11, <1>12 DEF CreditTo, K, w

\* The same three facts for the accounts of the connection: writing F,
LEMMA FlowSent ==
  ASSUME NEW c, Good(c), NEW p, Good(p), NEW q, Good(q), NEW u \in Seq(SUBSET Frame),
         NEW F \in SUBSET Frame, FlowTo(c, p, u), SendsFlow(p, q, F), p.txMax <= c.rxMax
  PROVE  FlowTo(c, q, Batch(u, F))
<1> DEFINE d == Batch(u, F)
<1>1. BytesIn(d, StreamIds) = BytesIn(u, StreamIds) + BytesOf(F, StreamIds)
  BY BatchSums
<1>2. BytesIn(u, StreamIds) \in Nat /\ BytesOf(F, StreamIds) \in Nat
  BY BytesUpToIs, BytesOfIs, Len(u) \in 0..Len(u) DEF BytesIn
<1>3. /\ c.rxOff \in Nat /\ c.txMax \in Nat /\ p.rxMax \in Nat /\ q.rxMax \in Nat
      /\ c.rxMax \in Nat /\ p.txMax \in Nat
      /\ \A i \in Direction : /\ c.txStreams[i] \in Nat /\ p.rxStreams[i] \in Nat
                              /\ q.rxStreams[i] \in Nat
  BY Numbers
<1>4. q.txOff = c.rxOff + BytesIn(d, StreamIds)
  BY <1>1, <1>2, <1>3 DEF FlowTo, SendsFlow
<1>5. /\ Announced(d, MaxDataOf, c.txMax, q.rxMax)
      /\ Latest(d, MaxDataOf, c.txMax, q.rxMax)
  <2>1. /\ Announced(u, MaxDataOf, c.txMax, p.rxMax)
        /\ Latest(u, MaxDataOf, c.txMax, p.rxMax)
        /\ Raises(F, MaxDataOf, p.rxMax, q.rxMax)
    BY DEF FlowTo, SendsFlow
  <2>2. c.txMax \in Int /\ p.rxMax \in Int /\ q.rxMax \in Int
    BY <1>3
  <2> QED
    BY <2>1, <2>2, LimitFrames, AnnouncedBatch
<1>6. ASSUME NEW i \in Direction
      PROVE  /\ Announced(d, MaxStreamsOf(i), c.txStreams[i], q.rxStreams[i])
             /\ Latest(d, MaxStreamsOf(i), c.txStreams[i], q.rxStreams[i])
  <2>1. /\ Announced(u, MaxStreamsOf(i), c.txStreams[i], p.rxStreams[i])
        /\ Latest(u, MaxStreamsOf(i), c.txStreams[i], p.rxStreams[i])
        /\ Raises(F, MaxStreamsOf(i), p.rxStreams[i], q.rxStreams[i])
    BY DEF FlowTo, SendsFlow
  <2>2. c.txStreams[i] \in Int /\ p.rxStreams[i] \in Int /\ q.rxStreams[i] \in Int
    BY <1>3
  <2> QED
    BY <2>1, <2>2, LimitFrames, AnnouncedBatch
<1>7. ASSUME NEW i \in 1..Len(d), NEW f \in d[i]
      PROVE  (f.t = "DATA_BLOCKED" => f.max <= c.rxMax) /\ f.t # "QX_PING_RESPONSE"
  <2>1. d[i] = F \/ (i \in 1..Len(u) /\ d[i] = u[i])
    BY <1>7, Frames
  <2>2. CASE d[i] = F
    <3>1. (f.t = "DATA_BLOCKED" => f.max <= p.txMax) /\ f.t # "QX_PING_RESPONSE"
      BY <1>7, <2>2 DEF SendsFlow
    <3>2. f.t = "DATA_BLOCKED" => f.max \in Nat
      BY <1>7, <2>2, FrameFields, LimitsAssumption
    <3> QED
      BY <1>3, <3>1, <3>2
  <2>3. CASE i \in 1..Len(u) /\ d[i] = u[i]
    BY <1>7, <2>3 DEF FlowTo
  <2> QED
    BY <2>1, <2>2, <2>3
<1> QED
  BY <1>4, <1>5, <1>6, <1>7 DEF FlowTo

\* a call that reads no frame,
LEMMA FlowKept ==
  ASSUME NEW c, Good(c), NEW d, Good(d), NEW p, Good(p), NEW u \in Seq(SUBSET Frame),
         FlowTo(c, p, u), ReadsFlow(c, d, {})
  PROVE  FlowTo(d, p, u)
<1>1. BytesOf({}, StreamIds) = 0
  BY BytesOfIs
<1>2. c.rxOff \in Nat /\ c.rxMax \in Nat /\ d.rxMax \in Nat
  BY Numbers
<1>3. d.rxOff = c.rxOff /\ c.rxMax <= d.rxMax /\ d.txMax = c.txMax
      /\ \A i \in Direction : d.txStreams[i] = c.txStreams[i]
  BY <1>1, <1>2 DEF ReadsFlow
<1>4. ASSUME NEW i \in 1..Len(u), NEW f \in u[i], f.t = "DATA_BLOCKED"
      PROVE  f.max <= d.rxMax
  <2>1. f \in Frame
    BY <1>4, ElementOfSeq
  <2>2. f.max \in Nat
    BY <1>4, <2>1, FrameFields, LimitsAssumption
  <2>3. f.max <= c.rxMax
    BY <1>4 DEF FlowTo
  <2> QED
    BY <1>2, <1>3, <2>2, <2>3
<1> QED
  BY <1>3, <1>4 DEF FlowTo

\* and reading a frame.
LEMMA FlowRead ==
  ASSUME NEW c, Good(c), NEW d, Good(d), NEW p, Good(p), NEW u \in Seq(SUBSET Frame),
         Solo(u), u # << >>, NEW f \in Head(u), FlowTo(c, p, u), ReadsFlow(c, d, {f})
  PROVE  FlowTo(d, p, After(u, f))
<1> DEFINE w == After(u, f)
           x == BytesOf({f}, StreamIds)
<1>1. /\ w \in Seq(SUBSET Frame) /\ x \in Nat
      /\ BytesIn(w, StreamIds) + x = BytesIn(u, StreamIds)
  <2>1. w \in Seq(SUBSET Frame)
    BY AfterView
  <2>2. x \in Nat /\ BytesIn(w, StreamIds) + x = BytesIn(u, StreamIds)
    BY AfterSums
  <2> QED
    BY <2>1, <2>2
<1>2. BytesIn(w, StreamIds) \in Nat
  BY <1>1, BytesUpToIs, Len(w) \in 0..Len(w) DEF BytesIn
<1>3. /\ c.rxOff \in Nat /\ c.txMax \in Nat /\ p.rxMax \in Nat /\ p.txOff \in Nat
      /\ c.rxMax \in Nat /\ d.rxMax \in Nat /\ d.rxOff \in Nat
      /\ \A i \in Direction : c.txStreams[i] \in Nat /\ p.rxStreams[i] \in Nat
  BY Numbers
<1>4. p.txOff = d.rxOff + BytesIn(w, StreamIds)
  <2>1. d.rxOff = c.rxOff + x /\ p.txOff = c.rxOff + BytesIn(u, StreamIds)
    BY DEF FlowTo, ReadsFlow
  <2> HIDE DEF w, x
  <2> QED
    BY <1>1, <1>2, <1>3, <2>1
<1>5. /\ Announced(w, MaxDataOf, d.txMax, p.rxMax)
      /\ Latest(w, MaxDataOf, d.txMax, p.rxMax)
  <2>1. /\ Announced(u, MaxDataOf, c.txMax, p.rxMax)
        /\ Latest(u, MaxDataOf, c.txMax, p.rxMax)
        /\ f \notin MaxDataOf => d.txMax = c.txMax
        /\ f \in MaxDataOf => d.txMax = f.max
    BY DEF FlowTo, ReadsFlow
  <2>2. c.txMax \in Int /\ p.rxMax \in Int
    BY <1>3
  <2> QED
    BY <2>1, <2>2, LimitFrames, AnnouncedAfter
<1>6. ASSUME NEW i \in Direction
      PROVE  /\ Announced(w, MaxStreamsOf(i), d.txStreams[i], p.rxStreams[i])
             /\ Latest(w, MaxStreamsOf(i), d.txStreams[i], p.rxStreams[i])
  <2>1. /\ Announced(u, MaxStreamsOf(i), c.txStreams[i], p.rxStreams[i])
        /\ Latest(u, MaxStreamsOf(i), c.txStreams[i], p.rxStreams[i])
        /\ f \notin MaxStreamsOf(i) => d.txStreams[i] = c.txStreams[i]
        /\ f \in MaxStreamsOf(i) => d.txStreams[i] = f.max
    BY DEF FlowTo, ReadsFlow
  <2>2. c.txStreams[i] \in Int /\ p.rxStreams[i] \in Int
    BY <1>3
  <2> QED
    BY <2>1, <2>2, LimitFrames, AnnouncedAfter
<1>7. ASSUME NEW i \in 1..Len(w), NEW g \in w[i]
      PROVE  (g.t = "DATA_BLOCKED" => g.max <= d.rxMax) /\ g.t # "QX_PING_RESPONSE"
  <2>1. PICK j \in 1..Len(u) : w[i] \subseteq u[j]
    BY <1>7, Frames
  <2>2. g \in u[j] /\ g \in Frame
    BY <1>7, <2>1, ElementOfSeq
  <2>3. (g.t = "DATA_BLOCKED" => g.max <= c.rxMax) /\ g.t # "QX_PING_RESPONSE"
    BY <2>2 DEF FlowTo
  <2>4. g.t = "DATA_BLOCKED" => g.max \in Nat
    BY <2>2, FrameFields, LimitsAssumption
  <2> QED
    BY <1>3, <2>3, <2>4 DEF ReadsFlow
<1> QED
  BY <1>4, <1>5, <1>6, <1>7 DEF FlowTo

\* What one side sends: the other is tied as before, to what it has become.
LEMMA SentTied ==
  ASSUME NEW c, NEW p, NEW u, NEW v, Tied(c, p, u, v),
         NEW d, Good(d), Kept(c, d), NEW F \in SUBSET Frame, Sends(c, d, F)
  PROVE  Channel(p, d, Batch(v, F))
<1>1. /\ Good(c) /\ Good(p) /\ v \in Seq(SUBSET Frame)
      /\ Channel(c, p, u) /\ Channel(p, c, v)
  BY DEF Tied
<1>2. Solo(Batch(v, F))
  BY <1>1, SoloKept DEF Channel, Sends, SendsFlow
<1>3. FlowTo(p, d, Batch(v, F))
  <2>1. c.txMax <= p.rxMax
    BY <1>1 DEF Channel, FlowTo, Announced
  <2> QED
    BY <1>1, <2>1, FlowSent DEF Channel, Sends
<1>4. ASSUME NEW s \in StreamIds
      PROVE  DataTo(p, d, Batch(v, F), s) /\ CreditTo(p, d, Batch(v, F), s)
  <2>1. ~Gone(c, s) /\ ~Gone(p, s) => c.strm[s].txMax <= p.strm[s].rxMax
    BY <1>1 DEF Channel, CreditTo, Announced, Known, Allowed
  <2>2. DataTo(p, c, v, s) /\ CreditTo(p, c, v, s) /\ SendsData(c, d, F, s) /\ SendsCredit(c, d, F, s)
    BY <1>1 DEF Channel, Sends
  <2> QED
    BY <1>1, <2>1, <2>2, DataSent, CreditSent
<1> QED
  BY <1>2, <1>3, <1>4 DEF Channel

\* Endpoint c takes a step that reads nothing from the wire.
LEMMA StepTied ==
  ASSUME NEW c, NEW p, NEW u, NEW v, Tied(c, p, u, v),
         NEW d, Good(d), Tidy(d), Kept(c, d), NEW F \in SUBSET Frame,
         Sends(c, d, F), Reads(c, d, {}),
         \A s \in d.idtr : s \in c.idtr \/ Used(p, s)
  PROVE  Tied(d, p, u, Batch(v, F))
<1>1. /\ Good(c) /\ Good(p) /\ Tidy(p) /\ p.role = 1 - c.role
      /\ u \in Seq(SUBSET Frame) /\ v \in Seq(SUBSET Frame)
      /\ Channel(c, p, u) /\ Channel(p, c, v)
  BY DEF Tied
<1>2. Channel(p, d, Batch(v, F))
  BY SentTied
<1>3. Channel(d, p, u)
  <2>1. FlowTo(d, p, u)
    BY <1>1, FlowKept DEF Channel, Reads
  <2>2. ASSUME NEW s \in StreamIds
        PROVE  DataTo(d, p, u, s) /\ CreditTo(d, p, u, s)
    <3>1. DataTo(c, p, u, s) /\ CreditTo(c, p, u, s) /\ ReadsData(c, d, {}, s) /\ ReadsCredit(c, d, {}, s)
      BY <1>1 DEF Channel, Reads
    <3> QED
      BY <1>1, <3>1, DataKept, CreditKept
  <2> QED
    BY <1>1, <2>1, <2>2 DEF Channel
<1>4. d.role = c.role /\ Batch(v, F) \in Seq(SUBSET Frame)
  BY <1>1, BatchView DEF Kept
<1> QED
  BY <1>1, <1>2, <1>3, <1>4 DEF Tied

\* Endpoint c reads frame f.
LEMMA ReadTied ==
  ASSUME NEW c, NEW p, NEW u, NEW v, Tied(c, p, u, v), u # << >>, NEW f \in Head(u),
         NEW d, Good(d), Tidy(d), Kept(c, d), Sends(c, d, {}), Reads(c, d, {f}),
         d.idtr = c.idtr
  PROVE  Tied(d, p, After(u, f), v)
<1>1. /\ Good(c) /\ Good(p) /\ Tidy(p) /\ p.role = 1 - c.role
      /\ u \in Seq(SUBSET Frame) /\ v \in Seq(SUBSET Frame)
      /\ Channel(c, p, u) /\ Channel(p, c, v)
  BY DEF Tied
<1>2. Channel(p, d, v)
  <2>1. Channel(p, d, Batch(v, {}))
    BY SentTied, {} \in SUBSET Frame
  <2> QED
    BY <2>1 DEF Batch
<1>3. Channel(d, p, After(u, f))
  <2>1. FlowTo(d, p, After(u, f)) /\ Solo(After(u, f))
    BY <1>1, FlowRead, SoloKept DEF Channel, Reads
  <2>2. ASSUME NEW s \in StreamIds
        PROVE  DataTo(d, p, After(u, f), s) /\ CreditTo(d, p, After(u, f), s)
    <3>1. /\ DataTo(c, p, u, s) /\ CreditTo(c, p, u, s) /\ Solo(u)
          /\ ReadsData(c, d, {f}, s) /\ ReadsCredit(c, d, {f}, s)
      BY <1>1 DEF Channel, Reads
    <3> QED
      BY <1>1, <3>1, DataRead, CreditRead
  <2> QED
    BY <2>1, <2>2 DEF Channel
<1>4. d.role = c.role /\ After(u, f) \in Seq(SUBSET Frame)
  BY <1>1, AfterView DEF Kept
<1> QED
  BY <1>1, <1>2, <1>3, <1>4 DEF Tied

-----------------------------------------------------------------------------
(* Calls that the peer does not hear of                                    *)

\* The peer sees no change in stream s: nothing that the ties mention changes,
\* the stream is open as before, or it was over in both directions and is freed.
Same(c, d, s) ==
  /\ d.strm[s] = c.strm[s] /\ (Gone(d, s) <=> Gone(c, s))
  /\ d.rd.id = s /\ d.rd.fin <=> c.rd.id = s /\ c.rd.fin

\* The end of the stream was read or is being read.
Ending(c, s) == "SHUT_RD" \in c.strm[s].flags \/ (c.rd.id = s /\ c.rd.fin)

\* The end of the stream was written.
Written(x) == "SHUT_WR" \in x.flags /\ "SEND_RESET_STREAM" \notin x.flags

\* The stream stays open, with the same ends and accounts.
Steady(c, d, s) ==
  /\ s \in c.live /\ s \in d.live
  /\ Written(c.strm[s]) => Written(d.strm[s])
  /\ Ending(d, s) <=> Ending(c, s)
  /\ d.strm[s].txOff = c.strm[s].txOff /\ d.strm[s].txMax = c.strm[s].txMax
  /\ d.strm[s].rxLast = c.strm[s].rxLast /\ d.strm[s].rxMax = c.strm[s].rxMax

\* The stream was over in both directions and is freed.
Freed(c, d, s) == s \in c.live /\ ShouldCloseStream(c.strm[s]) /\ Gone(d, s)

\* The peer has nothing to learn about the stream.
Quiet(c, d, s) == Same(c, d, s) \/ Steady(c, d, s) \/ Freed(c, d, s)

\* The frames of F are not about stream s.
Mute(F, s) ==
  \A f \in F : f.t \in {"STREAM", "RESET_STREAM", "STOP_SENDING", "MAX_STREAM_DATA",
                        "STREAM_DATA_BLOCKED"} => f.id # s

\* The accounts of the connection do not change.
SameFlow(c, d) ==
  /\ d.txOff = c.txOff /\ d.txMax = c.txMax /\ d.rxOff = c.rxOff /\ d.rxMax = c.rxMax
  /\ d.txStreams = c.txStreams /\ d.rxStreams = c.rxStreams

\* What frames that are not about a stream do not contain.
LEMMA MuteFrames ==
  ASSUME NEW s, NEW F, Mute(F, s)
  PROVE  F \cap DataOf(s) = {} /\ F \cap CreditOf(s) = {} /\ BytesOf(F, {s}) = 0
<1>1. {f \in F : f.t = "STREAM" /\ f.id \in {s}} = {}
  BY DEF Mute
<1> QED
  BY <1>1 DEF Mute, DataOf, CreditOf, BytesOf

\* A quiet step sends and reads nothing about the stream.
LEMMA QuietStream ==
  ASSUME NEW c, Good(c), NEW d, Good(d), NEW s \in StreamIds, Quiet(c, d, s), Kept(c, d),
         NEW F, NEW G, Mute(F, s), Mute(G, s)
  PROVE  /\ SendsData(c, d, F, s) /\ SendsCredit(c, d, F, s)
         /\ ReadsData(c, d, G, s) /\ ReadsCredit(c, d, G, s)
<1>1. /\ F \cap DataOf(s) = {} /\ F \cap CreditOf(s) = {} /\ BytesOf(F, {s}) = 0
      /\ G \cap DataOf(s) = {} /\ G \cap CreditOf(s) = {} /\ BytesOf(G, {s}) = 0
      /\ \A f \in F : f.t \in {"MAX_STREAM_DATA", "STOP_SENDING"} => f.id # s
  BY MuteFrames DEF Mute
<1>2. /\ c.strm[s].txOff \in Nat /\ c.strm[s].rxMax \in Nat /\ c.strm[s].rxLast \in Nat
      /\ d.strm[s].txOff \in Nat /\ d.strm[s].rxMax \in Nat /\ d.strm[s].rxLast \in Nat
  BY Numbers
<1>3. /\ Finished(c, s) => Finished(d, s)
      /\ EndRead(d, s) <=> EndRead(c, s)
      /\ ~Gone(d, s) => /\ d.strm[s].txOff = c.strm[s].txOff /\ d.strm[s].txMax = c.strm[s].txMax
                        /\ d.strm[s].rxLast = c.strm[s].rxLast
                        /\ d.strm[s].rxMax = c.strm[s].rxMax
  <2>1. CASE Same(c, d, s)
    BY <2>1 DEF Same, Finished, EndRead, Gone
  <2>2. CASE Steady(c, d, s)
    BY <2>2 DEF Steady, Finished, EndRead, Gone, Written, Ending
  <2>3. CASE Freed(c, d, s)
    BY <2>3 DEF Freed, ShouldCloseStream, Finished, EndRead, Gone
  <2> QED
    BY <2>1, <2>2, <2>3 DEF Quiet
<1>4. SendsData(c, d, F, s)
  BY <1>1, <1>2, <1>3 DEF SendsData
<1>5. SendsCredit(c, d, F, s)
  BY <1>1, <1>2, <1>3 DEF SendsCredit, Raises
<1>6. ReadsData(c, d, G, s)
  BY <1>1, <1>2, <1>3 DEF ReadsData
<1>7. ReadsCredit(c, d, G, s)
  BY <1>1, <1>3 DEF ReadsCredit
<1> QED
  BY <1>4, <1>5, <1>6, <1>7

\* A step that leaves the accounts alone sends and reads nothing about them.
LEMMA QuietFlow ==
  ASSUME NEW c, Good(c), NEW d, SameFlow(c, d)
  PROVE  SendsFlow(c, d, {}) /\ ReadsFlow(c, d, {})
<1>1. BytesOf({}, StreamIds) = 0
  BY BytesOfIs
<1>2. c.txOff \in Nat /\ c.rxOff \in Nat /\ c.rxMax \in Nat
  BY Numbers
<1>3. \A K, x : Raises({}, K, x, x)
  BY DEF Raises
<1> QED
  BY <1>1, <1>2, <1>3 DEF SameFlow, SendsFlow, ReadsFlow

\* A call that is quiet on every stream keeps two connections tied.
LEMMA QuietTied ==
  ASSUME NEW c, NEW p, NEW u, NEW v, Tied(c, p, u, v),
         NEW d, Good(d), Tidy(d), Kept(c, d), SameFlow(c, d),
         \A s \in d.idtr : s \in c.idtr \/ Used(p, s),
         \A s \in StreamIds : Quiet(c, d, s)
  PROVE  Tied(d, p, u, v)
<1>1. Good(c)
  BY DEF Tied
<1>2. Sends(c, d, {}) /\ Reads(c, d, {})
  <2>1. \A s : Mute({}, s)
    BY DEF Mute
  <2> QED
    BY <1>1, <2>1, QuietStream, QuietFlow DEF Sends, Reads
<1>3. Tied(d, p, u, Batch(v, {}))
  BY <1>2, StepTied
<1> QED
  BY <1>3 DEF Batch

\* A new stream is shut on the side that its id does not have.
LEMMA NewStrmTidy ==
  ASSUME NEW r, NEW s \in StreamIds
  PROVE  LET F == NewStrm(r, s).flags IN
         /\ "SEND_RESET_STREAM" \notin F
         /\ ~(BidiStream(s) \/ s % 2 = r) => "SHUT_WR" \in F
         /\ ~(BidiStream(s) \/ ~(s % 2 = r)) => "SHUT_RD" \in F
BY DEF NewStrm

\* One open stream changes, in what the peer does not see.
LEMMA TouchTied ==
  ASSUME NEW c, NEW p, NEW u, NEW v, Tied(c, p, u, v), NEW s \in StreamIds, s \in c.live,
         NEW d, Good(d), Touches(c, d, s), Steady(c, d, s), SameFlow(c, d), TidySelf(d),
         "SEND_RESET_STREAM" \in d.strm[s].flags => "SHUT_WR" \in d.strm[s].flags,
         "SHUT_RD" \in c.strm[s].flags => "SHUT_RD" \in d.strm[s].flags,
         \A t \in StreamIds \ {s} : d.rd.id = t /\ d.rd.fin <=> c.rd.id = t /\ c.rd.fin
  PROVE  Tied(d, p, u, v)
<1>1. Good(c) /\ Tidy(c)
  BY DEF Tied
<1>2. /\ d.role = c.role /\ d.live = c.live /\ d.idtr = c.idtr /\ d.next = c.next
      /\ \A t \in StreamIds \ {s} : d.strm[t] = c.strm[t]
  BY DEF Touches, SameLimits
<1>3. Kept(c, d)
  BY <1>2, KeptIfSame DEF Touches
<1>4. ASSUME NEW t \in StreamIds
      PROVE  Quiet(c, d, t) /\ TidyStrm(d, t)
  <2>1. CASE t = s
    BY <1>1, <1>2, <2>1 DEF Quiet, Steady, Written, Tidy, TidyStrm, CanWrite, CanRead, LocalStream
  <2>2. CASE t # s
    BY <1>1, <1>2, <2>2 DEF Quiet, Same, Gone, Used, Tidy, TidyStrm, CanWrite, CanRead, LocalStream
  <2> QED
    BY <2>1, <2>2
<1> QED
  BY <1>2, <1>3, <1>4, QuietTied DEF Tidy

\* A stream that is over in both directions is freed.
LEMMA CloseTied ==
  ASSUME NEW c, NEW p, NEW u, NEW v, Tied(c, p, u, v), NEW s \in StreamIds,
         s \in c.live, Used(c, s)
  PROVE  Tied(CloseStreamIfShutRdWr(c, s), p, u, v)
<1> DEFINE d == CloseStream(c, s)
<1>1. Good(c) /\ Tidy(c) /\ Good(d)
  BY CloseStreamGood DEF Tied
<1>2. CASE ~ShouldCloseStream(c.strm[s])
  BY <1>2 DEF CloseStreamIfShutRdWr
<1>3. CASE ShouldCloseStream(c.strm[s])
  <2>1. /\ d.role = c.role /\ d.live = c.live \ {s} /\ d.idtr = c.idtr /\ d.next = c.next
        /\ d.rd = c.rd /\ SameFlow(c, d) /\ TidySelf(d) /\ SameLimits(c, d)
        /\ d.strm[s] = NewStrm(c.role, s)
        /\ \A t \in StreamIds \ {s} : d.strm[t] = c.strm[t]
    BY <1>1 DEF CloseStream, SameFlow, SameLimits, TidySelf, Tidy, Good, ConnType
  <2> HIDE DEF d
  <2>2. Kept(c, d)
    BY <2>1, KeptIfSame
  <2>3. ASSUME NEW t \in StreamIds
        PROVE  Quiet(c, d, t) /\ TidyStrm(d, t)
    <3>1. CASE t = s
      BY <1>3, <2>1, <3>1, NewStrmTidy
         DEF Quiet, Freed, Gone, Used, TidyStrm, CanWrite, CanRead, LocalStream
    <3>2. CASE t # s
      BY <1>1, <2>1, <3>2 DEF Quiet, Same, Gone, Used, Tidy, TidyStrm, CanWrite, CanRead, LocalStream
    <3> QED
      BY <3>1, <3>2
  <2>4. Tied(d, p, u, v)
    BY <1>1, <2>1, <2>2, <2>3, QuietTied DEF Tidy
  <2> QED
    BY <1>3, <2>4 DEF CloseStreamIfShutRdWr, d
<1> QED
  BY <1>2, <1>3

\* Flags are set that start the end of a stream, or of one side of it.
LEMMA MarkTied ==
  ASSUME NEW c, NEW p, NEW u, NEW v, Tied(c, p, u, v), NEW s \in StreamIds, s \in c.live,
         NEW F \in SUBSET Flag, "SHUT_RD" \notin F,
         "SEND_RESET_STREAM" \in F => "SHUT_WR" \notin c.strm[s].flags /\ "SHUT_WR" \in F,
         NEW d, Good(d), Touches(c, d, s), SameFlow(c, d), TidySelf(d), d.rd = c.rd,
         d.strm[s] = [c.strm[s] EXCEPT !.flags = @ \cup F]
  PROVE  Tied(d, p, u, v)
<1>1. Good(c) /\ Tidy(c)
  BY DEF Tied
<1>2. c.strm[s] \in StrmType
  BY <1>1 DEF Good, ConnType
<1>3. /\ d.strm[s].flags = c.strm[s].flags \cup F
      /\ d.strm[s].txOff = c.strm[s].txOff /\ d.strm[s].txMax = c.strm[s].txMax
      /\ d.strm[s].rxLast = c.strm[s].rxLast /\ d.strm[s].rxMax = c.strm[s].rxMax
  BY <1>2 DEF StrmType
<1>4. "SEND_RESET_STREAM" \in c.strm[s].flags => "SHUT_WR" \in c.strm[s].flags
  BY <1>1 DEF Tidy, TidyStrm
<1>5. Steady(c, d, s)
  BY <1>3 DEF Steady, Written, Ending, Touches
<1>6. "SEND_RESET_STREAM" \in d.strm[s].flags => "SHUT_WR" \in d.strm[s].flags
  BY <1>3, <1>4
<1>7. "SHUT_RD" \in c.strm[s].flags => "SHUT_RD" \in d.strm[s].flags
  BY <1>3
<1> QED
  BY <1>5, <1>6, <1>7, TouchTied

\* What setting flags and queueing a stream leave alone.
LEMMA MarkView ==
  ASSUME NEW c, Good(c), TidySelf(c), NEW s \in StreamIds, NEW F \in SUBSET Flag
  PROVE  LET d == SetFlags(c, s, F)
             e == PushIfNot(d, s)
         IN
         /\ Good(d) /\ Touches(c, d, s) /\ SameFlow(c, d) /\ TidySelf(d) /\ d.rd = c.rd
         /\ d.strm[s] = [c.strm[s] EXCEPT !.flags = @ \cup F]
         /\ Good(e) /\ Touches(c, e, s) /\ SameFlow(c, e) /\ TidySelf(e) /\ e.rd = c.rd
         /\ e.strm[s] = [c.strm[s] EXCEPT !.flags = @ \cup F]
<1> DEFINE d == SetFlags(c, s, F)
           e == PushIfNot(d, s)
<1>1. Good(d) /\ Good(e)
  BY SetFlagsGood, PushGood
<1>2. /\ Touches(c, d, s) /\ d.rd = c.rd /\ d.strm[s] = [c.strm[s] EXCEPT !.flags = @ \cup F]
      /\ Touches(c, e, s) /\ e.rd = c.rd /\ e.strm[s] = [c.strm[s] EXCEPT !.flags = @ \cup F]
  BY SetFlagsView, ScheduleView
<1>3. SameFlow(c, d) /\ TidySelf(d) /\ SameFlow(c, e) /\ TidySelf(e)
  BY DEF SetFlags, PushIfNot, SameFlow, TidySelf, Good, ConnType
<1> QED
  BY <1>1, <1>2, <1>3

\* Setting flags twice sets both.
LEMMA SetTwice ==
  ASSUME NEW c, Good(c), NEW s \in StreamIds, NEW F \in SUBSET Flag, NEW G \in SUBSET Flag
  PROVE  SetFlags(SetFlags(c, s, F), s, G) = SetFlags(c, s, F \cup G)
<1> DEFINE x == c.strm[s]
           y == [x EXCEPT !.flags = x.flags \cup F]
           z == [x EXCEPT !.flags = x.flags \cup (F \cup G)]
           d == [c EXCEPT !.strm = [c.strm EXCEPT ![s] = y]]
<1>1. c.strm \in [StreamIds -> StrmType] /\ x \in StrmType
  BY DEF Good, ConnType
<1>2. SetFlags(c, s, F) = d /\ SetFlags(c, s, F \cup G) = [c EXCEPT !.strm = [c.strm EXCEPT ![s] = z]]
  BY DEF SetFlags
<1>3. [y EXCEPT !.flags = y.flags \cup G] = z
  BY <1>1 DEF StrmType
<1>4. d.strm = [c.strm EXCEPT ![s] = y] /\ d.strm[s] = y
  BY <1>1 DEF Good, ConnType
<1>5. SetFlags(d, s, G) = [d EXCEPT !.strm = [d.strm EXCEPT ![s] = z]]
  BY <1>3, <1>4 DEF SetFlags
<1>6. [d.strm EXCEPT ![s] = z] = [c.strm EXCEPT ![s] = z]
  BY <1>1, <1>4
<1>7. [d EXCEPT !.strm = [c.strm EXCEPT ![s] = z]] = [c EXCEPT !.strm = [c.strm EXCEPT ![s] = z]]
  BY DEF Good, ConnType
<1> QED
  BY <1>2, <1>5, <1>6, <1>7

\* Shutting one side of a stream keeps two connections tied.
LEMMA ShutdownTied ==
  ASSUME NEW c, NEW p, NEW u, NEW v, Tied(c, p, u, v), NEW s \in StreamIds
  PROVE  /\ Tied(ShutdownStreamWrite(c, s), p, u, v)
         /\ Tied(ShutdownStreamRead(c, s), p, u, v)
<1>1. Good(c) /\ TidySelf(c)
  BY DEF Tied, Tidy
<1>2. Tied(ShutdownStreamWrite(c, s), p, u, v)
  <2>1. CASE s \notin c.live \/ "SHUT_WR" \in c.strm[s].flags
    BY <2>1 DEF ShutdownStreamWrite
  <2>2. CASE s \in c.live /\ "SHUT_WR" \notin c.strm[s].flags
    <3> DEFINE F == {"SHUT_WR"} \cup {"SEND_RESET_STREAM", "RESET_STREAM"}
               d == PushIfNot(SetFlags(c, s, F), s)
    <3>1. F \in SUBSET Flag
      BY DEF Flag
    <3>2. ShutdownStreamWrite(c, s) = d
      BY <1>1, <2>2, SetTwice DEF ShutdownStreamWrite, ScheduleReset, Flag
    <3>3. "SHUT_RD" \notin F /\ "SHUT_WR" \in F
      OBVIOUS
    <3> HIDE DEF F
    <3>4. /\ Good(d) /\ Touches(c, d, s) /\ SameFlow(c, d) /\ TidySelf(d) /\ d.rd = c.rd
          /\ d.strm[s] = [c.strm[s] EXCEPT !.flags = @ \cup F]
      BY <1>1, <3>1, MarkView
    <3> QED
      BY <2>2, <3>1, <3>2, <3>3, <3>4, MarkTied
  <2> QED
    BY <2>1, <2>2
<1>3. Tied(ShutdownStreamRead(c, s), p, u, v)
  <2>1. CASE s \notin c.live \/ c.strm[s].flags \cap {"STOP_SENDING", "SHUT_RD"} # {}
    BY <2>1 DEF ShutdownStreamRead
  <2>2. CASE s \in c.live /\ c.strm[s].flags \cap {"STOP_SENDING", "SHUT_RD"} = {}
    <3> DEFINE F == {"STOP_SENDING"} \cup {"SEND_STOP_SENDING"}
               d == PushIfNot(SetFlags(c, s, F), s)
    <3>1. F \in SUBSET Flag
      BY DEF Flag
    <3>2. ShutdownStreamRead(c, s) = d
      BY <1>1, <2>2, SetTwice DEF ShutdownStreamRead, ScheduleStopSending, Flag
    <3>3. "SHUT_RD" \notin F /\ "SEND_RESET_STREAM" \notin F
      OBVIOUS
    <3> HIDE DEF F
    <3>4. /\ Good(d) /\ Touches(c, d, s) /\ SameFlow(c, d) /\ TidySelf(d) /\ d.rd = c.rd
          /\ d.strm[s] = [c.strm[s] EXCEPT !.flags = @ \cup F]
      BY <1>1, <3>1, MarkView
    <3> QED
      BY <2>2, <3>1, <3>2, <3>3, <3>4, MarkTied
  <2> QED
    BY <2>1, <2>2
<1> QED
  BY <1>2, <1>3

\* So does shutting both sides.
LEMMA ShutdownBothTied ==
  ASSUME NEW c, NEW p, NEW u, NEW v, Tied(c, p, u, v), NEW s \in StreamIds
  PROVE  Tied(ShutdownStream(c, s), p, u, v)
<1> DEFINE d == IF CanRead(c, s) THEN ShutdownStreamRead(c, s) ELSE c
<1>1. Tied(d, p, u, v)
  BY ShutdownTied
<1> HIDE DEF d
<1>2. Tied(ShutdownStreamWrite(d, s), p, u, v)
  BY <1>1, ShutdownTied
<1> QED
  BY <1>1, <1>2 DEF ShutdownStream, d

\* Calls that change nothing the ties mention.
LEMMA ElsewhereTied ==
  ASSUME NEW c, NEW p, NEW u, NEW v, Tied(c, p, u, v),
         NEW d, Good(d), TidySelf(d), SameFlow(c, d),
         d.role = c.role, d.live = c.live, d.idtr = c.idtr, d.next = c.next,
         d.strm = c.strm, d.rd = c.rd
  PROVE  Tied(d, p, u, v)
<1>1. Good(c) /\ Tidy(c)
  BY DEF Tied
<1>2. Kept(c, d)
  BY DEF Kept, Used, LocalStream
<1>3. \A s \in StreamIds : Quiet(c, d, s) /\ TidyStrm(d, s)
  BY <1>1 DEF Quiet, Same, Gone, Used, LocalStream, Tidy, TidyStrm, CanRead, CanWrite
<1> QED
  BY <1>2, <1>3, QuietTied DEF Tidy

\* So does extending a limit: the peer learns of it when it is written.
LEMMA ExtendTied ==
  ASSUME NEW c, NEW p, NEW u, NEW v, Tied(c, p, u, v), NEW n \in Nat
  PROVE  /\ Tied(ExtendMaxOffset(c, n), p, u, v)
         /\ \A i \in Direction : Tied(ExtendMaxStreams(c, i, n), p, u, v)
         /\ \A s \in StreamIds : Tied(ExtendMaxStreamOffset(c, s, n), p, u, v)
<1>1. Good(c) /\ TidySelf(c)
  BY DEF Tied, Tidy
<1>2. Tied(ExtendMaxOffset(c, n), p, u, v)
  <2> DEFINE d == ExtendMaxOffset(c, n)
  <2>1. /\ TidySelf(d) /\ SameFlow(c, d)
        /\ d.role = c.role /\ d.live = c.live /\ d.idtr = c.idtr /\ d.next = c.next
        /\ d.strm = c.strm /\ d.rd = c.rd
    BY <1>1 DEF ExtendMaxOffset, TidySelf, SameFlow, Good, ConnType
  <2>2. Good(d)
    BY <1>1, ExtendGood
  <2> HIDE DEF d
  <2>3. Tied(d, p, u, v)
    BY <2>1, <2>2, ElsewhereTied
  <2> QED
    BY <2>3 DEF d
<1>3. ASSUME NEW i \in Direction
      PROVE  Tied(ExtendMaxStreams(c, i, n), p, u, v)
  <2> DEFINE d == ExtendMaxStreams(c, i, n)
  <2>1. /\ TidySelf(d) /\ SameFlow(c, d)
        /\ d.role = c.role /\ d.live = c.live /\ d.idtr = c.idtr /\ d.next = c.next
        /\ d.strm = c.strm /\ d.rd = c.rd
    BY <1>1 DEF ExtendMaxStreams, TidySelf, SameFlow, Good, ConnType
  <2>2. Good(d)
    BY <1>1, ExtendGood
  <2> HIDE DEF d
  <2>3. Tied(d, p, u, v)
    BY <2>1, <2>2, ElsewhereTied
  <2> QED
    BY <2>3 DEF d
<1>4. ASSUME NEW s \in StreamIds
      PROVE  Tied(ExtendMaxStreamOffset(c, s, n), p, u, v)
  <2> DEFINE d == ExtendMaxStreamOffset(c, s, n)
  <2>1. CASE s \notin c.live
    BY <2>1 DEF ExtendMaxStreamOffset
  <2>2. CASE s \in c.live
    <3>1. c.strm \in [StreamIds -> StrmType] /\ c.strm[s] \in StrmType
      BY <1>1 DEF Good, ConnType
    <3>2. /\ TidySelf(d) /\ SameFlow(c, d)
          /\ d.role = c.role /\ d.live = c.live /\ d.idtr = c.idtr /\ d.next = c.next
          /\ d.rd = c.rd /\ SameLimits(c, d)
          /\ \A t \in StreamIds \ {s} : d.strm[t] = c.strm[t] /\ (t \in d.strmq <=> t \in c.strmq)
      BY <1>1, <2>2, <3>1
         DEF ExtendMaxStreamOffset, PushIfNot, TidySelf, SameFlow, SameLimits, Good, ConnType
    <3>3. d.strm[s] = [c.strm[s] EXCEPT !.rxUnsent = Lesser(@ + n, MaxVarint)]
      BY <1>1, <2>2, <3>1 DEF ExtendMaxStreamOffset, PushIfNot, Good, ConnType
    <3>4. Good(d)
      BY <1>1, ExtendGood
    <3> HIDE DEF d
    <3>5. /\ d.strm[s].flags = c.strm[s].flags
          /\ d.strm[s].txOff = c.strm[s].txOff /\ d.strm[s].txMax = c.strm[s].txMax
          /\ d.strm[s].rxLast = c.strm[s].rxLast /\ d.strm[s].rxMax = c.strm[s].rxMax
      BY <3>1, <3>3 DEF StrmType
    <3>6. Steady(c, d, s)
      BY <2>2, <3>2, <3>5 DEF Steady, Written, Ending
    <3>7. Touches(c, d, s)
      BY <3>2 DEF Touches
    <3>8. "SEND_RESET_STREAM" \in d.strm[s].flags => "SHUT_WR" \in d.strm[s].flags
      BY <3>5 DEF Tied, Tidy, TidyStrm
    <3>9. Tied(d, p, u, v)
      BY <2>2, <3>2, <3>4, <3>5, <3>6, <3>7, <3>8, TouchTied
    <3> QED
      BY <3>9 DEF d
  <2> QED
    BY <2>1, <2>2
<1> QED
  BY <1>2, <1>3, <1>4

\* A stream enters the map.
LEMMA OpenedTied ==
  ASSUME NEW c, NEW p, NEW u, NEW v, Tied(c, p, u, v), NEW s \in StreamIds,
         s \notin c.live, ~Used(c, s),
         NEW d, Good(d), TidySelf(d), SameFlow(c, d), Kept(c, d),
         d.live = c.live \cup {s}, d.strm = c.strm, d.rd = c.rd,
         \A t \in StreamIds \ {s} : Used(d, t) <=> Used(c, t),
         \A t \in d.idtr : t \in c.idtr \/ Used(p, t)
  PROVE  Tied(d, p, u, v)
<1>1. Good(c) /\ Tidy(c) /\ d.role = c.role
  BY DEF Tied, Kept
<1>2. ASSUME NEW t \in StreamIds
      PROVE  Quiet(c, d, t)
  <2>1. Gone(d, t) <=> Gone(c, t)
    BY DEF Gone
  <2> QED
    BY <2>1 DEF Quiet, Same
<1>3. ASSUME NEW t \in StreamIds
      PROVE  TidyStrm(d, t)
  BY <1>1 DEF Tidy, TidyStrm, CanRead, CanWrite, LocalStream
<1> QED
  BY <1>2, <1>3, QuietTied DEF Tidy

\* dwnx_conn_read finds the stream of a frame or, when the peer used it first,
\* opens it.
LEMMA FindOrOpenTied ==
  ASSUME NEW c, NEW p, NEW u, NEW v, Tied(c, p, u, v), Sound(c), NEW s \in StreamIds,
         NEW side, StreamIdError(c, s, side) = "NONE", ~Closed(c, s), Used(p, s)
  PROVE  /\ Tied(FindOrOpen(c, s), p, u, v)
         /\ FindOrOpen(c, s).strm = c.strm /\ FindOrOpen(c, s).txMax = c.txMax
         /\ FindOrOpen(c, s).rxMax = c.rxMax /\ FindOrOpen(c, s).rxOff = c.rxOff
<1> DEFINE d == FindOrOpen(c, s)
<1>1. Good(c) /\ Tidy(c)
  BY DEF Tied
<1>2. CASE s \in c.live
  BY <1>2 DEF FindOrOpen
<1>3. CASE s \notin c.live
  <2>1. ~Used(c, s) /\ ~LocalStream(c, s)
    BY <1>3 DEF Closed, Used
  <2>2. c.strm \in [StreamIds -> StrmType] /\ c.strm[s] = NewStrm(c.role, s)
    BY <1>1, <1>3 DEF Good, ConnType, Tidy, TidyStrm
  <2>3. /\ d.role = c.role /\ d.live = c.live \cup {s} /\ d.idtr = c.idtr \cup {s}
        /\ d.next = c.next /\ d.rd = c.rd /\ d.strm = [c.strm EXCEPT ![s] = NewStrm(c.role, s)]
        /\ SameFlow(c, d) /\ TidySelf(d)
    BY <1>1, <1>3 DEF FindOrOpen, CreateStream, SameFlow, TidySelf, Tidy, Good, ConnType
  <2>4. Good(d) /\ Kept(c, d)
    BY <1>1, FindOrOpenGood, FindOrOpenSound
  <2> HIDE DEF d
  <2>5. d.strm = c.strm
    BY <2>2, <2>3
  <2>6. \A t \in StreamIds \ {s} : Used(d, t) <=> Used(c, t)
    BY <2>3 DEF Used, LocalStream
  <2>7. Tied(d, p, u, v)
    BY <1>3, <2>1, <2>3, <2>4, <2>5, <2>6, OpenedTied
  <2> QED
    BY <2>3, <2>5, <2>7 DEF d, SameFlow
<1> QED
  BY <1>2, <1>3

\* dwnx_conn_open_bidi_stream, dwnx_conn_open_uni_stream.
LEMMA OpenTied ==
  ASSUME NEW c, NEW p, NEW u, NEW v, Tied(c, p, u, v), Sound(c), NEW i \in Direction,
         c.next[i] \in StreamIds, StreamsLeft(c, i)
  PROVE  Tied(OpenStream(c, i), p, u, v)
<1> DEFINE s == c.next[i]
           d == OpenStream(c, i)
<1>1. Good(c) /\ Tidy(c)
  BY DEF Tied
<1>2. LocalStream(c, s) /\ Dir(s) = i /\ ~Used(c, s) /\ s \notin c.live
  BY <1>1, NextLocalFacts
<1>3. c.strm \in [StreamIds -> StrmType] /\ c.strm[s] = NewStrm(c.role, s)
  BY <1>1, <1>2 DEF Good, ConnType, Tidy, TidyStrm
<1>4. /\ d.role = c.role /\ d.live = c.live \cup {s} /\ d.idtr = c.idtr
      /\ d.next = [c.next EXCEPT ![i] = s + 4]
      /\ d.rd = c.rd /\ d.strm = [c.strm EXCEPT ![s] = NewStrm(c.role, s)]
      /\ SameFlow(c, d) /\ TidySelf(d)
  BY <1>1 DEF OpenStream, CreateStream, SameFlow, TidySelf, Tidy, Good, ConnType
<1>5. Good(d) /\ Kept(c, d)
  BY <1>1, OpenStreamGood, OpenStreamSound
<1>6. d.strm = c.strm
  BY <1>3, <1>4
<1>7. c.next \in [Direction -> Nat] /\ c.role \in {0, 1}
  BY <1>1, Fields DEF Role
<1>8. ASSUME NEW t \in StreamIds \ {s}
      PROVE  Used(d, t) <=> Used(c, t)
  <2>1. CASE ~(LocalStream(c, t) /\ Dir(t) = i)
    BY <1>4, <1>7, <2>1 DEF Used, LocalStream
  <2>2. CASE LocalStream(c, t) /\ Dir(t) = i
    <3>1. t \in Nat /\ s \in Nat /\ t # s
      BY StreamIdsAssumption
    <3>2. t % 2 = s % 2 /\ (BidiStream(t) <=> BidiStream(s))
      BY <1>2, <2>2 DEF LocalStream, Dir
    <3>3. t % 4 = s % 4
      BY <3>1, <3>2 DEF BidiStream
    <3>4. t < s + 4 <=> t < s
      BY <3>1, <3>3
    <3>5. d.next[i] = s + 4 /\ LocalStream(d, t)
      BY <1>4, <1>7, <2>2 DEF LocalStream
    <3> QED
      BY <2>2, <3>4, <3>5 DEF Used
  <2> QED
    BY <2>1, <2>2
<1> HIDE DEF d
<1> QED
  BY <1>2, <1>4, <1>5, <1>6, <1>8, OpenedTied DEF d

\* A glitch is counted, or the connection gives up over one glitch too many; a
\* token is gained; a record is complete.
LEMMA AsideTied ==
  ASSUME NEW c, NEW p, NEW u, NEW v, Tied(c, p, u, v)
  PROVE  /\ Tied(DrainGlitch(c), p, u, v)
         /\ \A n \in 0..GlitchBurst : Tied([c EXCEPT !.glitch = n], p, u, v)
         /\ Tied(FinishRecord(c), p, u, v)
<1>1. Good(c) /\ TidySelf(c)
  BY DEF Tied, Tidy
<1>2. ASSUME NEW d, Good(d), \/ d = DrainGlitch(c)
                             \/ \E n \in 0..GlitchBurst : d = [c EXCEPT !.glitch = n]
                             \/ d = FinishRecord(c)
      PROVE  Tied(d, p, u, v)
  <2>1. /\ TidySelf(d) /\ SameFlow(c, d)
        /\ d.role = c.role /\ d.live = c.live /\ d.idtr = c.idtr /\ d.next = c.next
        /\ d.strm = c.strm /\ d.rd = c.rd
    <3>1. CASE d = DrainGlitch(c)
      BY <1>1, <3>1 DEF DrainGlitch, Fail, TidySelf, SameFlow, Good, ConnType
    <3>2. CASE \E n \in 0..GlitchBurst : d = [c EXCEPT !.glitch = n]
      BY <1>1, <3>2 DEF TidySelf, SameFlow, Good, ConnType
    <3>3. CASE d = FinishRecord(c)
      BY <1>1, <3>3 DEF FinishRecord, TidySelf, SameFlow, Good, ConnType
    <3> QED
      BY <1>2, <3>1, <3>2, <3>3
  <2> QED
    BY <1>2, <2>1, ElsewhereTied
<1>3. /\ Good(DrainGlitch(c)) /\ Good(FinishRecord(c))
      /\ \A n \in 0..GlitchBurst : Good([c EXCEPT !.glitch = n])
  BY <1>1, DrainGlitchGood, FinishRecordGood, SetGood
<1> QED
  BY <1>2, <1>3

-----------------------------------------------------------------------------
(* Frames that are read                                                    *)

\* A stream that the peer may send on, or read from, passes the checks on its
\* id: the two sides agree on who opens it, and the limits of the one who opens
\* it trail those of the other.
LEMMA IdAccepted ==
  ASSUME NEW c, NEW p, NEW u, NEW v, Tied(c, p, u, v), Sound(c), Sound(p),
         NEW s \in StreamIds, Used(p, s)
  PROVE  /\ CanWrite(p, s) => StreamIdError(c, s, "recv") = "NONE"
         /\ CanRead(p, s) => StreamIdError(c, s, "send") = "NONE"
         /\ Closed(c, s) <=> Gone(c, s)
<1>1. Good(c) /\ Good(p) /\ p.role = 1 - c.role /\ Channel(c, p, u) /\ Channel(p, c, v)
  BY DEF Tied
<1>2. s \in Nat /\ c.role \in {0, 1} /\ Dir(s) \in Direction
  BY <1>1, Numbers, DirOrdinal
<1>3. s % 2 \in {0, 1} /\ (LocalStream(p, s) <=> ~LocalStream(c, s))
  BY <1>1, <1>2 DEF LocalStream
<1>4. LocalStream(c, s) => s < c.next[Dir(s)]
  <2>1. s \in p.idtr => Used(c, s)
    BY <1>1 DEF Channel, CreditTo
  <2> QED
    BY <1>3, <2>1 DEF Used
<1>5. ASSUME LocalStream(p, s)
      PROVE  OrdStreamId(s) <= c.rxStreams[Dir(s)]
  <2> DEFINE n == p.next[Dir(s)]
  <2>1. s < n /\ n \in Nat
    BY <1>1, <1>2, <1>5, Fields DEF Used
  <2>2. n % 4 = FirstStreamId(p.role, Dir(s)) /\ OrdStreamId(n) <= p.txStreams[Dir(s)] + 1
    BY <1>2 DEF Sound, SoundBut, NextLocal, WithinStreamLimits
  <2>3. s % 4 = FirstStreamId(p.role, Dir(s))
    <3>1. p.role \in {0, 1} /\ s % 2 = p.role
      BY <1>1, <1>2, <1>5 DEF LocalStream
    <3>2. CASE BidiStream(s)
      <4>1. s % 4 = p.role
        BY <1>2, <3>1, <3>2 DEF BidiStream
      <4> QED
        BY <3>2, <4>1 DEF Dir, FirstStreamId
    <3>3. CASE ~BidiStream(s)
      <4>1. s % 4 = p.role + 2
        BY <1>2, <3>1, <3>3 DEF BidiStream
      <4> QED
        BY <3>3, <4>1 DEF Dir, FirstStreamId
    <3> QED
      BY <3>2, <3>3
  <2>4. OrdStreamId(s) + 1 <= OrdStreamId(n)
    <3> HIDE DEF n
    <3>1. n % 4 = s % 4
      BY <2>2, <2>3 DEF n
    <3> QED
      BY <1>2, <2>1, <3>1 DEF OrdStreamId
  <2>5. p.txStreams[Dir(s)] <= c.rxStreams[Dir(s)]
    BY <1>1, <1>2 DEF Channel, FlowTo, Announced
  <2>6. p.txStreams[Dir(s)] \in Nat /\ c.rxStreams[Dir(s)] \in Nat
        /\ OrdStreamId(s) \in Nat /\ OrdStreamId(n) \in Nat
    BY <1>1, <1>2, <2>1, Numbers, DirOrdinal DEF OrdStreamId
  <2> QED
    BY <2>2, <2>4, <2>5, <2>6
<1>6. CanRead(c, s) <=> CanWrite(p, s)
  BY <1>3 DEF CanRead, CanWrite
<1>7. CanWrite(c, s) <=> CanRead(p, s)
  BY <1>3 DEF CanRead, CanWrite
<1>8. /\ LocalStream(c, s) => ~(c.next[Dir(s)] <= s)
      /\ ~LocalStream(c, s) => ~(c.rxStreams[Dir(s)] < OrdStreamId(s))
  <2>1. c.next[Dir(s)] \in Nat /\ c.rxStreams[Dir(s)] \in Nat /\ OrdStreamId(s) \in Nat
    BY <1>1, <1>2, Fields, Numbers, DirOrdinal
  <2> QED
    BY <1>2, <1>3, <1>4, <1>5, <2>1
<1>9. Closed(c, s) <=> Gone(c, s)
  BY <1>4 DEF Closed, Gone, Used
<1> QED
  BY <1>6, <1>7, <1>8, <1>9 DEF StreamIdError

\* What is read from the front of the way to c.
LEMMA FrontView ==
  ASSUME NEW c, NEW p, NEW u, NEW v, Tied(c, p, u, v), u # << >>, NEW f \in Head(u)
  PROVE  /\ f \in Frame /\ f \in PeerFrame /\ Solo(u)
         /\ FlowTo(c, p, u)
         /\ f.t = "DATA_BLOCKED" => f.max <= c.rxMax
         /\ f.t # "QX_PING_RESPONSE"
         /\ \A s \in StreamIds : f \in DataOf(s) =>
              /\ ~EndRead(c, s) /\ CanWrite(p, s) /\ Used(p, s)
              /\ At(f) = c.strm[s].rxLast
              /\ f.t = "STREAM" => f.off + f.len <= c.strm[s].rxMax
         /\ \A s \in StreamIds : f.t \in {"MAX_STREAM_DATA", "STOP_SENDING"} /\ f.id = s =>
              CanRead(p, s) /\ Used(p, s)
<1>1. /\ Good(c) /\ u \in Seq(SUBSET Frame) /\ Channel(c, p, u)
  BY DEF Tied
<1>2. 1 \in 1..Len(u) /\ Head(u) = u[1] /\ Head(u) \subseteq Frame
  BY <1>1, Frames
<1>3. f \in u[1] /\ f \in Frame /\ f \in PeerFrame
  BY <1>2 DEF PeerFrame
<1>4. /\ f.t = "DATA_BLOCKED" => f.max <= c.rxMax
      /\ f.t # "QX_PING_RESPONSE"
  BY <1>1, <1>2, <1>3 DEF Channel, FlowTo
<1>5. ASSUME NEW s \in StreamIds, f \in DataOf(s)
      PROVE  /\ ~EndRead(c, s) /\ CanWrite(p, s) /\ Used(p, s)
             /\ At(f) = c.strm[s].rxLast
             /\ f.t = "STREAM" => f.off + f.len <= c.strm[s].rxMax
  <2>1. /\ ~EndRead(c, s) /\ CanWrite(p, s) /\ Used(p, s)
        /\ At(f) = c.strm[s].rxLast + BytesUpTo(u, {s})[1 - 1]
        /\ f.t = "STREAM" => f.off + f.len <= c.strm[s].rxMax
    BY <1>1, <1>2, <1>3, <1>5 DEF Channel, DataTo
  <2>2. BytesUpTo(u, {s})[1 - 1] = 0
    BY <1>1, BytesUpToIs, 1 - 1 = 0
  <2>3. c.strm[s].rxLast \in Nat
    BY <1>1, Numbers
  <2> QED
    BY <2>1, <2>2, <2>3
<1>6. ASSUME NEW s \in StreamIds, f.t \in {"MAX_STREAM_DATA", "STOP_SENDING"} /\ f.id = s
      PROVE  CanRead(p, s) /\ Used(p, s)
  BY <1>1, <1>2, <1>3, <1>6 DEF Channel, CreditTo
<1> QED
  BY <1>1, <1>3, <1>4, <1>5, <1>6 DEF Channel

\* A frame that changes nothing is read.
LEMMA SkipTied ==
  ASSUME NEW c, NEW p, NEW u, NEW v, Tied(c, p, u, v), u # << >>, NEW f \in Head(u),
         \/ f.t \in {"STOP_SENDING", "DATA_BLOCKED", "STREAM_DATA_BLOCKED"}
         \/ f.t = "MAX_STREAM_DATA" /\ Gone(c, f.id)
  PROVE  Tied(c, p, After(u, f), v)
<1>1. Good(c) /\ Tidy(c) /\ f \in Frame /\ Kept(c, c)
  BY FrontView, KeptOrder DEF Tied
<1>2. \A S : BytesOf({f}, S) = 0
  BY <1>1, BytesOfIs
<1>3. Sends(c, c, {}) /\ ReadsFlow(c, c, {}) /\ \A s \in StreamIds : Quiet(c, c, s)
  <2>1. SameFlow(c, c) /\ \A s \in StreamIds : Quiet(c, c, s)
    BY DEF SameFlow, Quiet, Same
  <2>2. \A s : Mute({}, s)
    BY DEF Mute
  <2> QED
    BY <1>1, <2>1, <2>2, QuietStream, QuietFlow DEF Sends
<1>4. ReadsFlow(c, c, {f})
  <2>1. {f} \cap MaxDataOf = {} /\ \A i \in Direction : {f} \cap MaxStreamsOf(i) = {}
    BY DEF MaxDataOf, MaxStreamsOf
  <2>2. c.rxOff \in Nat /\ c.rxMax \in Nat
    BY <1>1, Numbers
  <2>3. BytesOf({f}, StreamIds) = 0
    BY <1>2
  <2> QED
    BY <2>1, <2>2, <2>3 DEF ReadsFlow
<1>5. ASSUME NEW s \in StreamIds
      PROVE  ReadsData(c, c, {f}, s) /\ ReadsCredit(c, c, {f}, s)
  <2>1. c.strm[s].rxLast \in Nat /\ c.strm[s].rxMax \in Nat
    BY <1>1, Numbers
  <2>2. ~Final(f)
    BY DEF Final
  <2>3. ReadsData(c, c, {f}, s)
    <3>1. BytesOf({f}, {s}) = 0
      BY <1>2
    <3> QED
      BY <2>1, <2>2, <3>1 DEF ReadsData
  <2>4. {f} \cap CreditOf(s) = {} \/ Gone(c, s)
    BY DEF CreditOf
  <2> QED
    BY <2>3, <2>4 DEF ReadsCredit
<1> QED
  BY <1>1, <1>3, <1>4, <1>5, ReadTied DEF Reads

\* A frame about one stream is read, and changes it and the accounts.
LEMMA StrmReadTied ==
  ASSUME NEW c, NEW p, NEW u, NEW v, Tied(c, p, u, v), u # << >>, NEW f \in Head(u),
         NEW s \in StreamIds, s \in c.live, f.id = s,
         f.t \in {"STREAM", "RESET_STREAM", "MAX_STREAM_DATA"},
         NEW d, Good(d), Touches(c, d, s), TidySelf(d), TidyStrm(d, s),
         \A t \in StreamIds \ {s} : d.rd.id = t /\ d.rd.fin <=> c.rd.id = t /\ c.rd.fin,
         d.txOff = c.txOff, d.rxMax = c.rxMax, d.txMax = c.txMax,
         d.rxOff = c.rxOff + BytesOf({f}, StreamIds),
         Written(d.strm[s]) <=> Written(c.strm[s]),
         d.strm[s].txOff = c.strm[s].txOff, d.strm[s].rxMax = c.strm[s].rxMax,
         d.strm[s].rxLast = c.strm[s].rxLast + BytesOf({f}, {s}),
         Ending(d, s) <=> Ending(c, s) \/ Final(f),
         d.strm[s].txMax = IF f.t = "MAX_STREAM_DATA" THEN f.max ELSE c.strm[s].txMax
  PROVE  Tied(d, p, After(u, f), v)
<1>1. Good(c) /\ Tidy(c) /\ f \in Frame
  BY FrontView DEF Tied
<1>2. /\ d.role = c.role /\ d.live = c.live /\ d.idtr = c.idtr /\ d.next = c.next
      /\ d.txStreams = c.txStreams /\ d.rxStreams = c.rxStreams
      /\ \A t \in StreamIds \ {s} : d.strm[t] = c.strm[t]
  BY DEF Touches, SameLimits
<1>3. Kept(c, d)
  BY <1>2, KeptIfSame DEF Touches
<1>4. /\ c.txOff \in Nat /\ c.rxOff \in Nat /\ c.rxMax \in Nat
      /\ c.strm[s].txOff \in Nat /\ c.strm[s].rxMax \in Nat /\ c.strm[s].rxLast \in Nat
  BY <1>1, Numbers
<1>5. \A S : BytesOf({}, S) = 0
  BY BytesOfIs
<1>6. \A K, x : Raises({}, K, x, x)
  BY DEF Raises
<1>7. SendsFlow(c, d, {})
  BY <1>2, <1>4, <1>5, <1>6, BytesOf({}, StreamIds) = 0 DEF SendsFlow
<1>8. ReadsFlow(c, d, {f})
  <2>1. {f} \cap MaxDataOf = {} /\ \A i \in Direction : {f} \cap MaxStreamsOf(i) = {}
    BY DEF MaxDataOf, MaxStreamsOf
  <2> QED
    BY <1>2, <1>4, <2>1 DEF ReadsFlow
<1>9. ~Gone(c, s) /\ ~Gone(d, s)
  BY <1>2 DEF Gone
<1>10. SendsData(c, d, {}, s) /\ SendsCredit(c, d, {}, s)
  <2>1. Finished(c, s) => Finished(d, s)
    BY <1>9 DEF Finished, Written
  <2>2. BytesOf({}, {s}) = 0
    BY <1>5
  <2> QED
    BY <1>4, <1>6, <1>9, <2>1, <2>2 DEF SendsData, SendsCredit
<1>11. ReadsData(c, d, {f}, s)
  <2>1. Final(f) => f \in {f} \cap DataOf(s)
    BY <1>1 DEF Final, DataOf
  <2>2. EndRead(d, s) <=> Ending(d, s)
    BY <1>9 DEF EndRead, Ending
  <2>3. EndRead(c, s) <=> Ending(c, s)
    BY <1>9 DEF EndRead, Ending
  <2> QED
    BY <1>4, <2>1, <2>2, <2>3 DEF ReadsData
<1>12. ReadsCredit(c, d, {f}, s)
  BY <1>1, <1>9 DEF ReadsCredit, CreditOf
<1>13. ASSUME NEW t \in StreamIds \ {s}
       PROVE  /\ SendsData(c, d, {}, t) /\ SendsCredit(c, d, {}, t)
              /\ ReadsData(c, d, {f}, t) /\ ReadsCredit(c, d, {f}, t)
              /\ TidyStrm(d, t)
  <2>1. Quiet(c, d, t)
    BY <1>2 DEF Quiet, Same, Gone, Used, LocalStream
  <2>2. Mute({}, t) /\ Mute({f}, t)
    BY DEF Mute
  <2>3. TidyStrm(d, t)
    BY <1>1, <1>2 DEF Tidy, TidyStrm, CanRead, CanWrite, LocalStream
  <2> QED
    BY <1>1, <1>3, <2>1, <2>2, <2>3, QuietStream
<1>14. Tidy(d)
  BY <1>13 DEF Tidy
<1>15. Sends(c, d, {}) /\ Reads(c, d, {f})
  BY <1>7, <1>8, <1>10, <1>11, <1>12, <1>13 DEF Sends, Reads
<1> QED
  BY <1>2, <1>3, <1>14, <1>15, ReadTied

\* conn_recv_stream accepts what the peer sent.
LEMMA StreamAccepted ==
  ASSUME NEW c, NEW p, NEW u, NEW v, Tied(c, p, u, v), Sound(c), Sound(p),
         u # << >>, NEW f \in Head(u), f.t = "STREAM"
  PROVE  /\ f.id \in StreamIds /\ Used(p, f.id)
         /\ StreamIdError(c, f.id, "recv") = "NONE" /\ ~Closed(c, f.id)
         /\ RecvStreamError(c, f) = "NONE"
<1> DEFINE s == f.id
           b == FindOrOpen(c, s)
           x == c.strm[s]
<1>1. Good(c) /\ Good(p) /\ Solo(u) /\ u \in Seq(SUBSET Frame) /\ FlowTo(c, p, u)
      /\ FlowTo(p, c, v) /\ f \in Frame
  BY FrontView DEF Tied, Channel
<1>2. s \in StreamIds /\ f.off \in Nat /\ f.len \in Nat /\ f \in DataOf(s) /\ At(f) = f.off
  BY <1>1, FrameFields, LimitsAssumption DEF DataOf, At
<1>3. /\ ~EndRead(c, s) /\ CanWrite(p, s) /\ Used(p, s)
      /\ f.off = x.rxLast /\ f.off + f.len <= x.rxMax
  BY <1>2, FrontView
<1>4. StreamIdError(c, s, "recv") = "NONE" /\ ~Closed(c, s)
  BY <1>2, <1>3, IdAccepted DEF EndRead
<1>5. b.strm = c.strm
  BY <1>2, <1>3, <1>4, FindOrOpenTied
<1>6. "SHUT_RD" \notin x.flags
  BY <1>3 DEF EndRead
<1>7. x.rxMax \in Nat /\ x.rxMax <= MaxVarint /\ MaxVarint \in Nat
  BY <1>1, <1>2, Numbers, LimitsAssumption
<1>8. f.len <= BytesIn(u, StreamIds) /\ BytesIn(u, StreamIds) \in Nat
  <2>1. BytesOf({f}, StreamIds) = f.len
    BY <1>1, <1>2, BytesOfIs
  <2>2. /\ BytesUpTo(After(u, f), StreamIds) \in [0..Len(After(u, f)) -> Nat]
        /\ BytesIn(After(u, f), StreamIds) + f.len = BytesIn(u, StreamIds)
    BY <1>1, <2>1, AfterSums
  <2>3. BytesIn(After(u, f), StreamIds) \in Nat
    <3>1. Len(After(u, f)) \in Nat
      BY <1>1, AfterView
    <3> QED
      BY <2>2, <3>1, Len(After(u, f)) \in 0..Len(After(u, f)) DEF BytesIn
  <2> QED
    BY <1>2, <2>2, <2>3
<1>9. ~(c.rxMax - c.rxOff < f.len)
  <2>1. p.txOff = c.rxOff + BytesIn(u, StreamIds) /\ p.txMax <= c.rxMax
    BY <1>1 DEF FlowTo, Announced
  <2>2. p.txOff \in Nat /\ p.txMax \in Nat /\ p.txOff <= p.txMax /\ c.rxOff \in Nat /\ c.rxMax \in Nat
    BY <1>1, Numbers
  <2> QED
    BY <1>2, <1>8, <2>1, <2>2
<1>10. ~(MaxVarint - f.len < f.off) /\ ~(x.rxMax < f.off + f.len)
  BY <1>2, <1>3, <1>7
<1>11. RecvStreamError(c, f) = "NONE"
  <2> HIDE DEF b
  <2> QED
    BY <1>3, <1>4, <1>5, <1>6, <1>9, <1>10 DEF RecvStreamError, b
<1> QED
  BY <1>2, <1>3, <1>4, <1>11

\* conn_recv_stream: the header of a STREAM frame.
LEMMA RecvStreamTied ==
  ASSUME NEW c, NEW p, NEW u, NEW v, Tied(c, p, u, v), Sound(c), Sound(p), c.rd = Idle,
         u # << >>, NEW f \in Head(u), f.t = "STREAM"
  PROVE  Tied(RecvStream(c, f), p, After(u, f), v)
<1> DEFINE s == f.id
           b == FindOrOpen(c, s)
           x == b.strm[s]
           z == [x EXCEPT !.rxLast = f.off + f.len]
           rd == IF f.len = 0 THEN Idle ELSE [id |-> s, left |-> f.len, fin |-> f.fin]
           off == b.rxOff + f.len
           d == [b EXCEPT !.rxOff = @ + f.len, !.strm[s].rxLast = f.off + f.len,
                          !.rd = IF f.len = 0 THEN Idle
                                 ELSE [id |-> s, left |-> f.len, fin |-> f.fin]]
           g == IF f.len = 0 /\ f.fin THEN SetFlags(d, s, {"SHUT_RD"}) ELSE d
<1>1. /\ f \in Frame /\ s \in StreamIds /\ Used(p, s) /\ Good(c)
      /\ StreamIdError(c, s, "recv") = "NONE" /\ ~Closed(c, s)
      /\ RecvStreamError(c, f) = "NONE"
  BY StreamAccepted, FrontView DEF Tied
<1>2. /\ f.off \in 0..MaxVarint /\ f.len \in 0..MaxVarint /\ f.fin \in BOOLEAN
      /\ f.off \in Nat /\ f.len \in Nat
  BY <1>1, FrameFields, LimitsAssumption
<1>3. /\ Tied(b, p, u, v) /\ Good(b) /\ Sound(b) /\ s \in b.live /\ b.rd = Idle
      /\ b.strm = c.strm /\ b.rxOff = c.rxOff /\ b.rxMax = c.rxMax
  BY <1>1, FindOrOpenTied, FindOrOpenSound, FindOrOpenGood
<1>4. f \in DataOf(s) /\ At(f) = f.off
  BY <1>1 DEF DataOf, At
<1>5. /\ ~EndRead(b, s) /\ f.off = x.rxLast /\ f.off + f.len <= x.rxMax
  BY <1>1, <1>3, <1>4, FrontView
<1>6. ~(c.rxMax - c.rxOff < f.len)
  BY <1>1 DEF RecvStreamError
<1>7. RecvStream(c, f) = IF f.len = 0 /\ f.fin THEN CloseStreamIfShutRdWr(g, s) ELSE g
  BY DEF RecvStream
<1> HIDE DEF b
<1>8. x \in StrmType /\ StrmCredit(x) /\ b.strm \in [StreamIds -> StrmType] /\ Tidy(b)
  BY <1>1, <1>3, Fields DEF Good, ConnType, Tied
<1>9. Good(d)
  <2>1. f.off + f.len \in Offset
    <3>1. x.rxMax \in Nat /\ x.rxMax <= MaxVarint /\ MaxVarint \in Nat
      BY <1>1, <1>3, Numbers, LimitsAssumption
    <3> QED
      BY <1>2, <1>5, <3>1 DEF Offset
  <2>2. z \in StrmType /\ StrmCredit(z)
    BY <1>5, <1>8, <2>1 DEF StrmType, StrmCredit
  <2> DEFINE d1 == [b EXCEPT !.strm[s] = z]
             d2 == [d1 EXCEPT !.rxOff = off]
             d3 == [d2 EXCEPT !.rd = rd]
  <2>3. d = d3
    OBVIOUS
  <2>4. rd \in {Idle} \cup [id : StreamIds, left : 1..MaxVarint, fin : BOOLEAN]
    BY <1>1, <1>2
  <2>5. d1.rxMax = b.rxMax
    OBVIOUS
  <2> HIDE DEF z, d
  <2>6. Good(d1)
    BY <1>1, <1>3, <2>2, StrmUpdateGood
  <2>7. off \in Offset /\ off <= d1.rxMax
    <3>1. b.rxOff \in Nat /\ b.rxMax \in 0..MaxVarint /\ MaxVarint \in Nat
      BY <1>3, Numbers, Fields, LimitsAssumption
    <3> QED
      BY <1>2, <1>3, <1>6, <2>5, <3>1 DEF Offset
  <2> HIDE DEF d1, off, rd
  <2>8. Good(d2)
    BY <2>6, <2>7, RxOffGood
  <2> HIDE DEF d2
  <2> QED
    BY <2>3, <2>4, <2>8, PayloadGood
<1>10. /\ Touches(b, d, s) /\ d.strm[s] = z /\ d.rd = rd /\ d.rxOff = off
       /\ d.txOff = b.txOff /\ d.txMax = b.txMax /\ d.rxMax = b.rxMax /\ TidySelf(d)
  BY <1>1, <1>3, <1>8 DEF Touches, SameLimits, TidySelf, Tidy, Good, ConnType
<1>11. {"SHUT_RD"} \in SUBSET Flag
  BY DEF Flag
<1>12. Good(g)
  BY <1>1, <1>9, <1>11, SetFlagsGood
<1>13. /\ Touches(b, g, s) /\ g.rd = rd /\ g.rxOff = off
       /\ g.txOff = b.txOff /\ g.txMax = b.txMax /\ g.rxMax = b.rxMax /\ TidySelf(g)
       /\ g.strm[s] = IF f.len = 0 /\ f.fin THEN [z EXCEPT !.flags = @ \cup {"SHUT_RD"}] ELSE z
  <2>1. CASE f.len = 0 /\ f.fin
    <3> DEFINE h == SetFlags(d, s, {"SHUT_RD"})
    <3> HIDE DEF d
    <3>1. /\ Touches(d, h, s) /\ h.rd = d.rd /\ h.strm[s] = [d.strm[s] EXCEPT !.flags = @ \cup {"SHUT_RD"}]
      BY <1>1, <1>9, <1>11, SetFlagsView
    <3>2. /\ h.rxOff = d.rxOff /\ h.txOff = d.txOff /\ h.txMax = d.txMax /\ h.rxMax = d.rxMax
          /\ h.ping = d.ping /\ h.pong = d.pong /\ h.err = d.err
      BY <1>9 DEF SetFlags, Good, ConnType
    <3> HIDE DEF h, z, rd, off
    <3>3. Touches(b, h, s) /\ TidySelf(h)
      BY <1>10, <3>1, <3>2 DEF Touches, SameLimits, TidySelf
    <3> QED
      BY <1>10, <2>1, <3>1, <3>2, <3>3 DEF h
  <2>2. CASE ~(f.len = 0 /\ f.fin)
    <3> HIDE DEF d, z, rd, off
    <3> QED
      BY <1>10, <2>2
  <2> QED
    BY <2>1, <2>2
<1>14. /\ g.strm[s].flags = IF f.len = 0 /\ f.fin THEN x.flags \cup {"SHUT_RD"} ELSE x.flags
       /\ g.strm[s].txOff = x.txOff /\ g.strm[s].txMax = x.txMax /\ g.strm[s].rxMax = x.rxMax
       /\ g.strm[s].rxLast = f.off + f.len
  <2>1. /\ z.flags = x.flags /\ z.txOff = x.txOff /\ z.txMax = x.txMax /\ z.rxMax = x.rxMax
        /\ z.rxLast = f.off + f.len
    BY <1>8 DEF StrmType
  <2>2. LET y == [z EXCEPT !.flags = @ \cup {"SHUT_RD"}] IN
        /\ y.flags = x.flags \cup {"SHUT_RD"}
        /\ y.txOff = x.txOff /\ y.txMax = x.txMax /\ y.rxMax = x.rxMax
        /\ y.rxLast = f.off + f.len
    BY <1>8 DEF StrmType
  <2> HIDE DEF g, z, x
  <2> QED
    BY <1>13, <2>1, <2>2
<1>15. BytesOf({f}, StreamIds) = f.len /\ BytesOf({f}, {s}) = f.len
  BY <1>1, BytesOfIs, s \in {s}
<1>16. Ending(g, s) <=> Ending(b, s) \/ Final(f)
  <2>1. ~Ending(b, s)
    BY <1>5 DEF EndRead, Ending
  <2>2. Final(f) <=> f.fin
    BY DEF Final
  <2>3. rd.id = s /\ rd.fin <=> f.len # 0 /\ f.fin
    BY <1>1 DEF Idle
  <2>4. "SHUT_RD" \notin x.flags
    BY <2>1 DEF Ending
  <2> HIDE DEF g, rd, x
  <2> QED
    BY <1>2, <1>13, <1>14, <2>1, <2>2, <2>3, <2>4 DEF Ending
<1>17. \A t \in StreamIds \ {s} : g.rd.id = t /\ g.rd.fin <=> b.rd.id = t /\ b.rd.fin
  BY <1>1, <1>3, <1>13 DEF Idle
<1>18. g.live = b.live /\ g.role = b.role /\ s \in g.live
  BY <1>3, <1>13 DEF Touches, SameLimits
<1>19. TidyStrm(g, s) /\ (Written(g.strm[s]) <=> Written(b.strm[s]))
  <2>1. TidyStrm(b, s)
    BY <1>1, <1>8 DEF Tidy
  <2> HIDE DEF g
  <2> QED
    BY <1>14, <1>18, <2>1 DEF TidyStrm, Written, CanRead, CanWrite, LocalStream
<1> HIDE DEF g, d, rd
<1>20. Tied(g, p, After(u, f), v)
  BY <1>1, <1>3, <1>5, <1>12, <1>13, <1>14, <1>15, <1>16, <1>17, <1>19, StrmReadTied, ZenonT(30)
<1>21. Used(g, s)
  <2>1. Used(b, s)
    BY <1>3 DEF Sound, SoundBut, WithinStreamLimits
  <2> QED
    BY <1>13, <2>1 DEF Touches, SameLimits, Used, LocalStream
<1>22. Tied(CloseStreamIfShutRdWr(g, s), p, After(u, f), v)
  BY <1>1, <1>18, <1>20, <1>21, CloseTied
<1> QED
  BY <1>7, <1>20, <1>22

\* conn_recv_stream_data: payload of a frame whose header was read before.
LEMMA RecvStreamDataTied ==
  ASSUME NEW c, NEW p, NEW u, NEW v, Tied(c, p, u, v), Sound(c), NEW n \in 1..c.rd.left
  PROVE  Tied(RecvStreamData(c, n), p, u, v)
<1> DEFINE s == c.rd.id
           fin == c.rd.fin /\ n = c.rd.left
           rd == Rest(c.rd, n)
           d == [c EXCEPT !.rd = rd]
           e == IF "STOP_SENDING" \in c.strm[s].flags THEN ExtendMaxOffset(d, n) ELSE d
           g == IF fin THEN SetFlags(e, s, {"SHUT_RD"}) ELSE e
<1>1. Good(c) /\ Tidy(c) /\ TidySelf(c)
  BY DEF Tied, Tidy
<1>2. /\ c.rd # Idle /\ c.rd \in [id : StreamIds, left : 1..MaxVarint, fin : BOOLEAN]
      /\ s \in StreamIds /\ n \in Nat
  BY <1>1, Fields DEF Idle
<1>3. s \in c.live /\ "SHUT_RD" \notin c.strm[s].flags /\ Used(c, s)
  BY <1>2 DEF Sound, SoundBut, PayloadOpen, WithinStreamLimits
<1>4. RecvStreamData(c, n) = IF fin THEN CloseStreamIfShutRdWr(g, s) ELSE g
  BY DEF RecvStreamData
<1>5. \/ rd = Idle /\ n = c.rd.left
      \/ rd.id = s /\ rd.fin = c.rd.fin /\ n # c.rd.left
  BY <1>2 DEF Rest
<1>6. Good(d)
  BY <1>1, <1>2, RestType, PayloadGood
<1>7. Touches(c, d, s) /\ SameFlow(c, d) /\ TidySelf(d) /\ d.strm = c.strm /\ d.rd = rd
  BY <1>1 DEF Touches, SameLimits, SameFlow, TidySelf, Good, ConnType
<1> HIDE DEF d, rd
<1>8. Good(e) /\ Touches(c, e, s) /\ SameFlow(c, e) /\ TidySelf(e) /\ e.strm = c.strm /\ e.rd = rd
  <2> DEFINE h == ExtendMaxOffset(d, n)
  <2>1. Good(h)
    BY <1>2, <1>6, ExtendGood
  <2>2. /\ Touches(d, h, s) /\ SameFlow(d, h) /\ h.strm = d.strm /\ h.rd = d.rd
        /\ h.ping = d.ping /\ h.pong = d.pong /\ h.err = d.err
    BY <1>6 DEF ExtendMaxOffset, Touches, SameLimits, SameFlow, Good, ConnType
  <2> HIDE DEF h
  <2>3. Touches(c, h, s) /\ SameFlow(c, h) /\ TidySelf(h)
    BY <1>7, <2>2 DEF Touches, SameLimits, SameFlow, TidySelf
  <2> QED
    BY <1>6, <1>7, <2>1, <2>2, <2>3 DEF h
<1> HIDE DEF e
<1>9. Good(g) /\ Touches(c, g, s) /\ SameFlow(c, g) /\ TidySelf(g) /\ g.rd = rd
      /\ g.strm[s] = IF fin THEN [c.strm[s] EXCEPT !.flags = @ \cup {"SHUT_RD"}] ELSE c.strm[s]
  <2> DEFINE h == SetFlags(e, s, {"SHUT_RD"})
  <2>1. {"SHUT_RD"} \in SUBSET Flag
    BY DEF Flag
  <2>2. /\ Good(h) /\ Touches(e, h, s) /\ SameFlow(e, h) /\ TidySelf(h) /\ h.rd = e.rd
        /\ h.strm[s] = [e.strm[s] EXCEPT !.flags = @ \cup {"SHUT_RD"}]
    BY <1>2, <1>8, <2>1, MarkView
  <2> HIDE DEF h
  <2>3. Touches(c, h, s) /\ SameFlow(c, h)
    BY <1>8, <2>2 DEF Touches, SameLimits, SameFlow
  <2> QED
    BY <1>8, <2>2, <2>3 DEF h
<1> HIDE DEF g, fin
<1>10. c.strm[s] \in StrmType
  BY <1>1, <1>2, Fields
<1>11. /\ g.strm[s].flags = IF fin THEN c.strm[s].flags \cup {"SHUT_RD"} ELSE c.strm[s].flags
       /\ g.strm[s].txOff = c.strm[s].txOff /\ g.strm[s].txMax = c.strm[s].txMax
       /\ g.strm[s].rxLast = c.strm[s].rxLast /\ g.strm[s].rxMax = c.strm[s].rxMax
  BY <1>9, <1>10 DEF StrmType
<1>12. g.live = c.live /\ g.role = c.role /\ Used(g, s)
  BY <1>3, <1>9 DEF Touches, SameLimits, Used, LocalStream
<1>13. Ending(g, s) <=> Ending(c, s)
  BY <1>2, <1>3, <1>5, <1>9, <1>11 DEF Ending, fin, Idle
<1>14. Steady(c, g, s)
  BY <1>3, <1>11, <1>12, <1>13 DEF Steady, Written
<1>15. TidyStrm(c, s)
  BY <1>1, <1>2 DEF Tidy
<1>16. \A t \in StreamIds \ {s} : g.rd.id = t /\ g.rd.fin <=> c.rd.id = t /\ c.rd.fin
  BY <1>2, <1>5, <1>9 DEF Idle
<1>17. Tied(g, p, u, v)
  BY <1>2, <1>3, <1>9, <1>11, <1>14, <1>15, <1>16, TouchTied DEF TidyStrm
<1>18. Tied(CloseStreamIfShutRdWr(g, s), p, u, v)
  BY <1>2, <1>3, <1>12, <1>17, CloseTied
<1> QED
  BY <1>4, <1>17, <1>18

\* conn_recv_reset_stream: the peer gave up sending.
LEMMA RecvResetStreamTied ==
  ASSUME NEW c, NEW p, NEW u, NEW v, Tied(c, p, u, v), Sound(c), Sound(p), c.rd = Idle,
         u # << >>, NEW f \in Head(u), f.t = "RESET_STREAM"
  PROVE  RecvResetStreamError(c, f) = "NONE" /\ Tied(RecvResetStream(c, f), p, After(u, f), v)
<1> DEFINE s == f.id
           b == FindOrOpen(c, s)
           F == {"SHUT_RD", "RESET_STREAM_RECVED"}
           d == SetFlags(b, s, F)
<1>1. Good(c) /\ f \in Frame
  BY FrontView DEF Tied
<1>2. s \in StreamIds /\ f \in DataOf(s) /\ At(f) = f.size /\ F \in SUBSET Flag
  BY <1>1, FrameFields DEF DataOf, At, Flag
<1>3. /\ ~EndRead(c, s) /\ CanWrite(p, s) /\ Used(p, s) /\ f.size = c.strm[s].rxLast
  BY <1>2, FrontView
<1>4. StreamIdError(c, s, "recv") = "NONE" /\ ~Closed(c, s)
  BY <1>2, <1>3, IdAccepted DEF EndRead
<1>5. /\ Tied(b, p, u, v) /\ Good(b) /\ Sound(b) /\ s \in b.live /\ b.rd = c.rd
      /\ b.strm = c.strm
  BY <1>1, <1>2, <1>3, <1>4, FindOrOpenTied, FindOrOpenSound, FindOrOpenGood
<1> HIDE DEF b
<1>6. RecvResetStreamError(c, f) = "NONE"
  BY <1>3, <1>4, <1>5 DEF RecvResetStreamError, EndRead, b
<1>7. Tidy(b) /\ TidySelf(b) /\ TidyStrm(b, s) /\ b.strm[s] \in StrmType
  BY <1>2, <1>5, Fields DEF Tied, Tidy
<1>8. /\ Good(d) /\ Touches(b, d, s) /\ SameFlow(b, d) /\ TidySelf(d) /\ d.rd = b.rd
      /\ d.strm[s] = [b.strm[s] EXCEPT !.flags = @ \cup F]
  BY <1>2, <1>5, <1>7, MarkView
<1> HIDE DEF d
<1>9. /\ d.strm[s].flags = b.strm[s].flags \cup F
      /\ d.strm[s].txOff = b.strm[s].txOff /\ d.strm[s].txMax = b.strm[s].txMax
      /\ d.strm[s].rxLast = b.strm[s].rxLast /\ d.strm[s].rxMax = b.strm[s].rxMax
  BY <1>7, <1>8 DEF StrmType
<1>10. BytesOf({f}, StreamIds) = 0 /\ BytesOf({f}, {s}) = 0
  BY <1>1, BytesOfIs
<1>11. b.strm[s].rxLast \in Nat /\ b.rxOff \in Nat
  BY <1>2, <1>5, Numbers
<1>12. d.live = b.live /\ d.role = b.role /\ Used(d, s) /\ s \in d.live
  <2>1. Used(b, s)
    BY <1>5 DEF Sound, SoundBut, WithinStreamLimits
  <2> QED
    BY <1>5, <1>8, <2>1 DEF Touches, SameLimits, Used, LocalStream
<1>13. Ending(d, s) <=> Ending(b, s) \/ Final(f)
  BY <1>9 DEF Ending, Final
<1>14. TidyStrm(d, s) /\ (Written(d.strm[s]) <=> Written(b.strm[s]))
  BY <1>7, <1>9, <1>12 DEF TidyStrm, Written, CanRead, CanWrite, LocalStream
<1>15. /\ d.txOff = b.txOff /\ d.rxMax = b.rxMax /\ d.txMax = b.txMax
       /\ d.rxOff = b.rxOff + BytesOf({f}, StreamIds)
       /\ d.strm[s].rxLast = b.strm[s].rxLast + BytesOf({f}, {s})
  BY <1>8, <1>9, <1>10, <1>11 DEF SameFlow
<1>16. Tied(d, p, After(u, f), v)
  BY <1>2, <1>5, <1>8, <1>9, <1>13, <1>14, <1>15, StrmReadTied, ZenonT(30)
<1>17. Tied(CloseStreamIfShutRdWr(d, s), p, After(u, f), v)
  BY <1>2, <1>12, <1>16, CloseTied
<1> QED
  BY <1>6, <1>17 DEF RecvResetStream, d, b

\* conn_recv_stop_sending: a glitch, or the write side is given up.
LEMMA RecvStopSendingTied ==
  ASSUME NEW c, NEW p, NEW u, NEW v, Tied(c, p, u, v), Sound(c), Sound(p),
         u # << >>, NEW f \in Head(u), f.t = "STOP_SENDING"
  PROVE  RecvStopSendingError(c, f) = "NONE" /\ Tied(RecvStopSending(c, f), p, After(u, f), v)
<1> DEFINE s == f.id
           w == After(u, f)
           b == FindOrOpen(c, s)
           x == b.strm[s]
           R == {"SEND_RESET_STREAM", "RESET_STREAM"}
           F == {"SHUT_WR", "STOP_SENDING_RECVED"}
           e == IF "SHUT_WR" \in x.flags THEN b ELSE ScheduleReset(b, s)
           d == SetFlags(e, s, F)
<1>1. Good(c) /\ f \in Frame
  BY FrontView DEF Tied
<1>2. s \in StreamIds /\ R \in SUBSET Flag /\ F \in SUBSET Flag
  BY <1>1, FrameFields DEF Flag
<1>3. CanRead(p, s) /\ Used(p, s)
  BY <1>2, FrontView
<1>4. StreamIdError(c, s, "send") = "NONE"
  BY <1>2, <1>3, IdAccepted
<1>5. Tied(c, p, w, v)
  BY SkipTied
<1> HIDE DEF w
<1>6. Tied(DrainGlitch(c), p, w, v)
  BY <1>5, AsideTied
<1>7. ASSUME ~Closed(c, s)
      PROVE  Tied(d, p, w, v)
  <2>1. /\ Tied(b, p, w, v) /\ Good(b) /\ s \in b.live
    BY <1>1, <1>2, <1>3, <1>4, <1>5, <1>7, FindOrOpenTied, FindOrOpenSound, FindOrOpenGood
  <2> HIDE DEF b
  <2>2. TidySelf(b) /\ TidyStrm(b, s) /\ x \in StrmType
    BY <1>2, <2>1, Fields DEF Tied, Tidy
  <2> DEFINE G == IF "SHUT_WR" \in x.flags THEN F ELSE R \cup F
  <2>3. /\ Good(e) /\ Touches(b, e, s) /\ SameFlow(b, e) /\ TidySelf(e) /\ e.rd = b.rd
        /\ e.strm[s] = IF "SHUT_WR" \in x.flags THEN x ELSE [x EXCEPT !.flags = @ \cup R]
    <3>1. Touches(b, b, s) /\ SameFlow(b, b)
      BY DEF Touches, SameLimits, SameFlow
    <3> QED
      BY <1>2, <2>1, <2>2, <3>1, MarkView DEF ScheduleReset
  <2> HIDE DEF e
  <2>4. /\ Good(d) /\ Touches(e, d, s) /\ SameFlow(e, d) /\ TidySelf(d) /\ d.rd = e.rd
        /\ d.strm[s] = [e.strm[s] EXCEPT !.flags = @ \cup F]
    BY <1>2, <2>3, MarkView
  <2> HIDE DEF d
  <2>5. d.strm[s] = [x EXCEPT !.flags = @ \cup G]
    <3>1. CASE "SHUT_WR" \in x.flags
      BY <2>3, <2>4, <3>1
    <3>2. CASE "SHUT_WR" \notin x.flags
      <4>1. [[x EXCEPT !.flags = x.flags \cup R] EXCEPT !.flags = (x.flags \cup R) \cup F]
            = [x EXCEPT !.flags = x.flags \cup (R \cup F)]
        BY <2>2 DEF StrmType
      <4>2. [x EXCEPT !.flags = x.flags \cup R].flags = x.flags \cup R
        BY <2>2 DEF StrmType
      <4> HIDE DEF x, F, R
      <4> QED
        BY <2>3, <2>4, <3>2, <4>1, <4>2
    <3> QED
      BY <3>1, <3>2
  <2>6. Touches(b, d, s) /\ SameFlow(b, d) /\ d.rd = b.rd
    BY <2>3, <2>4 DEF Touches, SameLimits, SameFlow
  <2>7. /\ G \in SUBSET Flag /\ "SHUT_RD" \notin G
        /\ "SEND_RESET_STREAM" \in G => "SHUT_WR" \notin x.flags /\ "SHUT_WR" \in G
    BY <1>2
  <2> HIDE DEF G
  <2> QED
    BY <1>2, <2>1, <2>4, <2>5, <2>6, <2>7, MarkTied
<1> QED
  BY <1>4, <1>6, <1>7 DEF RecvStopSendingError, RecvStopSending, w

\* A limit of the connection is read.
LEMMA LimitReadTied ==
  ASSUME NEW c, NEW p, NEW u, NEW v, Tied(c, p, u, v), u # << >>, NEW f \in Head(u),
         f.t \in {"MAX_DATA", "MAX_STREAMS"},
         NEW d, Good(d), TidySelf(d), Kept(c, d), d.live = c.live, d.idtr = c.idtr, d.next = c.next,
         d.strm = c.strm, d.rd = c.rd,
         d.txOff = c.txOff, d.rxOff = c.rxOff, d.rxMax = c.rxMax, d.rxStreams = c.rxStreams,
         d.txMax = IF f.t = "MAX_DATA" THEN f.max ELSE c.txMax,
         \A i \in Direction : d.txStreams[i] = IF f.t = "MAX_STREAMS" /\ f.dir = i
                                                 THEN f.max ELSE c.txStreams[i]
  PROVE  Tied(d, p, After(u, f), v)
<1>1. Good(c) /\ Tidy(c) /\ f \in Frame /\ d.role = c.role
  BY FrontView DEF Tied, Kept
<1>2. /\ c.txOff \in Nat /\ c.rxOff \in Nat /\ c.rxMax \in Nat
  BY <1>1, Numbers
<1>3. BytesOf({}, StreamIds) = 0 /\ BytesOf({f}, StreamIds) = 0
  BY <1>1, BytesOfIs
<1>4. \A K, x : Raises({}, K, x, x)
  BY DEF Raises
<1>5. SendsFlow(c, d, {})
  BY <1>2, <1>3, <1>4 DEF SendsFlow
<1>6. ReadsFlow(c, d, {f})
  BY <1>1, <1>2, <1>3 DEF ReadsFlow, MaxDataOf, MaxStreamsOf
<1>7. ASSUME NEW s \in StreamIds
      PROVE  /\ SendsData(c, d, {}, s) /\ SendsCredit(c, d, {}, s)
             /\ ReadsData(c, d, {f}, s) /\ ReadsCredit(c, d, {f}, s)
             /\ TidyStrm(d, s)
  <2>1. Quiet(c, d, s)
    BY <1>1 DEF Quiet, Same, Gone, Used, LocalStream
  <2>2. Mute({}, s) /\ Mute({f}, s)
    BY DEF Mute
  <2>3. TidyStrm(d, s)
    BY <1>1 DEF Tidy, TidyStrm, CanRead, CanWrite, LocalStream
  <2> QED
    BY <1>1, <2>1, <2>2, <2>3, QuietStream
<1>8. Tidy(d) /\ Sends(c, d, {}) /\ Reads(c, d, {f})
  BY <1>5, <1>6, <1>7 DEF Tidy, Sends, Reads
<1> QED
  BY <1>8, ReadTied

\* conn_recv_max_data and conn_recv_max_streams: the peer raised the limit.
LEMMA RecvLimitTied ==
  ASSUME NEW c, NEW p, NEW u, NEW v, Tied(c, p, u, v), Sound(c), u # << >>, NEW f \in Head(u)
  PROVE  /\ f.t = "MAX_DATA" =>
              RecvMaxDataError(c, f) = "NONE" /\ Tied(RecvMaxData(c, f), p, After(u, f), v)
         /\ f.t = "MAX_STREAMS" =>
              RecvMaxStreamsError(c, f) = "NONE" /\ Tied(RecvMaxStreams(c, f), p, After(u, f), v)
<1>1. /\ Good(c) /\ Good(p) /\ TidySelf(c) /\ f \in Frame /\ f \in PeerFrame /\ FlowTo(c, p, u)
      /\ u \in Seq(SUBSET Frame)
  BY FrontView DEF Tied, Tidy
<1>2. ASSUME f.t = "MAX_DATA"
      PROVE  RecvMaxDataError(c, f) = "NONE" /\ Tied(RecvMaxData(c, f), p, After(u, f), v)
  <2> DEFINE d == RecvMaxData(c, f)
  <2>1. c.txMax \in Nat /\ p.rxMax \in Nat /\ f.max \in Nat /\ f \in MaxDataOf
    BY <1>1, <1>2, Numbers, FrameFields, LimitsAssumption DEF MaxDataOf
  <2>2. c.txMax < f.max
    <3>1. Announced(u, MaxDataOf, c.txMax, p.rxMax) /\ Limit(MaxDataOf)
      BY <1>1, LimitFrames DEF FlowTo
    <3> QED
      BY <1>1, <2>1, <3>1, AnnouncedAfter
  <2>3. RecvMaxDataError(c, f) = "NONE"
    BY <2>1, <2>2 DEF RecvMaxDataError
  <2>4. Good(d)
    BY <1>1, <1>2, <2>3, RecvMaxDataGood
  <2>5. Kept(c, d)
    BY <1>1, OtherAlike, AlikeSound DEF RecvMaxData
  <2>6. /\ TidySelf(d) /\ d.live = c.live /\ d.idtr = c.idtr /\ d.next = c.next
        /\ d.strm = c.strm /\ d.rd = c.rd /\ d.txStreams = c.txStreams
        /\ d.txOff = c.txOff /\ d.rxOff = c.rxOff /\ d.rxMax = c.rxMax /\ d.rxStreams = c.rxStreams
        /\ d.txMax = f.max
    BY <1>1 DEF RecvMaxData, TidySelf, Good, ConnType
  <2> HIDE DEF d
  <2>7. Tied(d, p, After(u, f), v)
    BY <1>2, <2>4, <2>5, <2>6, LimitReadTied
  <2> QED
    BY <2>3, <2>7 DEF d
<1>3. ASSUME f.t = "MAX_STREAMS"
      PROVE  RecvMaxStreamsError(c, f) = "NONE" /\ Tied(RecvMaxStreams(c, f), p, After(u, f), v)
  <2> DEFINE d == RecvMaxStreams(c, f)
             i == f.dir
  <2>1. /\ i \in Direction /\ f.max \in 0..MaxStreams /\ f.max \in Nat /\ MaxStreams \in Nat
        /\ f \in MaxStreamsOf(i)
    BY <1>1, <1>3, FrameFields, LimitsAssumption DEF MaxStreamsOf
  <2>2. c.txStreams[i] \in Nat /\ p.rxStreams[i] \in Nat
    BY <1>1, <2>1, Numbers
  <2>3. c.txStreams[i] < f.max
    <3>1. Announced(u, MaxStreamsOf(i), c.txStreams[i], p.rxStreams[i]) /\ Limit(MaxStreamsOf(i))
      BY <1>1, <2>1, LimitFrames DEF FlowTo
    <3> QED
      BY <1>1, <2>1, <2>2, <3>1, AnnouncedAfter
  <2>4. RecvMaxStreamsError(c, f) = "NONE"
    BY <2>1, <2>2, <2>3 DEF RecvMaxStreamsError
  <2>5. Good(d) /\ Kept(c, d)
    BY <1>1, <1>3, <2>4, RecvMaxStreamsGood, RecvMaxStreamsSound
  <2>6. c.txStreams \in [Direction -> 0..MaxStreams]
    BY <1>1, Fields
  <2>7. /\ TidySelf(d) /\ d.live = c.live /\ d.idtr = c.idtr /\ d.next = c.next
        /\ d.strm = c.strm /\ d.rd = c.rd /\ d.txMax = c.txMax
        /\ d.txOff = c.txOff /\ d.rxOff = c.rxOff /\ d.rxMax = c.rxMax /\ d.rxStreams = c.rxStreams
        /\ \A j \in Direction : d.txStreams[j] = IF i = j THEN f.max ELSE c.txStreams[j]
    BY <1>1, <2>6 DEF RecvMaxStreams, TidySelf, Good, ConnType
  <2> HIDE DEF d
  <2>8. Tied(d, p, After(u, f), v)
    BY <1>3, <2>5, <2>7, LimitReadTied
  <2> QED
    BY <2>4, <2>8 DEF d
<1> QED
  BY <1>2, <1>3

\* conn_recv_max_stream_data: a limit that rises, or one for a stream that is
\* gone, which is a glitch.
LEMMA RecvMaxStreamDataTied ==
  ASSUME NEW c, NEW p, NEW u, NEW v, Tied(c, p, u, v), Sound(c), Sound(p),
         u # << >>, NEW f \in Head(u), f.t = "MAX_STREAM_DATA"
  PROVE  /\ RecvMaxStreamDataError(c, f) = "NONE"
         /\ Tied(RecvMaxStreamData(c, f), p, After(u, f), v)
<1> DEFINE s == f.id
           w == After(u, f)
           b == FindOrOpen(c, s)
           x == b.strm[s]
           d == [b EXCEPT !.strm[s].txMax = f.max]
<1>1. /\ Good(c) /\ Good(p) /\ f \in Frame /\ f \in PeerFrame /\ u \in Seq(SUBSET Frame)
      /\ Channel(c, p, u)
  BY FrontView DEF Tied
<1>2. s \in StreamIds /\ f.max \in Nat /\ f.max \in Offset /\ f \in CreditOf(s)
  BY <1>1, FrameFields, LimitsAssumption DEF CreditOf, Offset
<1>3. CanRead(p, s) /\ Used(p, s)
  BY <1>2, FrontView
<1>4. StreamIdError(c, s, "send") = "NONE" /\ (Closed(c, s) <=> Gone(c, s))
  BY <1>2, <1>3, IdAccepted
<1>5. CASE Closed(c, s)
  <2>1. Tied(c, p, w, v)
    BY <1>4, <1>5, SkipTied
  <2> HIDE DEF w
  <2>2. Tied(DrainGlitch(c), p, w, v)
    BY <2>1, AsideTied
  <2> QED
    BY <1>4, <1>5, <2>2 DEF RecvMaxStreamDataError, RecvMaxStreamData, w
<1>6. CASE ~Closed(c, s)
  <2>1. /\ Tied(b, p, u, v) /\ Good(b) /\ Sound(b) /\ s \in b.live /\ b.rd = c.rd
        /\ b.strm = c.strm
    BY <1>1, <1>2, <1>3, <1>4, <1>6, FindOrOpenTied, FindOrOpenSound, FindOrOpenGood
  <2>2. c.strm[s].txMax < f.max
    <3>1. Announced(u, CreditOf(s), Known(c, s), Allowed(p, s)) /\ Limit(CreditOf(s))
      BY <1>1, <1>2, LimitFrames DEF Channel, CreditTo
    <3>2. Known(c, s) = c.strm[s].txMax
      BY <1>4, <1>6 DEF Known
    <3>3. Known(c, s) \in Int /\ Allowed(p, s) \in Int
      BY <1>1, <1>2, Numbers, LimitsAssumption DEF Known, Allowed
    <3> QED
      BY <1>1, <1>2, <3>1, <3>2, <3>3, AnnouncedAfter
  <2>3. RecvMaxStreamDataError(c, f) = "NONE"
    <3>1. c.strm[s].txMax \in Nat
      BY <1>1, <1>2, Numbers
    <3> HIDE DEF b
    <3> QED
      BY <1>2, <1>4, <2>1, <2>2, <3>1 DEF RecvMaxStreamDataError, b
  <2> HIDE DEF b
  <2>4. /\ x \in StrmType /\ StrmCredit(x) /\ b.strm \in [StreamIds -> StrmType]
        /\ TidySelf(b) /\ TidyStrm(b, s)
    BY <1>2, <2>1, Fields DEF Good, ConnType, Tied, Tidy
  <2> DEFINE z == [x EXCEPT !.txMax = f.max]
  <2>5. Good(d)
    <3>1. /\ x.txOff \in Nat /\ x.txMax \in Nat /\ x.txOff <= f.max
      BY <1>2, <2>1, <2>2, Numbers, SMTT(20)
    <3>2. z \in StrmType /\ StrmCredit(z)
      BY <1>2, <2>4, <3>1 DEF StrmType, StrmCredit
    <3>3. d = [b EXCEPT !.strm[s] = z]
      OBVIOUS
    <3> HIDE DEF z
    <3> QED
      BY <1>2, <2>1, <3>2, <3>3, StrmUpdateGood
  <2>6. /\ Touches(b, d, s) /\ TidySelf(d) /\ d.strm[s] = z /\ d.rd = b.rd
        /\ d.txOff = b.txOff /\ d.txMax = b.txMax /\ d.rxMax = b.rxMax /\ d.rxOff = b.rxOff
    BY <1>2, <2>1, <2>4 DEF Touches, SameLimits, TidySelf, Good, ConnType
  <2> HIDE DEF d
  <2>7. /\ d.strm[s].flags = x.flags /\ d.strm[s].txOff = x.txOff /\ d.strm[s].txMax = f.max
        /\ d.strm[s].rxLast = x.rxLast /\ d.strm[s].rxMax = x.rxMax
    BY <2>4, <2>6 DEF StrmType
  <2>8. BytesOf({f}, StreamIds) = 0 /\ BytesOf({f}, {s}) = 0
    BY <1>1, BytesOfIs
  <2>9. /\ b.rxOff \in Nat /\ x.rxLast \in Nat
    BY <1>2, <2>1, Numbers
  <2>10. d.live = b.live /\ d.role = b.role
    BY <2>6 DEF Touches, SameLimits
  <2>11. TidyStrm(d, s) /\ (Written(d.strm[s]) <=> Written(b.strm[s]))
         /\ (Ending(d, s) <=> Ending(b, s) \/ Final(f))
    BY <2>1, <2>4, <2>6, <2>7, <2>10
       DEF TidyStrm, Written, Ending, Final, CanRead, CanWrite, LocalStream
  <2>12. Tied(d, p, w, v)
    <3>1. /\ d.rxOff = b.rxOff + BytesOf({f}, StreamIds)
          /\ d.strm[s].rxLast = b.strm[s].rxLast + BytesOf({f}, {s})
      BY <2>6, <2>7, <2>8, <2>9
    <3> HIDE DEF x, z
    <3> QED
      BY <1>2, <2>1, <2>5, <2>6, <2>7, <2>11, <3>1, StrmReadTied DEF x
  <2> HIDE DEF w
  <2>13. Tied(DrainGlitch(d), p, w, v)
    BY <2>12, AsideTied
  <2> QED
    BY <1>6, <2>3, <2>12, <2>13 DEF RecvMaxStreamData, w, d, b
<1> QED
  BY <1>5, <1>6

\* The blocked reports agree with what the peer was allowed.
LEMMA RecvBlockedAccepted ==
  ASSUME NEW c, NEW p, NEW u, NEW v, Tied(c, p, u, v), Sound(c), Sound(p),
         u # << >>, NEW f \in Head(u)
  PROVE  /\ f.t = "DATA_BLOCKED" => RecvDataBlockedError(c, f) = "NONE"
         /\ f.t = "STREAM_DATA_BLOCKED" => RecvStreamDataBlockedError(c, f) = "NONE"
<1>1. Good(c) /\ Tidy(c) /\ f \in Frame
  BY FrontView DEF Tied
<1>2. ASSUME f.t = "DATA_BLOCKED"
      PROVE  RecvDataBlockedError(c, f) = "NONE"
  <2>1. f.max <= c.rxMax
    BY <1>2, FrontView
  <2>2. f.max \in Nat /\ c.rxMax \in Nat
    BY <1>1, <1>2, Numbers, FrameFields, LimitsAssumption
  <2> QED
    BY <2>1, <2>2 DEF RecvDataBlockedError
<1>3. ASSUME f.t = "STREAM_DATA_BLOCKED"
      PROVE  RecvStreamDataBlockedError(c, f) = "NONE"
  <2> DEFINE s == f.id
  <2>1. s \in StreamIds /\ f \in DataOf(s) /\ At(f) = f.max
    BY <1>1, <1>3, FrameFields DEF DataOf, At
  <2>2. /\ ~EndRead(c, s) /\ CanWrite(p, s) /\ Used(p, s) /\ f.max = c.strm[s].rxLast
    BY <2>1, FrontView
  <2>3. StreamIdError(c, s, "recv") = "NONE" /\ ~Closed(c, s)
    BY <2>1, <2>2, IdAccepted DEF EndRead
  <2>4. s \notin c.live => f.max = 0
    <3>1. s \notin c.live => c.strm[s] = NewStrm(c.role, s)
      BY <1>1, <2>1 DEF Tidy, TidyStrm
    <3>2. NewStrm(c.role, s).rxLast = 0
      BY DEF NewStrm
    <3> HIDE DEF s
    <3> QED
      BY <2>2, <3>1, <3>2
  <2> QED
    BY <2>2, <2>3, <2>4 DEF RecvStreamDataBlockedError, EndRead
<1> QED
  BY <1>2, <1>3

\* dwnx_conn_read accepts every frame that the peer wrote, and keeps the ties.
LEMMA RecvTied ==
  ASSUME NEW c, NEW p, NEW u, NEW v, Tied(c, p, u, v), Sound(c), Sound(p), c.rd = Idle,
         u # << >>, NEW f \in Head(u)
  PROVE  Tied(Recv(c, f), p, After(u, f), v)
<1>1. f \in Frame /\ f.t # "QX_PING_RESPONSE"
  BY FrontView
<1>2. f.t \in {"STREAM", "RESET_STREAM", "STOP_SENDING", "MAX_DATA", "MAX_STREAM_DATA",
               "MAX_STREAMS", "DATA_BLOCKED", "STREAM_DATA_BLOCKED"}
  BY <1>1, FrameFields
<1>3. RecvError(c, f) = "NONE" /\ Tied(RecvAccepted(c, f), p, After(u, f), v)
  <2>1. CASE f.t = "STREAM"
    BY <2>1, StreamAccepted, RecvStreamTied DEF RecvError, RecvAccepted
  <2>2. CASE f.t = "RESET_STREAM"
    BY <2>2, RecvResetStreamTied DEF RecvError, RecvAccepted
  <2>3. CASE f.t = "STOP_SENDING"
    BY <2>3, RecvStopSendingTied DEF RecvError, RecvAccepted
  <2>4. CASE f.t = "MAX_DATA"
    BY <2>4, RecvLimitTied DEF RecvError, RecvAccepted
  <2>5. CASE f.t = "MAX_STREAM_DATA"
    BY <2>5, RecvMaxStreamDataTied DEF RecvError, RecvAccepted
  <2>6. CASE f.t = "MAX_STREAMS"
    BY <2>6, RecvLimitTied DEF RecvError, RecvAccepted
  <2>7. CASE f.t = "DATA_BLOCKED"
    BY <2>7, RecvBlockedAccepted, SkipTied DEF RecvError, RecvAccepted
  <2>8. CASE f.t = "STREAM_DATA_BLOCKED"
    BY <2>8, RecvBlockedAccepted, SkipTied DEF RecvError, RecvAccepted
  <2> QED
    BY <1>2, <2>1, <2>2, <2>3, <2>4, <2>5, <2>6, <2>7, <2>8
<1> QED
  BY <1>3 DEF Recv

-----------------------------------------------------------------------------
(* The writing side: control frames                                        *)

\* The frames that wait to be written (dwnx_conn_write_ctrl_frames): none of
\* them carries data, and every one says what its endpoint's accounts say.
LEMMA CtrlFrameView ==
  ASSUME NEW c, Good(c), TidySelf(c), c.strmq \subseteq StreamIds, NEW f \in CtrlFrames(c)
  PROVE  /\ f \in Frame
         /\ f.t \in {"RESET_STREAM", "STOP_SENDING", "MAX_DATA", "MAX_STREAM_DATA",
                     "MAX_STREAMS", "DATA_BLOCKED", "STREAM_DATA_BLOCKED"}
         /\ f.t = "MAX_DATA" =>
              f = MaxDataFr(c.rxUnsent) /\ f \in MaxDataFrames(c) /\ c.rxMax < c.rxUnsent
         /\ f.t = "MAX_STREAMS" => f \in MaxStreamsFrames(c)
         /\ f.t \notin {"MAX_DATA", "MAX_STREAMS"} => f.id \in c.strmq /\ f \in StreamFrames(c, f.id)
         /\ f.t = "RESET_STREAM" => f \in ResetFrames(c, f.id)
         /\ f.t = "STOP_SENDING" => f \in StopFrames(c, f.id)
         /\ f.t = "MAX_STREAM_DATA" => f \in CreditFrames(c, f.id)
         /\ f.t = "DATA_BLOCKED" => f.max = c.txOff
         /\ f.t = "STREAM_DATA_BLOCKED" =>
              f \in StreamDataBlockedFrames(c, f.id) /\ f.id \in Reporting(c)
<1>1. f \in Frame
  BY FramesType
<1>2. PongFrames(c) = {}
  BY DEF PongFrames, TidySelf
<1>3. CASE f \in MaxDataFrames(c)
  <2>1. c.rxMax \in Nat /\ c.rxUnsent \in Nat /\ Params[c.role].maxData \in Nat
    BY Numbers, ParamsAssumption, LimitsAssumption DEF ParamsType, Role
  <2>2. f = MaxDataFr(c.rxUnsent) /\ ShouldSendMaxData(c)
    BY <1>3 DEF MaxDataFrames
  <2>3. c.rxMax < c.rxUnsent
    BY <2>1, <2>2 DEF ShouldSendMaxData
  <2>4. f.t = "MAX_DATA"
    BY <2>2 DEF MaxDataFr
  <2> QED
    BY <1>1, <1>3, <2>2, <2>3, <2>4
<1>4. CASE f \in MaxStreamsFrames(c)
  <2>1. f.t = "MAX_STREAMS"
    BY <1>4 DEF MaxStreamsFrames, MaxStreamsFr
  <2> QED
    BY <1>1, <1>4, <2>1
<1>5. ASSUME NEW s \in c.strmq, f \in StreamFrames(c, s)
      PROVE  /\ f.t \in {"RESET_STREAM", "STOP_SENDING", "MAX_STREAM_DATA", "DATA_BLOCKED",
                         "STREAM_DATA_BLOCKED"}
             /\ f.id = s
             /\ f.t = "RESET_STREAM" => f \in ResetFrames(c, s)
             /\ f.t = "STOP_SENDING" => f \in StopFrames(c, s)
             /\ f.t = "MAX_STREAM_DATA" => f \in CreditFrames(c, s)
             /\ f.t = "DATA_BLOCKED" => f.max = c.txOff
             /\ f.t = "STREAM_DATA_BLOCKED" =>
                  f \in StreamDataBlockedFrames(c, s) /\ s \in Reporting(c)
  <2>1. CASE f \in ResetFrames(c, s)
    <3>1. f.t = "RESET_STREAM" /\ f.id = s
      BY <2>1 DEF ResetFrames, ResetStreamFr
    <3> QED
      BY <2>1, <3>1
  <2>2. CASE f \in StopFrames(c, s)
    <3>1. f.t = "STOP_SENDING" /\ f.id = s
      BY <2>2 DEF StopFrames, StopSendingFr
    <3> QED
      BY <2>2, <3>1
  <2>3. CASE f \in CreditFrames(c, s)
    <3>1. f.t = "MAX_STREAM_DATA" /\ f.id = s
      BY <2>3 DEF CreditFrames, MaxStreamDataFr
    <3> QED
      BY <2>3, <3>1
  <2>4. CASE f \in BlockedFrames(c, s) /\ f \in DataBlockedFrames(c, s)
    <3>1. f.t = "DATA_BLOCKED" /\ f.id = s /\ f.max = c.txOff
      BY <2>4 DEF DataBlockedFrames, DataBlockedFr
    <3> QED
      BY <3>1
  <2>5. CASE f \in BlockedFrames(c, s) /\ f \notin DataBlockedFrames(c, s)
    <3>1. f \in StreamDataBlockedFrames(c, s) /\ s \in Reporting(c)
      BY <2>5 DEF BlockedFrames
    <3>2. f.t = "STREAM_DATA_BLOCKED" /\ f.id = s
      BY <3>1 DEF StreamDataBlockedFrames, StreamDataBlockedFr
    <3> QED
      BY <3>1, <3>2
  <2> QED
    BY <1>5, <2>1, <2>2, <2>3, <2>4, <2>5 DEF StreamFrames
<1>6. CASE f \in QueueFrames(c)
  <2>1. PICK s \in c.strmq : f \in StreamFrames(c, s)
    BY <1>6 DEF QueueFrames
  <2> QED
    BY <1>1, <1>5, <2>1
<1> QED
  BY <1>2, <1>3, <1>4, <1>6 DEF CtrlFrames, HeadFrames

\* The place of a frame in the order of a record.
LEMMA PlaceType ==
  ASSUME NEW f \in Frame, f.t # "STREAM"
  PROVE  /\ Place(f)[1] \in Int /\ Place(f)[2] \in Int /\ Place(f)[3] \in Int
         /\ f.t \in {"MAX_DATA", "QX_PING_RESPONSE"} => Place(f)[1] = 0
         /\ f.t = "MAX_STREAMS" => Place(f)[1] = 2
         /\ f.t \in {"RESET_STREAM", "STOP_SENDING", "MAX_STREAM_DATA", "DATA_BLOCKED",
                     "STREAM_DATA_BLOCKED"}
            => Place(f)[1] = 1 /\ Place(f)[2] = f.id
<1>1. f.t \in {"RESET_STREAM", "STOP_SENDING", "MAX_STREAM_DATA", "DATA_BLOCKED",
               "STREAM_DATA_BLOCKED"} => f.id \in Nat
  BY FrameFields, StreamIdsAssumption
<1>2. f.t \in {"RESET_STREAM", "STOP_SENDING", "MAX_DATA", "MAX_STREAM_DATA", "MAX_STREAMS",
               "DATA_BLOCKED", "STREAM_DATA_BLOCKED", "QX_PING_RESPONSE"}
  BY FrameFields
<1> QED
  BY <1>1, <1>2 DEF Place

\* Of the frames that wait, those before one that was written were written.
LEMMA FrontClosed ==
  ASSUME NEW F \in SUBSET Frame, \A f \in F : f.t # "STREAM",
         NEW out \in FrontsOf(F), NEW f \in out, NEW g \in F, Before(g, f)
  PROVE  out \subseteq F /\ g \in out
<1>1. CASE out = F
  BY <1>1
<1>2. CASE \E x \in F : out = {h \in F : Before(h, x)}
  <2>1. PICK x \in F : out = {h \in F : Before(h, x)}
    BY <1>2
  <2>2. Before(f, x) /\ f \in F
    BY <2>1
  <2>3. /\ Place(f)[1] \in Int /\ Place(f)[2] \in Int /\ Place(f)[3] \in Int
        /\ Place(g)[1] \in Int /\ Place(g)[2] \in Int /\ Place(g)[3] \in Int
        /\ Place(x)[1] \in Int /\ Place(x)[2] \in Int /\ Place(x)[3] \in Int
    BY <2>2, PlaceType
  <2>4. Before(g, x)
    BY <2>2, <2>3 DEF Before
  <2> QED
    BY <2>1, <2>4
<1> QED
  BY <1>1, <1>2 DEF FrontsOf

\* A stream whose RESET_STREAM was written had its turn.
LEMMA TurnReached ==
  ASSUME NEW c, Good(c), TidySelf(c), c.strmq \subseteq StreamIds,
         NEW out \in FrontsOf(CtrlFrames(c)), NEW s \in c.strmq,
         NEW f \in out, f.t = "RESET_STREAM", f.id = s
  PROVE  Reached(c, s, out)
<1>1. CtrlFrames(c) \in SUBSET Frame /\ \A g \in CtrlFrames(c) : g.t # "STREAM"
  BY FramesType, CtrlFrameView
<1>2. Place(f)[1] = 1 /\ Place(f)[2] = s /\ f \in Frame
  <2>1. f \in Frame
    BY <1>1 DEF FrontsOf
  <2> QED
    BY <2>1, PlaceType
<1>3. HeadFrames(c) \subseteq out
  <2> SUFFICES ASSUME NEW g \in HeadFrames(c)
               PROVE  g \in out
    OBVIOUS
  <2>1. g \in CtrlFrames(c)
    BY DEF CtrlFrames
  <2>2. g.t \in {"MAX_DATA", "QX_PING_RESPONSE"}
    BY DEF HeadFrames, MaxDataFrames, PongFrames, MaxDataFr, PongFr
  <2>3. Place(g)[1] = 0
    BY <1>1, <2>1, <2>2, PlaceType
  <2>4. Before(g, f)
    BY <1>2, <2>3 DEF Before
  <2> QED
    BY <1>1, <2>1, <2>4, FrontClosed
<1>4. ASSUME NEW t \in c.strmq, t < s, NEW g \in StreamFrames(c, t)
      PROVE  g \in out
  <2>1. g \in CtrlFrames(c)
    BY DEF CtrlFrames, QueueFrames
  <2>2. /\ g.t \in {"RESET_STREAM", "STOP_SENDING", "MAX_STREAM_DATA", "DATA_BLOCKED",
                    "STREAM_DATA_BLOCKED"}
        /\ g.id = t
    BY DEF StreamFrames, ResetFrames, StopFrames, CreditFrames, BlockedFrames,
           DataBlockedFrames, StreamDataBlockedFrames, ResetStreamFr, StopSendingFr,
           MaxStreamDataFr, DataBlockedFr, StreamDataBlockedFr
  <2>3. Place(g)[1] = 1 /\ Place(g)[2] = t
    BY <1>1, <2>1, <2>2, PlaceType
  <2>4. Before(g, f)
    BY <1>2, <1>4, <2>3 DEF Before
  <2> QED
    BY <1>1, <2>1, <2>4, FrontClosed
<1> QED
  BY <1>3, <1>4 DEF Reached

\* A stream on its turn: what it keeps.
LEMMA TurnView ==
  ASSUME NEW c, Good(c), NEW s \in StreamIds, NEW out,
         NEW x, x = c.strm[s], NEW y, y = AfterTurn(c, s, out)
  PROVE  /\ \A F \in {"SHUT_RD", "SHUT_WR"} : F \in y.flags <=> F \in x.flags
         /\ "SEND_RESET_STREAM" \in y.flags => "SEND_RESET_STREAM" \in x.flags
         /\ ResetFrames(c, s) \subseteq out /\ Reached(c, s, out) => "SEND_RESET_STREAM" \notin y.flags
         /\ y.txOff = x.txOff /\ y.txMax = x.txMax /\ y.rxLast = x.rxLast
         /\ y.rxMax = IF CreditFrames(c, s) \cap out # {} THEN x.rxUnsent ELSE x.rxMax
<1>1. x \in StrmType
  BY Fields
<1> DEFINE m == IF CreditFrames(c, s) \cap out # {} THEN x.rxUnsent ELSE x.rxMax
           b == IF StreamDataBlockedFrames(c, s) \cap out # {} THEN x.txOff ELSE x.txBlocked
           G == x.flags \ Cleared(c, s, out)
<1>2. y = [x EXCEPT !.flags = G, !.rxMax = m, !.txBlocked = b]
  BY DEF AfterTurn
<1> HIDE DEF m, b, G
<1>3. /\ y.flags = G /\ y.txOff = x.txOff /\ y.txMax = x.txMax /\ y.rxLast = x.rxLast
      /\ y.rxMax = m
  BY <1>1, <1>2 DEF StrmType
<1>4. /\ "SHUT_RD" \notin Cleared(c, s, out) /\ "SHUT_WR" \notin Cleared(c, s, out)
      /\ ResetFrames(c, s) \subseteq out /\ Reached(c, s, out)
         => "SEND_RESET_STREAM" \in Cleared(c, s, out)
  BY DEF Cleared
<1> QED
  BY <1>3, <1>4 DEF G, m

\* What a stream in the queue writes for its peer.
StreamWrites(c, s, out) ==
  /\ \A f \in out \cap DataOf(s) :
       /\ out \cap DataOf(s) = {f}
       /\ f.t # "STREAM" /\ At(f) = c.strm[s].txOff /\ CanWrite(c, s) /\ s \in c.strmq
       /\ f.t = "RESET_STREAM" => /\ "SEND_RESET_STREAM" \in c.strm[s].flags
                                  /\ ResetFrames(c, s) \subseteq out /\ Reached(c, s, out)
       /\ f.t = "STREAM_DATA_BLOCKED" => "SHUT_WR" \notin c.strm[s].flags
  /\ \A f \in out : f.t \in {"MAX_STREAM_DATA", "STOP_SENDING"} /\ f.id = s
                    => CanRead(c, s) /\ s \in c.strmq /\ ~ClosesOnReset(c, s)
  /\ out \cap CreditOf(s) = CreditFrames(c, s) \cap out
  /\ CreditFrames(c, s) \cap out # {} =>
       /\ s \in c.strmq /\ c.strm[s].rxMax < c.strm[s].rxUnsent
       /\ \E f \in out : out \cap CreditOf(s) = {f} /\ f.max = c.strm[s].rxUnsent

\* What it writes is in line with its account.
LEMMA StreamWritesView ==
  ASSUME NEW c, Good(c), Tidy(c), Sound(c), NEW out \in FrontsOf(CtrlFrames(c)),
         NEW s \in StreamIds
  PROVE  StreamWrites(c, s, out)
<1>1. /\ TidySelf(c) /\ c.strmq \subseteq StreamIds /\ c.strmq \subseteq c.live /\ TidyStrm(c, s)
      /\ out \subseteq CtrlFrames(c) /\ out \subseteq Frame
  <2>1. out \subseteq CtrlFrames(c)
    BY DEF FrontsOf
  <2> QED
    BY <2>1, Fields, FramesType DEF Tidy, Sound, SoundBut
<1> DEFINE x == c.strm[s]
<1>2. ASSUME NEW f \in out \cap DataOf(s)
      PROVE  /\ f.t # "STREAM" /\ At(f) = x.txOff /\ CanWrite(c, s) /\ s \in c.strmq
             /\ \/ f.t = "RESET_STREAM" /\ f = ResetStreamFr(s, x.txOff)
                   /\ "SEND_RESET_STREAM" \in x.flags /\ "SHUT_WR" \in x.flags
                \/ f.t = "STREAM_DATA_BLOCKED" /\ f = StreamDataBlockedFr(s, x.txOff)
                   /\ "SHUT_WR" \notin x.flags
  <2>1. f \in CtrlFrames(c) /\ f.id = s /\ f.t \in {"STREAM", "RESET_STREAM", "STREAM_DATA_BLOCKED"}
    BY <1>1 DEF DataOf
  <2>2. /\ f.t # "STREAM" /\ s \in c.strmq
        /\ f.t = "RESET_STREAM" => f \in ResetFrames(c, s)
        /\ f.t = "STREAM_DATA_BLOCKED" => f \in StreamDataBlockedFrames(c, s) /\ s \in Reporting(c)
    BY <1>1, <2>1, CtrlFrameView
  <2>3. CASE f.t = "RESET_STREAM"
    <3>1. f = ResetStreamFr(s, x.txOff) /\ "SEND_RESET_STREAM" \in x.flags
      BY <2>2, <2>3 DEF ResetFrames
    <3>2. "SHUT_WR" \in x.flags /\ CanWrite(c, s)
      BY <1>1, <3>1 DEF TidyStrm
    <3>3. At(f) = x.txOff
      BY <3>1 DEF At, ResetStreamFr
    <3> QED
      BY <2>2, <2>3, <3>1, <3>2, <3>3
  <2>4. CASE f.t = "STREAM_DATA_BLOCKED"
    <3>1. f = StreamDataBlockedFr(s, x.txOff) /\ "SHUT_WR" \notin x.flags
      BY <2>2, <2>4 DEF StreamDataBlockedFrames, Reporting
    <3>2. CanWrite(c, s)
      BY <1>1, <3>1 DEF TidyStrm
    <3>3. At(f) = x.txOff
      BY <3>1 DEF At, StreamDataBlockedFr
    <3> QED
      BY <2>2, <2>4, <3>1, <3>2, <3>3
  <2> QED
    BY <2>1, <2>2, <2>3, <2>4
<1>3. ASSUME NEW f \in out \cap DataOf(s)
      PROVE  /\ out \cap DataOf(s) = {f}
             /\ f.t = "RESET_STREAM" => ResetFrames(c, s) \subseteq out /\ Reached(c, s, out)
  <2>1. out \cap DataOf(s) = {f}
    <3> SUFFICES ASSUME NEW g \in out \cap DataOf(s)
                 PROVE  g = f
      BY <1>3
    <3> QED
      BY <1>2, <1>3
  <2>2. ASSUME f.t = "RESET_STREAM"
        PROVE  ResetFrames(c, s) \subseteq out /\ Reached(c, s, out)
    <3>1. f.id = s /\ s \in c.strmq /\ f = ResetStreamFr(s, x.txOff)
      BY <1>2, <1>3, <2>2 DEF DataOf
    <3>2. Reached(c, s, out)
      BY <1>1, <2>2, <3>1, TurnReached
    <3>3. ResetFrames(c, s) \subseteq out
      BY <1>3, <3>1 DEF ResetFrames
    <3> QED
      BY <3>2, <3>3
  <2> QED
    BY <2>1, <2>2
<1>4. ASSUME NEW f \in out, f.t \in {"MAX_STREAM_DATA", "STOP_SENDING"}, f.id = s
      PROVE  /\ CanRead(c, s) /\ s \in c.strmq /\ ~ClosesOnReset(c, s)
             /\ f.t = "MAX_STREAM_DATA" => f \in CreditFrames(c, s)
  <2>1. f \in CtrlFrames(c)
    BY <1>1
  <2>2. /\ s \in c.strmq
        /\ f.t = "STOP_SENDING" => f \in StopFrames(c, s)
        /\ f.t = "MAX_STREAM_DATA" => f \in CreditFrames(c, s)
    BY <1>1, <1>4, <2>1, CtrlFrameView
  <2>3. "SHUT_RD" \notin x.flags
    BY <1>4, <2>2 DEF StopFrames, CreditFrames, NeedsCredit
  <2> QED
    BY <1>1, <2>2, <2>3 DEF TidyStrm, ClosesOnReset
<1>5. out \cap CreditOf(s) = CreditFrames(c, s) \cap out
  <2>1. ASSUME NEW f \in out \cap CreditOf(s)
        PROVE  f \in CreditFrames(c, s)
    BY <1>4, <2>1 DEF CreditOf
  <2>2. ASSUME NEW f \in CreditFrames(c, s) \cap out
        PROVE  f \in CreditOf(s)
    BY <1>1, <2>2 DEF CreditFrames, MaxStreamDataFr, CreditOf
  <2> QED
    BY <2>1, <2>2
<1>6. ASSUME CreditFrames(c, s) \cap out # {}
      PROVE  /\ s \in c.strmq /\ x.rxMax < x.rxUnsent
             /\ \E f \in out : out \cap CreditOf(s) = {f} /\ f.max = x.rxUnsent
  <2>1. NeedsCredit(c, s) /\ CreditFrames(c, s) = {MaxStreamDataFr(s, x.rxUnsent)}
    BY <1>6 DEF CreditFrames
  <2>2. x.rxMax \in Nat /\ x.rxUnsent \in Nat /\ InitialMaxRx(c.role, s) \in Nat
    <3>1. InitialMaxRx(c.role, s) \in Nat
      BY Numbers, ParamsAssumption, LimitsAssumption DEF InitialMaxRx, ParamsType, Role
    <3> QED
      BY <3>1, Numbers
  <2>3. x.rxMax < x.rxUnsent
    BY <2>1, <2>2 DEF NeedsCredit, ShouldSendMaxStreamData
  <2>4. s \in c.strmq
    BY <1>4, <1>6, <2>1 DEF MaxStreamDataFr
  <2> QED
    BY <1>5, <1>6, <2>1, <2>3, <2>4 DEF MaxStreamDataFr
<1> QED
  BY <1>2, <1>3, <1>4, <1>5, <1>6 DEF StreamWrites

\* dwnx_conn_write_ctrl_frames.
LEMMA WriteCtrlFramesTied ==
  ASSUME NEW c, NEW p, NEW u, NEW v, Tied(c, p, u, v), Sound(c),
         NEW out \in FrontsOf(CtrlFrames(c))
  PROVE  Tied(WriteCtrlFrames(c, out), p, u, Batch(v, out))
<1> DEFINE d == WriteCtrlFrames(c, out)
           Leaving == {s \in Popped(c, out) : ClosesOnReset(c, s)}
<1>1. /\ Good(c) /\ Tidy(c) /\ c.live \subseteq StreamIds /\ c.strmq \subseteq c.live
      /\ \A s \in c.live : Used(c, s)
      /\ out \subseteq CtrlFrames(c) /\ out \in SUBSET Frame
  <2>1. out \subseteq CtrlFrames(c)
    BY DEF FrontsOf
  <2> QED
    BY <2>1, Fields, FramesType DEF Tied, Sound, SoundBut, WithinStreamLimits
<1>2. /\ d.role = c.role /\ d.idtr = c.idtr /\ d.next = c.next
      /\ d.live = c.live \ Leaving /\ d.rd = c.rd
      /\ d.txOff = c.txOff /\ d.txMax = c.txMax /\ d.rxOff = c.rxOff
      /\ d.txStreams = c.txStreams /\ d.err = c.err /\ d.ping = c.ping
      /\ d.pong = (IF PongFrames(c) \cap out # {} THEN c.ping ELSE c.pong)
      /\ d.rxMax = (IF MaxDataFrames(c) \cap out # {} THEN c.rxUnsent ELSE c.rxMax)
      /\ \A i \in Direction : d.rxStreams[i] = IF MaxStreamsFr(i, c.rxUnsentStreams[i]) \in out
                                                 THEN c.rxUnsentStreams[i] ELSE c.rxStreams[i]
  BY <1>1 DEF WriteCtrlFrames, Good, ConnType
<1>3. \A s \in StreamIds :
        d.strm[s] = IF s \in Leaving THEN NewStrm(c.role, s)
                    ELSE IF s \in c.strmq THEN AfterTurn(c, s, out) ELSE c.strm[s]
  BY <1>1 DEF WriteCtrlFrames, Good, ConnType
<1>4. Good(d) /\ Kept(c, d)
  BY <1>1, WriteCtrlFramesGood, WriteCtrlFramesSound
<1>5. /\ \A s \in Leaving : s \in c.strmq /\ ClosesOnReset(c, s)
      /\ \A s \in c.strmq : Reached(c, s, out) /\ StreamFrames(c, s) \subseteq out
                            /\ ClosesOnReset(c, s) => s \in Leaving
  BY DEF Popped
<1> HIDE DEF d, Leaving
<1>6. TidySelf(d)
  BY <1>1, <1>2 DEF Tidy, TidySelf
<1>7. \A f \in out : f.t # "STREAM" /\ f.t # "QX_PING_RESPONSE"
  BY <1>1, CtrlFrameView DEF Tidy
<1>8. \A S : BytesOf(out, S) = 0
  BY <1>7, BytesOfIs
<1>9. ASSUME NEW s \in StreamIds
      PROVE  /\ SendsData(c, d, out, s) /\ SendsCredit(c, d, out, s)
             /\ ReadsData(c, d, {}, s) /\ ReadsCredit(c, d, {}, s) /\ TidyStrm(d, s)
  <2> DEFINE x == c.strm[s]
             y == d.strm[s]
  <2>1. StreamWrites(c, s, out) /\ TidyStrm(c, s)
    BY <1>1, StreamWritesView DEF Tidy
  <2>2. /\ x.txOff \in Nat /\ x.rxLast \in Nat /\ x.rxMax \in Nat /\ x.rxUnsent \in Nat
        /\ BytesOf({}, {s}) = 0 /\ BytesOf(out, {s}) = 0
        /\ {} \cap DataOf(s) = {} /\ {} \cap CreditOf(s) = {}
    BY <1>1, <1>8, Numbers, BytesOfIs
  <2>3. /\ Used(c, s) => Used(d, s)
        /\ Gone(c, s) => Gone(d, s)
        /\ CanWrite(d, s) <=> CanWrite(c, s)
        /\ CanRead(d, s) <=> CanRead(c, s)
    BY <1>4, KeptSides
  <2>4. CASE s \in Leaving
    <3>1. /\ s \in c.strmq /\ s \in c.live /\ Used(c, s) /\ Gone(d, s) /\ ~Gone(c, s)
          /\ {"SEND_RESET_STREAM", "SHUT_RD", "SHUT_WR"} \subseteq x.flags /\ ClosesOnReset(c, s)
      BY <1>1, <1>2, <1>5, <2>3, <2>4 DEF Gone, ClosesOnReset
    <3>2. EndRead(c, s) /\ EndRead(d, s) /\ Finished(d, s) /\ ~Finished(c, s)
      BY <3>1 DEF EndRead, Finished
    <3>3. CreditFrames(c, s) = {}
      BY <3>1 DEF CreditFrames, NeedsCredit
    <3>4. SendsData(c, d, out, s)
      BY <2>1, <3>1, <3>2 DEF SendsData, StreamWrites
    <3>5. SendsCredit(c, d, out, s)
      BY <2>1, <3>1, <3>3 DEF SendsCredit, StreamWrites
    <3>6. ReadsData(c, d, {}, s) /\ ReadsCredit(c, d, {}, s)
      BY <3>1, <3>2 DEF ReadsData, ReadsCredit
    <3>7. TidyStrm(d, s)
      <4>1. y = NewStrm(d.role, s)
        BY <1>2, <1>3, <2>4
      <4> QED
        BY <4>1, NewStrmTidy DEF TidyStrm, CanRead, CanWrite, LocalStream
    <3> QED
      BY <3>4, <3>5, <3>6, <3>7
  <2>5. CASE s \notin Leaving
    <3>1. /\ s \in d.live <=> s \in c.live
          /\ s \in c.live => ~Gone(c, s) /\ ~Gone(d, s) /\ Used(c, s)
      BY <1>1, <1>2, <2>5 DEF Gone
    <3>2. /\ \A F \in {"SHUT_RD", "SHUT_WR"} : F \in y.flags <=> F \in x.flags
          /\ "SEND_RESET_STREAM" \in y.flags => "SEND_RESET_STREAM" \in x.flags
          /\ s \in c.strmq /\ ResetFrames(c, s) \subseteq out /\ Reached(c, s, out)
             => "SEND_RESET_STREAM" \notin y.flags
          /\ y.txOff = x.txOff /\ y.txMax = x.txMax /\ y.rxLast = x.rxLast
          /\ y.rxMax = IF s \in c.strmq /\ CreditFrames(c, s) \cap out # {}
                         THEN x.rxUnsent ELSE x.rxMax
      <4>1. CASE s \in c.strmq
        <5>1. y = AfterTurn(c, s, out)
          BY <1>3, <2>5, <4>1
        <5> QED
          BY <1>1, <4>1, <5>1, TurnView
      <4>2. CASE s \notin c.strmq
        BY <1>3, <2>5, <4>2
      <4> QED
        BY <4>1, <4>2
    <3>3. Gone(d, s) <=> Gone(c, s)
      BY <1>2, <3>1 DEF Gone, Used, LocalStream
    <3>4. (EndRead(d, s) <=> EndRead(c, s)) /\ (Finished(c, s) => Finished(d, s))
      BY <1>2, <3>2, <3>3 DEF EndRead, Finished
    <3>5. SendsData(c, d, out, s)
      <4>1. ASSUME NEW f \in out \cap DataOf(s)
            PROVE  /\ out \cap DataOf(s) = {f}
                   /\ CanWrite(c, s) /\ Used(c, s) /\ ~Finished(c, s)
                   /\ At(f) = x.txOff /\ f.t # "STREAM"
                   /\ Final(f) => Finished(d, s)
        <5>1. /\ out \cap DataOf(s) = {f}
              /\ f.t # "STREAM" /\ At(f) = x.txOff /\ CanWrite(c, s) /\ s \in c.strmq
              /\ f.t = "RESET_STREAM" => /\ "SEND_RESET_STREAM" \in x.flags
                                         /\ ResetFrames(c, s) \subseteq out /\ Reached(c, s, out)
              /\ f.t = "STREAM_DATA_BLOCKED" => "SHUT_WR" \notin x.flags
              /\ f.t \in {"STREAM", "RESET_STREAM", "STREAM_DATA_BLOCKED"}
          BY <2>1, <4>1 DEF StreamWrites, DataOf
        <5>2. s \in c.live /\ Used(c, s) /\ ~Finished(c, s)
          BY <1>1, <5>1 DEF Finished, Gone
        <5>3. f.t = "RESET_STREAM" => "SHUT_WR" \in y.flags /\ "SEND_RESET_STREAM" \notin y.flags
          BY <2>1, <3>2, <5>1 DEF TidyStrm
        <5>4. Final(f) => Finished(d, s)
          BY <5>1, <5>3 DEF Final, Finished
        <5> QED
          BY <5>1, <5>2, <5>4
      <4> QED
        BY <2>2, <3>2, <3>4, <4>1 DEF SendsData
    <3>6. SendsCredit(c, d, out, s)
      <4>1. \A f \in out : f.t \in {"MAX_STREAM_DATA", "STOP_SENDING"} /\ f.id = s
                           => CanRead(c, s) /\ Used(c, s)
        BY <1>1, <2>1 DEF StreamWrites
      <4>2. Gone(d, s) => out \cap CreditOf(s) = {}
        BY <1>1, <2>1, <3>1, <3>3 DEF StreamWrites, Gone
      <4>3. Raises(out, CreditOf(s), x.rxMax, y.rxMax)
        <5>1. CASE CreditFrames(c, s) \cap out = {}
          BY <2>1, <3>2, <5>1 DEF StreamWrites, Raises
        <5>2. CASE CreditFrames(c, s) \cap out # {}
          BY <2>1, <3>2, <5>2 DEF StreamWrites, Raises
        <5> QED
          BY <5>1, <5>2
      <4> QED
        BY <4>1, <4>2, <4>3 DEF SendsCredit
    <3>7. ReadsData(c, d, {}, s) /\ ReadsCredit(c, d, {}, s)
      <4>1. x.rxMax <= y.rxMax
        BY <2>1, <2>2, <3>2 DEF StreamWrites
      <4> QED
        BY <2>2, <3>2, <3>4, <4>1 DEF ReadsData, ReadsCredit
    <3>8. TidyStrm(d, s)
      <4>1. s \notin d.live => y = NewStrm(d.role, s)
        BY <1>1, <1>2, <1>3, <2>1, <2>5, <3>1 DEF TidyStrm
      <4> QED
        BY <2>1, <2>3, <3>2, <4>1 DEF TidyStrm
    <3> QED
      BY <3>5, <3>6, <3>7, <3>8
  <2> QED
    BY <2>4, <2>5
<1>10. SendsFlow(c, d, out)
  <2>1. /\ c.txOff \in Nat /\ c.txMax \in Nat /\ c.txOff <= c.txMax /\ BytesOf(out, StreamIds) = 0
    BY <1>1, <1>8, Numbers
  <2>2. Raises(out, MaxDataOf, c.rxMax, d.rxMax)
    <3>1. \A f \in out \cap MaxDataOf : /\ f = MaxDataFr(c.rxUnsent) /\ f \in MaxDataFrames(c)
                                        /\ c.rxMax < c.rxUnsent
      BY <1>1, CtrlFrameView DEF Tidy, MaxDataOf
    <3>2. \A f \in MaxDataFrames(c) \cap out : f \in MaxDataOf
      BY <1>1 DEF MaxDataFrames, MaxDataFr, MaxDataOf
    <3>3. CASE MaxDataFrames(c) \cap out = {}
      BY <1>2, <3>1, <3>3 DEF Raises
    <3>4. CASE MaxDataFrames(c) \cap out # {}
      <4>1. PICK f \in out : f \in MaxDataFrames(c) /\ f \in MaxDataOf
        BY <3>2, <3>4
      <4>2. f.max = c.rxUnsent
        BY <3>1, <4>1 DEF MaxDataFr
      <4> QED
        BY <1>2, <3>1, <3>4, <4>1, <4>2 DEF Raises
    <3> QED
      BY <3>3, <3>4
  <2>3. ASSUME NEW i \in Direction
        PROVE  Raises(out, MaxStreamsOf(i), c.rxStreams[i], d.rxStreams[i])
    <3> DEFINE f == MaxStreamsFr(i, c.rxUnsentStreams[i])
    <3>1. \A g \in out \cap MaxStreamsOf(i) : g = f /\ c.rxStreams[i] < c.rxUnsentStreams[i]
      <4> SUFFICES ASSUME NEW g \in out \cap MaxStreamsOf(i)
                   PROVE  g = f /\ c.rxStreams[i] < c.rxUnsentStreams[i]
        OBVIOUS
      <4>1. g \in MaxStreamsFrames(c) /\ g.dir = i
        BY <1>1, CtrlFrameView DEF Tidy, MaxStreamsOf
      <4>2. c.rxStreams[i] \in Int /\ c.rxUnsentStreams[i] \in Int
        BY <1>1, Fields
      <4> QED
        BY <4>1, <4>2 DEF MaxStreamsFrames, MaxStreamsFr
    <3>2. f \in out => f \in MaxStreamsOf(i) /\ f.max = c.rxUnsentStreams[i]
      BY <1>1 DEF MaxStreamsOf, MaxStreamsFr
    <3> HIDE DEF f
    <3>3. d.rxStreams[i] = IF f \in out THEN c.rxUnsentStreams[i] ELSE c.rxStreams[i]
      BY <1>2 DEF f
    <3>4. CASE f \in out
      BY <3>1, <3>2, <3>3, <3>4 DEF Raises
    <3>5. CASE f \notin out
      BY <3>1, <3>3, <3>5 DEF Raises
    <3> QED
      BY <3>4, <3>5
  <2>4. \A f \in out : f.t = "DATA_BLOCKED" => f.max <= c.txMax
    BY <1>1, <2>1, CtrlFrameView DEF Tidy
  <2> QED
    BY <1>2, <1>7, <2>1, <2>2, <2>3, <2>4 DEF SendsFlow
<1>11. ReadsFlow(c, d, {})
  <2>1. /\ c.rxMax \in Nat /\ c.rxUnsent \in Nat /\ c.rxMax <= c.rxUnsent /\ c.rxOff \in Nat
        /\ BytesOf({}, StreamIds) = 0
    BY <1>1, Fields, Numbers, BytesOfIs
  <2> QED
    BY <1>2, <2>1 DEF ReadsFlow
<1>12. Tied(d, p, u, Batch(v, out))
  BY <1>1, <1>2, <1>4, <1>6, <1>9, <1>10, <1>11, StepTied DEF Sends, Reads, Tidy
<1> QED
  BY <1>12 DEF d

\* dwnx_conn_write_max_streams.
LEMMA WriteMaxStreamsTied ==
  ASSUME NEW c, NEW p, NEW u, NEW v, Tied(c, p, u, v), Sound(c),
         NEW out \in SUBSET MaxStreamsFrames(c)
  PROVE  Tied(WriteMaxStreams(c, out), p, u, Batch(v, out))
<1> DEFINE d == WriteMaxStreams(c, out)
<1>1. Good(c) /\ Tidy(c) /\ out \in SUBSET Frame
  BY FramesType DEF Tied
<1>2. /\ d.role = c.role /\ d.idtr = c.idtr /\ d.next = c.next /\ d.live = c.live
      /\ d.rd = c.rd /\ d.strm = c.strm
      /\ d.txOff = c.txOff /\ d.txMax = c.txMax /\ d.rxOff = c.rxOff /\ d.rxMax = c.rxMax
      /\ d.txStreams = c.txStreams
      /\ \A i \in Direction : d.rxStreams[i] = IF MaxStreamsFr(i, c.rxUnsentStreams[i]) \in out
                                                 THEN c.rxUnsentStreams[i] ELSE c.rxStreams[i]
      /\ TidySelf(d)
  BY <1>1 DEF WriteMaxStreams, Tidy, TidySelf, Good, ConnType
<1>3. Good(d) /\ Kept(c, d)
  BY <1>1, WriteMaxStreamsGood, WriteMaxStreamsSound
<1> HIDE DEF d
<1>4. \A f \in out : f.t = "MAX_STREAMS"
  BY DEF MaxStreamsFrames, MaxStreamsFr
<1>5. ASSUME NEW s \in StreamIds
      PROVE  /\ SendsData(c, d, out, s) /\ SendsCredit(c, d, out, s)
             /\ ReadsData(c, d, {}, s) /\ ReadsCredit(c, d, {}, s)
             /\ TidyStrm(d, s)
  <2>1. Quiet(c, d, s)
    BY <1>2 DEF Quiet, Same, Gone, Used, LocalStream
  <2>2. Mute(out, s) /\ Mute({}, s)
    BY <1>4 DEF Mute
  <2>3. TidyStrm(d, s)
    BY <1>1, <1>2 DEF Tidy, TidyStrm, CanRead, CanWrite, LocalStream
  <2> QED
    BY <1>1, <1>3, <2>1, <2>2, <2>3, QuietStream
<1>6. BytesOf(out, StreamIds) = 0 /\ BytesOf({}, StreamIds) = 0
  BY <1>4, BytesOfIs
<1>7. ASSUME NEW i \in Direction
      PROVE  Raises(out, MaxStreamsOf(i), c.rxStreams[i], d.rxStreams[i])
  <2> DEFINE f == MaxStreamsFr(i, c.rxUnsentStreams[i])
  <2>1. \A g \in out \cap MaxStreamsOf(i) : g = f /\ c.rxStreams[i] < c.rxUnsentStreams[i]
    BY DEF MaxStreamsOf, MaxStreamsFrames, MaxStreamsFr
  <2>2. f \in out => f \in MaxStreamsOf(i) /\ f.max = c.rxUnsentStreams[i]
    BY <1>1 DEF MaxStreamsOf, MaxStreamsFr
  <2> HIDE DEF f
  <2>3. d.rxStreams[i] = IF f \in out THEN c.rxUnsentStreams[i] ELSE c.rxStreams[i]
    BY <1>2 DEF f
  <2>4. CASE f \in out
    BY <2>1, <2>2, <2>3, <2>4 DEF Raises
  <2>5. CASE f \notin out
    BY <2>1, <2>3, <2>5 DEF Raises
  <2> QED
    BY <2>4, <2>5
<1>8. SendsFlow(c, d, out) /\ ReadsFlow(c, d, {})
  <2>1. c.txOff \in Nat /\ c.rxOff \in Nat /\ c.rxMax \in Nat
    BY <1>1, Numbers
  <2>2. Raises(out, MaxDataOf, c.rxMax, d.rxMax)
    BY <1>2, <1>4 DEF Raises, MaxDataOf
  <2> QED
    BY <1>2, <1>4, <1>6, <1>7, <2>1, <2>2 DEF SendsFlow, ReadsFlow
<1>9. Tied(d, p, u, Batch(v, out))
  BY <1>1, <1>2, <1>3, <1>5, <1>8, StepTied DEF Sends, Reads, Tidy
<1> QED
  BY <1>9 DEF d

\* The STREAM frame of dwnx_conn_writev_stream, with the end of the stream if
\* it is the last: it continues where the stream is and keeps to its window.
LEMMA StreamFrameTied ==
  ASSUME NEW c, NEW p, NEW u, NEW v, Tied(c, p, u, v), Sound(c),
         NEW s \in StreamIds, s \in c.live, "SHUT_WR" \notin c.strm[s].flags,
         NEW w \in Nat, w <= FcCredits(c, s), NEW last \in BOOLEAN,
         NEW G \in SUBSET Flag, G = {"ANY_SENT"} \cup IF last THEN {"SHUT_WR"} ELSE {},
         NEW d, Good(d), Touches(c, d, s), TidySelf(d), d.rd = c.rd,
         d.txOff = c.txOff + w, d.txMax = c.txMax, d.rxOff = c.rxOff, d.rxMax = c.rxMax,
         d.strm[s] = [c.strm[s] EXCEPT !.txOff = @ + w, !.flags = @ \cup G]
  PROVE  Tied(d, p, u, Batch(v, {StreamFr(s, c.strm[s].txOff, w, last)}))
<1> DEFINE x == c.strm[s]
           y == d.strm[s]
           f == StreamFr(s, x.txOff, w, last)
<1>1. /\ Good(c) /\ Tidy(c) /\ TidyStrm(c, s) /\ Used(c, s)
  BY DEF Tied, Tidy, Sound, SoundBut, WithinStreamLimits
<1>2. /\ d.role = c.role /\ d.live = c.live /\ d.idtr = c.idtr /\ d.next = c.next
      /\ d.txStreams = c.txStreams /\ d.rxStreams = c.rxStreams
      /\ \A t \in StreamIds \ {s} : d.strm[t] = c.strm[t]
  BY DEF Touches, SameLimits
<1>3. Kept(c, d)
  BY KeptIfSame DEF Touches
<1>4. x \in StrmType /\ x.txOff \in Nat /\ x.txMax \in Nat /\ x.txMax <= MaxVarint
      /\ MaxVarint \in Nat /\ c.txOff \in Nat /\ c.rxOff \in Nat /\ c.rxMax \in Nat
      /\ x.rxLast \in Nat /\ x.rxMax \in Nat /\ x.txOff <= x.txMax /\ c.txMax \in Nat
  BY <1>1, Numbers, Fields, LimitsAssumption
<1>5. /\ y.flags = x.flags \cup G /\ y.txOff = x.txOff + w /\ y.txMax = x.txMax
      /\ y.rxLast = x.rxLast /\ y.rxMax = x.rxMax
  BY <1>4 DEF StrmType
<1>6. x.txOff + w <= x.txMax
  BY <1>4 DEF FcCredits, Lesser
<1>7. /\ f.t = "STREAM" /\ f.id = s /\ f.off = x.txOff /\ f.len = w /\ f.fin = last
      /\ f \in Frame /\ f \in DataOf(s) /\ At(f) = x.txOff /\ (Final(f) <=> last)
  <2>1. x.txOff \in 0..MaxVarint /\ w \in 0..MaxVarint
    BY <1>4, <1>6
  <2>2. f.t = "STREAM" /\ f.id = s /\ f.off = x.txOff /\ f.len = w /\ f.fin = last
    BY DEF StreamFr
  <2>3. f \in Frame
    BY <2>1 DEF StreamFr, Frame
  <2> QED
    BY <2>2, <2>3 DEF DataOf, At, Final
<1> HIDE DEF f
<1>8. /\ BytesOf({f}, {s}) = w /\ BytesOf({f}, StreamIds) = w
      /\ BytesOf({}, {s}) = 0 /\ BytesOf({}, StreamIds) = 0
  BY <1>7, BytesOfIs
<1>9. ASSUME NEW t \in StreamIds \ {s}
      PROVE  /\ SendsData(c, d, {f}, t) /\ SendsCredit(c, d, {f}, t)
             /\ ReadsData(c, d, {}, t) /\ ReadsCredit(c, d, {}, t) /\ TidyStrm(d, t)
  <2>1. Quiet(c, d, t)
    BY <1>2 DEF Quiet, Same, Gone, Used, LocalStream
  <2>2. Mute({f}, t) /\ Mute({}, t)
    BY <1>7 DEF Mute
  <2>3. TidyStrm(d, t)
    BY <1>1, <1>2 DEF Tidy, TidyStrm, CanRead, CanWrite, LocalStream
  <2> QED
    BY <1>1, <1>3, <2>1, <2>2, <2>3, QuietStream
<1>10. /\ ~Gone(c, s) /\ ~Gone(d, s) /\ ~Finished(c, s)
       /\ EndRead(d, s) <=> EndRead(c, s)
       /\ last => Finished(d, s)
       /\ CanWrite(c, s)
  <2>1. ~Gone(c, s) /\ ~Gone(d, s) /\ ~Finished(c, s)
    BY <1>2 DEF Gone, Finished
  <2>2. "SHUT_RD" \in y.flags <=> "SHUT_RD" \in x.flags
    BY <1>5
  <2>3. "SEND_RESET_STREAM" \notin y.flags /\ (last => "SHUT_WR" \in y.flags)
    BY <1>1, <1>5 DEF TidyStrm
  <2> QED
    BY <1>1, <2>1, <2>2, <2>3 DEF EndRead, Finished, TidyStrm
<1>11. SendsData(c, d, {f}, s)
  BY <1>1, <1>5, <1>6, <1>7, <1>8, <1>10 DEF SendsData
<1>12. SendsCredit(c, d, {f}, s)
  BY <1>5, <1>7, <1>10 DEF SendsCredit, Raises, CreditOf
<1>13. ReadsData(c, d, {}, s) /\ ReadsCredit(c, d, {}, s)
  BY <1>4, <1>5, <1>8, <1>10 DEF ReadsData, ReadsCredit
<1>14. TidyStrm(d, s)
  <2>1. CanWrite(d, s) /\ (CanRead(d, s) <=> CanRead(c, s))
    BY <1>2, <1>10 DEF CanRead, CanWrite, LocalStream
  <2> QED
    BY <1>1, <1>2, <1>5, <2>1 DEF TidyStrm
<1>15. SendsFlow(c, d, {f}) /\ ReadsFlow(c, d, {})
  BY <1>2, <1>4, <1>7, <1>8 DEF SendsFlow, ReadsFlow, Raises, MaxDataOf, MaxStreamsOf
<1>16. \A t \in StreamIds : SendsData(c, d, {f}, t) /\ SendsCredit(c, d, {f}, t)
         /\ ReadsData(c, d, {}, t) /\ ReadsCredit(c, d, {}, t) /\ TidyStrm(d, t)
  BY <1>9, <1>11, <1>12, <1>13, <1>14
<1>17. Tied(d, p, u, Batch(v, {f}))
  BY <1>2, <1>3, <1>7, <1>15, <1>16, StepTied DEF Sends, Reads, Tidy
<1> QED
  BY <1>17 DEF f

\* Every operation on streams leaves the record under construction alone.
LEMMA FramesUntouched ==
  ASSUME NEW c, Good(c), NEW s \in StreamIds
  PROVE  /\ \A F \in SUBSET Flag : SetFlags(c, s, F).qre = c.qre
         /\ PushIfNot(c, s).qre = c.qre
         /\ CloseStreamIfShutRdWr(c, s).qre = c.qre
BY DEF SetFlags, PushIfNot, CloseStreamIfShutRdWr, CloseStream, Good, ConnType

\* dwnx_conn_writev_stream: the data, and what happens to the stream when its
\* end was written.
LEMMA WriteDataTied ==
  ASSUME NEW c, NEW p, NEW u, NEW v, Tied(c, p, u, v), Sound(c),
         NEW s \in StreamIds, s \in c.live, "SHUT_WR" \notin c.strm[s].flags,
         NEW len \in Nat, NEW w \in Nat, w <= FcCredits(c, s), NEW fin \in BOOLEAN
  PROVE  LET d == WriteData(c, s, len, w, fin)
             F == {StreamFr(s, c.strm[s].txOff, w, fin /\ w = len)}
         IN
         /\ Tied(d, p, u, Batch(v, F)) /\ d.qre.frames = Batch(c.qre.frames, F)
         /\ w # len => s \in d.live /\ "SHUT_WR" \notin d.strm[s].flags
<1> DEFINE last == fin /\ w = len
           x == c.strm[s]
           f == StreamFr(s, x.txOff, w, last)
           z == [x EXCEPT !.txOff = x.txOff + w, !.flags = x.flags \cup {"ANY_SENT"}]
           d == [c EXCEPT !.txOff = @ + w, !.strm[s] = Sent(@, w),
                          !.qre.frames = Append(@, {f})]
           G == {"ANY_SENT"} \cup IF last THEN {"SHUT_WR"} ELSE {}
           e == IF last THEN SetFlags(d, s, {"SHUT_WR"}) ELSE d
<1>1. /\ Good(c) /\ TidySelf(c) /\ Used(c, s)
  BY DEF Tied, Tidy, Sound, SoundBut, WithinStreamLimits
<1>2. /\ c.strm \in [StreamIds -> StrmType] /\ x \in StrmType /\ last \in BOOLEAN
      /\ c.qre \in [started : BOOLEAN, frames : Seq(SUBSET Frame)]
  BY <1>1 DEF Good, ConnType
<1>3. Sent(x, w) = z
  BY DEF Sent
<1>4. Good(d)
  BY <1>1, <1>2, StreamFrameGood
<1>5. /\ SameLimits(c, d) /\ d.live = c.live /\ d.strmq = c.strmq /\ d.rd = c.rd
      /\ d.strm = [c.strm EXCEPT ![s] = z]
      /\ d.txOff = c.txOff + w /\ d.txMax = c.txMax /\ d.rxOff = c.rxOff /\ d.rxMax = c.rxMax
      /\ TidySelf(d) /\ d.qre.frames = Append(c.qre.frames, {f})
  BY <1>1, <1>2, <1>3 DEF SameLimits, TidySelf, Good, ConnType
<1> HIDE DEF d, z, f, last
<1>6. z.txOff = x.txOff + w /\ z.flags = x.flags \cup {"ANY_SENT"}
  BY <1>2 DEF z, StrmType
<1>7. /\ Good(e) /\ Touches(c, e, s) /\ e.rd = c.rd /\ TidySelf(e)
      /\ e.txOff = c.txOff + w /\ e.txMax = c.txMax /\ e.rxOff = c.rxOff /\ e.rxMax = c.rxMax
      /\ e.strm[s] = [x EXCEPT !.txOff = @ + w, !.flags = @ \cup G]
      /\ e.live = c.live /\ e.qre.frames = Append(c.qre.frames, {f})
  <2>1. d.strm[s] = z /\ \A t \in StreamIds \ {s} : d.strm[t] = c.strm[t]
    BY <1>2, <1>5
  <2>2. CASE ~last
    <3>1. e = d /\ G = {"ANY_SENT"}
      BY <2>2
    <3>2. z = [x EXCEPT !.txOff = @ + w, !.flags = @ \cup {"ANY_SENT"}]
      BY DEF z
    <3>3. Touches(c, d, s)
      BY <1>5, <2>1 DEF Touches
    <3> QED
      BY <1>4, <1>5, <2>1, <3>1, <3>2, <3>3
  <2>3. CASE last
    <3>1. e = SetFlags(d, s, {"SHUT_WR"}) /\ G = {"ANY_SENT", "SHUT_WR"} /\ {"SHUT_WR"} \in SUBSET Flag
      BY <2>3 DEF Flag
    <3> DEFINE W == {"SHUT_WR"}
    <3>6. Good(d) /\ TidySelf(d) /\ W \in SUBSET Flag
      BY <1>4, <1>5, <3>1
    <3>7. e = SetFlags(d, s, W)
      BY <3>1
    <3> HIDE DEF e, W
    <3>8. /\ Good(e) /\ Touches(d, e, s) /\ SameFlow(d, e) /\ TidySelf(e) /\ e.rd = d.rd
          /\ e.strm[s] = [d.strm[s] EXCEPT !.flags = @ \cup W]
      BY <3>6, <3>7, MarkView
    <3>2. /\ Good(e) /\ Touches(d, e, s) /\ SameFlow(d, e) /\ TidySelf(e) /\ e.rd = d.rd
          /\ e.strm[s] = [z EXCEPT !.flags = @ \cup {"SHUT_WR"}]
      BY <2>1, <3>8 DEF W
    <3>3. [z EXCEPT !.flags = @ \cup {"SHUT_WR"}] = [x EXCEPT !.txOff = @ + w, !.flags = @ \cup G]
      BY <1>2, <1>6, <3>1 DEF z, StrmType
    <3>4. Touches(c, e, s) /\ e.live = c.live
      BY <1>5, <2>1, <3>2 DEF Touches, SameLimits
    <3>5. e.qre = d.qre
      BY <1>4, <3>1, FramesUntouched
    <3> HIDE DEF G
    <3> QED
      BY <1>5, <3>2, <3>3, <3>4, <3>5 DEF SameFlow
  <2> QED
    BY <2>2, <2>3
<1>8. G \in SUBSET Flag
  BY DEF Flag
<1>9. Tied(e, p, u, Batch(v, {f}))
  <2> HIDE DEF e
  <2>1. G = {"ANY_SENT"} \cup IF last THEN {"SHUT_WR"} ELSE {}
    OBVIOUS
  <2> HIDE DEF G
  <2> QED
    BY <1>2, <1>7, <1>8, <2>1, StreamFrameTied DEF f
<1>10. /\ s \in e.live /\ Used(e, s)
  <2> HIDE DEF e
  <2> QED
    BY <1>1, <1>7 DEF Touches, SameLimits, Used, LocalStream
<1>11. WriteData(c, s, len, w, fin) = IF last THEN CloseStreamIfShutRdWr(e, s) ELSE e
  BY DEF WriteData, d, f, last
<1>12. Batch(c.qre.frames, {f}) = Append(c.qre.frames, {f})
  BY DEF Batch
<1>13. Tied(CloseStreamIfShutRdWr(e, s), p, u, Batch(v, {f})) /\ CloseStreamIfShutRdWr(e, s).qre = e.qre
  <2> HIDE DEF e
  <2> QED
    BY <1>7, <1>9, <1>10, CloseTied, FramesUntouched
<1>14. w # len => ~last /\ "SHUT_WR" \notin e.strm[s].flags
  <2>1. w # len => ~last
    BY DEF last
  <2>2. ~last => e.strm[s].flags = x.flags \cup {"ANY_SENT"}
    BY <1>2, <1>5, <1>6
  <2> QED
    BY <2>1, <2>2
<1> HIDE DEF e
<1> QED
  BY <1>7, <1>9, <1>10, <1>11, <1>12, <1>13, <1>14 DEF f, last

\* Reports that the stream, or the connection, is where it is.
LEMMA ReportsTied ==
  ASSUME NEW c, NEW p, NEW u, NEW v, Tied(c, p, u, v), Sound(c),
         NEW s \in StreamIds, s \in c.live, "SHUT_WR" \notin c.strm[s].flags,
         NEW out \in SUBSET Frame,
         \A f \in out : f \in {DataBlockedFr(s, c.txOff), StreamDataBlockedFr(s, c.strm[s].txOff)},
         NEW d, Good(d), Touches(c, d, s), SameFlow(c, d), TidySelf(d), d.rd = c.rd,
         d.strm[s].flags = c.strm[s].flags, d.strm[s].txOff = c.strm[s].txOff,
         d.strm[s].txMax = c.strm[s].txMax, d.strm[s].rxLast = c.strm[s].rxLast,
         d.strm[s].rxMax = c.strm[s].rxMax
  PROVE  Tied(d, p, u, Batch(v, out))
<1> DEFINE x == c.strm[s]
           y == d.strm[s]
<1>1. /\ Good(c) /\ Tidy(c) /\ TidySelf(c) /\ TidyStrm(c, s) /\ Used(c, s)
  BY DEF Tied, Tidy, Sound, SoundBut, WithinStreamLimits
<1>3. Good(d)
  OBVIOUS
<1>4. /\ d.role = c.role /\ d.live = c.live /\ d.idtr = c.idtr /\ d.next = c.next
      /\ d.rd = c.rd /\ SameFlow(c, d) /\ TidySelf(d) /\ SameLimits(c, d)
  BY DEF Touches, SameLimits
<1>5. /\ y.flags = x.flags /\ y.txOff = x.txOff /\ y.txMax = x.txMax
      /\ y.rxLast = x.rxLast /\ y.rxMax = x.rxMax
  OBVIOUS
<1>6. d.strm[s] = y /\ \A t \in StreamIds \ {s} : d.strm[t] = c.strm[t]
  BY DEF Touches
<1> HIDE DEF y
<1>8. Kept(c, d)
  BY <1>4, KeptIfSame
<1>9. ASSUME NEW f \in out
      PROVE  /\ f.id = s /\ f.t \in {"DATA_BLOCKED", "STREAM_DATA_BLOCKED"}
             /\ f.t = "DATA_BLOCKED" => f.max = c.txOff
             /\ f.t = "STREAM_DATA_BLOCKED" => f = StreamDataBlockedFr(s, x.txOff) /\ f.max = x.txOff
  BY DEF DataBlockedFr, StreamDataBlockedFr
<1>10. BytesOf(out, {s}) = 0 /\ BytesOf(out, StreamIds) = 0
       /\ BytesOf({}, {s}) = 0 /\ BytesOf({}, StreamIds) = 0
  BY <1>9, BytesOfIs
<1>11. /\ x.txOff \in Nat /\ c.txOff \in Nat /\ c.txOff <= c.txMax /\ c.rxOff \in Nat
       /\ c.rxMax \in Nat /\ x.rxLast \in Nat /\ x.rxMax \in Nat
  BY <1>1, Numbers
<1>12. /\ ~Gone(c, s) /\ ~Gone(d, s) /\ ~Finished(c, s)
       /\ EndRead(d, s) <=> EndRead(c, s)
       /\ CanWrite(c, s)
  BY <1>1, <1>4, <1>5, <1>6 DEF Gone, Finished, EndRead, TidyStrm
<1>13. ASSUME NEW t \in StreamIds \ {s}
       PROVE  /\ SendsData(c, d, out, t) /\ SendsCredit(c, d, out, t)
              /\ ReadsData(c, d, {}, t) /\ ReadsCredit(c, d, {}, t) /\ TidyStrm(d, t)
  <2>1. Quiet(c, d, t)
    BY <1>4, <1>6 DEF Quiet, Same, Gone, Used, LocalStream
  <2>2. Mute(out, t) /\ Mute({}, t)
    BY <1>9 DEF Mute
  <2>3. TidyStrm(d, t)
    BY <1>1, <1>4, <1>6 DEF Tidy, TidyStrm, CanRead, CanWrite, LocalStream
  <2> QED
    BY <1>1, <1>3, <1>8, <2>1, <2>2, <2>3, QuietStream
<1>14. /\ SendsData(c, d, out, s) /\ SendsCredit(c, d, out, s)
       /\ ReadsData(c, d, {}, s) /\ ReadsCredit(c, d, {}, s) /\ TidyStrm(d, s)
  <2>1. ASSUME NEW f \in out \cap DataOf(s)
        PROVE  /\ out \cap DataOf(s) = {f} /\ At(f) = x.txOff /\ f.t # "STREAM" /\ ~Final(f)
    <3>1. f.t = "STREAM_DATA_BLOCKED"
      BY <1>9, <2>1 DEF DataOf
    <3>2. \A g \in out \cap DataOf(s) : g = StreamDataBlockedFr(s, x.txOff)
      BY <1>9 DEF DataOf
    <3> QED
      BY <1>9, <2>1, <3>1, <3>2 DEF At, Final
  <2>2. SendsData(c, d, out, s)
    BY <1>1, <1>5, <1>6, <1>10, <1>11, <1>12, <2>1 DEF SendsData
  <2>3. SendsCredit(c, d, out, s)
    BY <1>5, <1>6, <1>9, <1>12 DEF SendsCredit, Raises, CreditOf
  <2>4. ReadsData(c, d, {}, s) /\ ReadsCredit(c, d, {}, s)
    BY <1>5, <1>6, <1>10, <1>11, <1>12 DEF ReadsData, ReadsCredit
  <2>5. TidyStrm(d, s)
    BY <1>1, <1>4, <1>5, <1>6 DEF TidyStrm, CanRead, CanWrite, LocalStream
  <2> QED
    BY <2>2, <2>3, <2>4, <2>5
<1>15. SendsFlow(c, d, out) /\ ReadsFlow(c, d, {})
  BY <1>4, <1>9, <1>10, <1>11 DEF SameFlow, SendsFlow, ReadsFlow, Raises, MaxDataOf, MaxStreamsOf
<1>16. Tied(d, p, u, Batch(v, out))
  <2>1. \A t \in StreamIds : SendsData(c, d, out, t) /\ SendsCredit(c, d, out, t)
         /\ ReadsData(c, d, {}, t) /\ ReadsCredit(c, d, {}, t) /\ TidyStrm(d, t)
    BY <1>13, <1>14
  <2> QED
    BY <1>1, <1>3, <1>4, <1>8, <1>15, <2>1, StepTied DEF Sends, Reads, Tidy
<1> QED
  BY <1>16

\* The reports of a blocked stream, and its place in the queue if one of them
\* did not fit.
LEMMA ReportBlockedTied ==
  ASSUME NEW c, NEW p, NEW u, NEW v, Tied(c, p, u, v), Sound(c),
         NEW s \in StreamIds, s \in c.live, "SHUT_WR" \notin c.strm[s].flags,
         NEW out \in SUBSET BlockedReports(c, s)
  PROVE  LET d == ReportBlocked(c, s, out) IN
         Tied(d, p, u, Batch(v, out)) /\ d.qre.frames = Batch(c.qre.frames, out)
<1> DEFINE x == c.strm[s]
           b == IF StreamDataBlockedFrames(c, s) \cap out # {} THEN x.txOff ELSE x.txBlocked
           y == [x EXCEPT !.txBlocked = b]
           d == [c EXCEPT
                   !.txBlocked = IF DataBlockedFrames(c, s) \cap out # {} THEN c.txOff ELSE @,
                   !.strm[s].txBlocked = IF StreamDataBlockedFrames(c, s) \cap out # {}
                                           THEN c.strm[s].txOff ELSE @,
                   !.qre.frames = Batch(@, out)]
<1>1. /\ Good(c) /\ Tidy(c) /\ TidySelf(c) /\ TidyStrm(c, s) /\ Used(c, s) /\ out \in SUBSET Frame
  BY FramesType DEF Tied, Tidy, Sound, SoundBut, WithinStreamLimits
<1>2. /\ c.strm \in [StreamIds -> StrmType] /\ x \in StrmType
      /\ c.qre \in [started : BOOLEAN, frames : Seq(SUBSET Frame)]
  BY <1>1 DEF Good, ConnType
<1>3. Good(d)
  BY <1>1, ReportsGood
<1>4. /\ d.role = c.role /\ d.live = c.live /\ d.idtr = c.idtr /\ d.next = c.next
      /\ d.rd = c.rd /\ SameFlow(c, d) /\ TidySelf(d) /\ SameLimits(c, d)
      /\ d.strm = [c.strm EXCEPT ![s] = y] /\ d.strmq = c.strmq
      /\ d.qre.frames = Batch(c.qre.frames, out)
  BY <1>1, <1>2 DEF SameFlow, SameLimits, TidySelf, Good, ConnType
<1>5. /\ y.flags = x.flags /\ y.txOff = x.txOff /\ y.txMax = x.txMax
      /\ y.rxLast = x.rxLast /\ y.rxMax = x.rxMax
  <2> HIDE DEF b
  <2> QED
    BY <1>2 DEF StrmType
<1> HIDE DEF y
<1>6. d.strm[s] = y /\ \A t \in StreamIds \ {s} : d.strm[t] = c.strm[t]
  BY <1>2, <1>4
<1>7. ReportBlocked(c, s, out) = IF out = BlockedReports(c, s) THEN d
                                 ELSE PushIfNot(SetFlags(d, s, {"SEND_STREAM_DATA_BLOCKED"}), s)
  BY DEF ReportBlocked
<1> HIDE DEF d
<1>8. Kept(c, d)
  BY <1>4, KeptIfSame
<1>9. \A f \in out : f \in {DataBlockedFr(s, c.txOff), StreamDataBlockedFr(s, x.txOff)}
  BY DEF BlockedReports, DataBlockedFrames, StreamDataBlockedFrames
<1>10. Touches(c, d, s)
  BY <1>4, <1>6 DEF Touches
<1>16. Tied(d, p, u, Batch(v, out))
  BY <1>1, <1>3, <1>4, <1>5, <1>6, <1>9, <1>10, ReportsTied
<1> DEFINE F == {"SEND_STREAM_DATA_BLOCKED"}
           g == SetFlags(d, s, F)
           e == PushIfNot(g, s)
<1>17. /\ F \in SUBSET Flag /\ "SHUT_RD" \notin F /\ "SEND_RESET_STREAM" \notin F
  BY DEF Flag
<1> HIDE DEF F
<1>18. /\ Good(e) /\ Touches(d, e, s) /\ SameFlow(d, e) /\ TidySelf(e) /\ e.rd = d.rd
       /\ e.strm[s] = [d.strm[s] EXCEPT !.flags = @ \cup F] /\ e.qre = d.qre
  <2>1. Good(g) /\ g.qre = d.qre
    BY <1>3, <1>17, SetFlagsGood, FramesUntouched
  <2>2. e.qre = g.qre
    <3> HIDE DEF g
    <3> QED
      BY <2>1, FramesUntouched
  <2>3. Good(d) /\ TidySelf(d) /\ F \in SUBSET Flag
    BY <1>3, <1>4, <1>17
  <2>4. /\ Good(e) /\ Touches(d, e, s) /\ SameFlow(d, e) /\ TidySelf(e) /\ e.rd = d.rd
        /\ e.strm[s] = [d.strm[s] EXCEPT !.flags = @ \cup F]
    BY <2>3, MarkView
  <2> HIDE DEF e, g
  <2> QED
    BY <2>1, <2>2, <2>4
<1>19. Tied(e, p, u, Batch(v, out)) /\ e.qre.frames = Batch(c.qre.frames, out)
  <2> HIDE DEF e
  <2>1. s \in d.live
    BY <1>4
  <2>2. Tied(e, p, u, Batch(v, out))
    BY <1>16, <1>17, <1>18, <2>1, MarkTied
  <2> QED
    BY <1>4, <1>18, <2>2
<1> QED
  BY <1>4, <1>7, <1>16, <1>19 DEF F
=============================================================================
