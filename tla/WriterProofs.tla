---------------------------- MODULE WriterProofs ----------------------------
(***************************************************************************)
(* Records are filled to the last byte and not beyond, whatever waits and  *)
(* whatever is offered, in a buffer of any size: THEOREM RecordsAreFilled. *)
(* And 0 means that there is nothing to send: THEOREM ZeroIsTheEnd.        *)
(*                                                                         *)
(* That a record is not overrun needs that each encoder writes as many     *)
(* bytes as it announced before it was let in (Announces; the lemmas about *)
(* Totals and Joined are the induction behind it).  That 0 is the end      *)
(* needs two things more, which are in the inductive invariant WriterInv   *)
(* and in Fresh: a record that is left open between two calls is not       *)
(* empty (Between), so that an empty one was begun by this call; and in a  *)
(* whole buffer an empty record has room for whatever comes first, since   *)
(* no control frame is longer than 32 bytes (ControlFits), some data of a  *)
(* stream fits into as many (StreamRoom), and a datagram that is longer    *)
(* than a record was refused.  Base >= 4 is what makes a record longer     *)
(* than 32 bytes; in the code Base is 64.                                  *)
(***************************************************************************)
EXTENDS RecordWriter, FiniteSetTheorems, SequenceTheorems, WellFoundedInduction, TLAPS

\* A set of natural numbers that holds 0 and, with each number, the next.
LEMMA SetInduction ==
  ASSUME NEW X \in SUBSET Nat, 0 \in X, \A n \in X : n + 1 \in X
  PROVE  X = Nat
<1> DEFINE R == {ss \in Nat \X Nat : ss[1] < ss[2]}
           U == Nat \ X
<1>1. IsWellFoundedOn(R, Nat)
  BY NatLessThanWellFounded DEF OpToRel
<1>2. SUFFICES ASSUME U # {}
               PROVE  FALSE
  OBVIOUS
<1>3. PICK x \in U : \A y \in U : ~ (<<y, x>> \in R)
  <2> HIDE DEF U, R
  <2>1. U \subseteq Nat
    BY DEF U
  <2> QED
    BY <1>1, <1>2, <2>1, WFMin
<1>4. x - 1 \in U /\ x - 1 \in Nat /\ x \in Nat /\ x - 1 < x
  OBVIOUS
<1>5. <<x - 1, x>> \in R
  BY <1>4
<1> QED
  BY <1>3, <1>4, <1>5

-----------------------------------------------------------------------------
(* Sequences and lengths                                                   *)

\* s is a sequence, of whatever it holds.
Row(s) == s \in Seq({s[i] : i \in DOMAIN s})

\* A sequence of members of some set is a sequence.
LEMMA RowOf ==
  ASSUME NEW S, NEW s \in Seq(S)
  PROVE  Row(s) /\ Len(s) \in Nat /\ DOMAIN s = 1..Len(s)
BY DEF Row

\* Sequences that are put one after the other.
LEMMA RowConcat ==
  ASSUME NEW s, NEW t, Row(s), Row(t)
  PROVE  /\ Row(s \o t) /\ Len(s \o t) = Len(s) + Len(t) /\ Len(s) \in Nat /\ Len(t) \in Nat
         /\ s \o t = << >> <=> Len(s) + Len(t) = 0
<1> DEFINE S == {s[i] : i \in DOMAIN s} \cup {t[i] : i \in DOMAIN t}
<1>1. s \in Seq(S) /\ t \in Seq(S)
  BY DEF Row
<1> HIDE DEF S
<1>2. s \o t \in Seq(S) /\ Len(s \o t) = Len(s) + Len(t)
  BY <1>1, ConcatProperties
<1>3. Len(s) \in Nat /\ Len(t) \in Nat
  BY <1>1
<1>4. s \o t = << >> <=> Len(s \o t) = 0
  BY <1>2
<1> QED
  BY <1>2, <1>3, <1>4, RowOf

\* A sequence that is defined element by element.
LEMMA RowByElements ==
  ASSUME NEW n \in Nat, NEW s, s = [i \in 1..n |-> s[i]]
  PROVE  Row(s) /\ Len(s) = n /\ DOMAIN s = 1..n
<1> DEFINE S == {s[i] : i \in 1..n}
<1>1. \A i \in 1..n : s[i] \in S
  OBVIOUS
<1> HIDE DEF S
<1>2. s \in [1..n -> S]
  BY <1>1
<1>3. s \in Seq(S)
  BY <1>2
<1>4. DOMAIN s = 1..n
  BY <1>2
<1>5. Len(s) = n
  BY <1>3, <1>4
<1> QED
  BY <1>3, <1>4, <1>5, RowOf

\* The sums of the first values of a sequence exist.
LEMMA SumsExist ==
  ASSUME NEW n \in Nat, NEW v \in [1..n -> Nat]
  PROVE  \E g \in [0..n -> Nat] : g[0] = 0 /\ \A i \in 1..n : g[i] = g[i - 1] + v[i]
<1> DEFINE P(k) == \E g \in [0..k -> Nat] : g[0] = 0 /\ \A i \in 1..k : g[i] = g[i - 1] + v[i]
           X == {k \in Nat : k <= n => P(k)}
<1>1. 0 \in X
  <2> DEFINE g == [i \in 0..0 |-> 0]
  <2>1. g \in [0..0 -> Nat] /\ g[0] = 0 /\ \A i \in 1..0 : g[i] = g[i - 1] + v[i]
    BY 0 \in 0..0, \A i \in 1..0 : FALSE
  <2> HIDE DEF g
  <2>2. P(0)
    BY <2>1
  <2> QED
    BY <2>2
<1>2. ASSUME NEW k \in X
      PROVE  k + 1 \in X
  <2>1. k \in Nat /\ (k <= n => P(k))
    <3> HIDE DEF P
    <3> QED
      BY <1>2
  <2>2. SUFFICES ASSUME k + 1 <= n
                 PROVE  P(k + 1)
    <3> HIDE DEF P
    <3> QED
      BY <2>1
  <2>3. PICK g \in [0..k -> Nat] : g[0] = 0 /\ \A i \in 1..k : g[i] = g[i - 1] + v[i]
    BY <2>1, <2>2, k <= n
  <2> DEFINE h == [i \in 0..(k + 1) |-> IF i = k + 1 THEN g[k] + v[k + 1] ELSE g[i]]
  <2>4. h \in [0..(k + 1) -> Nat] /\ h[0] = 0
    <3>1. v[k + 1] \in Nat /\ g[k] \in Nat
      BY <2>1, <2>2
    <3>2. \A i \in 0..(k + 1) : i # k + 1 => g[i] \in Nat
      BY <2>1
    <3>3. \A i \in 0..(k + 1) : h[i] \in Nat
      BY <3>1, <3>2
    <3>4. h[0] = g[0] /\ h = [i \in 0..(k + 1) |-> h[i]]
      BY <2>1
    <3> HIDE DEF h
    <3> QED
      BY <2>3, <3>3, <3>4
  <2>5. ASSUME NEW i \in 1..(k + 1)
        PROVE  h[i] = h[i - 1] + v[i]
    <3>1. h[i - 1] = g[i - 1]
      BY <2>1
    <3>2. CASE i = k + 1
      BY <2>1, <3>1, <3>2
    <3>3. CASE i # k + 1
      BY <2>1, <2>3, <3>1, <3>3
    <3> QED
      BY <3>2, <3>3
  <2> HIDE DEF h
  <2> QED
    BY <2>4, <2>5
<1>3. X = Nat
  <2> HIDE DEF X
  <2>1. X \subseteq Nat
    BY DEF X
  <2> QED
    BY <1>1, <1>2, <2>1, SetInduction
<1>4. n \in X
  BY <1>3
<1> HIDE DEF P
<1>5. P(n)
  BY <1>4
<1> QED
  BY <1>5 DEF P

\* What Totals returns.
LEMMA TotalsIs ==
  ASSUME NEW n \in Nat, NEW v \in [1..n -> Nat]
  PROVE  /\ Totals(v) \in [0..n -> Nat] /\ Totals(v)[0] = 0
         /\ \A i \in 1..n : Totals(v)[i] = Totals(v)[i - 1] + v[i]
         /\ Total(v) = Totals(v)[n]
<1> DEFINE Sums(g) == g = [i \in 0..Len(v) |-> IF i = 0 THEN 0 ELSE g[i - 1] + v[i]]
<1>1. Len(v) = n
  BY RowByElements
<1>2. PICK g \in [0..n -> Nat] : g[0] = 0 /\ \A i \in 1..n : g[i] = g[i - 1] + v[i]
  BY SumsExist
<1>3. Sums(g)
  <2>1. \A i \in 0..n : g[i] = IF i = 0 THEN 0 ELSE g[i - 1] + v[i]
    BY <1>2
  <2> QED
    BY <1>1, <2>1
<1>4. Sums(Totals(v))
  <2>1. Totals(v) = CHOOSE h : Sums(h)
    BY DEF Totals
  <2> QED
    BY <1>3, <2>1
<1> DEFINE h == Totals(v)
<1>5. h = [i \in 0..n |-> IF i = 0 THEN 0 ELSE h[i - 1] + v[i]]
  BY <1>1, <1>4
<1> HIDE DEF h
<1>6. h[0] = 0 /\ \A i \in 1..n : h[i] = h[i - 1] + v[i]
  BY <1>5
<1>7. \A i \in 0..n : h[i] \in Nat
  <2> DEFINE X == {i \in Nat : i <= n => h[i] \in Nat}
  <2>1. 0 \in X
    BY <1>6
  <2>2. ASSUME NEW i \in X
        PROVE  i + 1 \in X
    <3>1. i + 1 <= n => h[i + 1] = h[i] + v[i + 1] /\ h[i] \in Nat /\ v[i + 1] \in Nat
      BY <1>6
    <3> QED
      BY <3>1
  <2>3. X = Nat
    <3> HIDE DEF X
    <3>1. X \subseteq Nat
      BY DEF X
    <3> QED
      BY <2>1, <2>2, <3>1, SetInduction
  <2>4. \A i \in 0..n : i \in X /\ i <= n
    <3> HIDE DEF X
    <3> QED
      BY <2>3
  <2> QED
    BY <2>4
<1>8. Total(v) = h[n]
  BY <1>1 DEF Total, h
<1> QED
  BY <1>5, <1>6, <1>7, <1>8 DEF h

\* s and then t.
Then(s, t) == s \o t

\* Sequences over S in a row.
LEMMA JoinedOver ==
  ASSUME NEW n \in Nat, NEW S, NEW ss \in [1..n -> Seq(S)]
  PROVE  /\ Joined(ss) \in Seq(S)
         /\ Len(Joined(ss)) = Total([i \in 1..n |-> Len(ss[i])])
<1> DEFINE v == [i \in 1..n |-> Len(ss[i])]
           P(k) == \E g \in [0..k -> Seq(S)] : g[0] = << >> /\ \A i \in 1..k : g[i] = Then(g[i - 1], ss[i])
           X == {k \in Nat : k <= n => P(k)}
           J(g) == g = [i \in 0..Len(ss) |-> IF i = 0 THEN << >> ELSE Then(g[i - 1], ss[i])]
<1>1. Len(ss) = n
  BY RowByElements
<1>2. \A i \in 1..n : ss[i] \in Seq(S)
  OBVIOUS
<1>3. v \in [1..n -> Nat]
  BY <1>2
<1>4. 0 \in X
  <2> DEFINE g == [i \in 0..0 |-> << >>]
  <2>1. g \in [0..0 -> Seq(S)] /\ g[0] = << >> /\ \A i \in 1..0 : g[i] = Then(g[i - 1], ss[i])
    BY 0 \in 0..0, \A i \in 1..0 : FALSE
  <2> HIDE DEF g
  <2>2. P(0)
    BY <2>1
  <2> QED
    BY <2>2
<1>5. ASSUME NEW k \in X
      PROVE  k + 1 \in X
  <2>1. k \in Nat /\ (k <= n => P(k))
    <3> HIDE DEF P
    <3> QED
      BY <1>5
  <2>2. SUFFICES ASSUME k + 1 <= n
                 PROVE  P(k + 1)
    <3> HIDE DEF P
    <3> QED
      BY <2>1
  <2>3. PICK g \in [0..k -> Seq(S)] : g[0] = << >> /\ \A i \in 1..k : g[i] = Then(g[i - 1], ss[i])
    BY <2>1, <2>2, k <= n
  <2> DEFINE h == [i \in 0..(k + 1) |-> IF i = k + 1 THEN Then(g[k], ss[k + 1]) ELSE g[i]]
  <2>4. h \in [0..(k + 1) -> Seq(S)] /\ h[0] = << >>
    <3>1. ss[k + 1] \in Seq(S) /\ g[k] \in Seq(S)
      BY <1>2, <2>1, <2>2
    <3>2. Then(g[k], ss[k + 1]) \in Seq(S)
      BY <3>1, ConcatProperties DEF Then
    <3>3. \A i \in 0..(k + 1) : i # k + 1 => g[i] \in Seq(S)
      BY <2>1
    <3>4. \A i \in 0..(k + 1) : h[i] \in Seq(S)
      BY <3>2, <3>3
    <3>5. h[0] = g[0] /\ h = [i \in 0..(k + 1) |-> h[i]]
      BY <2>1
    <3> HIDE DEF h
    <3> QED
      BY <2>3, <3>4, <3>5
  <2>5. ASSUME NEW i \in 1..(k + 1)
        PROVE  h[i] = Then(h[i - 1], ss[i])
    <3>1. h[i - 1] = g[i - 1]
      BY <2>1
    <3>2. CASE i = k + 1
      BY <2>1, <3>1, <3>2
    <3>3. CASE i # k + 1
      BY <2>1, <2>3, <3>1, <3>3
    <3> QED
      BY <3>2, <3>3
  <2> HIDE DEF h
  <2> QED
    BY <2>4, <2>5
<1>6. n \in X
  <2> HIDE DEF X
  <2>1. X \subseteq Nat
    BY DEF X
  <2> QED
    BY <1>4, <1>5, <2>1, SetInduction
<1>15. P(n)
  <2> HIDE DEF P
  <2> QED
    BY <1>6
<1>7. PICK g \in [0..n -> Seq(S)] : g[0] = << >> /\ \A i \in 1..n : g[i] = Then(g[i - 1], ss[i])
  BY <1>15
<1>8. J(g)
  <2>1. \A i \in 0..n : g[i] = IF i = 0 THEN << >> ELSE Then(g[i - 1], ss[i])
    BY <1>7
  <2> QED
    BY <1>1, <2>1
<1> DEFINE h == CHOOSE f : J(f)
<1>9. J(h) /\ Joined(ss) = h[Len(ss)]
  <2>1. J(h)
    BY <1>8
  <2> QED
    BY <2>1 DEF Joined, Then
<1>10. h = [i \in 0..n |-> IF i = 0 THEN << >> ELSE Then(h[i - 1], ss[i])] /\ Joined(ss) = h[n]
  BY <1>1, <1>9
<1> HIDE DEF h, J
<1>11. h[0] = << >> /\ \A i \in 1..n : h[i] = Then(h[i - 1], ss[i])
  BY <1>10
<1> HIDE DEF v, X, P
<1>16. /\ Totals(v)[0] = 0 /\ \A i \in 1..n : Totals(v)[i] = Totals(v)[i - 1] + v[i]
       /\ Total(v) = Totals(v)[n]
  BY <1>3, TotalsIs
<1> DEFINE Y == {i \in Nat : i <= n => h[i] \in Seq(S) /\ Len(h[i]) = Totals(v)[i]}
<1>12. Y = Nat
  <2>1. 0 \in Y
    <3>1. << >> \in Seq(S) /\ Len(<< >>) = 0
      OBVIOUS
    <3>2. h[0] \in Seq(S) /\ Len(h[0]) = Totals(v)[0]
      BY <1>11, <1>16, <3>1
    <3> QED
      BY <3>2
  <2>2. ASSUME NEW i \in Y
        PROVE  i + 1 \in Y
    <3>1. SUFFICES ASSUME i + 1 <= n
                   PROVE  h[i + 1] \in Seq(S) /\ Len(h[i + 1]) = Totals(v)[i + 1]
      OBVIOUS
    <3>2. i \in Nat /\ h[i] \in Seq(S) /\ Len(h[i]) = Totals(v)[i]
      BY <3>1
    <3>3. i + 1 \in 1..n /\ (i + 1) - 1 = i
      BY <3>1, <3>2
    <3>4. ss[i + 1] \in Seq(S) /\ h[i + 1] = Then(h[i], ss[i + 1]) /\ v[i + 1] = Len(ss[i + 1])
      BY <1>2, <1>11, <3>3 DEF v
    <3>5. Totals(v)[i + 1] = Totals(v)[i] + v[i + 1]
      BY <1>16, <3>3
    <3> QED
      <4>1. Then(h[i], ss[i + 1]) \in Seq(S)
            /\ Len(Then(h[i], ss[i + 1])) = Len(h[i]) + Len(ss[i + 1])
        BY <3>2, <3>4, ConcatProperties DEF Then
      <4> QED
        BY <3>2, <3>4, <3>5, <4>1
  <2> HIDE DEF Y
  <2>3. Y \subseteq Nat
    BY DEF Y
  <2> QED
    BY <2>1, <2>2, <2>3, SetInduction
<1>13. n \in Y
  BY <1>12
<1>14. h[n] \in Seq(S) /\ Len(h[n]) = Totals(v)[n]
  BY <1>13
<1> QED
  BY <1>10, <1>14, <1>16 DEF v

\* What Joined returns: as many elements as there are in all.
LEMMA JoinedIs ==
  ASSUME NEW n \in Nat, NEW ss, ss = [i \in 1..n |-> ss[i]], \A i \in 1..n : Row(ss[i])
  PROVE  Row(Joined(ss)) /\ Len(Joined(ss)) = Total([i \in 1..n |-> Len(ss[i])])
<1> DEFINE S == UNION {{ss[i][j] : j \in DOMAIN ss[i]} : i \in 1..n}
<1>1. \A i \in 1..n : ss[i] \in Seq(S)
  <2> TAKE i \in 1..n
  <2>1. ss[i] \in Seq({ss[i][j] : j \in DOMAIN ss[i]})
    BY DEF Row
  <2>2. {ss[i][j] : j \in DOMAIN ss[i]} \subseteq S
    OBVIOUS
  <2> HIDE DEF S
  <2> QED
    BY <2>1, <2>2
<1> HIDE DEF S
<1>2. ss \in [1..n -> Seq(S)]
  BY <1>1
<1> QED
  BY <1>2, JoinedOver, RowOf

\* A varint has the length that it was given.
LEMMA PutIs ==
  ASSUME NEW n
  PROVE  /\ PutLen(n) \in {1, 2, 4, 8} /\ Row(Put(n)) /\ Len(Put(n)) = PutLen(n)
<1>1. PutLen(n) \in {1, 2, 4, 8}
  BY DEF PutLen
<1> DEFINE mark == CASE PutLen(n) = 1 -> 0 [] PutLen(n) = 2 -> 1 [] PutLen(n) = 4 -> 2
                     [] PutLen(n) = 8 -> 3
           E(i) == ((n \div Byte^(PutLen(n) - i)) % Byte) + IF i = 1 THEN mark * Base ELSE 0
<1>2. Put(n) = [i \in 1..PutLen(n) |-> Put(n)[i]]
  <2>1. Put(n) = [i \in 1..PutLen(n) |-> E(i)]
    BY Zenon DEF Put, PutW
  <2> HIDE DEF E
  <2> QED
    BY <2>1
<1>3. PutLen(n) \in Nat
  BY <1>1
<1> QED
  BY <1>1, <1>2, <1>3, RowByElements

\* So have integers in a row.
LEMMA IntsAre ==
  ASSUME NEW ints \in Seq(Nat)
  PROVE  /\ Row(PutInts(ints)) /\ Len(PutInts(ints)) = IntsLen(ints) /\ IntsLen(ints) \in Nat
<1> DEFINE n == Len(ints)
           ss == [i \in 1..n |-> Put(ints[i])]
<1>1. n \in Nat /\ DOMAIN ints = 1..n
  OBVIOUS
<1>2. \A i \in 1..n : ss[i] = Put(ints[i]) /\ Row(ss[i]) /\ Len(ss[i]) = PutLen(ints[i])
  BY PutIs
<1>3. PutInts(ints) = Joined(ss)
  BY <1>1 DEF PutInts
<1>4. ss = [i \in 1..n |-> ss[i]]
  OBVIOUS
<1>5. [i \in 1..n |-> Len(ss[i])] = [i \in 1..n |-> PutLen(ints[i])]
  <2> HIDE DEF ss
  <2> QED
    BY <1>2
<1>6. IntsLen(ints) = Total([i \in 1..n |-> PutLen(ints[i])])
  BY <1>1 DEF IntsLen
<1> DEFINE v == [i \in 1..n |-> PutLen(ints[i])]
<1>7. v \in [1..n -> Nat]
  BY PutIs
<1> HIDE DEF n, ss, v
<1>8. Total(v) \in Nat
  BY <1>1, <1>7, TotalsIs
<1>9. Row(Joined(ss)) /\ Len(Joined(ss)) = Total([i \in 1..n |-> Len(ss[i])])
  BY <1>1, <1>2, <1>4, JoinedIs
<1> QED
  BY <1>3, <1>5, <1>6, <1>8, <1>9 DEF v

\* The lengths of up to three integers.
LEMMA FewInts ==
  /\ IntsLen(<< >>) = 0
  /\ \A a \in Nat : IntsLen(<<a>>) = PutLen(a)
  /\ \A a, b \in Nat : IntsLen(<<a, b>>) = PutLen(a) + PutLen(b)
  /\ \A ints \in Seq(Nat) : Len(ints) <= 3 => IntsLen(ints) <= 24
<1>1. ASSUME NEW ints \in Seq(Nat)
      PROVE  /\ Len(ints) = 0 => IntsLen(ints) = 0
             /\ Len(ints) = 1 => IntsLen(ints) = PutLen(ints[1])
             /\ Len(ints) = 2 => IntsLen(ints) = PutLen(ints[1]) + PutLen(ints[2])
             /\ Len(ints) = 3 => IntsLen(ints) = PutLen(ints[1]) + PutLen(ints[2]) + PutLen(ints[3])
  <2> DEFINE n == Len(ints)
             v == [i \in 1..n |-> PutLen(ints[i])]
  <2>1. n \in Nat /\ DOMAIN ints = 1..n
    OBVIOUS
  <2>2. v \in [1..n -> Nat] /\ \A i \in 1..n : v[i] = PutLen(ints[i])
    BY PutIs
  <2>3. IntsLen(ints) = Total(v)
    BY <2>1 DEF IntsLen
  <2> HIDE DEF n, v
  <2>4. /\ Totals(v)[0] = 0 /\ \A i \in 1..n : Totals(v)[i] = Totals(v)[i - 1] + v[i]
        /\ Total(v) = Totals(v)[n] /\ Totals(v) \in [0..n -> Nat]
    BY <2>1, <2>2, TotalsIs
  <2>5. n >= 1 => Totals(v)[1] = v[1]
    BY <2>1, <2>2, <2>4, 1 - 1 = 0
  <2>6. n >= 2 => Totals(v)[2] = v[1] + v[2]
    BY <2>1, <2>2, <2>4, <2>5, 2 - 1 = 1
  <2>7. n >= 3 => Totals(v)[3] = v[1] + v[2] + v[3]
    BY <2>1, <2>2, <2>4, <2>6, 3 - 1 = 2
  <2>8. n = 1 => Total(v) = PutLen(ints[1])
    BY <2>2, <2>4, <2>5
  <2>9. n = 2 => Total(v) = PutLen(ints[1]) + PutLen(ints[2])
    BY <2>2, <2>4, <2>6
  <2>10. n = 3 => Total(v) = PutLen(ints[1]) + PutLen(ints[2]) + PutLen(ints[3])
    BY <2>2, <2>4, <2>7
  <2>11. n = 0 => Total(v) = 0
    BY <2>4
  <2> QED
    BY <2>3, <2>8, <2>9, <2>10, <2>11 DEF n
<1>2. << >> \in Seq(Nat) /\ Len(<< >>) = 0
  OBVIOUS
<1>3. \A a \in Nat : <<a>> \in Seq(Nat) /\ Len(<<a>>) = 1 /\ <<a>>[1] = a
  OBVIOUS
<1>4. \A a, b \in Nat : <<a, b>> \in Seq(Nat) /\ Len(<<a, b>>) = 2 /\ <<a, b>>[1] = a /\ <<a, b>>[2] = b
  OBVIOUS
<1>5. ASSUME NEW ints \in Seq(Nat), Len(ints) <= 3
      PROVE  IntsLen(ints) <= 24
  <2>1. Len(ints) = 0 \/ Len(ints) = 1 \/ Len(ints) = 2 \/ Len(ints) = 3
    <3>1. Len(ints) \in Nat
      OBVIOUS
    <3>2. \A k \in Nat : k <= 3 => k = 0 \/ k = 1 \/ k = 2 \/ k = 3
      OBVIOUS
    <3> QED
      BY <1>5, <3>1, <3>2
  <2>2. \A i : PutLen(ints[i]) <= 8 /\ PutLen(ints[i]) \in Nat
    BY PutIs
  <2> QED
    BY <1>1, <2>1, <2>2
<1> QED
  BY <1>1, <1>2, <1>3, <1>4, <1>5

-----------------------------------------------------------------------------
(* Frames: each encoder writes as much as it has announced                 *)

\* What an encoder returns is a sequence as long as it says, and not empty.
Announces(e) == Row(e.bytes) /\ Len(e.bytes) = e.len /\ e.len \in Nat \ {0}

\* A sequence of one element.
LEMMA RowOfOne ==
  ASSUME NEW b
  PROVE  Row(<<b>>) /\ Len(<<b>>) = 1
<1>1. <<b>> \in Seq({b})
  OBVIOUS
<1> QED
  BY <1>1, RowOf

\* The types of frames are different numbers.
LEMMA TypesDiffer ==
  ASSUME NEW m \in FrameName, NEW n \in FrameName, m # n
  PROVE  T[m] \in Nat /\ T[m] # T[n]
BY FrameCodecAssumption

\* A control frame, of 32 bytes at most.
LEMMA ControlFits ==
  ASSUME NEW fr, ControlFrame(fr)
  PROVE  Announces(EncodeFrame(fr)) /\ EncodeFrame(fr).len <= 32
<1> DEFINE p == PutInts(fr.ints)
           n == IntsLen(fr.ints)
<1>1. fr.ints \in Seq(Nat) /\ Len(fr.ints) <= 3
  BY DEF ControlFrame
<1>2. Row(p) /\ Len(p) = n /\ n \in Nat /\ n <= 24
  BY <1>1, IntsAre, FewInts
<1>3. CASE fr.type \in MaxTypes \cup BlockedTypes \cup {T.RESET_STREAM, T.STOP_SENDING}
  <2>1. EncodeFrame(fr) = EncodeInts(fr)
    BY <1>3, TypesDiffer
       DEF EncodeFrame, MaxTypes, BlockedTypes, FrameName, EncodeMax, EncodeBlocked, EncodeStreamError
  <2>2. EncodeInts(fr) = [len |-> 1 + n, bytes |-> <<fr.type>> \o p]
    BY DEF EncodeInts, Encoding
  <2> HIDE DEF n, p
  <2>3. Row(<<fr.type>> \o p) /\ Len(<<fr.type>> \o p) = 1 + n
    BY <1>2, RowOfOne, RowConcat
  <2> QED
    BY <1>2, <2>1, <2>2, <2>3 DEF Announces
<1>4. CASE fr.type = T.PING_RESPONSE
  <2>1. EncodeFrame(fr) = EncodePing(fr)
    BY <1>4, TypesDiffer DEF EncodeFrame, MaxTypes, BlockedTypes, FrameName
  <2>2. EncodePing(fr) = [len |-> PutLen(fr.type) + n, bytes |-> Put(fr.type) \o p]
    BY DEF EncodePing, Encoding
  <2> HIDE DEF n, p
  <2>3. Row(Put(fr.type)) /\ Len(Put(fr.type)) = PutLen(fr.type) /\ PutLen(fr.type) \in 1..8
    BY PutIs
  <2>4. Row(Put(fr.type) \o p) /\ Len(Put(fr.type) \o p) = PutLen(fr.type) + n
    BY <1>2, <2>3, RowConcat
  <2> QED
    BY <1>2, <2>1, <2>2, <2>3, <2>4 DEF Announces
<1> QED
  BY <1>3, <1>4 DEF ControlFrame, ControlTypes

\* A STREAM frame of data.
StreamSize(id, off, n) == 1 + PutLen(id) + (IF off # 0 THEN PutLen(off) ELSE 0) + PutLen(n) + n

LEMMA StreamLen ==
  ASSUME NEW id \in Nat, NEW off \in Nat, NEW fin, NEW data, Row(data), Len(data) \in Nat
  PROVE  /\ Announces(EncodeFrame(StreamDataFr(id, off, fin, data)))
         /\ EncodeFrame(StreamDataFr(id, off, fin, data)).len = StreamSize(id, off, Len(data))
<1> DEFINE fr == StreamDataFr(id, off, fin, data)
           ints == IF off # 0 THEN <<id, off>> ELSE <<id>>
           n == Len(data)
           p == PutInts(ints)
           flags == T.STREAM + StreamFlags(fr)
<1>1. fr.type = T.STREAM /\ fr.ints = <<id, off>> /\ fr.data = data
  BY DEF StreamDataFr, FrameOf
<1>2. EncodeFrame(fr) = EncodeStream(fr)
  <2> HIDE DEF fr
  <2>1. "STREAM" \in FrameName /\ \A m \in FrameName : m # "STREAM" => T[m] # T.STREAM
    BY TypesDiffer DEF FrameName
  <2>2. T.STREAM \notin {T.PARAMS, T.PING_REQUEST, T.PING_RESPONSE, T.PADDING, T.RESET_STREAM,
                   T.STOP_SENDING, T.CONNECTION_CLOSE, T.CONNECTION_CLOSE_APP, T.DATAGRAM, T.DATAGRAM_LEN}
    BY <2>1 DEF FrameName
  <2>3. T.STREAM \notin MaxTypes \cup BlockedTypes
    BY <2>1 DEF FrameName, MaxTypes, BlockedTypes
  <2> QED
    BY <1>1, <2>2, <2>3 DEF EncodeFrame
<1>3. EncodeStream(fr) = [len |-> 1 + IntsLen(ints) + PutLen(n) + n,
                          bytes |-> <<flags>> \o p \o Put(n) \o data]
  <2>1. fr.ints[2] = off /\ fr.ints[1] = id
    BY <1>1
  <2> HIDE DEF fr
  <2> QED
    BY <1>1, <2>1 DEF EncodeStream, Encoding
<1>4. ints \in Seq(Nat)
  OBVIOUS
<1>5. IntsLen(ints) = PutLen(id) + (IF off # 0 THEN PutLen(off) ELSE 0)
  <2>1. PutLen(id) \in Nat
    BY PutIs
  <2> QED
    BY <2>1, FewInts
<1> HIDE DEF ints
<1>6. Row(p) /\ Len(p) = IntsLen(ints) /\ IntsLen(ints) \in Nat
  BY <1>4, IntsAre
<1>7. Row(Put(n)) /\ Len(Put(n)) = PutLen(n) /\ PutLen(n) \in Nat
  BY PutIs
<1>8. Row(<<flags>>) /\ Len(<<flags>>) = 1
  BY RowOfOne
<1> HIDE DEF p, flags, fr, n
<1>9. Row(<<flags>> \o p) /\ Len(<<flags>> \o p) = 1 + IntsLen(ints)
  BY <1>6, <1>8, RowConcat
<1>10. Row(<<flags>> \o p \o Put(n)) /\ Len(<<flags>> \o p \o Put(n)) = 1 + IntsLen(ints) + PutLen(n)
  BY <1>7, <1>9, RowConcat
<1>11. /\ Row(<<flags>> \o p \o Put(n) \o data)
       /\ Len(<<flags>> \o p \o Put(n) \o data) = 1 + IntsLen(ints) + PutLen(n) + n
  BY <1>10, RowConcat DEF n
<1>12. n \in Nat
  BY DEF n
<1>13. Announces(EncodeFrame(fr)) /\ EncodeFrame(fr).len = 1 + IntsLen(ints) + PutLen(n) + n
  BY <1>2, <1>3, <1>6, <1>7, <1>11, <1>12 DEF Announces
<1>14. EncodeFrame(fr).len = StreamSize(id, off, Len(data))
  <2>1. PutLen(id) \in Nat /\ PutLen(off) \in Nat
    BY PutIs
  <2> QED
    BY <1>5, <1>7, <1>12, <1>13, <2>1 DEF StreamSize, n
<1> QED
  BY <1>13, <1>14 DEF fr

\* A DATAGRAM frame.
LEMMA DatagramLen ==
  ASSUME NEW data, Row(data), Len(data) \in Nat
  PROVE  Announces(EncodeFrame(FrameOf(T.DATAGRAM_LEN, << >>, FALSE, data)))
<1> DEFINE fr == FrameOf(T.DATAGRAM_LEN, << >>, FALSE, data)
           ints == <<Len(data)>>
           p == PutInts(ints)
           n == Len(data)
<1>1. fr.type = T.DATAGRAM_LEN /\ fr.data = data
  BY DEF FrameOf
<1>2. EncodeFrame(fr) = EncodeDatagram(fr)
  <2> HIDE DEF fr
  <2>1. "DATAGRAM_LEN" \in FrameName /\ \A m \in FrameName : m # "DATAGRAM_LEN" => T[m] # T.DATAGRAM_LEN
    BY TypesDiffer DEF FrameName
  <2>2. T.DATAGRAM_LEN \notin {T.PARAMS, T.PING_REQUEST, T.PING_RESPONSE, T.PADDING, T.RESET_STREAM,
                   T.STOP_SENDING, T.CONNECTION_CLOSE, T.CONNECTION_CLOSE_APP, T.STREAM}
    BY <2>1 DEF FrameName
  <2>3. T.DATAGRAM_LEN \notin MaxTypes \cup BlockedTypes
    BY <2>1 DEF FrameName, MaxTypes, BlockedTypes
  <2> QED
    BY <1>1, <2>2, <2>3 DEF EncodeFrame
<1>3. EncodeDatagram(fr) = [len |-> 1 + n + IntsLen(ints), bytes |-> <<fr.type>> \o p \o data]
  <2> HIDE DEF fr
  <2> QED
    BY <1>1 DEF EncodeDatagram, Encoding
<1>4. Row(p) /\ Len(p) = IntsLen(ints) /\ IntsLen(ints) \in Nat
  <2>1. ints \in Seq(Nat)
    OBVIOUS
  <2> QED
    BY <2>1, IntsAre
<1> HIDE DEF ints, p, fr, n
<1>5. Row(<<fr.type>> \o p) /\ Len(<<fr.type>> \o p) = 1 + IntsLen(ints)
  BY <1>4, RowOfOne, RowConcat
<1>6. Row(<<fr.type>> \o p \o data) /\ Len(<<fr.type>> \o p \o data) = 1 + IntsLen(ints) + n
  BY <1>5, RowConcat DEF n
<1>7. n \in Nat
  BY DEF n
<1>8. Announces(EncodeFrame(fr))
  BY <1>2, <1>3, <1>4, <1>6, <1>7 DEF Announces
<1> QED
  BY <1>8 DEF fr

\* The transport parameters of p: as many bytes as their length says.
LEMMA ParamsAre ==
  ASSUME NEW p
  PROVE  Row(ParamsEncode(p)) /\ Len(ParamsEncode(p)) = ParamsLen(p) /\ ParamsLen(p) \in Nat
<1> DEFINE n == Len(Order)
           sent(i) == SentValue(p, Order[i])
           ss == [i \in 1..n |-> IF Written(p, Order[i]) THEN WriteVarintParam(Id[Order[i]], sent(i))
                                 ELSE << >>]
           v == [i \in 1..n |-> IF Written(p, Order[i]) THEN VarintParamLen(Id[Order[i]], sent(i))
                                ELSE 0]
<1>1. n \in Nat /\ DOMAIN Order = 1..n
  BY DEF Order
<1>2. ASSUME NEW id, NEW x
      PROVE  /\ Row(WriteVarintParam(id, x)) /\ VarintParamLen(id, x) \in Nat
             /\ Len(WriteVarintParam(id, x)) = VarintParamLen(id, x)
  <2>1. \A k : Row(Put(k)) /\ Len(Put(k)) = PutLen(k) /\ PutLen(k) \in Nat
    BY PutIs
  <2>2. Row(Put(id) \o Put(PutLen(x))) /\ Len(Put(id) \o Put(PutLen(x))) = PutLen(id) + PutLen(PutLen(x))
    BY <2>1, RowConcat
  <2>3. /\ Row(Put(id) \o Put(PutLen(x)) \o Put(x))
        /\ Len(Put(id) \o Put(PutLen(x)) \o Put(x)) = PutLen(id) + PutLen(PutLen(x)) + PutLen(x)
    BY <2>1, <2>2, RowConcat
  <2> QED
    BY <2>1, <2>3 DEF WriteVarintParam, VarintParamLen
<1>3. Row(<< >>) /\ Len(<< >>) = 0
  BY << >> \in Seq(Nat), RowOf
<1>4. \A i \in 1..n : Row(ss[i]) /\ Len(ss[i]) = v[i] /\ v[i] \in Nat
  <2> HIDE DEF sent, n
  <2> QED
    BY <1>2, <1>3
<1>5. ParamsEncode(p) = Joined(ss) /\ ParamsLen(p) = Total(v)
  <2> HIDE DEF n
  <2> QED
    BY <1>1, Zenon DEF ParamsEncode, ParamsLen
<1>6. ss = [i \in 1..n |-> ss[i]] /\ v = [i \in 1..n |-> v[i]]
  <2> HIDE DEF sent, n
  <2> QED
    OBVIOUS
<1> HIDE DEF ss, v, n
<1>7. v \in [1..n -> Nat] /\ [i \in 1..n |-> Len(ss[i])] = v
  BY <1>4, <1>6
<1>8. Total(v) \in Nat
  BY <1>1, <1>7, TotalsIs
<1>9. Row(Joined(ss)) /\ Len(Joined(ss)) = Total(v)
  BY <1>1, <1>4, <1>6, <1>7, JoinedIs
<1> QED
  BY <1>5, <1>8, <1>9

LEMMA ParamsFrLen == Announces(EncodeFrame(ParamsFr))
<1> DEFINE fr == ParamsFr
           n == ParamsLen(LocalParams)
           p == ParamsEncode(LocalParams)
<1>1. fr.type = T.PARAMS /\ fr.ints = LocalParams
  BY DEF ParamsFr, PlainFr, FrameOf
<1>2. EncodeFrame(fr) = EncodeParams(fr)
  <2> HIDE DEF fr
  <2>1. "PARAMS" \in FrameName /\ \A m \in FrameName : m # "PARAMS" => T[m] # T.PARAMS
    BY TypesDiffer DEF FrameName
  <2>2. T.PARAMS \notin {T.PING_REQUEST, T.PING_RESPONSE, T.PADDING, T.RESET_STREAM, T.STREAM,
                   T.STOP_SENDING, T.CONNECTION_CLOSE, T.CONNECTION_CLOSE_APP, T.DATAGRAM, T.DATAGRAM_LEN}
    BY <2>1 DEF FrameName
  <2>3. T.PARAMS \notin MaxTypes \cup BlockedTypes
    BY <2>1 DEF FrameName, MaxTypes, BlockedTypes
  <2> QED
    BY <1>1, <2>2, <2>3 DEF EncodeFrame
<1>3. EncodeParams(fr) = [len |-> PutLen(fr.type) + PutLen(n) + n,
                          bytes |-> Put(fr.type) \o Put(n) \o p]
  <2> HIDE DEF fr
  <2> QED
    BY <1>1 DEF EncodeParams, EncodeParamsOf, Encoding
<1> HIDE DEF fr
<1>4. Row(p) /\ Len(p) = n /\ n \in Nat
  BY ParamsAre
<1> HIDE DEF p, n
<1>5. \A k : Row(Put(k)) /\ Len(Put(k)) = PutLen(k) /\ PutLen(k) \in Nat \ {0}
  BY PutIs
<1>6. Row(Put(fr.type) \o Put(n)) /\ Len(Put(fr.type) \o Put(n)) = PutLen(fr.type) + PutLen(n)
  BY <1>5, RowConcat
<1>7. /\ Row(Put(fr.type) \o Put(n) \o p)
      /\ Len(Put(fr.type) \o Put(n) \o p) = PutLen(fr.type) + PutLen(n) + n
  BY <1>4, <1>5, <1>6, RowConcat
<1>8. Announces(EncodeFrame(fr))
  BY <1>2, <1>3, <1>4, <1>5, <1>7 DEF Announces
<1> QED
  BY <1>8 DEF fr

LEMMA PieceIs ==
  ASSUME NEW off, NEW n \in Nat
  PROVE  Row(Piece(off, n)) /\ Len(Piece(off, n)) = n
<1>1. Piece(off, n) = [i \in 1..n |-> Piece(off, n)[i]]
  BY DEF Piece
<1> QED
  BY <1>1, RowByElements

\* A record holds more than any of the frames that are not split.
LEMMA RecordIsLong ==
  /\ Limit1 \in Nat /\ Limit1 >= 4 /\ Limit2 \in Nat /\ Limit2 >= 64 /\ Limit2 > Limit1
  /\ DefaultMaxRecordSize \in Nat /\ DefaultMaxRecordSize >= 62
<1>1. Base \in Nat /\ Base >= 4
  BY BaseAssumption, RecordWriterAssumption
<1>2. Base * Byte = 4 * (Base * Base)
  BY <1>1 DEF Byte
<1>3. Base * Base \in Nat /\ Base * Base >= 4 * Base
  BY <1>1
<1> QED
  BY <1>1, <1>2, <1>3 DEF Limit1, Limit2, DefaultMaxRecordSize

-----------------------------------------------------------------------------
(* Control frames are put until one does not fit                           *)

\* How many frames fit, from the sums of their lengths.
LEMMA HowManyFit ==
  ASSUME NEW n \in Nat, NEW v \in [1..n -> Nat], NEW left \in Nat
  PROVE  /\ HowMany(left, Totals(v)) \in 0..n
         /\ Totals(v)[HowMany(left, Totals(v))] <= left
         /\ HowMany(left, Totals(v)) < n => Totals(v)[HowMany(left, Totals(v)) + 1] > left
<1> DEFINE t == Totals(v)
           S == {m \in 0..n : t[m] <= left}
           Top(x) == x \in S /\ \A y \in S : x >= y
           X == {m \in Nat : \E y \in S : y >= m}
<1>1. t \in [0..n -> Nat] /\ t[0] = 0
  BY TotalsIs
<1> HIDE DEF t
<1>2. \E x : Top(x)
  <2> SUFFICES ASSUME \A x \in S : \E y \in S : y > x
               PROVE  FALSE
    <3>1. \A x, y \in S : x >= y \/ y > x
      OBVIOUS
    <3> QED
      BY <3>1
  <2>1. 0 \in X
    <3>1. 0 \in S
      BY <1>1
    <3> QED
      BY <3>1
  <2>2. ASSUME NEW m \in X
        PROVE  m + 1 \in X
    <3>1. PICK y \in S : y >= m
      OBVIOUS
    <3>2. PICK z \in S : z > y
      OBVIOUS
    <3>3. z >= m + 1 /\ m + 1 \in Nat
      BY <3>1, <3>2
    <3> QED
      BY <3>3
  <2>3. X \subseteq Nat
    OBVIOUS
  <2>4. X = Nat
    <3> HIDE DEF X, S
    <3> QED
      BY <2>1, <2>2, <2>3, SetInduction
  <2>5. n + 1 \in X
    <3> HIDE DEF X
    <3> QED
      BY <2>4
  <2> QED
    BY <2>5
<1>3. HowMany(left, t) = CHOOSE x \in S : \A y \in S : x >= y
  BY <1>1 DEF HowMany, Max
<1>4. Top(HowMany(left, t))
  <2> HIDE DEF S
  <2> QED
    BY <1>2, <1>3
<1> DEFINE k == HowMany(left, t)
<1>5. k \in 0..n /\ t[k] <= left
  BY <1>4
<1>6. k < n => t[k + 1] > left
  <2>1. SUFFICES ASSUME k < n, t[k + 1] <= left
                 PROVE  FALSE
    <3>1. k < n => t[k + 1] \in Nat
      BY <1>1, <1>5
    <3> HIDE DEF k
    <3> QED
      BY <3>1
  <2>2. k + 1 \in S
    BY <1>5, <2>1
  <2> QED
    BY <1>4, <1>5, <2>2
<1> QED
  BY <1>5, <1>6 DEF t

\* The first values have the sums that they have among all.
LEMMA TotalOfFirst ==
  ASSUME NEW n \in Nat, NEW v \in [1..n -> Nat], NEW k \in 0..n
  PROVE  Total([i \in 1..k |-> v[i]]) = Totals(v)[k]
<1> DEFINE u == [i \in 1..k |-> v[i]]
           X == {j \in Nat : j <= k => Totals(u)[j] = Totals(v)[j]}
<1>1. u \in [1..k -> Nat] /\ \A i \in 1..k : u[i] = v[i]
  OBVIOUS
<1> HIDE DEF u
<1>2. /\ Totals(u)[0] = 0 /\ Total(u) = Totals(u)[k]
      /\ \A i \in 1..k : Totals(u)[i] = Totals(u)[i - 1] + u[i]
  <2>1. k \in Nat
    OBVIOUS
  <2> QED
    BY <1>1, <2>1, TotalsIs
<1>3. Totals(v)[0] = 0 /\ \A i \in 1..n : Totals(v)[i] = Totals(v)[i - 1] + v[i]
  BY TotalsIs
<1>4. 0 \in X
  BY <1>2, <1>3
<1>5. ASSUME NEW j \in X
      PROVE  j + 1 \in X
  <2>1. j + 1 <= k => /\ j + 1 \in 1..k /\ j + 1 \in 1..n /\ (j + 1) - 1 = j
                      /\ Totals(u)[j] = Totals(v)[j]
    OBVIOUS
  <2>2. j + 1 <= k => Totals(u)[j + 1] = Totals(v)[j + 1]
    BY <1>1, <1>2, <1>3, <2>1
  <2> QED
    BY <2>2
<1>6. X = Nat
  <2> HIDE DEF X
  <2>1. X \subseteq Nat
    BY DEF X
  <2> QED
    BY <1>4, <1>5, <2>1, SetInduction
<1>7. k \in X
  BY <1>6
<1> QED
  BY <1>2, <1>7 DEF u

\* Control frames that wait.
Queue(q) == Row(q) /\ \A i \in DOMAIN q : ControlFrame(q[i])

\* The fields that the writer has.
Shape(x) ==
  /\ DOMAIN x = {"qre", "sent", "ctrl", "max", "off", "shut", "log", "final"}
  /\ DOMAIN x.qre = {"started", "cap", "bytes"}

Writer(x) ==
  /\ Shape(x) /\ x.qre.started \in BOOLEAN
  /\ Queue(x.ctrl) /\ Queue(x.max) /\ x.off \in Nat
  /\ Row(x.qre.bytes) /\ x.qre.cap \in 0..(RecordLenSize + DefaultMaxRecordSize)

\* A writer in the middle of a record: nothing was put past its end.
Writing(x) == Writer(x) /\ x.qre.started /\ Left(x) >= 0

\* y is x after frames were put into the record.
More(x, y) ==
  /\ Writing(y) /\ y.qre.cap = x.qre.cap /\ y.off = x.off
  /\ Len(y.qre.bytes) >= Len(x.qre.bytes)

\* Of a queue that is not empty some frame is put, if a record is empty enough.
Emptied(x, q, d) ==
  Len(d.x.qre.bytes) = Len(x.qre.bytes) /\ Left(x) >= 32 => q = << >> /\ d.rest = << >>

LEMMA WriterTypes ==
  ASSUME NEW x, Writer(x)
  PROVE  /\ Len(x.qre.bytes) \in Nat /\ Left(x) \in Int /\ x.qre.cap \in Nat
         /\ Left(x) = x.qre.cap - 2 - Len(x.qre.bytes)
         /\ Left(x) <= DefaultMaxRecordSize - Len(x.qre.bytes)
         /\ x.qre.bytes = << >> <=> Len(x.qre.bytes) = 0
<1>1. x.qre.bytes \in Seq({x.qre.bytes[i] : i \in DOMAIN x.qre.bytes}) /\ DefaultMaxRecordSize \in Nat
  BY RecordIsLong DEF Writer, Row
<1>2. Len(x.qre.bytes) \in Nat /\ (x.qre.bytes = << >> <=> Len(x.qre.bytes) = 0)
  BY <1>1
<1> QED
  BY <1>1, <1>2 DEF Writer, Left, RecordLenSize

\* x with the bytes b in its record.
WithBytes(x, b, log) == [x EXCEPT !.qre.bytes = b, !.log = log]

LEMMA Replaced ==
  ASSUME NEW x, Shape(x), NEW b, NEW log
  PROVE  LET y == WithBytes(x, b, log) IN
         /\ Shape(y) /\ y.qre.started = x.qre.started /\ y.qre.cap = x.qre.cap /\ y.qre.bytes = b
         /\ y.sent = x.sent /\ y.ctrl = x.ctrl /\ y.max = x.max /\ y.off = x.off
<1> DEFINE q == [x.qre EXCEPT !.bytes = b]
<1>1. WithBytes(x, b, log) = [x EXCEPT !.qre = q, !.log = log]
  BY Zenon DEF WithBytes
<1>2. DOMAIN q = DOMAIN x.qre /\ q.started = x.qre.started /\ q.cap = x.qre.cap /\ q.bytes = b
  BY DEF Shape
<1> HIDE DEF q
<1> QED
  BY <1>1, <1>2 DEF Shape

\* Bytes that fit are put.
LEMMA BytesPut ==
  ASSUME NEW x, Writing(x), NEW s, Row(s), Len(s) <= Left(x), NEW log
  PROVE  LET y == WithBytes(x, x.qre.bytes \o s, log) IN
         /\ More(x, y) /\ Len(y.qre.bytes) = Len(x.qre.bytes) + Len(s)
         /\ y.sent = x.sent /\ y.ctrl = x.ctrl /\ y.max = x.max
<1> DEFINE b == x.qre.bytes \o s
           y == WithBytes(x, b, log)
<1>1. Shape(x) /\ Row(x.qre.bytes)
  BY DEF Writing, Writer
<1>2. /\ Row(b) /\ Len(b) = Len(x.qre.bytes) + Len(s)
      /\ Len(x.qre.bytes) \in Nat /\ Len(s) \in Nat
  BY <1>1, RowConcat
<1> HIDE DEF b
<1>3. /\ Shape(y) /\ y.qre.started = x.qre.started /\ y.qre.cap = x.qre.cap /\ y.qre.bytes = b
      /\ y.sent = x.sent /\ y.ctrl = x.ctrl /\ y.max = x.max /\ y.off = x.off
  BY <1>1, Replaced
<1> HIDE DEF y
<1>4. Writer(y)
  BY <1>2, <1>3 DEF Writing, Writer
<1>5. Left(y) = Left(x) - Len(s)
  <2>1. x.qre.cap \in Nat
    BY WriterTypes DEF Writing
  <2>2. Left(y) = x.qre.cap - 2 - Len(b) /\ Left(x) = x.qre.cap - 2 - Len(x.qre.bytes)
    BY <1>3, Zenon DEF Left, RecordLenSize
  <2> HIDE DEF b
  <2> QED
    BY <1>2, <2>1, <2>2
<1>6. Writing(y)
  BY <1>2, <1>3, <1>4, <1>5, WriterTypes DEF Writing
<1>7. More(x, y)
  BY <1>2, <1>3, <1>6 DEF More
<1> QED
  BY <1>2, <1>3, <1>7 DEF y, b

\* What is left of a queue.
LEMMA RestWaits ==
  ASSUME NEW q, Queue(q), NEW k \in 0..Len(q)
  PROVE  Queue(SubSeq(q, k + 1, Len(q))) /\ (k = Len(q) => SubSeq(q, k + 1, Len(q)) = << >>)
<1> DEFINE S == {q[i] : i \in DOMAIN q}
           t == SubSeq(q, k + 1, Len(q))
<1>1. q \in Seq(S) /\ \A e \in S : ControlFrame(e)
  BY DEF Queue, Row
<1> HIDE DEF S
<1>2. Len(q) \in Nat
  BY <1>1
<1>3. t \in Seq(S) /\ Len(t) = IF k + 1 <= Len(q) THEN Len(q) - (k + 1) + 1 ELSE 0
  BY <1>1, <1>2, SubSeqProperties
<1>4. k = Len(q) => Len(t) = 0
  BY <1>2, <1>3
<1> HIDE DEF t
<1>5. Row(t) /\ (k = Len(q) => t = << >>)
  BY <1>3, <1>4, RowOf
<1>6. \A i \in DOMAIN t : t[i] \in S
  BY <1>3
<1> QED
  BY <1>1, <1>5, <1>6 DEF Queue, t

LEMMA QueueAdded ==
  ASSUME NEW x, Writing(x), NEW q, Queue(q)
  PROVE  LET d == AddQueue(x, q) IN
         /\ More(x, d.x) /\ Queue(d.rest) /\ Emptied(x, q, d)
         /\ d.x.sent = x.sent /\ d.x.ctrl = x.ctrl /\ d.x.max = x.max
<1> DEFINE n == Len(q)
           es == [i \in DOMAIN q |-> EncodeFrame(q[i])]
           v == [i \in DOMAIN es |-> es[i].len]
           k == HowMany(Left(x), Totals(v))
           ss == [i \in 1..k |-> es[i].bytes]
           d == AddFirst(x, q, es, k)
<1>1. n \in Nat /\ DOMAIN q = 1..n /\ \A i \in 1..n : ControlFrame(q[i])
  <2>1. q \in Seq({q[i] : i \in DOMAIN q})
    BY DEF Queue, Row
  <2> QED
    BY <2>1 DEF Queue
<1>2. \A i \in 1..n : Announces(EncodeFrame(q[i])) /\ EncodeFrame(q[i]).len <= 32
  BY <1>1, ControlFits
<1>3. AddQueue(x, q) = d
  BY Zenon DEF AddQueue, AddEncodedQueue
<1> HIDE DEF n
<1>4. DOMAIN es = 1..n /\ \A i \in 1..n : Announces(es[i]) /\ es[i].len <= 32
  BY <1>1, <1>2
<1> HIDE DEF es
<1>5. v \in [1..n -> Nat] /\ \A i \in 1..n : v[i] = es[i].len /\ v[i] <= 32 /\ v[i] # 0
  BY <1>4 DEF Announces
<1>6. Left(x) \in Nat
  BY WriterTypes DEF Writing
<1> HIDE DEF v
<1>7. k \in 0..n /\ Totals(v)[k] <= Left(x) /\ (k < n => Totals(v)[k + 1] > Left(x))
  BY <1>1, <1>5, <1>6, HowManyFit
<1>8. Totals(v) \in [0..n -> Nat] /\ \A i \in 1..n : Totals(v)[i] = Totals(v)[i - 1] + v[i]
      /\ Totals(v)[0] = 0
  BY <1>1, <1>5, TotalsIs
<1> HIDE DEF k
<1>9. ss = [i \in 1..k |-> ss[i]] /\ \A i \in 1..k : Row(ss[i]) /\ Len(ss[i]) = v[i]
  <2>1. \A i \in 1..k : i \in 1..n
    BY <1>1, <1>7
  <2>2. \A i \in 1..k : ss[i] = es[i].bytes
    OBVIOUS
  <2>3. ss = [i \in 1..k |-> ss[i]]
    OBVIOUS
  <2> HIDE DEF ss
  <2> QED
    BY <1>4, <1>5, <2>1, <2>2, <2>3 DEF Announces
<1>10. [i \in 1..k |-> Len(ss[i])] = [i \in 1..k |-> v[i]]
  BY <1>9
<1>11. Row(Joined(ss)) /\ Len(Joined(ss)) = Totals(v)[k]
  <2>1. k \in Nat
    BY <1>7
  <2>2. Total([i \in 1..k |-> v[i]]) = Totals(v)[k]
    BY <1>1, <1>5, <1>7, TotalOfFirst
  <2> HIDE DEF ss
  <2> QED
    BY <1>9, <1>10, <2>1, <2>2, JoinedIs
<1>12. /\ d.x = WithBytes(x, x.qre.bytes \o Joined(ss), x.log \o SubSeq(q, 1, k))
       /\ d.rest = SubSeq(q, k + 1, n)
  BY Zenon DEF AddFirst, WithBytes, n
<1> HIDE DEF ss, d
<1>13. /\ More(x, d.x) /\ Len(d.x.qre.bytes) = Len(x.qre.bytes) + Len(Joined(ss))
       /\ d.x.sent = x.sent /\ d.x.ctrl = x.ctrl /\ d.x.max = x.max
  <2>1. Len(Joined(ss)) <= Left(x)
    BY <1>7, <1>11
  <2> DEFINE J == Joined(ss)
             log == x.log \o SubSeq(q, 1, k)
             y == WithBytes(x, x.qre.bytes \o J, log)
  <2>2. Row(J) /\ Len(J) <= Left(x)
    BY <1>11, <2>1
  <2>3. d.x = y
    BY <1>12
  <2> HIDE DEF J, log
  <2>4. /\ More(x, y) /\ Len(y.qre.bytes) = Len(x.qre.bytes) + Len(J)
        /\ y.sent = x.sent /\ y.ctrl = x.ctrl /\ y.max = x.max
    BY <2>2, BytesPut
  <2> HIDE DEF y
  <2> QED
    BY <2>3, <2>4 DEF J
<1>14. Queue(d.rest) /\ (k = n => d.rest = << >>)
  BY <1>7, <1>12, RestWaits DEF n
<1>15. Emptied(x, q, d)
  <2> SUFFICES ASSUME Len(d.x.qre.bytes) = Len(x.qre.bytes), Left(x) >= 32
               PROVE  q = << >> /\ d.rest = << >>
    BY DEF Emptied
  <2>1. Totals(v)[k] = 0
    <3>1. Len(x.qre.bytes) \in Nat /\ Totals(v)[k] \in Nat
      BY <1>7, <1>8, WriterTypes DEF Writing
    <3> QED
      BY <1>11, <1>13, <3>1
  <2>2. k = 0
    <3>1. k # 0 => k \in 1..n /\ k - 1 \in 0..n
      BY <1>1, <1>7
    <3>2. k # 0 => Totals(v)[k - 1] \in Nat /\ v[k] \in Nat \ {0} /\ Totals(v)[k] = Totals(v)[k - 1] + v[k]
      BY <1>5, <1>8, <3>1
    <3> QED
      BY <2>1, <3>2
  <2>3. n = 0
    <3>1. n # 0 => 1 \in 1..n /\ 0 < n /\ 1 - 1 = 0
      BY <1>1
    <3>2. n # 0 => Totals(v)[1] = v[1] /\ v[1] <= 32 /\ Totals(v)[1] > Left(x) /\ v[1] \in Nat
      BY <1>5, <1>7, <1>8, <2>2, <3>1
    <3> QED
      BY <1>6, <3>2
  <2>4. q = << >>
    <3>1. q \in Seq({q[i] : i \in DOMAIN q})
      BY DEF Queue, Row
    <3> QED
      BY <2>3, <3>1 DEF n
  <2> QED
    BY <1>14, <2>2, <2>3, <2>4
<1> QED
  BY <1>3, <1>13, <1>14, <1>15

\* Other fields of the writer are set.
LEMMA MaxSet ==
  ASSUME NEW x, Writing(x), NEW r, Queue(r)
  PROVE  LET y == [x EXCEPT !.max = r] IN
         /\ Writing(y) /\ y.qre = x.qre /\ y.sent = x.sent /\ y.ctrl = x.ctrl /\ y.max = r
         /\ y.off = x.off /\ Left(y) = Left(x)
<1> DEFINE y == [x EXCEPT !.max = r]
<1>1. Shape(x)
  BY DEF Writing, Writer
<1>2. /\ DOMAIN y = DOMAIN x /\ y.qre = x.qre /\ y.sent = x.sent /\ y.ctrl = x.ctrl /\ y.max = r
      /\ y.off = x.off
  BY <1>1 DEF Shape
<1> HIDE DEF y
<1>3. Left(y) = Left(x)
  BY <1>2, Zenon DEF Left
<1>4. Writing(y)
  BY <1>2, <1>3 DEF Writing, Writer, Shape
<1> QED
  BY <1>2, <1>3, <1>4 DEF y

LEMMA CtrlSet ==
  ASSUME NEW x, Writing(x), NEW r, Queue(r)
  PROVE  LET y == [x EXCEPT !.ctrl = r] IN
         /\ Writing(y) /\ y.qre = x.qre /\ y.sent = x.sent /\ y.ctrl = r /\ y.max = x.max
         /\ y.off = x.off /\ Left(y) = Left(x)
<1> DEFINE y == [x EXCEPT !.ctrl = r]
<1>1. Shape(x)
  BY DEF Writing, Writer
<1>2. /\ DOMAIN y = DOMAIN x /\ y.qre = x.qre /\ y.sent = x.sent /\ y.ctrl = r /\ y.max = x.max
      /\ y.off = x.off
  BY <1>1 DEF Shape
<1> HIDE DEF y
<1>3. Left(y) = Left(x)
  BY <1>2, Zenon DEF Left
<1>4. Writing(y)
  BY <1>2, <1>3 DEF Writing, Writer, Shape
<1> QED
  BY <1>2, <1>3, <1>4 DEF y

LEMMA MaxPut ==
  ASSUME NEW x, Writing(x)
  PROVE  LET y == WriteMax(x) IN
         /\ More(x, y) /\ y.sent = x.sent /\ y.ctrl = x.ctrl
         /\ Len(y.qre.bytes) = Len(x.qre.bytes) /\ Left(x) >= 32 => y.max = << >>
<1> DEFINE d == AddQueue(x, x.max)
           y == [d.x EXCEPT !.max = d.rest]
<1>1. WriteMax(x) = y
  BY Zenon DEF WriteMax, MaxWritten
<1>2. /\ More(x, d.x) /\ Queue(d.rest) /\ Emptied(x, x.max, d)
      /\ d.x.sent = x.sent /\ d.x.ctrl = x.ctrl
  BY QueueAdded DEF Writing, Writer
<1> HIDE DEF d
<1>3. /\ Writing(y) /\ y.qre = d.x.qre /\ y.sent = d.x.sent /\ y.ctrl = d.x.ctrl /\ y.max = d.rest
      /\ y.off = d.x.off
  BY <1>2, MaxSet DEF More
<1> HIDE DEF y
<1> QED
  BY <1>1, <1>2, <1>3 DEF More, Emptied

LEMMA CtrlPut ==
  ASSUME NEW x, Writing(x)
  PROVE  LET y == WriteCtrl(x) IN
         /\ More(x, y) /\ y.sent = x.sent
         /\ Len(y.qre.bytes) = Len(x.qre.bytes) /\ Left(x) >= 32 => y.ctrl = << >> /\ y.max = << >>
<1> DEFINE d == AddQueue(x, x.ctrl)
           y == [d.x EXCEPT !.ctrl = d.rest]
           z == WriteMax(y)
<1>1. WriteCtrl(x) = IF d.rest # << >> THEN y ELSE z
  BY Zenon DEF WriteCtrl, CtrlWritten
<1>2. /\ More(x, d.x) /\ Queue(d.rest) /\ Emptied(x, x.ctrl, d)
      /\ d.x.sent = x.sent /\ d.x.max = x.max
  BY QueueAdded DEF Writing, Writer
<1> HIDE DEF d
<1>3. /\ Writing(y) /\ y.qre = d.x.qre /\ y.sent = d.x.sent /\ y.ctrl = d.rest /\ y.max = d.x.max
      /\ y.off = d.x.off
  BY <1>2, CtrlSet DEF More
<1> HIDE DEF y
<1>4. /\ More(y, z) /\ z.sent = y.sent /\ z.ctrl = y.ctrl
      /\ Len(z.qre.bytes) = Len(y.qre.bytes) /\ Left(y) >= 32 => z.max = << >>
  BY <1>3, MaxPut
<1> HIDE DEF z
<1>5. /\ Len(x.qre.bytes) \in Nat /\ Len(y.qre.bytes) \in Nat /\ Len(z.qre.bytes) \in Nat
      /\ Len(y.qre.bytes) = Len(x.qre.bytes) => Left(y) = Left(x)
  <2>1. Writer(x) /\ Writer(y) /\ Writer(z)
    BY <1>3, <1>4 DEF More, Writing
  <2>2. y.qre.cap = x.qre.cap
    BY <1>2, <1>3 DEF More
  <2> QED
    BY <2>1, <2>2, WriterTypes
<1>6. CASE d.rest # << >>
  BY <1>1, <1>2, <1>3, <1>6 DEF More, Emptied
<1>7. CASE d.rest = << >>
  <2>1. More(x, z) /\ z.sent = x.sent
    BY <1>2, <1>3, <1>4, <1>5 DEF More
  <2>2. ASSUME Len(z.qre.bytes) = Len(x.qre.bytes), Left(x) >= 32
        PROVE  z.ctrl = << >> /\ z.max = << >>
    <3>1. Len(y.qre.bytes) = Len(x.qre.bytes) /\ Len(z.qre.bytes) = Len(y.qre.bytes)
      BY <1>2, <1>3, <1>4, <1>5, <2>2 DEF More
    <3> QED
      BY <1>3, <1>4, <1>5, <1>7, <2>2, <3>1
  <2> QED
    BY <1>1, <1>7, <2>1, <2>2
<1> QED
  BY <1>6, <1>7

-----------------------------------------------------------------------------
(* A call of dwnx_conn_write_vmsg                                          *)

\* Between two calls a record that is open is not empty.
Between(x) == Writer(x) /\ (x.qre.started => Left(x) >= 0 /\ x.qre.bytes # << >>)

\* The largest buffer that a record fills.
Whole == RecordLenSize + DefaultMaxRecordSize

\* A record in such a buffer that is empty when the control frames were put has
\* all of its room, and none of them waits.
Fresh(x, destlen) ==
  x.qre.bytes = << >> /\ destlen >= Whole =>
    x.ctrl = << >> /\ x.max = << >> /\ Left(x) = DefaultMaxRecordSize

LEMMA StartedIs ==
  ASSUME NEW x, Writer(x), NEW destlen \in Nat, destlen > RecordLenSize
  PROVE  LET y == Started(x, destlen) IN
         /\ Writing(y) /\ y.qre.bytes = << >> /\ y.off = x.off /\ y.sent = x.sent
         /\ destlen >= Whole => Left(y) = DefaultMaxRecordSize
<1> DEFINE cap == Lower(destlen, RecordLenSize + DefaultMaxRecordSize)
           q == [started |-> TRUE, cap |-> cap, bytes |-> << >>]
           y == [x EXCEPT !.qre = q]
<1>1. Started(x, destlen) = y
  BY Zenon DEF Started
<1>2. DefaultMaxRecordSize \in Nat /\ RecordLenSize = 2
  BY RecordIsLong DEF RecordLenSize
<1>3. /\ cap \in 0..(RecordLenSize + DefaultMaxRecordSize) /\ cap - 2 \in Nat
      /\ destlen >= Whole => cap = 2 + DefaultMaxRecordSize
  BY <1>2 DEF Lower, Whole
<1>4. Row(<< >>) /\ Len(<< >>) = 0
  BY << >> \in Seq(Nat), RowOf
<1> HIDE DEF cap
<1>5. q.started = TRUE /\ q.cap = cap /\ q.bytes = << >> /\ DOMAIN q = {"started", "cap", "bytes"}
  OBVIOUS
<1> HIDE DEF q
<1>6. /\ DOMAIN y = DOMAIN x /\ y.qre = q /\ y.sent = x.sent /\ y.ctrl = x.ctrl /\ y.max = x.max
      /\ y.off = x.off
  BY DEF Writer, Shape
<1> HIDE DEF y
<1>7. Left(y) = cap - 2
  <2>1. Left(y) = cap - 2 - 0
    BY <1>4, <1>5, <1>6, Zenon DEF Left, RecordLenSize
  <2> QED
    BY <1>3, <2>1
<1>8. Writing(y)
  <2>1. Shape(y)
    BY <1>5, <1>6 DEF Writer, Shape
  <2>2. Queue(y.ctrl) /\ Queue(y.max) /\ y.off \in Nat
    BY <1>6 DEF Writer
  <2>3. Row(y.qre.bytes) /\ y.qre.cap \in 0..(RecordLenSize + DefaultMaxRecordSize)
    BY <1>3, <1>4, <1>5, <1>6
  <2>4. y.qre.started = TRUE /\ y.qre.started \in BOOLEAN
    BY <1>5, <1>6, Zenon
  <2>5. Left(y) >= 0
    BY <1>3, <1>7
  <2>6. Writer(y)
    BY <2>1, <2>2, <2>3, <2>4, Zenon DEF Writer
  <2> QED
    BY <2>4, <2>5, <2>6, Zenon DEF Writing
<1>9. destlen >= Whole => Left(y) = DefaultMaxRecordSize
  BY <1>2, <1>3, <1>7
<1> QED
  BY <1>1, <1>5, <1>6, <1>8, <1>9

LEMMA SentSet ==
  ASSUME NEW x, Writing(x)
  PROVE  LET y == [x EXCEPT !.sent = TRUE] IN
         Writing(y) /\ y.qre = x.qre /\ y.off = x.off /\ Left(y) = Left(x)
<1> DEFINE y == [x EXCEPT !.sent = TRUE]
<1>1. Shape(x)
  BY DEF Writing, Writer
<1>2. /\ DOMAIN y = DOMAIN x /\ y.qre = x.qre /\ y.ctrl = x.ctrl /\ y.max = x.max /\ y.off = x.off
  BY <1>1 DEF Shape
<1> HIDE DEF y
<1>3. Left(y) = Left(x)
  BY <1>2, Zenon DEF Left
<1>4. Writing(y)
  BY <1>2, <1>3 DEF Writing, Writer, Shape
<1> QED
  BY <1>2, <1>3, <1>4 DEF y

\* A frame that fits is put.
LEMMA FramePut ==
  ASSUME NEW x, Writing(x), NEW fr, NEW e, Announces(e), e.len <= Left(x)
  PROVE  LET y == AddEncoded(x, fr, e) IN More(x, y) /\ y.qre.bytes # << >>
<1> DEFINE s == e.bytes
           log == Append(x.log, fr)
           y == WithBytes(x, x.qre.bytes \o s, log)
<1>1. AddEncoded(x, fr, e) = y
  BY Zenon DEF AddEncoded, WithBytes
<1>2. Row(s) /\ Len(s) <= Left(x) /\ Len(s) \in Nat \ {0}
  BY DEF Announces
<1> HIDE DEF s, log
<1>3. More(x, y) /\ Len(y.qre.bytes) = Len(x.qre.bytes) + Len(s)
  BY <1>2, BytesPut
<1> HIDE DEF y
<1>4. Len(x.qre.bytes) \in Nat /\ (y.qre.bytes = << >> <=> Len(y.qre.bytes) = 0)
  BY <1>3, WriterTypes DEF More, Writing
<1> QED
  BY <1>1, <1>2, <1>3, <1>4

\* A record is begun.
LEMMA BeginKeeps ==
  ASSUME NEW x, Between(x), NEW destlen \in Nat, destlen > RecordLenSize, Begin(x, destlen).ok
  PROVE  LET y == Begin(x, destlen).x IN
         /\ Writing(y) /\ y.off = x.off /\ Fresh(y, destlen)
         /\ x.qre.started => y = x /\ y.qre.bytes # << >>
<1> DEFINE s == Started(x, destlen)
           b == Begin(x, destlen)
<1>1. CASE x.qre.started
  <2>1. b.x = x
    BY <1>1, Zenon DEF Begin
  <2> QED
    BY <1>1, <2>1 DEF Between, Writing, Fresh
<1>2. CASE ~x.qre.started
  <2>1. Writing(s) /\ s.qre.bytes = << >> /\ s.off = x.off
        /\ (destlen >= Whole => Left(s) = DefaultMaxRecordSize)
    BY StartedIs DEF Between
  <2> HIDE DEF s
  <2>2. Len(s.qre.bytes) = 0 /\ DefaultMaxRecordSize >= 32
    BY <2>1, WriterTypes, RecordIsLong DEF Writing
  <2>3. CASE x.sent
    <3> DEFINE z == WriteCtrl(s)
    <3>1. b.x = z
      BY <1>2, <2>3, Zenon DEF Begin, s
    <3>2. /\ More(s, z)
          /\ Len(z.qre.bytes) = Len(s.qre.bytes) /\ Left(s) >= 32 => z.ctrl = << >> /\ z.max = << >>
      BY <2>1, CtrlPut
    <3> HIDE DEF z
    <3>3. z.qre.bytes = << >> => Len(z.qre.bytes) = 0 /\ Left(z) = Left(s)
      BY <2>1, <2>2, <3>2, WriterTypes DEF More, Writing
    <3>4. Fresh(z, destlen)
      BY <2>1, <2>2, <3>2, <3>3 DEF Fresh
    <3> QED
      BY <1>2, <2>1, <3>1, <3>2, <3>4 DEF More
  <2>4. CASE ~x.sent
    <3> DEFINE e == EncodeFrame(ParamsFr)
               a == AddEncoded(s, ParamsFr, e)
               t == [a EXCEPT !.sent = TRUE]
               z == WriteCtrl(t)
    <3>1. Fits(s, ParamsFr) /\ b.x = z
      BY <1>2, <2>4, Zenon DEF Begin, Add, s
    <3>2. Announces(e) /\ e.len <= Left(s)
      BY <3>1, ParamsFrLen DEF Fits
    <3> HIDE DEF e
    <3>3. More(s, a) /\ a.qre.bytes # << >>
      BY <2>1, <3>2, FramePut
    <3> HIDE DEF a
    <3>4. Writing(t) /\ t.qre = a.qre /\ t.off = a.off
      BY <3>3, SentSet DEF More
    <3> HIDE DEF t
    <3>5. More(t, z)
      BY <3>4, CtrlPut
    <3> HIDE DEF z
    <3>6. z.qre.bytes # << >>
      <4>1. /\ z.qre.bytes = << >> <=> Len(z.qre.bytes) = 0
            /\ t.qre.bytes = << >> <=> Len(t.qre.bytes) = 0
            /\ Len(z.qre.bytes) \in Nat /\ Len(t.qre.bytes) \in Nat
        BY <3>4, <3>5, WriterTypes DEF More, Writing
      <4> QED
        BY <3>3, <3>4, <3>5, <4>1 DEF More
    <3> QED
      BY <1>2, <2>1, <3>1, <3>3, <3>4, <3>5, <3>6 DEF More, Fresh
  <2> QED
    BY <2>3, <2>4
<1> QED
  BY <1>1, <1>2

\* The record of x ends.
Ended(x) == [x EXCEPT !.qre.started = FALSE, !.final = Len(x.log)]

LEMMA EndedIs ==
  ASSUME NEW x, Writing(x)
  PROVE  Between(Ended(x)) /\ Ended(x).ctrl = x.ctrl /\ Ended(x).max = x.max
<1> DEFINE q == [x.qre EXCEPT !.started = FALSE]
           n == Len(x.log)
           y == [x EXCEPT !.qre = q, !.final = n]
<1>1. Ended(x) = y
  BY Zenon DEF Ended
<1>2. Shape(x)
  BY DEF Writing, Writer
<1>3. q.started = FALSE /\ q.cap = x.qre.cap /\ q.bytes = x.qre.bytes /\ DOMAIN q = DOMAIN x.qre
  BY <1>2 DEF Shape
<1> HIDE DEF q, n
<1>4. /\ DOMAIN y = DOMAIN x /\ y.qre = q /\ y.ctrl = x.ctrl /\ y.max = x.max /\ y.off = x.off
  BY <1>2 DEF Shape
<1> HIDE DEF y
<1>5. Shape(y)
  BY <1>2, <1>3, <1>4 DEF Shape
<1>6. y.qre.started = FALSE
  BY <1>3, <1>4, Zenon
<1>7. Writer(y)
  <2>1. Writer(x)
    BY DEF Writing
  <2>2. y.qre.cap = x.qre.cap /\ y.qre.bytes = x.qre.bytes
    BY <1>3, <1>4, Zenon
  <2> QED
    BY <1>4, <1>5, <1>6, <2>1, <2>2, Zenon DEF Writer
<1> QED
  BY <1>1, <1>4, <1>6, <1>7, Zenon DEF Between

\* The records that callers were given.
Delivered(o) == Row(o) /\ \A i \in DOMAIN o : Len(o[i]) <= Whole

LEMMA RecordGiven ==
  ASSUME NEW x, Writing(x), NEW o, Delivered(o)
  PROVE  Delivered(Append(o, Record(x)))
<1> DEFINE r == Record(x)
           head == PutW(Len(x.qre.bytes), RecordLenSize)
           E(i) == ((Len(x.qre.bytes) \div Byte^(2 - i)) % Byte)
                     + IF i = 1 THEN (CASE 2 = 1 -> 0 [] 2 = 2 -> 1 [] 2 = 4 -> 2 [] 2 = 8 -> 3) * Base ELSE 0
<1>1. Row(head) /\ Len(head) = 2
  <2>1. head = [i \in 1..2 |-> E(i)]
    BY Zenon DEF PutW, RecordLenSize
  <2> HIDE DEF E
  <2>2. head = [i \in 1..2 |-> head[i]]
    BY <2>1
  <2> HIDE DEF head
  <2> QED
    BY <2>2, RowByElements
<1> HIDE DEF head
<1>2. Row(x.qre.bytes)
  BY DEF Writing, Writer
<1>3. Len(r) = 2 + Len(x.qre.bytes)
  BY <1>1, <1>2, RowConcat DEF Record, head
<1> HIDE DEF r
<1>4. Len(r) <= Whole
  <2>1. /\ Len(x.qre.bytes) \in Nat /\ x.qre.cap \in Nat /\ Left(x) >= 0
        /\ Left(x) = x.qre.cap - 2 - Len(x.qre.bytes)
    BY WriterTypes DEF Writing
  <2>2. x.qre.cap <= Whole /\ DefaultMaxRecordSize \in Nat
    BY RecordIsLong DEF Writing, Writer, Whole
  <2> QED
    BY <1>3, <2>1, <2>2 DEF Whole, RecordLenSize
<1>5. o \in Seq({o[i] : i \in DOMAIN o} \cup {r})
  <2>1. o \in Seq({o[i] : i \in DOMAIN o})
    BY DEF Delivered, Row
  <2> QED
    BY <2>1
<1> DEFINE S == {o[i] : i \in DOMAIN o} \cup {r}
<1>6. r \in S /\ \A e \in S : Len(e) <= Whole
  BY <1>4 DEF Delivered
<1> HIDE DEF S
<1>7. Append(o, r) \in Seq(S)
  BY <1>5, <1>6 DEF S
<1>8. \A i \in DOMAIN Append(o, r) : Append(o, r)[i] \in S
  BY <1>7
<1> QED
  BY <1>6, <1>7, <1>8, RowOf DEF Delivered, r

\* What holds between two calls.
WriterInv == Between(w) /\ Delivered(out) /\ ZeroMeansNothing

\* The record ends, and the call returns 0 only if nothing is left.
LEMMA FinishKeeps ==
  ASSUME WriterInv, NEW STATE x, Writing(x), NEW destlen \in Nat, Fresh(x, destlen),
         NEW offered, NEW accepted, Finish(x, destlen, offered, accepted),
         x.qre.bytes = << >> /\ destlen >= Whole => offered = "nothing" \/ accepted
  PROVE  WriterInv'
<1> DEFINE z == WriteMax(x)
<1>1. /\ w' = Ended(z)
      /\ out' = IF z.qre.bytes = << >> THEN out ELSE Append(out, Record(z))
      /\ call' = [destlen |-> destlen, offered |-> offered, accepted |-> accepted,
                  ret |-> IF z.qre.bytes = << >> THEN "0" ELSE "record"]
  BY Zenon DEF Finish, FinishWith, Ended
<1>2. /\ More(x, z) /\ z.ctrl = x.ctrl
      /\ Len(z.qre.bytes) = Len(x.qre.bytes) /\ Left(x) >= 32 => z.max = << >>
  BY MaxPut
<1> HIDE DEF z
<1>3. Writing(z)
  BY <1>2 DEF More
<1>4. Between(w') /\ w'.ctrl = z.ctrl /\ w'.max = z.max
  BY <1>1, <1>3, EndedIs
<1>5. Delivered(out')
  BY <1>1, <1>3, RecordGiven DEF WriterInv
<1>6. ASSUME call'.ret = "0", call'.destlen >= Whole
      PROVE  w'.ctrl = << >> /\ w'.max = << >> /\ (call'.offered # "nothing" => call'.accepted)
  <2>1. /\ call'.destlen = destlen /\ call'.offered = offered
        /\ call'.ret = IF z.qre.bytes = << >> THEN "0" ELSE "record"
    BY <1>1
  <2>2. call'.accepted = accepted
    BY <1>1, Zenon
  <2>3. z.qre.bytes = << >>
    BY <1>6, <2>1
  <2>4. Len(z.qre.bytes) = 0 /\ Len(x.qre.bytes) = 0 /\ x.qre.bytes = << >>
    <3>1. /\ Len(x.qre.bytes) \in Nat /\ (x.qre.bytes = << >> <=> Len(x.qre.bytes) = 0)
          /\ z.qre.bytes = << >> <=> Len(z.qre.bytes) = 0
      BY <1>3, WriterTypes DEF Writing
    <3> QED
      BY <1>2, <2>3, <3>1 DEF More
  <2>5. x.ctrl = << >> /\ x.max = << >> /\ Left(x) >= 32
    BY <1>6, <2>1, <2>4, RecordIsLong DEF Fresh
  <2>6. w'.ctrl = << >> /\ w'.max = << >>
    BY <1>2, <1>4, <2>4, <2>5
  <2>7. offered = "nothing" \/ accepted
    BY <1>6, <2>1, <2>4
  <2> QED
    BY <2>1, <2>2, <2>6, <2>7, Zenon
<1>7. ZeroMeansNothing'
  BY <1>6, Zenon DEF ZeroMeansNothing, NothingToSend, Whole
<1> QED
  BY <1>4, <1>5, <1>7, Zenon DEF WriterInv

\* The call returns something else.
LEMMA ReturnKeeps ==
  ASSUME WriterInv, NEW STATE x, Between(x), NEW destlen, NEW offered, NEW accepted, NEW ret,
         ret # "0", Return(x, destlen, offered, accepted, ret)
  PROVE  WriterInv'
<1>1. /\ w' = x /\ out' = out
      /\ call' = [destlen |-> destlen, offered |-> offered, accepted |-> accepted, ret |-> ret]
  BY Zenon DEF Return
<1>2. call'.ret # "0"
  BY <1>1
<1>3. ZeroMeansNothing'
  BY <1>2, Zenon DEF ZeroMeansNothing, NothingToSend
<1> QED
  BY <1>1, <1>3, Zenon DEF WriterInv

-----------------------------------------------------------------------------
(* dwnx_qre_stream_max_datalen is exact                                    *)

LEMMA StreamRoom ==
  ASSUME NEW left \in Nat, left <= DefaultMaxRecordSize, NEW id \in Nat, NEW off \in Nat,
         NEW len \in Nat
  PROVE  LET n == StreamMaxDatalen(left, id, off, len) IN
         /\ n = -1 => StreamSize(id, off, 0) > left
         /\ n # -1 => /\ n \in 0..len /\ StreamSize(id, off, n) <= left
                      /\ n < len => StreamSize(id, off, n + 1) > left
         /\ left >= 32 => n # -1 /\ (n = 0 => len = 0)
<1> DEFINE N == 1 + PutLen(id) + (IF off # 0 THEN PutLen(off) ELSE 0)
           room2 == left - N
           n == StreamMaxDatalen(left, id, off, len)
<1>1. N \in 1..17
  <2>1. PutLen(id) \in 1..8 /\ PutLen(off) \in 1..8
    BY PutIs
  <2> QED
    BY <2>1
<1> HIDE DEF N
<1>2. /\ Limit1 \in Nat /\ Limit1 >= 4 /\ Limit2 \in Nat /\ Limit1 < Limit2
      /\ DefaultMaxRecordSize = Limit2 - 2
  BY RecordIsLong DEF DefaultMaxRecordSize
<1>3. \A k : StreamSize(id, off, k) = N + PutLen(k) + k
  BY DEF StreamSize, N
<1>4. \A k \in Nat : /\ k < Limit1 => PutLen(k) = 1
                     /\ Limit1 <= k => PutLen(k) >= 2
                     /\ Limit1 <= k /\ k < Limit2 => PutLen(k) = 2
  BY <1>2 DEF PutLen
<1>5. n = IF left <= N THEN -1
          ELSE IF room2 > 2 + (Limit1 - 1) /\ len > Limit1 - 1
            THEN Lower(Lower(len, Limit2 - 1), room2 - 2)
          ELSE Lower(Lower(len, Limit1 - 1), room2 - 1)
  BY Zenon DEF StreamMaxDatalen, N
<1> HIDE DEF n
<1>6. CASE left <= N
  <2>1. n = -1 /\ ~(left >= 32)
    BY <1>1, <1>5, <1>6
  <2>2. StreamSize(id, off, 0) > left
    BY <1>1, <1>2, <1>3, <1>4, <1>6
  <2> QED
    BY <2>1, <2>2 DEF n
<1>7. CASE left > N /\ room2 > 2 + (Limit1 - 1) /\ len > Limit1 - 1
  <2>1. n = Lower(Lower(len, Limit2 - 1), room2 - 2)
    BY <1>1, <1>5, <1>7
  <2>2. room2 \in Nat /\ room2 = left - N /\ room2 <= Limit2 - 3
    BY <1>1, <1>2, <1>7
  <2> HIDE DEF room2
  <2>3. /\ n \in 0..len /\ n >= Limit1 /\ n < Limit2 /\ n <= room2 - 2
        /\ n < len => n = room2 - 2
    BY <1>2, <1>7, <2>1, <2>2 DEF Lower
  <2>4. StreamSize(id, off, n) <= left
    BY <1>1, <1>2, <1>3, <1>4, <2>2, <2>3
  <2>5. n < len => StreamSize(id, off, n + 1) > left
    <3>1. PutLen(n + 1) \in Nat /\ PutLen(n + 1) >= 2
      BY <1>2, <1>4, <2>3, PutIs
    <3> QED
      BY <1>1, <1>3, <2>2, <2>3, <3>1
  <2> QED
    BY <1>2, <2>3, <2>4, <2>5 DEF n
<1>8. CASE left > N /\ ~(room2 > 2 + (Limit1 - 1) /\ len > Limit1 - 1)
  <2>1. n = Lower(Lower(len, Limit1 - 1), room2 - 1)
    BY <1>1, <1>5, <1>8
  <2>2. room2 \in Nat /\ room2 = left - N /\ room2 > 0
    BY <1>1, <1>8
  <2>3. left >= 32 => room2 >= 15
    BY <1>1
  <2> HIDE DEF room2
  <2>4. /\ n \in 0..len /\ n < Limit1 /\ n <= room2 - 1
        /\ n < len => n = room2 - 1 \/ (n = Limit1 - 1 /\ room2 <= Limit1 + 1)
        /\ left >= 32 /\ n = 0 => len = 0
    BY <1>2, <1>8, <2>1, <2>2, <2>3 DEF Lower
  <2>5. StreamSize(id, off, n) <= left
    BY <1>1, <1>2, <1>3, <1>4, <2>2, <2>4
  <2>6. n < len => StreamSize(id, off, n + 1) > left
    <3>1. PutLen(n + 1) \in Nat /\ PutLen(n + 1) >= 1
      BY PutIs
    <3>2. n = Limit1 - 1 => PutLen(n + 1) >= 2
      BY <1>2, <1>4, <2>4
    <3> QED
      BY <1>1, <1>2, <1>3, <2>2, <2>4, <3>1, <3>2
  <2> QED
    BY <2>4, <2>5, <2>6 DEF n
<1> QED
  BY <1>1, <1>6, <1>7, <1>8

\* What the stream has written moves on.
LEMMA OffSet ==
  ASSUME NEW x, Writing(x), NEW n \in Nat, NEW last
  PROVE  LET y == [x EXCEPT !.off = @ + n, !.shut = last] IN Writing(y) /\ y.qre = x.qre
<1> DEFINE y == [x EXCEPT !.off = @ + n, !.shut = last]
<1>1. Shape(x) /\ x.off \in Nat
  BY DEF Writing, Writer
<1>2. /\ DOMAIN y = DOMAIN x /\ y.qre = x.qre /\ y.ctrl = x.ctrl /\ y.max = x.max
      /\ y.off = x.off + n
  BY <1>1 DEF Shape
<1> HIDE DEF y
<1>3. Left(y) = Left(x)
  BY <1>2, Zenon DEF Left
<1>4. Writing(y)
  <2>1. Shape(y) /\ y.off \in Nat
    BY <1>1, <1>2 DEF Shape
  <2>2. Writer(x) /\ x.qre.started /\ Left(x) >= 0
    BY DEF Writing
  <2>3. Writer(y)
    BY <1>2, <2>1, <2>2 DEF Writer
  <2> QED
    BY <1>2, <1>3, <2>2, <2>3 DEF Writing
<1> QED
  BY <1>2, <1>4 DEF y

-----------------------------------------------------------------------------
(* The steps                                                               *)

\* A frame was put into the record of x.
LEMMA AcceptedKeeps ==
  ASSUME WriterInv, NEW STATE x, Writing(x), x.qre.bytes # << >>, NEW destlen \in Nat, NEW offered,
         Accepted(x, destlen, offered)
  PROVE  WriterInv'
<1>1. CASE Left(x) > 0
  <2>1. Return(x, destlen, offered, TRUE, "WRITE_MORE")
    BY <1>1, Zenon DEF Accepted
  <2>2. Between(x) /\ "WRITE_MORE" # "0"
    BY DEF Writing, Between
  <2> QED
    BY <2>1, <2>2, ReturnKeeps
<1>2. CASE ~(Left(x) > 0)
  <2>1. Finish(x, destlen, offered, TRUE)
    BY <1>2, Zenon DEF Accepted
  <2>2. Fresh(x, destlen)
    BY DEF Fresh
  <2> QED
    BY <2>1, <2>2, FinishKeeps
<1> QED
  BY <1>1, <1>2

LEMMA ReadyView ==
  ASSUME NEW destlen \in DestLens, Ready(destlen)
  PROVE  destlen \in Nat /\ destlen > RecordLenSize
BY RecordWriterAssumption DEF Ready

\* No room for the transport parameters.
LEMMA NobufKeeps ==
  ASSUME WriterInv, NEW destlen, NEW offered, Return(w, destlen, offered, FALSE, "NOBUF")
  PROVE  WriterInv'
<1>1. Between(w) /\ "NOBUF" # "0"
  BY DEF WriterInv
<1> QED
  BY <1>1, ReturnKeeps

LEMMA WriteRecordKeeps ==
  ASSUME WriterInv, NEW destlen \in DestLens, WriteRecord(destlen)
  PROVE  WriterInv'
<1> DEFINE b == Begin(w, destlen)
<1>1. Ready(destlen) /\ RecordAfter(b, destlen)
  BY Zenon DEF WriteRecord
<1>2. destlen \in Nat /\ destlen > RecordLenSize
  BY <1>1, ReadyView
<1>3. CASE ~b.ok
  <2>1. Return(w, destlen, "nothing", FALSE, "NOBUF")
    BY <1>1, <1>3, Zenon DEF RecordAfter
  <2> QED
    BY <2>1, NobufKeeps
<1>4. CASE b.ok
  <2>1. Finish(b.x, destlen, "nothing", FALSE)
    BY <1>1, <1>4, Zenon DEF RecordAfter
  <2>2. Writing(b.x) /\ Fresh(b.x, destlen)
    BY <1>2, <1>4, BeginKeeps DEF WriterInv
  <2> HIDE DEF b
  <2> QED
    BY <1>2, <2>1, <2>2, FinishKeeps
<1> QED
  BY <1>3, <1>4

LEMMA WriteStreamKeeps ==
  ASSUME WriterInv, NEW destlen \in DestLens, NEW len \in WriteLens, NEW fin \in BOOLEAN,
         WriteStream(destlen, len, fin)
  PROVE  WriterInv'
<1> DEFINE b == Begin(w, destlen)
           n == StreamMaxDatalen(Left(b.x), StreamId, w.off, len)
           last == fin /\ n = len
           fr == StreamDataFr(StreamId, w.off, last, Piece(w.off, n))
           a == Add(b.x, fr)
           y == [a EXCEPT !.off = @ + n, !.shut = last]
<1>1. Ready(destlen) /\ StreamAfter(b, n, destlen, len, fin)
  BY Zenon DEF WriteStream, StreamBegun
<1>2. /\ destlen \in Nat /\ destlen > RecordLenSize /\ len \in Nat /\ StreamId \in Nat
      /\ Between(w) /\ w.off \in Nat
  BY <1>1, ReadyView, RecordWriterAssumption DEF WriterInv, Between, Writer
<1>3. CASE ~b.ok
  <2>1. Return(w, destlen, "stream", FALSE, "NOBUF")
    BY <1>1, <1>3, Zenon DEF StreamAfter
  <2> QED
    BY <2>1, NobufKeeps
<1>4. CASE b.ok
  <2>1. /\ Writing(b.x) /\ b.x.off = w.off /\ Fresh(b.x, destlen)
        /\ w.qre.started => b.x.qre.bytes # << >>
    BY <1>2, <1>4, BeginKeeps
  <2>2. IF ~Roomy(w, b.x) \/ n = -1 \/ (n = 0 /\ len # 0)
          THEN Finish(b.x, destlen, "stream", FALSE)
          ELSE Accepted(y, destlen, "stream")
    BY <1>1, <1>4, Zenon DEF StreamAfter
  <2> HIDE DEF b
  <2>3. Left(b.x) \in Nat /\ Left(b.x) <= DefaultMaxRecordSize
    <3>1. /\ Left(b.x) \in Int /\ Left(b.x) >= 0 /\ Len(b.x.qre.bytes) \in Nat
          /\ Left(b.x) <= DefaultMaxRecordSize - Len(b.x.qre.bytes) /\ DefaultMaxRecordSize \in Nat
      BY <2>1, WriterTypes, RecordIsLong DEF Writing
    <3> QED
      BY <3>1
  <2>4. /\ n # -1 => n \in Nat /\ StreamSize(StreamId, w.off, n) <= Left(b.x)
        /\ Left(b.x) >= 32 => n # -1 /\ (n = 0 => len = 0)
    BY <1>2, <2>3, StreamRoom
  <2> HIDE DEF n
  <2>5. CASE ~Roomy(w, b.x) \/ n = -1 \/ (n = 0 /\ len # 0)
    <3>1. Finish(b.x, destlen, "stream", FALSE)
      BY <2>2, <2>5, Zenon
    <3>2. ~(b.x.qre.bytes = << >> /\ destlen >= Whole)
      <4>1. SUFFICES ASSUME b.x.qre.bytes = << >>, destlen >= Whole
                     PROVE  FALSE
        OBVIOUS
      <4>2. b.x.ctrl = << >> /\ b.x.max = << >> /\ Left(b.x) >= 32
        BY <2>1, <4>1, RecordIsLong DEF Fresh
      <4> QED
        BY <2>4, <2>5, <4>2 DEF Roomy
    <3> QED
      BY <1>2, <2>1, <3>1, <3>2, FinishKeeps
  <2>6. CASE ~(~Roomy(w, b.x) \/ n = -1 \/ (n = 0 /\ len # 0))
    <3>1. Accepted(y, destlen, "stream") /\ n \in Nat
      BY <2>2, <2>4, <2>6, Zenon
    <3> HIDE DEF last
    <3>2. Row(Piece(w.off, n)) /\ Len(Piece(w.off, n)) = n
      BY <3>1, PieceIs
    <3> DEFINE e == EncodeFrame(fr)
    <3>3. Announces(e) /\ e.len <= Left(b.x)
      BY <1>2, <2>4, <2>6, <3>1, <3>2, StreamLen
    <3>4. a = AddEncoded(b.x, fr, e)
      BY Zenon DEF Add
    <3> HIDE DEF e, fr, a
    <3>5. More(b.x, a) /\ a.qre.bytes # << >>
      BY <2>1, <3>3, <3>4, FramePut
    <3>6. Writing(y) /\ y.qre = a.qre
      BY <3>1, <3>5, OffSet DEF More
    <3> HIDE DEF y
    <3> QED
      BY <1>2, <3>1, <3>5, <3>6, AcceptedKeeps
  <2> QED
    BY <2>5, <2>6
<1> QED
  BY <1>3, <1>4

LEMMA WriteDatagramKeeps ==
  ASSUME WriterInv, NEW destlen \in DestLens, NEW len \in WriteLens, WriteDatagram(destlen, len)
  PROVE  WriterInv'
<1> DEFINE b == Begin(w, destlen)
           fr == FrameOf(T.DATAGRAM_LEN, << >>, FALSE, Piece(0, len))
           e == EncodeFrame(fr)
           y == AddEncoded(b.x, fr, e)
<1>1. Ready(destlen) /\ DatagramAfter(b, destlen, fr, e)
  BY Zenon DEF WriteDatagram
<1>2. /\ destlen \in Nat /\ destlen > RecordLenSize /\ len \in Nat /\ MaxDatagramFrameSize \in Nat
      /\ Between(w)
  BY <1>1, ReadyView, RecordWriterAssumption DEF WriterInv
<1>3. CASE ~b.ok
  <2>1. Return(w, destlen, "datagram", FALSE, "NOBUF")
    BY <1>1, <1>3, Zenon DEF DatagramAfter
  <2> QED
    BY <2>1, NobufKeeps
<1>4. CASE b.ok
  <2>1. Writing(b.x) /\ Fresh(b.x, destlen)
    BY <1>2, <1>4, BeginKeeps
  <2>2. /\ e.len <= Lower(MaxDatagramFrameSize, DefaultMaxRecordSize)
        /\ IF ~Roomy(w, b.x) \/ e.len > Left(b.x) THEN Finish(b.x, destlen, "datagram", FALSE)
           ELSE Accepted(y, destlen, "datagram")
    BY <1>1, <1>4, Zenon DEF DatagramAfter
  <2> HIDE DEF b
  <2>3. Row(Piece(0, len)) /\ Len(Piece(0, len)) = len
    BY <1>2, PieceIs
  <2>4. Announces(e)
    BY <1>2, <2>3, DatagramLen
  <2> HIDE DEF fr, e
  <2>5. Left(b.x) \in Int /\ e.len \in Nat /\ e.len <= DefaultMaxRecordSize
    <3>1. Left(b.x) \in Int /\ DefaultMaxRecordSize \in Nat
      BY <2>1, WriterTypes, RecordIsLong DEF Writing
    <3> QED
      BY <1>2, <2>2, <2>4, <3>1 DEF Lower, Announces
  <2>6. CASE ~Roomy(w, b.x) \/ e.len > Left(b.x)
    <3>1. Finish(b.x, destlen, "datagram", FALSE)
      BY <2>2, <2>6, Zenon
    <3>2. ~(b.x.qre.bytes = << >> /\ destlen >= Whole)
      <4>1. SUFFICES ASSUME b.x.qre.bytes = << >>, destlen >= Whole
                     PROVE  FALSE
        OBVIOUS
      <4>2. b.x.ctrl = << >> /\ b.x.max = << >> /\ Left(b.x) = DefaultMaxRecordSize
        BY <2>1, <4>1 DEF Fresh
      <4> QED
        BY <2>5, <2>6, <4>2 DEF Roomy
    <3> QED
      BY <1>2, <2>1, <3>1, <3>2, FinishKeeps
  <2>7. CASE ~(~Roomy(w, b.x) \/ e.len > Left(b.x))
    <3>1. Accepted(y, destlen, "datagram")
      BY <2>2, <2>7, Zenon
    <3>2. e.len <= Left(b.x)
      BY <2>5, <2>7
    <3>3. More(b.x, y) /\ y.qre.bytes # << >>
      BY <2>1, <2>4, <3>2, FramePut
    <3> HIDE DEF y
    <3> QED
      BY <1>2, <3>1, <3>3, AcceptedKeeps DEF More
  <2> QED
    BY <2>6, <2>7
<1> QED
  BY <1>3, <1>4

-----------------------------------------------------------------------------
(* The invariant, and the theorems                                         *)

LEMMA WriterStarts == WriterInit => WriterInv
<1> SUFFICES ASSUME WriterInit
             PROVE  WriterInv
  OBVIOUS
<1>1. PICK c \in Waiting, m \in WaitingMax : w = NewWriter(c, m)
  BY DEF WriterInit
<1>2. out = << >> /\ call = NoCall
  BY DEF WriterInit
<1>3. Queue(c) /\ Queue(m)
  BY RecordWriterAssumption DEF Queue, Row
<1>4. Row(<< >>) /\ \A i \in DOMAIN << >> : FALSE
  <2>1. << >> \in Seq(Nat) /\ Len(<< >>) = 0
    OBVIOUS
  <2>2. Row(<< >>) /\ DOMAIN << >> = 1..Len(<< >>)
    BY <2>1, RowOf
  <2> QED
    BY <2>1, <2>2
<1> DEFINE q == [started |-> FALSE, cap |-> 0, bytes |-> << >>]
<1>5. q.started = FALSE /\ q.cap = 0 /\ q.bytes = << >> /\ DOMAIN q = {"started", "cap", "bytes"}
  OBVIOUS
<1>6. /\ DOMAIN w = {"qre", "sent", "ctrl", "max", "off", "shut", "log", "final"}
      /\ w.qre = q /\ w.ctrl = c /\ w.max = m /\ w.off = FirstOffset
  BY <1>1 DEF NewWriter
<1> HIDE DEF q
<1>7. Between(w)
  <2>1. w.qre.started = FALSE /\ w.qre.started \in BOOLEAN
    BY <1>5, <1>6, Zenon
  <2>2. w.off \in Nat /\ w.qre.cap \in 0..(RecordLenSize + DefaultMaxRecordSize)
    BY <1>5, <1>6, RecordWriterAssumption, RecordIsLong DEF RecordLenSize
  <2>3. Shape(w) /\ Row(w.qre.bytes) /\ Queue(w.ctrl) /\ Queue(w.max)
    BY <1>3, <1>4, <1>5, <1>6 DEF Shape
  <2> QED
    BY <2>1, <2>2, <2>3, Zenon DEF Between, Writer
<1>8. Delivered(out)
  BY <1>2, <1>4 DEF Delivered
<1>9. ZeroMeansNothing
  BY <1>2 DEF NoCall, ZeroMeansNothing, NothingToSend
<1> QED
  BY <1>7, <1>8, <1>9, Zenon DEF WriterInv

LEMMA WriterStep == WriterInv /\ [WriterNext]_writerVars => WriterInv'
<1> SUFFICES ASSUME WriterInv, [WriterNext]_writerVars
             PROVE  WriterInv'
  OBVIOUS
<1>1. ASSUME NEW destlen \in DestLens, WriteRecord(destlen)
      PROVE  WriterInv'
  BY <1>1, WriteRecordKeeps
<1>2. ASSUME NEW destlen \in DestLens, NEW len \in WriteLens, NEW fin \in BOOLEAN,
             WriteStream(destlen, len, fin)
      PROVE  WriterInv'
  BY <1>2, WriteStreamKeeps
<1>3. ASSUME NEW destlen \in DestLens, NEW len \in WriteLens, WriteDatagram(destlen, len)
      PROVE  WriterInv'
  BY <1>3, WriteDatagramKeeps
<1>4. CASE UNCHANGED writerVars
  <2>1. w' = w /\ out' = out /\ call' = call
    BY <1>4 DEF writerVars
  <2> QED
    BY <2>1 DEF WriterInv, ZeroMeansNothing, NothingToSend
<1> QED
  BY <1>1, <1>2, <1>3, <1>4, Zenon DEF WriterNext

LEMMA WriterInvariant == WriterSpec => []WriterInv
BY WriterStarts, WriterStep, PTL DEF WriterSpec

\* Then the record is filled, and not beyond its end.
LEMMA InvFilled == WriterInv => RecordFilled
<1> SUFFICES ASSUME WriterInv
             PROVE  RecordFilled
  OBVIOUS
<1>1. Between(w) /\ Delivered(out)
  BY DEF WriterInv
<1>2. RecordFits
  BY <1>1, Zenon DEF RecordFits, Between, Delivered, Whole
<1>3. ASSUME w.qre.started, NEW len \in WriteLens
      PROVE  LET Size(k) == EncodeFrame(StreamDataFr(StreamId, w.off, FALSE, Piece(0, k))).len
                 n == StreamMaxDatalen(Left(w), StreamId, w.off, len)
             IN  IF n = -1 THEN Size(0) > Left(w)
                 ELSE /\ n <= len /\ Size(n) <= Left(w)
                      /\ n < len => Size(n + 1) > Left(w)
  <2> DEFINE Size(k) == EncodeFrame(StreamDataFr(StreamId, w.off, FALSE, Piece(0, k))).len
             n == StreamMaxDatalen(Left(w), StreamId, w.off, len)
             left == Left(w)
  <2>1. len \in Nat /\ StreamId \in Nat /\ w.off \in Nat
    BY <1>1, RecordWriterAssumption DEF Between, Writer
  <2>2. ASSUME NEW k \in Nat
        PROVE  Size(k) = StreamSize(StreamId, w.off, k)
    <3>1. Row(Piece(0, k)) /\ Len(Piece(0, k)) = k
      BY PieceIs
    <3> DEFINE p == Piece(0, k)
               off == w.off
               last == FALSE
    <3>3. Row(p) /\ Len(p) \in Nat /\ off \in Nat
      BY <2>1, <3>1
    <3> HIDE DEF p, off, last
    <3>4. EncodeFrame(StreamDataFr(StreamId, off, last, p)).len = StreamSize(StreamId, off, Len(p))
      BY <2>1, <3>3, StreamLen
    <3>2. EncodeFrame(StreamDataFr(StreamId, w.off, FALSE, p)).len
            = StreamSize(StreamId, w.off, Len(p))
      BY <3>4, Zenon DEF off, last
    <3> QED
      BY <3>1, <3>2, Zenon DEF p
  <2>3. left \in Nat /\ left <= DefaultMaxRecordSize
    <3>1. /\ Left(w) \in Int /\ Left(w) >= 0 /\ Len(w.qre.bytes) \in Nat
          /\ Left(w) <= DefaultMaxRecordSize - Len(w.qre.bytes) /\ DefaultMaxRecordSize \in Nat
      BY <1>1, <1>3, WriterTypes, RecordIsLong DEF Between
    <3> QED
      BY <3>1
  <2>4. /\ n = -1 => StreamSize(StreamId, w.off, 0) > left
        /\ n # -1 => /\ n \in 0..len /\ StreamSize(StreamId, w.off, n) <= left
                     /\ n < len => StreamSize(StreamId, w.off, n + 1) > left
    BY <2>1, <2>3, StreamRoom
  <2> HIDE DEF n, Size
  <2>5. n = -1 => Size(0) > left
    BY <2>2, <2>4
  <2>6. n # -1 => n <= len /\ Size(n) <= left /\ (n < len => Size(n + 1) > left)
    BY <2>1, <2>2, <2>4
  <2>7. IF n = -1 THEN Size(0) > left
        ELSE n <= len /\ Size(n) <= left /\ (n < len => Size(n + 1) > left)
    BY <2>5, <2>6
  <2> QED
    BY <2>7 DEF n, Size
<1> QED
  BY <1>2, <1>3, Zenon DEF RecordFilled, TakesAllThatFits

\* dwnx_conn_write_vmsg fills a record to its end and not beyond, whatever waits
\* and whatever is offered, in a buffer of any size: no frame is put that does not
\* fit (dwnx_unreachable of dwnx_conn_write_stream_frame, assert(n < 16384) of
\* dwnx_put_uvarintw), and of a stream as much is taken as there is room for.
THEOREM RecordsAreFilled == WriterSpec => []RecordFilled
BY WriterInvariant, InvFilled, PTL

\* In a buffer as large as a record, dwnx_conn_write_vmsg returns 0 only when
\* no control frame waits and what was offered was taken.
THEOREM ZeroIsTheEnd == WriterSpec => []ZeroMeansNothing
<1>1. WriterInv => ZeroMeansNothing
  BY DEF WriterInv
<1> QED
  BY <1>1, WriterInvariant, PTL

=============================================================================
