------------------------------- MODULE Varint -------------------------------
(***************************************************************************)
(* Variable-length integers, lib/dwnx_conv.c.  A byte is 0..4*Base-1 and   *)
(* its two top bits tell the length, 1, 2, 4 or 8; Base is 64 in the code. *)
(***************************************************************************)
EXTENDS Integers, Sequences, SequencesExt

CONSTANT Base

ASSUME BaseAssumption == Base \in Nat \ {0, 1}

Byte == 4 * Base

\* The integers below which a varint has one, two and four bytes.
Limit1 == Base
Limit2 == Base * Byte
Limit4 == Base * Byte^3

\* The sums of the first integers of ns, and of all; the sequences of ss in a
\* row.
Totals(ns) == LET t[n \in 0..Len(ns)] == IF n = 0 THEN 0 ELSE t[n - 1] + ns[n] IN t
Total(ns) == Totals(ns)[Len(ns)]
Joined(ss) ==
  LET j[n \in 0..Len(ss)] == IF n = 0 THEN << >> ELSE j[n - 1] \o ss[n] IN j[Len(ss)]

\* dwnx_get_uvarintlen, from the first byte.
VarintLen(b) == 2^(b \div Base)

\* The integer that bytes s stand for, after acc; the first of a varint loses
\* its two top bits.
Value(acc, s) == FoldLeft(LAMBDA a, b : a * Byte + b, acc, s)
Unmarked(s) == [s EXCEPT ![1] = @ % Base]

\* dwnx_put_uvarintlen
PutLen(n) ==
  IF n < Limit1 THEN 1 ELSE IF n < Limit2 THEN 2 ELSE IF n < Limit4 THEN 4 ELSE 8

\* dwnx_put_uvarintw: n in w bytes, the length in the two top bits.
PutW(n, w) ==
  LET mark == CASE w = 1 -> 0 [] w = 2 -> 1 [] w = 4 -> 2 [] w = 8 -> 3 IN
  [i \in 1..w |-> ((n \div Byte^(w - i)) % Byte) + IF i = 1 THEN mark * Base ELSE 0]

\* dwnx_put_uvarint
Put(n) == PutW(n, PutLen(n))
=============================================================================
