------------------------------ MODULE HashMap -------------------------------
(***************************************************************************)
(* lib/dwnx_map.c, the hash map of a connection's streams: open addressing *)
(* in which a key that is further from home takes the slot of one that is  *)
(* nearer (Robin Hood), deletion that shifts the followers back, and a     *)
(* table that doubles at a load of 7/8.                                    *)
(***************************************************************************)
EXTENDS Integers, FiniteSets

CONSTANTS
  Keys,           \* stream ids
  HashBits,       \* bits of a hash, 64 in the code
  Hash,           \* Hash[k]: the finalizer of MurmurHash3
  InitialBits     \* DWNX_INITIAL_HASHBITS

ASSUME HashMapAssumption ==
  /\ HashBits \in Nat /\ InitialBits \in 1..HashBits
  /\ Hash \in [Keys -> 0..(2^HashBits - 1)]

VARIABLES
  map,       \* bits: map->hashbits; size; slot[i]: key and psl, 0 if it is free
  present    \* the keys a caller has inserted and not removed

mapVars == <<map, present>>

Free == [key |-> 0, psl |-> 0]

Table(bits) == [bits |-> bits, size |-> 0, slot |-> [i \in 0..(2^bits - 1) |-> Free]]

\* Before the first insertion there is no table (map->hashbits is 0).
MapInit == map = Table(0) /\ present = {}

-----------------------------------------------------------------------------

\* The home of a key is given by the top bits of its hash.
Home(m, k) == Hash[k] \div 2^(HashBits - m.bits)

After(m, i) == (i + 1) % 2^m.bits

\* map_insert from slot i on; e is the key with its distance from home plus
\* one.  A key that is there already leaves the table as it is.
RECURSIVE Settle(_, _, _)
Settle(m, i, e) ==
  LET here == m.slot[i]
      Next(x) == [x EXCEPT !.psl = @ + 1]
  IN
  IF here.psl = 0 THEN [m EXCEPT !.slot[i] = e, !.size = @ + 1]
  ELSE IF e.psl > here.psl THEN Settle([m EXCEPT !.slot[i] = e], After(m, i), Next(here))
  ELSE IF here.key = e.key THEN m
  ELSE Settle(m, After(m, i), Next(e))

Insert(m, k) == Settle(m, Home(m, k), [key |-> k, psl |-> 1])

\* map_resize visits the slots in order.
RECURSIVE Moved(_, _, _)
Moved(m, i, new) ==
  IF i = 2^m.bits THEN new
  ELSE Moved(m, i + 1, IF m.slot[i].psl = 0 THEN new ELSE Insert(new, m.slot[i].key))

Resize(m) == Moved(m, 0, Table(IF m.bits = 0 THEN InitialBits ELSE m.bits + 1))

Crowded(m) == m.size + 1 >= 2^m.bits - 2^m.bits \div 8

\* dwnx_map_insert: the table grows before it is known whether the key is new.
Inserted(m, k) == Insert(IF Crowded(m) THEN Resize(m) ELSE m, k)

\* The slot in which k is found, looking from slot i on; {} if a key nearer to
\* its home is met.
RECURSIVE Search(_, _, _, _)
Search(m, k, i, psl) ==
  IF psl > m.slot[i].psl THEN {}
  ELSE IF m.slot[i].key = k THEN {i}
  ELSE Search(m, k, After(m, i), psl + 1)

Find(m, k) == IF m.size = 0 THEN {} ELSE Search(m, k, Home(m, k), 1)

\* Mutant: the slot is freed and its followers stay.
ShiftNone(m, i) == [m EXCEPT !.slot[i] = Free]

\* The slots after i are shifted back up to one that is free or at home.
RECURSIVE Shift(_, _)
Shift(m, i) ==
  LET next == m.slot[After(m, i)] IN
  IF next.psl <= 1 THEN [m EXCEPT !.slot[i] = Free]
  ELSE Shift([m EXCEPT !.slot[i] = [next EXCEPT !.psl = @ - 1]], After(m, i))

\* dwnx_map_remove; a key that is not there leaves the table as it is.
Deleted(m, k) ==
  IF Find(m, k) = {} THEN m
  ELSE [Shift(m, CHOOSE i \in Find(m, k) : TRUE) EXCEPT !.size = @ - 1]

-----------------------------------------------------------------------------

InsertKey(k) == map' = Inserted(map, k) /\ present' = present \cup {k}

RemoveKey(k) == map' = Deleted(map, k) /\ present' = present \ {k}

\* dwnx_map_clear
Clear ==
  /\ map' = [map EXCEPT !.size = 0, !.slot = [i \in DOMAIN @ |-> Free]]
  /\ present' = {}

\* bound: the table does not outgrow the hash.
MapNext ==
  \/ \E k \in Keys : RemoveKey(k) \/ (map.bits < HashBits /\ InsertKey(k))
  \/ Clear

-----------------------------------------------------------------------------

\* A key is found exactly when it was inserted and not removed since, whatever
\* collided with it: a stream is never lost, and none comes back
\* (dwnx_map_find).
FindsPresent ==
  /\ map.size = Cardinality(present)
  /\ \A k \in Keys : Find(map, k) # {} <=> k \in present

\* Probes are as short as they can be: every key is as far from home as its
\* slot says, and no key is passed over by one nearer to its home, so that a
\* search that meets such a one may stop.
RobinHood ==
  \A i \in DOMAIN map.slot : LET e == map.slot[i] IN
    e.psl > 0 =>
      /\ (Home(map, e.key) + e.psl - 1) % 2^map.bits = i
      /\ map.slot[After(map, i)].psl <= e.psl + 1
=============================================================================
