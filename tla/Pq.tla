--------------------------------- MODULE Pq ---------------------------------
(***************************************************************************)
(* lib/dwnx_pq.c, the binary heap under the transmission queue.  An entry  *)
(* knows its index in the array, so that the stream it belongs to can be   *)
(* taken out of the middle when it is closed (dwnx_conn_close_stream).     *)
(***************************************************************************)
EXTENDS Integers, FiniteSets, Sequences

CONSTANTS
  Entries,    \* the entries: the streams' pe
  PqKey       \* PqKey[a]: what less compares, the stream's (cycle, stream_id)

ASSUME PqAssumption == PqKey \in [Entries -> Int]

VARIABLES
  pq,         \* pq.q: the array up to length; pq.index[a]: a->index
  queued      \* the entries a caller has pushed and not taken out

pqVars == <<pq, queued>>

BadIndex == -1             \* DWNX_PQ_BAD_INDEX

PqInit == pq = [q |-> << >>, index |-> [a \in Entries |-> BadIndex]] /\ queued = {}

-----------------------------------------------------------------------------

At(p, i) == p.q[i + 1]
Less(a, b) == PqKey[a] < PqKey[b]

\* Entry a is stored at index i.
Store(p, i, a) == [p EXCEPT !.q[i + 1] = a, !.index[a] = i]

Swap(p, i, j) == Store(Store(p, i, At(p, j)), j, At(p, i))

\* One turn of the loop of bubble_up, or of bubble_down: the entry at index t.i is
\* swapped with the one at index to, and the loop goes on there; when to is t.i,
\* the loop is left.
Turn(t, to) == IF to = t.i THEN t ELSE [p |-> Swap(t.p, to, t.i), i |-> to]

Parent(i) == (i - 1) \div 2
Above(p, i) == IF i > 0 /\ Less(At(p, i), At(p, Parent(i))) THEN Parent(i) ELSE i
TurnUp(t) == Turn(t, Above(t.p, t.i))

Smaller(p, j, k) == IF j < Len(p.q) /\ Less(At(p, j), At(p, k)) THEN j ELSE k
Under(p, i) == Smaller(p, 2 * i + 2, Smaller(p, 2 * i + 1, i))
TurnDown(t) == Turn(t, Under(t.p, t.i))

\* The loops: in as many turns as there are entries each comes to its end.
BubbleUp(p, i) ==
  LET up[n \in 0..Len(p.q)] == IF n = 0 THEN [p |-> p, i |-> i] ELSE TurnUp(up[n - 1]) IN
  up[Len(p.q)].p
BubbleDown(p, i) ==
  LET down[n \in 0..Len(p.q)] == IF n = 0 THEN [p |-> p, i |-> i] ELSE TurnDown(down[n - 1]) IN
  down[Len(p.q)].p

Pushed(p, a) ==
  BubbleUp([q |-> Append(p.q, a), index |-> [p.index EXCEPT ![a] = Len(p.q)]], Len(p.q))

\* The last entry moves to index i; the array gets shorter.
MoveLast(p, i) ==
  LET n == Len(p.q)  moved == Store(p, i, At(p, n - 1)) IN
  [moved EXCEPT !.q = SubSeq(@, 1, n - 1)]

WithoutTop(p) == IF Len(p.q) = 1 THEN MoveLast(p, 0) ELSE BubbleDown(MoveLast(p, 0), 0)

\* Mutant: the entry that fills the hole is only moved down.
RemovedDown(p, a) ==
  LET i == p.index[a] IN
  IF i = 0 THEN WithoutTop(p)
  ELSE IF i = Len(p.q) - 1 THEN [p EXCEPT !.q = SubSeq(@, 1, i)]
  ELSE BubbleDown(MoveLast(p, i), i)

\* The entry that fills the hole comes from another branch: it may have to
\* move up.
Removed(p, a) ==
  LET i == p.index[a]  moved == MoveLast(p, i) IN
  IF i = 0 THEN WithoutTop(p)
  ELSE IF i = Len(p.q) - 1 THEN [p EXCEPT !.q = SubSeq(@, 1, i)]
  ELSE IF Less(a, At(moved, i)) THEN BubbleDown(moved, i) ELSE BubbleUp(moved, i)

\* What the stream that is taken out has for an index: it is reset, or the
\* stream is freed and its successor starts with it.
Reset(p, a) == [p EXCEPT !.index[a] = BadIndex]

-----------------------------------------------------------------------------
(* The calls of the connection                                             *)

PushEntry(a) ==
  /\ pq.index[a] = BadIndex
  /\ pq' = Pushed(pq, a) /\ queued' = queued \cup {a}

PopEntry ==
  /\ pq.q # << >>
  /\ LET top == At(pq, 0) IN pq' = Reset(WithoutTop(pq), top) /\ queued' = queued \ {top}

RemoveEntry(a) ==
  /\ pq.index[a] # BadIndex
  /\ pq' = Reset(Removed(pq, a), a) /\ queued' = queued \ {a}

PqNext == PopEntry \/ \E a \in Entries : PushEntry(a) \/ RemoveEntry(a)

PqSpec == PqInit /\ [][PqNext]_pqVars

-----------------------------------------------------------------------------

\* The array holds the entries that were pushed, each where it says it is:
\* assert(pq->q[item->index] == item) of dwnx_pq_remove, and the test of
\* dwnx_strm_is_tx_queued.
IndexesRight ==
  /\ Len(pq.q) = Cardinality(queued)
  /\ \A a \in Entries :
       IF a \in queued THEN pq.index[a] \in 0..(Len(pq.q) - 1) /\ At(pq, pq.index[a]) = a
       ELSE pq.index[a] = BadIndex

\* The entry on top is a least one, whatever was pushed, popped and removed
\* before: streams write in the order of their ids (dwnx_pq_top).
TopIsLeast == pq.q # << >> => \A a \in queued : ~Less(a, At(pq, 0))

\* The queue is a heap of what was pushed and is not popped or removed
\* (dwnx_pq_push, dwnx_pq_pop, dwnx_pq_remove).
PqExact == IndexesRight /\ TopIsLeast
=============================================================================
