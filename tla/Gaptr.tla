------------------------------- MODULE Gaptr --------------------------------
(***************************************************************************)
(* lib/dwnx_gaptr.c, which records what has been pushed of a line of       *)
(* offsets by the ranges that have not, and lib/dwnx_idtr.c, which uses it *)
(* to remember the stream ids that were ever opened.  The skip list of the *)
(* ranges is the set of its keys, ordered by where they begin; an empty    *)
(* list stands for nothing pushed yet.                                     *)
(***************************************************************************)
EXTENDS Integers, FiniteSets

CONSTANTS
  LineEnd,    \* UINT64_MAX: offsets are 0..LineEnd-1
  MaxPush     \* bound: offsets are pushed below this

\* What is counted stays below the end of the line: ids of streams are varints.
ASSUME GaptrAssumption == LineEnd \in Nat \ {0} /\ MaxPush \in 0..(LineEnd - 1)

VARIABLES
  gaps,     \* the keys of gaptr->gap
  pushed    \* what a caller has pushed or dropped

gapVars == <<gaps, pushed>>

Span(b, e) == [begin |-> b, end |-> e]
Offsets(r) == r.begin..(r.end - 1)

Whole == Span(0, LineEnd)

\* gaptr_gap_init, at the first push.
Listed == IF gaps = {} THEN {Whole} ELSE gaps

GapInit == gaps = {} /\ pushed = {}

-----------------------------------------------------------------------------

Intersects(a, b) == a.begin < b.end /\ b.begin < a.end

\* dwnx_range_cut: what is left of k on both sides of q; a side that is empty
\* is not stored.
Cut(k, q) ==
  {r \in {Span(k.begin, IF q.begin > k.begin THEN q.begin ELSE k.begin),
          Span(IF q.end < k.end THEN q.end ELSE k.end, k.end)} : r.begin < r.end}

PushRange(q) ==
  UNION {IF Intersects(k, q) THEN Cut(k, q) ELSE {k} : k \in Listed}

Push(q) ==
  /\ gaps' = PushRange(q)
  /\ pushed' = pushed \cup Offsets(q)

\* Mutant: a gap that ends where q begins is found.
FirstNotBeforeTouching(q) ==
  CHOOSE k \in gaps : /\ k.end >= q.begin
                      /\ \A j \in gaps : j.end >= q.begin => k.begin <= j.begin

\* dwnx_ksl_lower_bound_search with the exclusive compare: the first gap that
\* does not end before q begins.
FirstNotBefore(q) ==
  CHOOSE k \in gaps : /\ k.end > q.begin
                      /\ \A j \in gaps : j.end > q.begin => k.begin <= j.begin

IsPushed(q) == gaps # {} /\ ~Intersects(FirstNotBefore(q), q)

FirstGapOffset ==
  IF gaps = {} THEN 0
  ELSE CHOOSE b \in {k.begin : k \in gaps} : \A k \in gaps : b <= k.begin

\* The last gap is never dropped: that would leave the empty list.
DropFirstGap ==
  /\ Cardinality(gaps) > 1
  /\ \E k \in gaps : /\ k.begin = FirstGapOffset
                     /\ gaps' = gaps \ {k}
                     /\ pushed' = pushed \cup Offsets(k)

-----------------------------------------------------------------------------
(* Stream ids: dwnx_idtr_open, false for DWNX_ERR_STREAM_IN_USE            *)

OpenId(id) ==
  /\ ~IsPushed(Span(id, id + 1))
  /\ Push(Span(id, id + 1))

GapNext ==
  \/ \E b \in 0..(MaxPush - 1), e \in 0..MaxPush : b < e /\ Push(Span(b, e))
  \/ \E id \in 0..(MaxPush - 1) : OpenId(id)
  \/ DropFirstGap

GapSpec == GapInit /\ [][GapNext]_gapVars

-----------------------------------------------------------------------------

\* The ranges are exactly what was not pushed, in as few pieces as possible:
\* none is empty and none touches another (dwnx_gaptr_push).
PiecesExact ==
  /\ \A k \in gaps : 0 <= k.begin /\ k.begin < k.end /\ k.end <= LineEnd
  /\ \A j, k \in gaps : j # k => j.end < k.begin \/ k.end < j.begin
  /\ UNION {Offsets(k) : k \in gaps} = (0..(LineEnd - 1)) \ pushed

\* dwnx_gaptr_is_pushed tells of a range whether all of it was pushed, so that
\* a stream id is opened once.
PushedExact ==
  \A b, e \in 0..MaxPush :
    b < e => (IsPushed(Span(b, e)) <=> Offsets(Span(b, e)) \subseteq pushed)

\* The first gap is the number of offsets pushed without a hole before them
\* (dwnx_gaptr_first_gap_offset).
FirstGapExact ==
  /\ 0..(FirstGapOffset - 1) \subseteq pushed
  /\ FirstGapOffset \notin pushed

\* The list of gaps says exactly which offsets were pushed, whoever asks it
\* (dwnx_gaptr_push, dwnx_gaptr_is_pushed, dwnx_gaptr_first_gap_offset).
GapsExact ==
  /\ gaps = {} => pushed = {}
  /\ gaps # {} => PiecesExact /\ PushedExact /\ FirstGapExact
=============================================================================
