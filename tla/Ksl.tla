--------------------------------- MODULE Ksl ---------------------------------
(***************************************************************************)
(* lib/dwnx_ksl.c, the B+ tree of blocks that holds the ranges of a gaptr: *)
(* blocks split and merge on the way down, leaves are linked to both       *)
(* sides, and the key over a block is only its greatest when it was last   *)
(* set, for a removal leaves it behind.  Keys are numbers; the ranges in   *)
(* one list are disjoint, and compare as where they begin.                 *)
(***************************************************************************)
EXTENDS Integers, FiniteSets, Functions, SequencesExt

CONSTANTS
  Degree,     \* DWNX_KSL_DEGR
  KslKeys     \* the keys

ASSUME KslAssumption == Degree \in Nat \ {0, 1} /\ KslKeys \subseteq Nat \ {0}

VARIABLES
  ksl,        \* the list: root, front, back and its blocks by id
  listed      \* the keys a caller has inserted and not removed

kslVars == <<ksl, listed>>

MaxNblk == 2 * Degree
MinNblk == Degree

Null == 0
EmptyList == [root |-> Null, front |-> Null, back |-> Null, blk |-> << >>]

KslInit == ksl = EmptyList /\ listed = {}

-----------------------------------------------------------------------------
(* Blocks                                                                  *)

KeysOf(t, b) == t.blk[b].keys
Size(t, b) == Len(KeysOf(t, b))
GreatestKey(t, b) == KeysOf(t, b)[Size(t, b)]

FirstOf(s, n) == SubSeq(s, 1, IF n < Len(s) THEN n ELSE Len(s))

\* ksl_blk_objalloc_new
NewBlk(t) == CHOOSE b \in 1..(Cardinality(DOMAIN t.blk) + 1) : b \notin DOMAIN t.blk

WithBlk(t, b, x) == [t EXCEPT !.blk = (b :> x) @@ @]
WithoutBlk(t, b) == [t EXCEPT !.blk = Restrict(@, DOMAIN @ \ {b})]
SetKey(t, b, i, k) == [t EXCEPT !.blk[b].keys[i] = k]

\* The search of a block: the first key that is not less than k.
SearchBlk(t, b, k) ==
  CHOOSE i \in 1..(Size(t, b) + 1) :
    /\ i <= Size(t, b) => KeysOf(t, b)[i] >= k
    /\ \A j \in 1..(i - 1) : KeysOf(t, b)[j] < k

\* Block b is followed by next, where old was or the end; new is before next.
LinkNext(t, b, next, old, new) ==
  LET u == [t EXCEPT !.blk[b].next = next] IN
  IF next # Null THEN [u EXCEPT !.blk[next].prev = new]
  ELSE IF u.back = old THEN [u EXCEPT !.back = new] ELSE u

SplitBlk(t, b) ==
  LET x == t.blk[b]  r == NewBlk(t)
      h == Len(x.keys) - Len(x.keys) \div 2
      Lower(s) == FirstOf(s, h)
      Upper(s) == SubSeq(s, h + 1, Len(s))
      u == WithBlk(WithBlk(t, b, [x EXCEPT !.keys = Lower(@), !.nodes = Lower(@), !.next = r]),
                   r, [x EXCEPT !.keys = Upper(@), !.nodes = Upper(@), !.prev = b])
  IN  LinkNext(u, r, x.next, b, r)

SplitNode(t, b, i) ==
  LET l == t.blk[b].nodes[i]  u == SplitBlk(t, l) IN
  [u EXCEPT !.blk[b].keys = InsertAt(@, i, GreatestKey(u, l)),
            !.blk[b].nodes = InsertAt(@, i + 1, NewBlk(t))]

SplitRoot(t) ==
  LET l == t.root  r == NewBlk(t)  u == SplitBlk(t, l) IN
  [WithBlk(u, NewBlk(u), [leaf |-> FALSE, nodes |-> <<l, r>>, next |-> Null, prev |-> Null,
                          keys |-> <<GreatestKey(u, l), GreatestKey(u, r)>>])
     EXCEPT !.root = NewBlk(u)]

\* ksl_remove_node, with the node of an inner block
RemoveNode(t, b, i) ==
  [t EXCEPT !.blk[b].keys = RemoveAt(@, i),
            !.blk[b].nodes = IF t.blk[b].leaf THEN @ ELSE RemoveAt(@, i)]

\* Mutant: the key over the merged block is left as it was.
MergeNodeKeepsKey(t, b, i) ==
  LET l == t.blk[b].nodes[i]  r == t.blk[b].nodes[i + 1]
      u == LinkNext([t EXCEPT !.blk[l].keys = @ \o KeysOf(t, r),
                              !.blk[l].nodes = @ \o t.blk[r].nodes],
                    l, t.blk[r].next, r, l)
  IN  IF t.root = b /\ Size(t, b) = 2
        THEN WithoutBlk(WithoutBlk([u EXCEPT !.root = l], r), b)
        ELSE RemoveNode(WithoutBlk(u, r), b, i + 1)

MergeNode(t, b, i) ==
  LET l == t.blk[b].nodes[i]  r == t.blk[b].nodes[i + 1]
      u == LinkNext([t EXCEPT !.blk[l].keys = @ \o KeysOf(t, r),
                              !.blk[l].nodes = @ \o t.blk[r].nodes],
                    l, t.blk[r].next, r, l)
  IN  IF t.root = b /\ Size(t, b) = 2
        THEN WithoutBlk(WithoutBlk([u EXCEPT !.root = l], r), b)
        ELSE SetKey(RemoveNode(WithoutBlk(u, r), b, i + 1), b, i, GreatestKey(u, l))

\* ksl_shift_left, ksl_shift_right: the blocks under keys i and i + 1 of b get
\* n and the rest of the nodes of both.
Balance(t, b, i, n) ==
  LET l == t.blk[b].nodes[i]  r == t.blk[b].nodes[i + 1]
      Both(f) == t.blk[l][f] \o t.blk[r][f]
      u == [t EXCEPT !.blk[l].keys = FirstOf(Both("keys"), n),
                     !.blk[l].nodes = FirstOf(Both("nodes"), n),
                     !.blk[r].keys = SubSeq(Both("keys"), n + 1, Len(Both("keys"))),
                     !.blk[r].nodes = SubSeq(Both("nodes"), n + 1, Len(Both("nodes")))]
  IN  SetKey(u, b, i, GreatestKey(u, l))

ShiftLeft(t, b, i) ==
  LET l == t.blk[b].nodes[i]  r == t.blk[b].nodes[i + 1] IN
  Balance(t, b, i, (Size(t, l) + Size(t, r) + 1) \div 2)

ShiftRight(t, b, i) ==
  LET l == t.blk[b].nodes[i]  r == t.blk[b].nodes[i + 1] IN
  Balance(t, b, i, (Size(t, l) + Size(t, r)) \div 2)

-----------------------------------------------------------------------------
(* Operations return the list, whether they were refused, and an iterator  *)

It(b, i) == [blk |-> b, i |-> i]

\* The place i of leaf b, or the first of the next leaf when b ends before it.
Place0(t, b, i) ==
  IF i > Size(t, b) /\ t.blk[b].next # Null THEN It(t.blk[b].next, 1) ELSE It(b, i)

EndIt(t) == IF t.root = Null THEN It(Null, 1) ELSE It(t.back, Size(t, t.back) + 1)

AtEnd(t, it) == it.blk = Null \/ it.i > Size(t, it.blk)

Done(t, it) == [list |-> t, ok |-> TRUE, it |-> it]
NotDone(t) == [list |-> t, ok |-> FALSE, it |-> EndIt(t)]

InsertNode(t, b, i, k) == Done([t EXCEPT !.blk[b].keys = InsertAt(@, i, k)], It(b, i))

\* A key greater than any in the subtree of b.
RECURSIVE InsertLast(_, _, _)
InsertLast(t, b, k) ==
  LET n == Size(t, b)
      u == IF Size(t, t.blk[b].nodes[n]) = MaxNblk THEN SplitNode(t, b, n) ELSE t
      m == Size(u, b)
  IN
  IF t.blk[b].leaf THEN InsertNode(t, b, n + 1, k)
  ELSE InsertLast(SetKey(u, b, m, k), u.blk[b].nodes[m], k)

RECURSIVE InsertUnder(_, _, _)
InsertUnder(t, b, k) ==
  LET i == SearchBlk(t, b, k)
      full == Size(t, t.blk[b].nodes[i]) = MaxNblk
      u == IF full THEN SplitNode(t, b, i) ELSE t
  IN
  IF t.blk[b].leaf
    THEN IF i <= Size(t, b) /\ KeysOf(t, b)[i] = k THEN NotDone(t) ELSE InsertNode(t, b, i, k)
  ELSE IF i > Size(t, b) THEN InsertLast(t, b, k)
  ELSE InsertUnder(u, u.blk[b].nodes[IF full /\ KeysOf(u, b)[i] < k THEN i + 1 ELSE i], k)

\* dwnx_ksl_insert
KslInsert(t, k) ==
  LET u == IF t.root # Null THEN t
           ELSE [root |-> 1, front |-> 1, back |-> 1,
                 blk |-> 1 :> [leaf |-> TRUE, keys |-> << >>, nodes |-> << >>,
                               next |-> Null, prev |-> Null]]
      v == IF Size(u, u.root) = MaxNblk THEN SplitRoot(u) ELSE u
  IN  InsertUnder(v, v.root, k)

\* Before it goes into a child with MinNblk nodes, the child takes nodes from a
\* neighbour that has more, or is merged with one.
RECURSIVE RemoveUnder(_, _, _)
RemoveUnder(t, b, k) ==
  LET i == SearchBlk(t, b, k)
      child == t.blk[b].nodes[i]
      Spare(j) == j \in 1..Size(t, b) /\ Size(t, t.blk[b].nodes[j]) > MinNblk
      left == IF i < Size(t, b) THEN i ELSE i - 1
      after == RemoveNode(t, b, i)
  IN
  IF i > Size(t, b) THEN NotDone(t)
  ELSE IF t.blk[b].leaf
    THEN IF KeysOf(t, b)[i] # k THEN NotDone(t) ELSE Done(after, Place0(after, b, i))
  ELSE IF Spare(i) THEN RemoveUnder(t, child, k)
  ELSE IF Spare(i + 1) THEN RemoveUnder(ShiftLeft(t, b, i), child, k)
  ELSE IF Spare(i - 1) THEN RemoveUnder(ShiftRight(t, b, i - 1), child, k)
  ELSE RemoveUnder(MergeNode(t, b, left), t.blk[b].nodes[left], k)

\* dwnx_ksl_remove: two children of the least size become the root first.
KslRemove(t, k) ==
  LET b == t.root
      l == t.blk[b].nodes[1]
      low == /\ ~t.blk[b].leaf /\ Size(t, b) = 2
             /\ Size(t, l) = MinNblk /\ Size(t, t.blk[b].nodes[2]) = MinNblk
  IN
  IF b = Null THEN NotDone(t)
  ELSE IF low THEN RemoveUnder(MergeNode(t, b, 1), l, k) ELSE RemoveUnder(t, b, k)

\* dwnx_ksl_remove_hint
RemoveHint(t, it) ==
  LET after == RemoveNode(t, it.blk, it.i) IN
  IF it.blk # t.root /\ Size(t, it.blk) = MinNblk
    THEN KslRemove(t, KeysOf(t, it.blk)[it.i])
    ELSE Done(after, Place0(after, it.blk, it.i))

RECURSIVE LastLeaf(_, _)
LastLeaf(t, b) == IF t.blk[b].leaf THEN b ELSE LastLeaf(t, t.blk[b].nodes[Size(t, b)])

RECURSIVE LowerBoundUnder(_, _, _)
LowerBoundUnder(t, b, k) ==
  LET i == SearchBlk(t, b, k)  leaf == LastLeaf(t, b) IN
  IF t.blk[b].leaf THEN Place0(t, b, i)
  ELSE IF i > Size(t, b) THEN Place0(t, leaf, Size(t, leaf) + 1)
  ELSE LowerBoundUnder(t, t.blk[b].nodes[i], k)

\* dwnx_ksl_lower_bound_search
LowerBound(t, k) == IF t.root = Null THEN It(Null, 1) ELSE LowerBoundUnder(t, t.root, k)

\* The key over a block is raised when it was the old one, or is less than the
\* new one.
RECURSIVE UpdateUnder(_, _, _, _)
UpdateUnder(t, b, old, new) ==
  LET i == SearchBlk(t, b, old)  key == KeysOf(t, b)[i]
      u == IF key = old \/ key < new THEN SetKey(t, b, i, new) ELSE t
  IN
  IF t.blk[b].leaf THEN SetKey(t, b, i, new) ELSE UpdateUnder(u, t.blk[b].nodes[i], old, new)

UpdateKey(t, old, new) == UpdateUnder(t, t.root, old, new)

\* dwnx_ksl_it_next
ItNext(t, it) == Place0(t, it.blk, it.i + 1)

-----------------------------------------------------------------------------

Insert1(k) ==
  LET x == KslInsert(ksl, k) IN
  /\ ksl' = x.list
  /\ listed' = IF x.ok THEN listed \cup {k} ELSE listed

Remove1(k) ==
  LET x == KslRemove(ksl, k) IN
  /\ ksl' = x.list
  /\ listed' = IF x.ok THEN listed \ {k} ELSE listed

\* dwnx_gaptr_push removes the key at an iterator that it has.
RemoveAtHint(k) ==
  /\ k \in listed
  /\ ksl' = RemoveHint(ksl, LowerBound(ksl, k)).list
  /\ listed' = listed \ {k}

\* A range is cut at its left: it begins later, and before the next.
Update(old, new) ==
  /\ old \in listed /\ old < new
  /\ \A k \in listed : k <= old \/ new < k
  /\ ksl' = UpdateKey(ksl, old, new)
  /\ listed' = (listed \ {old}) \cup {new}

ClearList == ksl # EmptyList /\ ksl' = EmptyList /\ listed' = {}

KslNext ==
  \/ \E k \in KslKeys : Insert1(k) \/ Remove1(k) \/ RemoveAtHint(k)
  \/ \E old, new \in KslKeys : Update(old, new)
  \/ ClearList

-----------------------------------------------------------------------------

\* The least key that is not less than k, or Null.
NotBelow(S, k) ==
  LET above == {j \in S : j >= k} IN
  IF above = {} THEN Null ELSE CHOOSE j \in above : \A i \in above : j <= i

KeyAt(t, it) == IF AtEnd(t, it) THEN Null ELSE KeysOf(t, it.blk)[it.i]

RECURSIVE Forward(_, _)
Forward(t, b) == IF b = Null THEN << >> ELSE KeysOf(t, b) \o Forward(t, t.blk[b].next)
RECURSIVE Backward(_, _)
Backward(t, b) == IF b = Null THEN << >> ELSE Backward(t, t.blk[b].prev) \o KeysOf(t, b)

\* Whatever keys removals have left over the blocks, every key is found, the
\* iterator of a key that is not there is at the next one, and the leaves walked
\* either way are the keys in order (dwnx_ksl_lower_bound_search, next, prev).
KslFinds ==
  LET order == Forward(ksl, ksl.front) IN
  /\ \A k \in KslKeys : KeyAt(ksl, LowerBound(ksl, k)) = NotBelow(listed, k)
  /\ ToSet(order) = listed /\ \A i \in DOMAIN order : i > 1 => order[i - 1] < order[i]
  /\ Backward(ksl, ksl.back) = order

\* After an insertion or a removal, splits and merges on its way included, the
\* iterator is at the key, or at the one that followed it; what is refused is a
\* key that is there, or is not (the it of dwnx_ksl_insert, remove, remove_hint).
KslIterators ==
  \A k \in KslKeys :
    LET in == KslInsert(ksl, k)  out == KslRemove(ksl, k)
        hinted == RemoveHint(ksl, LowerBound(ksl, k))
        next == NotBelow(listed \ {k}, k)
    IN
    /\ in.ok <=> k \notin listed
    /\ KeyAt(in.list, in.it) = IF in.ok THEN k ELSE Null
    /\ in.ok => KeyAt(in.list, ItNext(in.list, in.it)) = next
    /\ out.ok <=> k \in listed
    /\ KeyAt(out.list, out.it) = IF out.ok THEN next ELSE Null
    /\ k \in listed => KeyAt(hinted.list, hinted.it) = next

RECURSIVE Depth(_, _)
Depth(t, b) == IF t.blk[b].leaf THEN 0 ELSE 1 + Depth(t, t.blk[b].nodes[1])

\* Every block but the root has MinNblk to MaxNblk nodes, as the assertions of
\* split, merge and shift need, and every leaf is as deep as the others.
KslBalanced ==
  \A b \in DOMAIN ksl.blk :
    /\ b # ksl.root => Size(ksl, b) \in MinNblk..MaxNblk
    /\ Size(ksl, b) <= MaxNblk
    /\ ~ksl.blk[b].leaf =>
         /\ Len(ksl.blk[b].nodes) = Size(ksl, b)
         /\ \A x \in ToSet(ksl.blk[b].nodes) : Depth(ksl, x) = Depth(ksl, b) - 1
=============================================================================
