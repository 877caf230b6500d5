-------------------------------- MODULE Pool --------------------------------
(***************************************************************************)
(* lib/dwnx_objalloc.h, dwnx_balloc.c and dwnx_opl.c, the pool from which  *)
(* the blocks of a skip list come: objects of one length are carved from   *)
(* memory blocks, and what is released is handed out again, the last one   *)
(* first.  An address is an offset in the memory that malloc returned.     *)
(* When malloc fails the pool stays as it is and the caller gets nothing.  *)
(***************************************************************************)
EXTENDS Integers, FiniteSets, SequencesExt

CONSTANTS
  Alignment,    \* 16, what an object is aligned to
  HeaderLen,    \* sizeof(dwnx_memblock_hd)
  ObjLens,      \* the lengths of objects that are tried
  PerBlock,     \* how many objects a block is made for: one, for a skip list
  MaxMemblocks  \* bound: the blocks that are allocated

ASSUME PoolAssumption ==
  /\ Alignment \in Nat \ {0} /\ HeaderLen \in Nat
  /\ ObjLens \subseteq Nat \ {0} /\ PerBlock \subseteq Nat \ {0}

VARIABLES
  pool,     \* dwnx_balloc: objlen, blklen, how each block is misaligned, and buf.last
  freed,    \* dwnx_opl: the objects that were released, the last one first
  lent      \* the objects that callers have

poolVars == <<pool, freed, lent>>

\* (n + 0xf) & ~0xf
AlignUp(n) == ((n + Alignment - 1) \div Alignment) * Alignment

\* Mutant: nothing is asked for to make up for the alignment.
MemblockLenExact(p) == HeaderLen + p.blklen

\* What dwnx_balloc_get asks malloc for.
MemblockLen(p) == HeaderLen + Alignment - 1 + p.blklen

\* Where the objects of a block begin, when malloc's address is m past a
\* multiple of the alignment.
BlockBegin(m) == AlignUp(m + HeaderLen) - m

\* A pool for objects of length len, n to a block, without a block.
NewPool(len, n) == [objlen |-> len, blklen |-> AlignUp(len) * n, blocks |-> << >>, last |-> 0]

PoolInit ==
  /\ \E len \in ObjLens, n \in PerBlock : pool = NewPool(len, n)
  /\ freed = << >> /\ lent = {}

\* dwnx_buf_left
BufLeft(p) ==
  IF p.blocks = << >> THEN 0 ELSE BlockBegin(p.blocks[Len(p.blocks)]) + p.blklen - p.last

\* The next object of the current block, and the pool without it.
NextObject(p) == [blk |-> Len(p.blocks), at |-> p.last]
Carved(p) == [p EXCEPT !.last = @ + AlignUp(p.objlen)]

WithMemblock(p, m) == [p EXCEPT !.blocks = Append(@, m), !.last = BlockBegin(m)]

\* dwnx_objalloc_get, when there is an object that was released ...
GetReleased ==
  /\ freed # << >>
  /\ lent' = lent \cup {Head(freed)} /\ freed' = Tail(freed)
  /\ UNCHANGED pool

\* ... and when there is none: dwnx_balloc_get.
GetCarved ==
  /\ freed = << >>
  /\ \E p \in IF BufLeft(pool) >= pool.objlen THEN {pool}
              ELSE {WithMemblock(pool, m) : m \in {k \in 0..(Alignment - 1) :
                                                     Len(pool.blocks) < MaxMemblocks}} :
       /\ pool' = Carved(p)
       /\ lent' = lent \cup {NextObject(p)}
  /\ UNCHANGED freed

\* dwnx_objalloc_release
Release ==
  /\ \E o \in lent : lent' = lent \ {o} /\ freed' = <<o>> \o freed
  /\ UNCHANGED pool

\* dwnx_objalloc_clear: the caller has dropped what it had.
PoolClear ==
  /\ pool' = [pool EXCEPT !.blocks = << >>, !.last = 0]
  /\ freed' = << >> /\ lent' = {}

PoolNext == GetReleased \/ GetCarved \/ Release \/ PoolClear

PoolSpec == PoolInit /\ [][PoolNext]_poolVars

-----------------------------------------------------------------------------

Objects == lent \cup ToSet(freed)

Apart(o, q) ==
  o.blk # q.blk \/ o.at + pool.objlen <= q.at \/ q.at + pool.objlen <= o.at

\* Every object is aligned, between the header and the end of its block, and
\* shares no byte with another, lent or released; and memory is only asked for
\* when all of it is lent, so that what was carved is what the two lists hold
\* (dwnx_balloc_get, dwnx_objalloc_get, dwnx_objalloc_release).
PoolExact ==
  /\ \A o \in Objects :
       /\ (pool.blocks[o.blk] + o.at) % Alignment = 0
       /\ HeaderLen <= o.at /\ o.at + pool.objlen <= MemblockLen(pool)
       /\ \A q \in Objects \ {o} : Apart(o, q)
  /\ Cardinality(lent) + Len(freed) = Cardinality(Objects)
  /\ Cardinality(Objects) * AlignUp(pool.objlen) + BufLeft(pool) = Len(pool.blocks) * pool.blklen
=============================================================================
