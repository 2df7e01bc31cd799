--------------------------- MODULE HeapAllocator ---------------------------
(***************************************************************************)
(* The heap of the machine the back end targets: the operations malloc and *)
(* free of interpreter/src/memory.cpp.                                     *)
(*                                                                         *)
(* The interpreter keeps two ordered sets of blocks [first, second): the   *)
(* allocated ones and the freed ones.  malloc takes the first freed block  *)
(* that is large enough, in the order of the set, and puts the rest of it  *)
(* back, EVEN WHEN THE REST IS EMPTY; free gives a block back and merges   *)
(* it with the freed block before it and the one after it.                 *)
(*                                                                         *)
(* This module has the state and the two operations; the module Memory     *)
(* makes the whole memory of them.                                         *)
(***************************************************************************)
EXTENDS Integers, FiniteSets

CONSTANTS
  WORD,       \* unit of allocation in bytes (8 in the code)
  HEAP_MIN,   \* first address of the heap (20480)
  AddrSpace   \* number of addresses (2^64)

(* numeric_limits<uint64_t>::max() - 7, for words of eight bytes.          *)
HEAP_MAX == AddrSpace - WORD

ASSUME HeapAssumption ==
  /\ WORD \in Nat \ {0}
  /\ HEAP_MIN \in Nat
  /\ AddrSpace \in Nat
  /\ HEAP_MIN < HEAP_MAX
  /\ HEAP_MIN % WORD = 0
  /\ AddrSpace % WORD = 0

VARIABLES
  alloced,           \* the allocated blocks
  freed,             \* the freed blocks
  alloced_size,      \* bytes allocated now
  max_alloced_size   \* most bytes ever allocated at once

heapVars == <<alloced, freed, alloced_size, max_alloced_size>>

Block == [first : Int, second : Int]
block_t(lo, hi) == [first |-> lo, second |-> hi]

HeapInit ==
  /\ alloced = {}
  /\ freed = {block_t(HEAP_MIN, HEAP_MAX)}
  /\ alloced_size = 0
  /\ max_alloced_size = 0

(* The order of set<block_t>: lexicographic on pairs.                      *)
Before(b, c) ==
  \/ b.first < c.first
  \/ b.first = c.first /\ b.second < c.second

-----------------------------------------------------------------------------
(* malloc.                                                                 *)

(* Mutant of ValidSize: any size but 0 is accepted.                        *)
ValidSizeAnyLength(size) == size # 0

(* The size check of exec_malloc: not 0 and a multiple of the word.        *)
ValidSize(size) == size # 0 /\ size % WORD = 0

(* A freed block in which size bytes fit.                                  *)
Fits(b, size) == b.second - b.first >= size

(* b is the block the loop over freed stops at.                            *)
FirstFit(b, size) ==
  /\ b \in freed
  /\ Fits(b, size)
  /\ \A c \in freed : Fits(c, size) => c = b \/ Before(b, c)

NoFit(size) == \A b \in freed : ~Fits(b, size)

(* Mutants of TakeFrom: the block taken stays in freed; the peak is not    *)
(* kept.                                                                   *)
TakeFromNoErase(b, size) ==
  /\ freed' = freed \cup {block_t(b.first + size, b.second)}
  /\ alloced' = alloced \cup {block_t(b.first, b.first + size)}
  /\ alloced_size' = alloced_size + size
  /\ UNCHANGED max_alloced_size

TakeFromNoPeak(b, size) ==
  /\ freed' = (freed \ {b}) \cup {block_t(b.first + size, b.second)}
  /\ alloced' = alloced \cup {block_t(b.first, b.first + size)}
  /\ alloced_size' = alloced_size + size
  /\ UNCHANGED max_alloced_size

(* The effect of a successful exec_malloc that takes the freed block b.    *)
TakeFrom(b, size) ==
  /\ freed' = (freed \ {b}) \cup {block_t(b.first + size, b.second)}
  /\ alloced' = alloced \cup {block_t(b.first, b.first + size)}
  /\ alloced_size' = alloced_size + size
  /\ max_alloced_size' = IF max_alloced_size < alloced_size + size
                           THEN alloced_size + size
                           ELSE max_alloced_size

-----------------------------------------------------------------------------
(* free.                                                                   *)

(* Mutant of MergePrev: the empty rests of exact fits are not merged.      *)
MergePrevNonEmpty(b) == {p \in freed : p.second = b.first /\ p.first < p.second}

(* The freed block just before b in the set, when it ends where b starts.  *)
MergePrev(b) ==
  {p \in freed : /\ Before(p, b)
                 /\ \A q \in freed : Before(q, b) => q = p \/ Before(q, p)
                 /\ p.second = b.first}

(* Mutant of MergeNext: only the block before is merged.                   *)
MergeNextNever(b) == {}

(* freed.lower_bound(b), when it starts where b ends.                      *)
MergeNext(b) ==
  {n \in freed : /\ ~Before(n, b)
                 /\ \A q \in freed : ~Before(q, b) => q = n \/ Before(n, q)
                 /\ n.first = b.second}

(* Mutant of GiveBack: the neighbours are erased, but b is inserted as it  *)
(* was.                                                                    *)
GiveBackUnmerged(b) ==
  /\ alloced' = alloced \ {b}
  /\ freed' = (freed \ (MergePrev(b) \cup MergeNext(b))) \cup {b}
  /\ alloced_size' = alloced_size - (b.second - b.first)
  /\ UNCHANGED max_alloced_size

(* The effect of exec_free on the allocated block b: b and the neighbours  *)
(* it is merged with become one freed block.                               *)
GiveBack(b) ==
  LET neighbours == MergePrev(b) \cup MergeNext(b)
      merged == neighbours \cup {b}
  IN /\ alloced' = alloced \ {b}
     /\ \E lo, hi \in merged :
          /\ \A c \in merged : lo.first <= c.first /\ c.second <= hi.second
          /\ freed' = (freed \ neighbours) \cup {block_t(lo.first, hi.second)}
     /\ alloced_size' = alloced_size - (b.second - b.first)
     /\ UNCHANGED max_alloced_size

-----------------------------------------------------------------------------
(* What makes the allocator correct.                                       *)

Bytes(b) == b.first .. b.second - 1

(* Two blocks that share no byte; an empty block may not lie inside        *)
(* another one either.                                                     *)
Apart(b, c) == b.second <= c.first \/ c.second <= b.first

HeapTypeOK ==
  /\ alloced \subseteq Block
  /\ freed \subseteq Block
  /\ alloced_size \in Int
  /\ max_alloced_size \in Int

(* Every block lies in the heap; an allocated one is not empty.            *)
BlocksInHeap ==
  /\ \A b \in alloced : HEAP_MIN <= b.first /\ b.first < b.second /\ b.second <= HEAP_MAX
  /\ \A b \in freed : HEAP_MIN <= b.first /\ b.first <= b.second /\ b.second <= HEAP_MAX

(* Blocks start and end at multiples of the word.                          *)
BlocksAligned ==
  \A b \in alloced \cup freed : b.first % WORD = 0 /\ b.second % WORD = 0

(* malloc never hands out a byte that is in use: two blocks, allocated or  *)
(* freed, never overlap (memory.cpp:153-183 keeps alloced and freed apart  *)
(* only through the arithmetic on the block's ends).                       *)
BlocksDisjoint ==
  /\ \A b, c \in alloced : b # c => Apart(b, c)
  /\ \A b \in alloced, c \in freed : Apart(b, c)

(* No byte is ever lost: whatever was allocated, freed and merged, every   *)
(* address of the heap is in some block.                                   *)
NoByteLost ==
  \A a \in HEAP_MIN .. HEAP_MAX - 1 :
     \E b \in alloced \cup freed : b.first <= a /\ a < b.second

(* exec_free (memory.cpp:198-216) looks at one freed block on each side    *)
(* only.  That is enough: two freed blocks never touch, not even when one  *)
(* of them is the empty rest of an exact fit.                              *)
FullyCoalesced ==
  \A b, c \in freed : b # c => b.second < c.first \/ c.second < b.first

(* A malloc that fails (memory.cpp:181) fails for want of room: any stretch *)
(* of the heap that meets no allocated block lies in ONE freed block.      *)
NoLostRoom ==
  \A lo, hi \in HEAP_MIN .. HEAP_MAX :
    lo < hi /\ (\A b \in alloced : Apart(block_t(lo, hi), b)) =>
      \E c \in freed : c.first <= lo /\ hi <= c.second

(* The interpreter reports max_alloced_size as the peak of the heap; the   *)
(* counters agree with the blocks after any sequence of calls.             *)
Accounting ==
  /\ alloced_size = Cardinality(UNION {Bytes(b) : b \in alloced})
  /\ alloced_size <= max_alloced_size
  /\ max_alloced_size <= HEAP_MAX - HEAP_MIN

(* The empty blocks malloc leaves behind do not pile up: there is never    *)
(* more than one freed block more than there are allocated ones, so the    *)
(* linear search of malloc stays short.                                    *)
FewFragments == Cardinality(freed) <= Cardinality(alloced) + 1

=============================================================================
