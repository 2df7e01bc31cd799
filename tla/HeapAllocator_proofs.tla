------------------------ MODULE HeapAllocator_proofs ------------------------
(***************************************************************************)
(* Proofs about malloc and free, for every size of the heap and of the     *)
(* word: what the two operations keep true, whoever calls them.            *)
(***************************************************************************)
EXTENDS HeapAllocator, FiniteSetTheorems, TLAPS

(* The inductive invariant.  free merges the freed block it returns with   *)
(* the one on each side only; FullyCoalesced is what makes that enough,    *)
(* and it needs BlocksDisjoint, which needs BlocksInHeap.                  *)
HeapInv ==
  /\ HeapTypeOK
  /\ BlocksInHeap
  /\ BlocksDisjoint
  /\ NoByteLost
  /\ FullyCoalesced

LEMMA HeapBounds == HEAP_MIN \in Int /\ HEAP_MAX \in Int /\ HEAP_MIN < HEAP_MAX
BY HeapAssumption DEF HEAP_MAX

LEMMA InitHeapInv == HeapInit => HeapInv
<1> SUFFICES ASSUME HeapInit PROVE HeapInv
  OBVIOUS
<1> USE HeapBounds DEF HeapInit, block_t
<1>1. HeapTypeOK
  BY DEF HeapTypeOK, Block
<1>2. BlocksInHeap
  BY DEF BlocksInHeap
<1>3. BlocksDisjoint
  BY DEF BlocksDisjoint
<1>4. NoByteLost
  BY DEF NoByteLost
<1>5. FullyCoalesced
  BY DEF FullyCoalesced
<1> QED BY <1>1, <1>2, <1>3, <1>4, <1>5 DEF HeapInv

(* malloc: the block it cuts off and the rest, empty or not, replace the   *)
(* freed block they are cut from.                                          *)
LEMMA MallocHeapInv ==
  ASSUME HeapInv, NEW size \in Nat, size # 0,
         NEW b \in freed, FirstFit(b, size), TakeFrom(b, size)
  PROVE  HeapInv'
<1> DEFINE new  == block_t(b.first, b.first + size)
           rest == block_t(b.first + size, b.second)
<1>0. /\ alloced' = alloced \cup {new}
      /\ freed' = (freed \ {b}) \cup {rest}
  BY DEF TakeFrom
<1>1. /\ b.first \in Int /\ b.second \in Int
      /\ HEAP_MIN <= b.first /\ b.second <= HEAP_MAX
      /\ b.first + size <= b.second /\ size > 0
  BY HeapBounds DEF HeapInv, HeapTypeOK, Block, BlocksInHeap, FirstFit, Fits
<1>2. /\ new \in Block /\ new.first = b.first /\ new.second = b.first + size
      /\ rest \in Block /\ rest.first = b.first + size /\ rest.second = b.second
  BY <1>1 DEF block_t, Block
<1> HIDE DEF new, rest
<1>3. \A c \in alloced \cup freed : c.first \in Int /\ c.second \in Int
  BY DEF HeapInv, HeapTypeOK, Block
<1>4. HeapTypeOK'
  BY <1>0, <1>1, <1>2 DEF HeapInv, HeapTypeOK, TakeFrom
<1>5. BlocksInHeap'
  BY <1>0, <1>1, <1>2, HeapBounds DEF HeapInv, BlocksInHeap
<1>6. BlocksDisjoint'
  <2>1. \A c \in alloced : Apart(new, c) /\ Apart(c, new) /\ Apart(c, rest)
    BY <1>1, <1>2, <1>3 DEF HeapInv, BlocksDisjoint, BlocksInHeap, Apart
  <2>2. \A c \in freed \ {b} : Apart(new, c)
    BY <1>1, <1>2, <1>3 DEF HeapInv, FullyCoalesced, BlocksInHeap, Apart
  <2>3. Apart(new, rest)
    BY <1>1, <1>2 DEF Apart
  <2> QED BY <1>0, <2>1, <2>2, <2>3 DEF HeapInv, BlocksDisjoint
<1>7. NoByteLost'
  <2> SUFFICES ASSUME NEW a \in HEAP_MIN .. HEAP_MAX - 1
               PROVE  \E c \in (alloced \cup freed)' : c.first <= a /\ a < c.second
    BY DEF NoByteLost
  <2>1. PICK c \in alloced \cup freed : c.first <= a /\ a < c.second
    BY DEF HeapInv, NoByteLost
  <2>2. CASE c # b
    BY <2>1, <2>2, <1>0
  <2>3. CASE c = b
    <3>1. \/ new.first <= a /\ a < new.second
          \/ rest.first <= a /\ a < rest.second
      BY <2>1, <2>3, <1>1, <1>2, HeapBounds
    <3> QED BY <3>1, <1>0
  <2> QED BY <2>2, <2>3
<1>8. FullyCoalesced'
  <2>1. \A c \in freed \ {b} : rest.second < c.first \/ c.second < rest.first
    BY <1>1, <1>2, <1>3 DEF HeapInv, FullyCoalesced, BlocksInHeap
  <2> QED BY <1>0, <2>1 DEF HeapInv, FullyCoalesced
<1> QED BY <1>4, <1>5, <1>6, <1>7, <1>8 DEF HeapInv

(* The blocks free merges with are all the freed blocks that touch the one *)
(* it gives back: the search by lower_bound misses none.                   *)
LEMMA MergePrevIsAll ==
  ASSUME HeapInv, NEW b \in alloced
  PROVE  MergePrev(b) = {p \in freed : p.second = b.first}
<1>1. /\ b.first \in Int /\ b.second \in Int /\ b.first < b.second
      /\ \A c \in freed : c.first \in Int /\ c.second \in Int /\ c.first <= c.second
  BY HeapBounds DEF HeapInv, HeapTypeOK, Block, BlocksInHeap
<1>2. ASSUME NEW p \in freed, p.second = b.first
      PROVE  /\ Before(p, b)
             /\ \A q \in freed : Before(q, b) => q = p \/ Before(q, p)
  <2>1. Before(p, b)
    BY <1>1, <1>2 DEF Before
  <2>2. ASSUME NEW q \in freed, Before(q, b), q # p
        PROVE  Before(q, p)
    <3>1. q.second < p.first \/ p.second < q.first
      BY <2>2 DEF HeapInv, FullyCoalesced
    <3> QED BY <1>1, <1>2, <2>2, <3>1 DEF Before
  <2> QED BY <2>1, <2>2
<1> QED BY <1>2 DEF MergePrev

LEMMA MergeNextIsAll ==
  ASSUME HeapInv, NEW b \in alloced
  PROVE  MergeNext(b) = {n \in freed : n.first = b.second}
<1>1. /\ b.first \in Int /\ b.second \in Int /\ b.first < b.second
      /\ \A c \in freed : c.first \in Int /\ c.second \in Int /\ c.first <= c.second
  BY HeapBounds DEF HeapInv, HeapTypeOK, Block, BlocksInHeap
<1>2. ASSUME NEW n \in freed, n.first = b.second
      PROVE  /\ ~Before(n, b)
             /\ \A q \in freed : ~Before(q, b) => q = n \/ Before(n, q)
  <2>1. ~Before(n, b)
    BY <1>1, <1>2 DEF Before
  <2>2. ASSUME NEW q \in freed, ~Before(q, b), q # n
        PROVE  Before(n, q)
    <3>1. q.second < n.first \/ n.second < q.first
      BY <2>2 DEF HeapInv, FullyCoalesced
    <3>2. b.second <= q.first \/ q.second <= b.first
      BY DEF HeapInv, BlocksDisjoint, Apart
    <3> QED BY <1>1, <1>2, <2>2, <3>1, <3>2 DEF Before
  <2> QED BY <2>1, <2>2
<1> QED BY <1>2 DEF MergeNext

(* free: the block and the freed blocks that touch it become one.          *)
LEMMA FreeHeapInv ==
  ASSUME HeapInv, NEW b \in alloced, GiveBack(b)
  PROVE  HeapInv'
<1> DEFINE neighbours == MergePrev(b) \cup MergeNext(b)
           merged == neighbours \cup {b}
<1>1. PICK lo \in merged, hi \in merged :
        /\ \A c \in merged : lo.first <= c.first /\ c.second <= hi.second
        /\ freed' = (freed \ neighbours) \cup {block_t(lo.first, hi.second)}
  BY DEF GiveBack
<1> DEFINE m == block_t(lo.first, hi.second)
<1>2. /\ alloced' = alloced \ {b}
      /\ freed' = (freed \ neighbours) \cup {m}
  BY <1>1 DEF GiveBack
<1>3. \A c \in freed : c \in neighbours <=> c.second = b.first \/ c.first = b.second
  BY MergePrevIsAll, MergeNextIsAll
<1>4. \A c \in alloced \cup freed : /\ c.first \in Int /\ c.second \in Int
                                   /\ HEAP_MIN <= c.first /\ c.first <= c.second
                                   /\ c.second <= HEAP_MAX
  BY HeapBounds DEF HeapInv, HeapTypeOK, Block, BlocksInHeap
<1>5. \A c \in alloced : c.first < c.second
  BY DEF HeapInv, BlocksInHeap
<1>6. neighbours \subseteq freed
  BY DEF MergePrev, MergeNext
<1> HIDE DEF neighbours
<1>7. lo = b \/ (lo \in freed /\ lo.second = b.first)
  BY <1>1, <1>3, <1>4, <1>5, <1>6
<1>8. hi = b \/ (hi \in freed /\ hi.first = b.second)
  BY <1>1, <1>3, <1>4, <1>5, <1>6
<1>9. /\ m \in Block /\ m.first = lo.first /\ m.second = hi.second
      /\ m.first \in Int /\ m.second \in Int
      /\ HEAP_MIN <= m.first /\ m.first < m.second /\ m.second <= HEAP_MAX
      /\ m.first <= b.first /\ b.second <= m.second
  BY <1>1, <1>4, <1>5, <1>7, <1>8, HeapBounds DEF block_t, Block
<1> HIDE DEF m
<1>10. HeapTypeOK'
  BY <1>2, <1>4, <1>9 DEF HeapInv, HeapTypeOK, GiveBack
<1>11. BlocksInHeap'
  BY <1>2, <1>9, HeapBounds DEF HeapInv, BlocksInHeap
<1>12. BlocksDisjoint'
  <2>1. ASSUME NEW a \in alloced \ {b} PROVE Apart(a, m)
    <3>1. \A c \in freed : a.second <= c.first \/ c.second <= a.first
      BY DEF HeapInv, BlocksDisjoint, Apart
    <3>2. a.second <= b.first \/ b.second <= a.first
      BY DEF HeapInv, BlocksDisjoint, Apart
    <3>3. a.first \in Int /\ a.second \in Int /\ a.first < a.second
      BY <1>4, <1>5
    <3>4. CASE a.second <= b.first
      BY <1>4, <1>5, <1>7, <1>9, <3>1, <3>3, <3>4 DEF Apart
    <3>5. CASE b.second <= a.first
      BY <1>4, <1>5, <1>8, <1>9, <3>1, <3>3, <3>5 DEF Apart
    <3> QED BY <3>2, <3>4, <3>5
  <2> QED BY <1>2, <2>1 DEF HeapInv, BlocksDisjoint
<1>13. NoByteLost'
  <2> SUFFICES ASSUME NEW a \in HEAP_MIN .. HEAP_MAX - 1
               PROVE  \E c \in (alloced \cup freed)' : c.first <= a /\ a < c.second
    BY DEF NoByteLost
  <2>1. PICK c \in alloced \cup freed : c.first <= a /\ a < c.second
    BY DEF HeapInv, NoByteLost
  <2>2. CASE c \notin merged
    BY <1>2, <2>1, <2>2
  <2>3. CASE c \in merged
    <3>1. m.first <= a /\ a < m.second
      BY <1>1, <1>4, <1>9, <2>1, <2>3, HeapBounds
    <3> QED BY <1>2, <3>1
  <2> QED BY <2>2, <2>3
<1>14. FullyCoalesced'
  <2>1. ASSUME NEW c \in freed \ neighbours
        PROVE  c.second < m.first \/ m.second < c.first
    <3>1. c.second # b.first /\ c.first # b.second
      BY <1>3
    <3>2. b.second <= c.first \/ c.second <= b.first
      BY DEF HeapInv, BlocksDisjoint, Apart
    <3>3. \A d \in freed : d # c => c.second < d.first \/ d.second < c.first
      BY DEF HeapInv, FullyCoalesced
    <3>4. CASE c.second <= b.first
      BY <1>3, <1>4, <1>7, <1>9, <3>1, <3>3, <3>4
    <3>5. CASE b.second <= c.first
      BY <1>3, <1>4, <1>8, <1>9, <3>1, <3>3, <3>5
    <3> QED BY <3>2, <3>4, <3>5
  <2> QED BY <1>2, <2>1 DEF HeapInv, FullyCoalesced
<1> QED BY <1>10, <1>11, <1>12, <1>13, <1>14 DEF HeapInv

-----------------------------------------------------------------------------
(* A malloc that fails leaves no room unused.  A stretch that meets no      *)
(* allocated block starts in a freed block; if that block ended before the *)
(* stretch does, the freed block that holds its next byte would touch it.  *)
LEMMA HeapInvNoLostRoom == HeapInv => NoLostRoom
<1> SUFFICES ASSUME HeapInv,
                    NEW lo \in HEAP_MIN .. HEAP_MAX, NEW hi \in HEAP_MIN .. HEAP_MAX,
                    lo < hi, \A b \in alloced : Apart(block_t(lo, hi), b)
             PROVE  \E c \in freed : c.first <= lo /\ hi <= c.second
  BY DEF NoLostRoom
<1>1. \A c \in alloced \cup freed : c.first \in Int /\ c.second \in Int /\ c.first <= c.second
  BY HeapBounds DEF HeapInv, HeapTypeOK, Block, BlocksInHeap
<1>2. ASSUME NEW a \in lo .. hi - 1
      PROVE  \E c \in freed : c.first <= a /\ a < c.second
  <2>1. PICK c \in alloced \cup freed : c.first <= a /\ a < c.second
    BY HeapBounds DEF HeapInv, NoByteLost
  <2>2. c \notin alloced
    BY <1>1, <2>1, HeapBounds DEF Apart, block_t
  <2> QED BY <2>1, <2>2
<1>3. PICK c \in freed : c.first <= lo /\ lo < c.second
  BY <1>2, HeapBounds
<1>4. ASSUME c.second < hi PROVE FALSE
  <2>1. PICK d \in freed : d.first <= c.second /\ c.second < d.second
    BY <1>1, <1>2, <1>3, <1>4, HeapBounds
  <2>2. c.second < d.first \/ d.second < c.first
    BY <1>1, <2>1 DEF HeapInv, FullyCoalesced
  <2> QED BY <1>1, <1>3, <2>1, <2>2
<1> QED BY <1>1, <1>3, <1>4, HeapBounds

-----------------------------------------------------------------------------
(* The counters.                                                           *)

UsedBytes == UNION {Bytes(b) : b \in alloced}

(* The sets of blocks are finite, because each operation adds at most one  *)
(* block to each.                                                          *)
CountInv ==
  /\ Accounting
  /\ IsFiniteSet(alloced)
  /\ IsFiniteSet(freed)

LEMMA InitCountInv == HeapInit => CountInv
<1> SUFFICES ASSUME HeapInit PROVE CountInv
  OBVIOUS
<1>1. UNION {Bytes(b) : b \in alloced} = {}
  BY DEF HeapInit
<1>2. Accounting
  BY <1>1, FS_EmptySet, HeapBounds DEF HeapInit, Accounting
<1> QED
  BY <1>2, FS_EmptySet, FS_Singleton DEF HeapInit, CountInv

(* The bytes of blocks of the heap are finitely many, no more than it has. *)
LEMMA HeapBytesFinite ==
  ASSUME NEW A,
         \A b \in A : b.first \in Int /\ b.second \in Int /\ HEAP_MIN <= b.first /\ b.second <= HEAP_MAX
  PROVE  LET S == UNION {Bytes(b) : b \in A}
         IN IsFiniteSet(S) /\ Cardinality(S) \in Nat /\ Cardinality(S) <= HEAP_MAX - HEAP_MIN
<1> DEFINE H == HEAP_MIN .. HEAP_MAX - 1
           S == UNION {Bytes(b) : b \in A}
<1>1. IsFiniteSet(H) /\ Cardinality(H) = HEAP_MAX - HEAP_MIN
  BY HeapBounds, FS_Interval
<1>2. S \subseteq H
  <2>1. \A b \in A : Bytes(b) \subseteq H
    BY HeapBounds DEF Bytes
  <2> QED
    BY <2>1
<1> HIDE DEF H, S
<1>3. IsFiniteSet(S) /\ Cardinality(S) \in Nat /\ Cardinality(S) <= HEAP_MAX - HEAP_MIN
  BY <1>1, <1>2, FS_Subset, FS_CardinalityType
<1> QED
  BY <1>3 DEF S

LEMMA BlockBytes ==
  ASSUME NEW b, b.first \in Int, b.second \in Int, b.first <= b.second
  PROVE  IsFiniteSet(Bytes(b)) /\ Cardinality(Bytes(b)) = b.second - b.first
<1>1. PICK lo, hi : lo = b.first /\ hi = b.second - 1
  OBVIOUS
<1>2. lo \in Int /\ hi \in Int /\ lo <= hi + 1
  BY <1>1
<1>3. IsFiniteSet(lo .. hi) /\ Cardinality(lo .. hi) = IF lo > hi THEN 0 ELSE hi - lo + 1
  BY <1>2, FS_Interval
<1>4. Cardinality(lo .. hi) = hi - lo + 1
  BY <1>2, <1>3
<1> QED
  BY <1>1, <1>3, <1>4 DEF Bytes

(* The bytes of two sets that have none in common.                         *)
LEMMA BytesAdd ==
  ASSUME NEW S, NEW T, IsFiniteSet(S), IsFiniteSet(T), S \cap T = {}
  PROVE  /\ Cardinality(S \cup T) = Cardinality(S) + Cardinality(T)
         /\ Cardinality(S) \in Nat /\ Cardinality(T) \in Nat
<1>1. Cardinality(S \cap T) = 0
  BY FS_EmptySet
<1>2. Cardinality(S) \in Nat /\ Cardinality(T) \in Nat
  BY FS_CardinalityType
<1>3. Cardinality(S \cup T) = Cardinality(S) + Cardinality(T) - Cardinality(S \cap T)
  BY FS_Union
<1> QED
  BY <1>1, <1>2, <1>3

LEMMA MallocCountInv ==
  ASSUME HeapInv, CountInv, NEW size \in Nat, size # 0,
         NEW b \in freed, FirstFit(b, size), TakeFrom(b, size)
  PROVE  CountInv'
<1> DEFINE new  == block_t(b.first, b.first + size)
           rest == block_t(b.first + size, b.second)
<1>1. alloced' = alloced \cup {new} /\ freed' = (freed \ {b}) \cup {rest}
  BY DEF TakeFrom
<1>2. /\ b.first \in Int /\ b.second \in Int /\ b.first + size <= b.second
      /\ new.first = b.first /\ new.second = b.first + size
  BY DEF HeapInv, HeapTypeOK, Block, FirstFit, Fits, block_t
<1>3. IsFiniteSet(alloced') /\ IsFiniteSet(freed')
  BY <1>1, FS_AddElement, FS_RemoveElement DEF CountInv
<1> HIDE DEF new, rest
<1>4. IsFiniteSet(Bytes(new)) /\ Cardinality(Bytes(new)) = size
  BY <1>2, BlockBytes
<1>5. Bytes(new) \cap UsedBytes = {}
  <2>1. ASSUME NEW c \in alloced PROVE Bytes(new) \cap Bytes(c) = {}
    <3>1. c.second <= b.first \/ b.second <= c.first
      BY DEF HeapInv, BlocksDisjoint, Apart
    <3>2. c.first \in Int /\ c.second \in Int
      BY DEF HeapInv, HeapTypeOK, Block
    <3> QED
      BY <1>2, <3>1, <3>2 DEF Bytes
  <2> QED
    BY <2>1 DEF UsedBytes
<1>6. UsedBytes' = UsedBytes \cup Bytes(new)
  BY <1>1 DEF UsedBytes, Bytes
<1>7. /\ IsFiniteSet(UsedBytes)
      /\ Cardinality(UsedBytes) = alloced_size
  <2>1. \A c \in alloced : c.first \in Int /\ c.second \in Int /\ HEAP_MIN <= c.first /\ c.second <= HEAP_MAX
    BY DEF HeapInv, HeapTypeOK, Block, BlocksInHeap
  <2> QED
    BY <2>1, HeapBytesFinite DEF UsedBytes, CountInv, Accounting
<1>8. Cardinality(UsedBytes') = alloced_size + size
  BY <1>4, <1>5, <1>6, <1>7, BytesAdd
<1>9. Cardinality(UsedBytes') <= HEAP_MAX - HEAP_MIN
  <2>1. HeapInv'
    BY MallocHeapInv
  <2>2. \A c \in alloced' :
          c.first \in Int /\ c.second \in Int /\ HEAP_MIN <= c.first /\ c.second <= HEAP_MAX
    BY <2>1 DEF HeapInv, HeapTypeOK, Block, BlocksInHeap, HEAP_MAX
  <2> QED
    BY <2>2, HeapBytesFinite DEF UsedBytes, Bytes
<1>10. Accounting'
  BY <1>8, <1>9, HeapBounds DEF HeapInv, HeapTypeOK, CountInv, Accounting, UsedBytes, TakeFrom, HEAP_MAX
<1> QED
  BY <1>3, <1>10 DEF CountInv

LEMMA FreeCountInv ==
  ASSUME HeapInv, CountInv, NEW b \in alloced, GiveBack(b)
  PROVE  CountInv'
<1>1. PICK m : /\ alloced' = alloced \ {b}
               /\ freed' = (freed \ (MergePrev(b) \cup MergeNext(b))) \cup {m}
               /\ alloced_size' = alloced_size - (b.second - b.first)
               /\ UNCHANGED max_alloced_size
  BY DEF GiveBack
<1>2. IsFiniteSet(alloced') /\ IsFiniteSet(freed')
  <2>1. IsFiniteSet(freed \ (MergePrev(b) \cup MergeNext(b)))
    BY FS_Difference DEF CountInv
  <2> QED
    BY <1>1, <2>1, FS_AddElement, FS_RemoveElement DEF CountInv
<1>3. b.first \in Int /\ b.second \in Int /\ b.first < b.second
  BY DEF HeapInv, HeapTypeOK, Block, BlocksInHeap
<1>4. IsFiniteSet(Bytes(b)) /\ Cardinality(Bytes(b)) = b.second - b.first
  BY <1>3, BlockBytes
<1> DEFINE rest == UNION {Bytes(c) : c \in alloced \ {b}}
<1>5. rest \cap Bytes(b) = {}
  <2>1. ASSUME NEW c \in alloced \ {b} PROVE Bytes(c) \cap Bytes(b) = {}
    <3>1. c.second <= b.first \/ b.second <= c.first
      BY DEF HeapInv, BlocksDisjoint, Apart
    <3>2. c.first \in Int /\ c.second \in Int
      BY DEF HeapInv, HeapTypeOK, Block
    <3> QED
      BY <1>3, <3>1, <3>2 DEF Bytes
  <2> QED
    BY <2>1
<1>6. IsFiniteSet(rest)
  <2>1. \A c \in alloced \ {b} :
          c.first \in Int /\ c.second \in Int /\ HEAP_MIN <= c.first /\ c.second <= HEAP_MAX
    BY DEF HeapInv, HeapTypeOK, Block, BlocksInHeap
  <2> QED
    BY <2>1, HeapBytesFinite
<1>7. UsedBytes = rest \cup Bytes(b)
  BY DEF UsedBytes
<1>8. Cardinality(UsedBytes) = alloced_size
  BY DEF UsedBytes, CountInv, Accounting
<1>9. UsedBytes' = rest
  BY <1>1 DEF UsedBytes, Bytes
<1> HIDE DEF rest
<1>10. Cardinality(rest) = alloced_size - (b.second - b.first) /\ Cardinality(rest) \in Nat
  <2>1. /\ Cardinality(rest \cup Bytes(b)) = Cardinality(rest) + Cardinality(Bytes(b))
        /\ Cardinality(rest) \in Nat
    BY <1>4, <1>5, <1>6, BytesAdd
  <2> QED
    BY <1>3, <1>4, <1>7, <1>8, <2>1
<1>11. Accounting'
  <2>1. alloced_size' = Cardinality(UsedBytes')
    BY <1>1, <1>9, <1>10
  <2>2. alloced_size' <= max_alloced_size' /\ max_alloced_size' <= HEAP_MAX - HEAP_MIN
    BY <1>1, <1>3 DEF HeapInv, HeapTypeOK, CountInv, Accounting
  <2> QED
    BY <2>1, <2>2 DEF Accounting, UsedBytes, Bytes, HEAP_MAX
<1> QED
  BY <1>2, <1>11 DEF CountInv

(* Every freed block but the one at the end of the heap is followed by an  *)
(* allocated one: its next byte is in some block, and freed blocks do not  *)
(* touch.  No two freed blocks are followed by the same one.               *)
LEMMA FollowedByAllocated ==
  ASSUME HeapInv, NEW c \in freed, c.second < HEAP_MAX
  PROVE  \E b \in alloced : b.first = c.second
<1>1. c.first \in Int /\ c.second \in Int /\ HEAP_MIN <= c.first /\ c.first <= c.second
  BY DEF HeapInv, HeapTypeOK, Block, BlocksInHeap
<1>2. c.second \in HEAP_MIN .. HEAP_MAX - 1
  BY <1>1, HeapBounds
<1>3. PICK b \in alloced \cup freed : b.first <= c.second /\ c.second < b.second
  BY <1>2 DEF HeapInv, NoByteLost
<1>4. b.first \in Int /\ b.second \in Int
  BY DEF HeapInv, HeapTypeOK, Block
<1>5. b \notin freed
  <2>1. b \in freed /\ b # c => b.second < c.first \/ c.second < b.first
    BY DEF HeapInv, FullyCoalesced
  <2> QED
    BY <1>1, <1>3, <1>4, <2>1
<1>6. b.second <= c.first \/ c.second <= b.first
  BY <1>3, <1>5 DEF HeapInv, BlocksDisjoint, Apart
<1>7. b.first = c.second
  BY <1>1, <1>3, <1>4, <1>6
<1> QED
  BY <1>3, <1>5, <1>7

LEMMA SameEnd ==
  ASSUME HeapInv, NEW b \in freed, NEW c \in freed, b.second = c.second
  PROVE  b = c
<1>1. /\ b.first \in Int /\ b.second \in Int /\ b.first <= b.second
      /\ c.first \in Int /\ c.second \in Int /\ c.first <= c.second
  BY DEF HeapInv, HeapTypeOK, Block, BlocksInHeap
<1>2. b # c => b.second < c.first \/ c.second < b.first
  BY DEF HeapInv, FullyCoalesced
<1> QED
  BY <1>1, <1>2

LEMMA CountInvFewFragments == HeapInv /\ CountInv => FewFragments
<1> SUFFICES ASSUME HeapInv, CountInv PROVE FewFragments
  OBVIOUS
<1> DEFINE inner == {c \in freed : c.second < HEAP_MAX}
           last == freed \ inner
           f == [c \in inner |-> CHOOSE b \in alloced : b.first = c.second]
<1>1. \A c \in inner : f[c] \in alloced /\ f[c].first = c.second
  BY FollowedByAllocated
<1>2. f \in Injection(inner, alloced)
  <2>1. f \in [inner -> alloced]
    BY <1>1
  <2>2. ASSUME NEW b \in inner, NEW c \in inner, f[b] = f[c]
        PROVE  b = c
    BY <1>1, <2>2, SameEnd
  <2> HIDE DEF f
  <2> QED
    BY <2>1, <2>2 DEF Injection, IsInjective
<1>3. Cardinality(inner) <= Cardinality(alloced)
  <2> HIDE DEF f, inner
  <2> QED
    BY <1>2, FS_Injection DEF CountInv
<1>4. \A b, c \in last : b = c
  <2>1. \A c \in last : c.second = HEAP_MAX
    BY HeapBounds DEF HeapInv, HeapTypeOK, Block, BlocksInHeap
  <2> QED
    BY <2>1, SameEnd
<1>5. IsFiniteSet(inner) /\ Cardinality(inner) \in Nat /\ Cardinality(alloced) \in Nat
  BY FS_Subset, FS_CardinalityType DEF CountInv
<1>6. Cardinality(freed) <= Cardinality(inner) + 1
  <2>1. CASE last = {}
    <3>1. freed = inner
      BY <2>1
    <3> HIDE DEF inner
    <3> QED
      BY <1>5, <3>1
  <2>2. CASE last # {}
    <3>1. PICK c \in last : freed = inner \cup {c}
      BY <1>4, <2>2
    <3> HIDE DEF inner
    <3>2. Cardinality(inner \cup {c}) = IF c \in inner THEN Cardinality(inner) ELSE Cardinality(inner) + 1
      BY <1>5, FS_AddElement
    <3> QED
      BY <1>5, <3>1, <3>2
  <2> QED
    BY <2>1, <2>2
<1>7. Cardinality(freed) \in Nat
  BY FS_CardinalityType DEF CountInv
<1> QED
  BY <1>3, <1>5, <1>6, <1>7 DEF FewFragments

-----------------------------------------------------------------------------
(* Multiples of the word.                                                  *)
LEMMA ModZero ==
  ASSUME NEW x \in Int, NEW n \in Nat \ {0}
  PROVE  x % n = 0 <=> \E k \in Int : x = k * n
<1>1. ASSUME x % n = 0 PROVE \E k \in Int : x = k * n
  <2>1. x \div n \in Int /\ x = (x \div n) * n
    BY <1>1, Z3
  <2> QED BY <2>1
<1>2. ASSUME NEW k \in Int, x = k * n PROVE x % n = 0
  BY <1>2, Z3
<1> QED BY <1>1, <1>2

LEMMA ModSum ==
  ASSUME NEW x \in Int, NEW y \in Int, NEW n \in Nat \ {0}, x % n = 0, y % n = 0
  PROVE  (x + y) % n = 0 /\ (x - y) % n = 0
<1>1. PICK j \in Int : x = j * n
  BY ModZero
<1>2. PICK k \in Int : y = k * n
  BY ModZero
<1>3. x + y = (j + k) * n /\ x - y = (j - k) * n
  BY <1>1, <1>2
<1>4. j + k \in Int /\ j - k \in Int /\ x + y \in Int /\ x - y \in Int
  BY <1>1, <1>2
<1> QED BY <1>3, <1>4, ModZero

=============================================================================
