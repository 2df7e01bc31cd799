--------------------------- MODULE Memory_proofs ---------------------------
(***************************************************************************)
(* Proofs about the memory of the machine, for every size of the heap, the *)
(* stack, the word and the byte, whatever a program asks for: the blocks   *)
(* of the heap, the counters the interpreter reports, the bytes a load     *)
(* finds, and that all of it together is one flat memory.                  *)
(***************************************************************************)
EXTENDS Memory, HeapAllocator_proofs, Induction, TLAPS

-----------------------------------------------------------------------------
(* A step of the memory, whatever the program that takes it asks for: Next *)
(* without the bounds of its model.                                        *)
Status == {"running", "rejected", "out of memory", "host out of memory", "undefined"}

AnyStep ==
  \/ UNCHANGED vars
  \/ \E size \in Nat : Malloc(size)
  \/ \E addr \in Addr : Free(addr)
  \/ \E size \in Sizes, addr \in Addr : LoadStack(size, addr) \/ LoadHeap(size, addr)
  \/ \E size \in Sizes, addr \in Addr, val \in Nat :
       StoreStack(size, addr, val) \/ StoreHeap(size, addr, val)
  \/ ResetStack \/ ResetHeap
  \/ \E why \in Status : StopWith(why)

LEMMA NextIsAnyStep == [Next]_vars => AnyStep
<1>1. MallocSizes \subseteq Nat /\ Values \subseteq Nat
  BY MemoryAssumption DEF MallocSizes
<1> QED
  BY <1>1 DEF Next, AnyStep, Status, MallocInvalid, MallocOutOfMemory, HostOutOfMemory,
              FreeInvalid, AccessRejected, AccessWraps

(* Every other operation leaves the heap's blocks alone.                   *)
LEMMA HeapSteps ==
  ASSUME AnyStep
  PROVE  \/ UNCHANGED heapVars
         \/ \E size \in Nat : Malloc(size)
         \/ \E addr \in Addr : Free(addr)
BY DEF AnyStep, vars, LoadStack, LoadHeap, StoreStack, StoreHeap,
       ResetStack, ResetHeap, ResetTo, StopWith

LEMMA AnyHeapInv == HeapInv /\ AnyStep => HeapInv'
<1> SUFFICES ASSUME HeapInv, AnyStep PROVE HeapInv'
  OBVIOUS
<1>1. ASSUME NEW size \in Nat, Malloc(size) PROVE HeapInv'
  <2>1. PICK b \in freed : FirstFit(b, size) /\ TakeFrom(b, size)
    BY <1>1 DEF Malloc
  <2>2. size # 0
    BY <1>1 DEF Malloc, ValidSize
  <2> QED BY <2>1, <2>2, MallocHeapInv
<1>2. ASSUME NEW addr \in Addr, Free(addr) PROVE HeapInv'
  BY <1>2, FreeHeapInv DEF Free
<1>3. CASE UNCHANGED heapVars
  BY <1>3 DEF heapVars, HeapInv, HeapTypeOK, BlocksInHeap, BlocksDisjoint,
              NoByteLost, FullyCoalesced
<1>4. \/ UNCHANGED heapVars
      \/ \E size \in Nat : Malloc(size)
      \/ \E addr \in Addr : Free(addr)
  BY HeapSteps
<1> QED BY <1>1, <1>2, <1>3, <1>4

LEMMA NextHeapInv == HeapInv /\ [Next]_vars => HeapInv'
BY AnyHeapInv, NextIsAnyStep

(* The freed blocks are what the allocated ones leave of the heap, merged  *)
(* as far as they go (exec_malloc and exec_free, memory.cpp:153-221).      *)
THEOREM HeapInvariant == Spec => []HeapInv
<1> QED BY InitHeapInv, NextHeapInv, PTL DEF Spec, Init

(* No two blocks ever overlap: memory handed out by malloc is never handed *)
(* out again before it is freed, for every heap and every word size.       *)
THEOREM DisjointTheorem == Spec => []BlocksDisjoint
<1>1. HeapInv => BlocksDisjoint
  BY DEF HeapInv
<1> QED BY <1>1, HeapInvariant, PTL

(* Every byte of the heap stays in some block: frees lose none, whatever   *)
(* their order.                                                            *)
THEOREM NoByteLostTheorem == Spec => []NoByteLost
<1>1. HeapInv => NoByteLost
  BY DEF HeapInv
<1> QED BY <1>1, HeapInvariant, PTL

(* exec_free leaves no two freed blocks that touch, empty ones included.   *)
THEOREM CoalescedTheorem == Spec => []FullyCoalesced
<1>1. HeapInv => FullyCoalesced
  BY DEF HeapInv
<1> QED BY <1>1, HeapInvariant, PTL

-----------------------------------------------------------------------------
(* malloc fails only when no stretch of the heap is free and long enough.  *)
THEOREM NoLostRoomTheorem == Spec => []NoLostRoom
<1> QED BY HeapInvNoLostRoom, HeapInvariant, PTL

-----------------------------------------------------------------------------
(* malloc cuts at multiples of the word because it accepts no other size;  *)
(* free makes no new ends.                                                 *)
LEMMA InitAligned == Init => BlocksAligned
<1>1. HEAP_MAX % WORD = 0
  <2>1. WORD % WORD = 0
    BY HeapAssumption, ModZero
  <2>2. /\ AddrSpace \in Int /\ WORD \in Int /\ WORD \in Nat \ {0}
        /\ AddrSpace % WORD = 0
    BY HeapAssumption
  <2>3. (AddrSpace - WORD) % WORD = 0
    BY <2>1, <2>2, ModSum
  <2> QED BY <2>3 DEF HEAP_MAX
<1> QED BY <1>1, HeapAssumption DEF Init, HeapInit, BlocksAligned, block_t

LEMMA AnyAligned == HeapInv /\ BlocksAligned /\ AnyStep => BlocksAligned'
<1> SUFFICES ASSUME HeapInv, BlocksAligned, AnyStep PROVE BlocksAligned'
  OBVIOUS
<1>1. ASSUME NEW size \in Nat, Malloc(size) PROVE BlocksAligned'
  <2>1. PICK b \in freed : TakeFrom(b, size)
    BY <1>1 DEF Malloc
  <2>2. /\ b.first % WORD = 0 /\ b.second % WORD = 0 /\ size % WORD = 0
        /\ b.first \in Int /\ size \in Int /\ WORD \in Nat \ {0}
    BY <1>1, HeapAssumption
       DEF BlocksAligned, HeapInv, HeapTypeOK, Block, Malloc, ValidSize
  <2>3. (b.first + size) % WORD = 0
    BY <2>2, ModSum
  <2> QED BY <2>1, <2>2, <2>3 DEF BlocksAligned, TakeFrom, block_t
<1>2. ASSUME NEW addr \in Addr, Free(addr) PROVE BlocksAligned'
  <2>1. PICK b \in alloced : GiveBack(b)
    BY <1>2 DEF Free
  <2>2. MergePrev(b) \subseteq freed /\ MergeNext(b) \subseteq freed
    BY DEF MergePrev, MergeNext
  <2> QED BY <2>1, <2>2 DEF BlocksAligned, GiveBack, block_t
<1>3. CASE UNCHANGED heapVars
  BY <1>3 DEF heapVars, BlocksAligned
<1>4. \/ UNCHANGED heapVars
      \/ \E size \in Nat : Malloc(size)
      \/ \E addr \in Addr : Free(addr)
  BY HeapSteps
<1> QED BY <1>1, <1>2, <1>3, <1>4

LEMMA NextAligned == HeapInv /\ BlocksAligned /\ [Next]_vars => BlocksAligned'
BY AnyAligned, NextIsAnyStep

(* An access that starts inside a block ends inside it.                    *)
LEMMA AlignedStaysInside ==
  ASSUME NEW size \in Sizes, NEW addr \in Int, NEW end \in Int,
         addr % size = 0, end % WORD = 0, addr < end
  PROVE  addr + size <= end
<1>1. size \in Nat \ {0} /\ WORD \in Nat \ {0} /\ WORD % size = 0
  BY MemoryAssumption, HeapAssumption
<1>2. PICK a \in Int : addr = a * size
  BY <1>1, ModZero
<1>3. PICK k \in Int : end = k * WORD
  BY <1>1, ModZero
<1>4. PICK m \in Int : WORD = m * size
  BY <1>1, ModZero
<1> DEFINE e == k * m
<1>5. e \in Int /\ end = e * size
  BY <1>1, <1>3, <1>4, Z3
<1> HIDE DEF e
<1>6. a < e
  BY <1>1, <1>2, <1>5, Z3
<1>7. (a + 1) * size <= e * size
  BY <1>1, <1>5, <1>6, Z3
<1>8. (a + 1) * size = addr + size
  BY <1>1, <1>2, Z3
<1> QED BY <1>5, <1>7, <1>8

(* find_block looks only at where an access starts, and is right to.       *)
LEMMA InvAccessesChecked == HeapInv /\ BlocksAligned => AccessesChecked
<1> SUFFICES ASSUME HeapInv, BlocksAligned, NEW size \in Sizes, NEW addr \in Addr,
                    addr + size < AddrSpace, IsAligned(size, addr)
             PROVE  /\ IsStack(size, addr) <=> Span(addr, size) \subseteq StackAddr
                    /\ ~IsStack(size, addr) =>
                         ((IsHeap(size, addr) /\ FindBlock(addr) # {}) <=>
                            \E b \in alloced : Span(addr, size) \subseteq Bytes(b))
  BY DEF AccessesChecked
<1>1. /\ size \in Nat \ {0} /\ addr \in Nat /\ AddrSpace \in Nat /\ STACK_MAX \in Nat
      /\ HEAP_MIN \in Int /\ HEAP_MAX \in Int
  BY MemoryAssumption, HeapAssumption, HeapBounds DEF Addr
<1>2. (addr + size) % AddrSpace = addr + size
  BY <1>1, Z3
<1>3. \A b \in alloced : /\ b.first \in Int /\ b.second \in Int
                         /\ HEAP_MIN <= b.first /\ b.first < b.second /\ b.second <= HEAP_MAX
  BY DEF HeapInv, HeapTypeOK, Block, BlocksInHeap
<1>4. IsStack(size, addr) <=> Span(addr, size) \subseteq StackAddr
  BY <1>1, <1>2 DEF IsStack, Span, StackAddr
<1>5. ASSUME NEW b \in FindBlock(addr)
      PROVE  Span(addr, size) \subseteq Bytes(b)
  <2>1. b \in alloced /\ b.first <= addr /\ addr < b.second
    BY <1>5 DEF FindBlock
  <2>2. addr + size <= b.second
    BY <1>1, <1>3, <2>1, AlignedStaysInside DEF BlocksAligned, IsAligned
  <2> QED BY <1>1, <1>3, <2>1, <2>2 DEF Span, Bytes
<1>6. ASSUME NEW b \in alloced, Span(addr, size) \subseteq Bytes(b)
      PROVE  IsHeap(size, addr) /\ b \in FindBlock(addr)
  <2>1. addr \in Span(addr, size) /\ addr + size - 1 \in Span(addr, size)
    BY <1>1 DEF Span
  <2>2. b.first <= addr /\ addr + size <= b.second
    BY <1>1, <1>3, <1>6, <2>1 DEF Bytes
  <2>3. ASSUME NEW c \in alloced, c.first <= addr PROVE c.first <= b.first
    <3>1. c # b => c.second <= b.first \/ b.second <= c.first
      BY DEF HeapInv, BlocksDisjoint, Apart
    <3> QED BY <1>1, <1>3, <2>2, <2>3, <3>1
  <2> QED BY <1>1, <1>2, <1>3, <2>2, <2>3 DEF IsHeap, FindBlock
<1>7. FindBlock(addr) \subseteq alloced
  BY DEF FindBlock
<1> QED BY <1>4, <1>5, <1>6, <1>7

(* Every access the memory serves, unless it wraps, lies in the stack or   *)
(* in one allocated block, and every such access is served.                *)
THEOREM AccessesCheckedTheorem == Spec => []AccessesChecked
<1> QED BY InitHeapInv, NextHeapInv, InitAligned, NextAligned, InvAccessesChecked,
           PTL DEF Spec, Init

-----------------------------------------------------------------------------
(* The counters and the number of the freed blocks.                        *)
LEMMA NextCountInv == HeapInv /\ CountInv /\ [Next]_vars => CountInv'
<1> SUFFICES ASSUME HeapInv, CountInv, [Next]_vars PROVE CountInv'
  OBVIOUS
<1>0. AnyStep
  BY NextIsAnyStep
<1>1. ASSUME NEW size \in Nat, Malloc(size) PROVE CountInv'
  BY <1>1, MallocCountInv DEF Malloc, ValidSize
<1>2. ASSUME NEW addr \in Addr, Free(addr) PROVE CountInv'
  BY <1>2, FreeCountInv DEF Free
<1>3. CASE UNCHANGED heapVars
  <2>1. UNCHANGED <<alloced, freed, alloced_size, max_alloced_size>>
    BY <1>3 DEF heapVars
  <2> QED
    BY <2>1 DEF CountInv, Accounting, Bytes, HEAP_MAX
<1>4. \/ UNCHANGED heapVars
      \/ \E size \in Nat : Malloc(size)
      \/ \E addr \in Addr : Free(addr)
  BY <1>0, HeapSteps
<1> QED BY <1>1, <1>2, <1>3, <1>4

(* The counters agree with the blocks, after any sequence of calls.        *)
THEOREM AccountingTheorem == Spec => []Accounting
<1>1. CountInv => Accounting
  BY DEF CountInv
<1> QED BY <1>1, InitHeapInv, NextHeapInv, InitCountInv, NextCountInv, PTL DEF Spec, Init

(* The empty blocks that exact fits leave do not pile up.                  *)
THEOREM FewFragmentsTheorem == Spec => []FewFragments
<1> QED BY CountInvFewFragments, InitHeapInv, NextHeapInv, InitCountInv, NextCountInv, PTL
           DEF Spec, Init

-----------------------------------------------------------------------------
(* The bytes of a value, the low one first, and the value of such bytes.   *)

(* Shifts(val) is what its definition says: the function exists.           *)
LEMMA ShiftsUnfold ==
  ASSUME NEW val \in Nat
  PROVE  /\ DOMAIN Shifts(val) = 0 .. WORD
         /\ Shifts(val)[0] = val
         /\ \A i \in 1 .. WORD : Shifts(val)[i] = Shifts(val)[i - 1] \div BYTE
         /\ \A i \in 0 .. WORD : Shifts(val)[i] \in Nat
<1> DEFINE step == [i \in 1 .. WORD |-> [v \in Nat |-> v \div BYTE]]
           Unfolds(f) == f = [i \in 0 .. WORD |-> IF i = 0 THEN val ELSE f[i - 1] \div BYTE]
<1>1. WORD \in Nat /\ BYTE \in Nat \ {0}
  BY HeapAssumption, MemoryAssumption
<1>2. \A v \in Nat : v \div BYTE \in Nat
  BY <1>1, Z3
<1>3. PICK g \in [0 .. WORD -> Nat] : Iterates(g, WORD, val, step)
  <2>1. step \in [1 .. WORD -> [Nat -> Nat]]
    BY <1>2
  <2> HIDE DEF step
  <2> QED
    BY <1>1, <2>1, IterateExists
<1>4. Unfolds(g)
  <2>1. ASSUME NEW i \in 0 .. WORD, i # 0
        PROVE  g[i] = g[i - 1] \div BYTE
    <3>1. i \in 1 .. WORD /\ i - 1 \in 0 .. WORD
      BY <1>1, <2>1
    <3>2. g[i - 1] \in Nat
      BY <1>3, <3>1
    <3> QED
      BY <1>3, <3>1, <3>2 DEF Iterates
  <2> QED
    BY <1>3, <2>1 DEF Iterates
<1>5. Unfolds(Shifts(val))
  BY <1>4 DEF Shifts
<1> DEFINE T == {i \in 0 .. WORD : Shifts(val)[i] \in Nat}
<1>6. 0 .. WORD \subseteq T
  <2>1. 0 \in T
    BY <1>1, <1>5
  <2>2. ASSUME NEW i \in 1 .. WORD, i - 1 \in T
        PROVE  i \in T
    <3>1. i # 0 /\ i \in 0 .. WORD
      BY <1>1
    <3>2. Shifts(val)[i] = Shifts(val)[i - 1] \div BYTE
      BY <1>5, <3>1
    <3> QED
      BY <1>2, <2>2, <3>1, <3>2
  <2> HIDE DEF T
  <2> QED
    BY <1>1, <2>1, <2>2, UpTo
<1>7. \A i \in 1 .. WORD : i \in 0 .. WORD /\ i # 0
  BY <1>1
<1>8. 0 \in 0 .. WORD
  BY <1>1
<1> HIDE DEF step
<1> QED
  BY <1>5, <1>6, <1>7, <1>8

(* One more byte below: the bytes of the rest are one place further.       *)
LEMMA ShiftsOfSum ==
  ASSUME NEW val \in Nat, NEW byte \in 0 .. BYTE - 1
  PROVE  /\ val * BYTE + byte \in Nat
         /\ \A i \in 0 .. WORD - 1 : Shifts(val * BYTE + byte)[i + 1] = Shifts(val)[i]
         /\ ByteAt(val * BYTE + byte, 0) = byte
<1> DEFINE w == val * BYTE + byte
           T == {i \in 0 .. WORD : i + 1 <= WORD => Shifts(w)[i + 1] = Shifts(val)[i]}
<1>1. WORD \in Nat \ {0} /\ BYTE \in Nat \ {0}
  BY HeapAssumption, MemoryAssumption
<1>2. w \in Nat /\ w \div BYTE = val /\ w % BYTE = byte
  BY <1>1, Z3
<1> HIDE DEF w
<1>3. 0 \in T
  <2>1. Shifts(w)[1] = Shifts(w)[0] \div BYTE
    <3>1. 1 \in 1 .. WORD /\ 1 - 1 = 0
      BY <1>1
    <3> QED
      BY <1>2, <3>1, ShiftsUnfold
  <2>2. Shifts(w)[0] = w /\ Shifts(val)[0] = val
    BY <1>2, ShiftsUnfold
  <2> QED
    BY <1>1, <1>2, <2>1, <2>2
<1>4. ASSUME NEW i \in 1 .. WORD, i - 1 \in T
      PROVE  i \in T
  <2> SUFFICES ASSUME i + 1 <= WORD PROVE Shifts(w)[i + 1] = Shifts(val)[i]
    BY <1>1
  <2>1. i + 1 \in 1 .. WORD /\ (i + 1) - 1 = i /\ (i - 1) + 1 = i
    BY <1>1
  <2>2. Shifts(w)[i + 1] = Shifts(w)[i] \div BYTE
    BY <1>2, <2>1, ShiftsUnfold
  <2>3. Shifts(val)[i] = Shifts(val)[i - 1] \div BYTE
    BY ShiftsUnfold
  <2>4. Shifts(w)[i] = Shifts(val)[i - 1]
    BY <1>1, <1>4, <2>1
  <2> QED
    BY <2>2, <2>3, <2>4
<1>5. 0 .. WORD \subseteq T
  <2> HIDE DEF T
  <2> QED
    BY <1>1, <1>3, <1>4, UpTo
<1>6. \A i \in 0 .. WORD - 1 : i \in 0 .. WORD /\ i + 1 <= WORD
  BY <1>1
<1>7. Shifts(w)[0] = w
  BY <1>2, ShiftsUnfold
<1> QED
  BY <1>2, <1>5, <1>6, <1>7 DEF w, ByteAt

LEMMA SumsUnfold ==
  ASSUME NEW size \in Sizes, NEW bytes, NEW ofs \in Int,
         \A j \in 0 .. size - 1 : bytes[ofs + j] \in 0 .. BYTE - 1
  PROVE  /\ Sums(size, bytes, ofs)[0] = 0
         /\ \A i \in 1 .. size :
              Sums(size, bytes, ofs)[i] = Sums(size, bytes, ofs)[i - 1] * BYTE + bytes[ofs + size - i]
<1> DEFINE step == [i \in 1 .. size |-> [v \in Nat |-> v * BYTE + bytes[ofs + size - i]]]
           Unfolds(f) ==
             f = [i \in 0 .. size |-> IF i = 0 THEN 0 ELSE f[i - 1] * BYTE + bytes[ofs + size - i]]
<1>1. size \in Nat \ {0} /\ BYTE \in Nat \ {0}
  BY HeapAssumption, MemoryAssumption
<1>2. \A i \in 1 .. size : bytes[ofs + size - i] \in 0 .. BYTE - 1
  <2>1. ASSUME NEW i \in 1 .. size PROVE bytes[ofs + size - i] \in 0 .. BYTE - 1
    <3>1. size - i \in 0 .. size - 1 /\ ofs + size - i = ofs + (size - i)
      BY <1>1
    <3> QED
      BY <3>1
  <2> QED
    BY <2>1
<1>3. \A v \in Nat, c \in 0 .. BYTE - 1 : v * BYTE + c \in Nat
  BY <1>1, Z3
<1>4. PICK g \in [0 .. size -> Nat] : Iterates(g, size, 0, step)
  <2>1. step \in [1 .. size -> [Nat -> Nat]]
    BY <1>2, <1>3
  <2> HIDE DEF step
  <2> QED
    BY <1>1, <2>1, IterateExists
<1>5. Unfolds(g)
  <2>1. ASSUME NEW i \in 0 .. size, i # 0
        PROVE  g[i] = g[i - 1] * BYTE + bytes[ofs + size - i]
    <3>1. i \in 1 .. size /\ i - 1 \in 0 .. size
      BY <1>1, <2>1
    <3>2. g[i - 1] \in Nat
      BY <1>4, <3>1
    <3>3. g[i] = step[i][g[i - 1]]
      BY <1>4, <3>1 DEF Iterates
    <3> QED
      BY <3>1, <3>2, <3>3
  <2>2. g[0] = 0
    BY <1>4 DEF Iterates
  <2> HIDE DEF step
  <2> QED
    BY <1>4, <2>1, <2>2
<1> HIDE DEF step
<1>6. Unfolds(Sums(size, bytes, ofs))
  BY <1>5 DEF Sums
<1>7. \A i \in 1 .. size : i \in 0 .. size /\ i # 0
  BY <1>1
<1>8. 0 \in 0 .. size
  BY <1>1
<1> QED
  BY <1>6, <1>7, <1>8

(* load_little_endian returns the one value whose bytes are those it reads,*)
(* the low one first.                                                      *)
LEMMA LoadReadsBytes ==
  ASSUME NEW size \in Sizes, NEW bytes, NEW ofs \in Int,
         \A j \in 0 .. size - 1 : bytes[ofs + j] \in 0 .. BYTE - 1
  PROVE  LET val == LoadLittleEndian(size, bytes, ofs)
         IN /\ val \in Nat
            /\ Shifts(val)[size] = 0
            /\ \A j \in 0 .. size - 1 : ByteAt(val, j) = bytes[ofs + j]
<1> DEFINE sum(i) == Sums(size, bytes, ofs)[i]
           T == {i \in 0 .. size :
                   /\ sum(i) \in Nat
                   /\ Shifts(sum(i))[i] = 0
                   /\ \A j \in 0 .. i - 1 : ByteAt(sum(i), j) = bytes[ofs + size - i + j]}
<1>1. size \in Nat \ {0} /\ size <= WORD /\ WORD \in Nat
  BY HeapAssumption, MemoryAssumption
<1>2. 0 \in T
  <2>1. sum(0) = 0
    BY SumsUnfold
  <2>2. Shifts(0)[0] = 0
    BY ShiftsUnfold
  <2> HIDE DEF sum
  <2> QED
    BY <1>1, <2>1, <2>2
<1>3. ASSUME NEW i \in 1 .. size, i - 1 \in T
      PROVE  i \in T
  <2>1. PICK byte : byte = bytes[ofs + size - i]
    OBVIOUS
  <2>2. byte \in 0 .. BYTE - 1
    <3>1. size - i \in 0 .. size - 1 /\ ofs + size - i = ofs + (size - i)
      BY <1>1
    <3> QED
      BY <2>1, <3>1
  <2>3. PICK val : val = sum(i - 1)
    OBVIOUS
  <2>4. /\ val \in Nat /\ Shifts(val)[i - 1] = 0
        /\ \A j \in 0 .. i - 2 : ByteAt(val, j) = bytes[ofs + size - (i - 1) + j]
    BY <1>3, <2>3
  <2>5. sum(i) = val * BYTE + byte
    BY <2>1, <2>3, SumsUnfold
  <2> HIDE DEF sum
  <2>6. sum(i) \in Nat /\ ByteAt(sum(i), 0) = byte
    BY <2>2, <2>4, <2>5, ShiftsOfSum
  <2>7. \A j \in 0 .. WORD - 1 : Shifts(sum(i))[j + 1] = Shifts(val)[j]
    BY <2>2, <2>4, <2>5, ShiftsOfSum
  <2>8. Shifts(sum(i))[i] = 0
    <3>1. i - 1 \in 0 .. WORD - 1 /\ (i - 1) + 1 = i
      BY <1>1
    <3> QED
      BY <2>4, <2>7, <3>1
  <2>9. ASSUME NEW j \in 0 .. i - 1
        PROVE  ByteAt(sum(i), j) = bytes[ofs + size - i + j]
    <3>1. CASE j = 0
      BY <1>1, <2>1, <2>6, <3>1
    <3>2. CASE j # 0
      <4>1. /\ j - 1 \in 0 .. i - 2 /\ j - 1 \in 0 .. WORD - 1 /\ (j - 1) + 1 = j
            /\ ofs + size - (i - 1) + (j - 1) = ofs + size - i + j
        BY <1>1, <3>2
      <4>2. Shifts(sum(i))[j] = Shifts(val)[j - 1]
        BY <2>7, <4>1
      <4>3. ByteAt(val, j - 1) = bytes[ofs + size - i + j]
        BY <2>4, <4>1
      <4> QED
        BY <4>2, <4>3 DEF ByteAt
    <3> QED
      BY <3>1, <3>2
  <2>10. i \in 0 .. size
    BY <1>1
  <2> QED
    BY <2>6, <2>8, <2>9, <2>10
<1>4. size \in T
  <2>1. 0 .. size \subseteq T
    <3> HIDE DEF T
    <3> QED
      BY <1>1, <1>2, <1>3, UpTo
  <2>2. size \in 0 .. size
    BY <1>1
  <2> HIDE DEF T
  <2> QED
    BY <2>1, <2>2
<1>5. \A j \in 0 .. size - 1 : ofs + size - size + j = ofs + j
  BY <1>1
<1> HIDE DEF sum
<1>6. /\ sum(size) \in Nat /\ Shifts(sum(size))[size] = 0
      /\ \A j \in 0 .. size - 1 : ByteAt(sum(size), j) = bytes[ofs + j]
  BY <1>4, <1>5
<1> QED
  BY <1>6 DEF sum, LoadLittleEndian

LEMMA ByteAtIsByte ==
  ASSUME NEW val \in Nat, NEW i \in 0 .. WORD
  PROVE  ByteAt(val, i) \in 0 .. BYTE - 1
<1>1. Shifts(val)[i] \in Nat /\ BYTE \in Nat \ {0}
  BY ShiftsUnfold, MemoryAssumption
<1> QED
  BY <1>1, Z3 DEF ByteAt

-----------------------------------------------------------------------------
(* Where the bytes of an access lie.                                       *)
LEMMA StackAccess ==
  ASSUME NEW size \in Sizes, NEW addr \in StackAddr, IsAligned(size, addr)
  PROVE  Span(addr, size) \subseteq StackAddr
<1>1. size \in Nat \ {0} /\ addr \in Nat /\ STACK_MAX \in Nat /\ STACK_MAX % WORD = 0
      /\ addr < STACK_MAX
  BY MemoryAssumption, HeapAssumption DEF StackAddr
<1>2. addr + size <= STACK_MAX
  BY <1>1, AlignedStaysInside DEF IsAligned
<1> QED
  BY <1>1, <1>2 DEF Span, StackAddr

LEMMA HeapAccess ==
  ASSUME HeapInv, BlocksAligned, NEW size \in Sizes, NEW addr \in Addr, IsAligned(size, addr),
         NEW b \in FindBlock(addr)
  PROVE  /\ b \in alloced /\ b.first \in Int /\ b.second \in Int
         /\ b.first <= addr /\ addr + size <= b.second
         /\ Span(addr, size) \subseteq Bytes(b)
<1>1. b \in alloced /\ b.first <= addr /\ addr < b.second
  BY DEF FindBlock
<1>2. b.first \in Int /\ b.second \in Int /\ addr \in Int /\ b.second % WORD = 0
      /\ size \in Nat
  BY <1>1, HeapAssumption, MemoryAssumption
     DEF HeapInv, HeapTypeOK, Block, Addr, BlocksAligned
<1>3. addr + size <= b.second
  BY <1>1, <1>2, AlignedStaysInside DEF IsAligned
<1> QED
  BY <1>1, <1>2, <1>3 DEF Span, Bytes

LEMMA StoreKeepsBytes ==
  ASSUME NEW n \in Int, NEW bytes \in [0 .. n - 1 -> 0 .. BYTE - 1],
         NEW size \in Sizes, NEW ofs \in Nat, NEW val \in Nat
  PROVE  StoreLittleEndian(size, bytes, ofs, val) \in [0 .. n - 1 -> 0 .. BYTE - 1]
<1>1. size \in Nat /\ size <= WORD /\ WORD \in Nat
  BY MemoryAssumption, HeapAssumption
<1>2. ASSUME NEW i \in 0 .. n - 1, i \in ofs .. ofs + size - 1
      PROVE  ByteAt(val, i - ofs) \in 0 .. BYTE - 1
  <2>1. i - ofs \in 0 .. WORD
    BY <1>1, <1>2
  <2> QED
    BY <2>1, ByteAtIsByte
<1> QED
  BY <1>2 DEF StoreLittleEndian

-----------------------------------------------------------------------------
(* The types: a byte stays a byte, whatever is stored.                     *)
BlockBuffer(b) == [0 .. b.second - b.first - 1 -> 0 .. BYTE - 1]
BuffersOK == DOMAIN buffer = alloced /\ \A b \in alloced : buffer[b] \in BlockBuffer(b)

LEMMA AddrFacts ==
  /\ STACK_MAX \in Addr /\ HEAP_MIN \in Addr /\ NoHead \in Addr
  /\ StackAddr \subseteq Addr
  /\ HEAP_MAX \in Addr
BY HeapAssumption, MemoryAssumption, HeapBounds DEF Addr, NoHead, StackAddr, HEAP_MAX

LEMMA InitTypeOK == Init => TypeOK
<1> SUFFICES ASSUME Init PROVE TypeOK
  OBVIOUS
<1>1. HeapTypeOK
  BY InitHeapInv DEF Init, HeapInv
<1>2. 0 \in 0 .. BYTE - 1
  BY MemoryAssumption
<1>3. stack \in [StackAddr -> 0 .. BYTE - 1] /\ head \in Addr
  BY <1>2, AddrFacts DEF Init
<1>4. DOMAIN buffer = alloced /\ alloced = {}
  BY DEF Init, HeapInit
<1> QED
  BY <1>1, <1>3, <1>4 DEF Init, TypeOK

LEMMA MallocType ==
  ASSUME HeapInv, TypeOK, NEW size \in Nat, Malloc(size)
  PROVE  BuffersOK' /\ stack' = stack /\ head' = head /\ status' = status /\ result' \in Nat
<1>1. PICK b \in freed : /\ TakeFrom(b, size)
                         /\ buffer' = [c \in alloced \cup {block_t(b.first, b.first + size)} |->
                              IF c = block_t(b.first, b.first + size)
                                THEN [i \in 0 .. size - 1 |-> 0] ELSE buffer[c]]
                         /\ result' = b.first
  BY DEF Malloc
<1> DEFINE new == block_t(b.first, b.first + size)
<1>2. b.first \in Nat
  BY HeapAssumption DEF HeapInv, HeapTypeOK, Block, BlocksInHeap
<1>3. new.second - new.first = size
  BY <1>2 DEF block_t
<1>4. [i \in 0 .. size - 1 |-> 0] \in BlockBuffer(new)
  <2>1. 0 \in 0 .. BYTE - 1
    BY MemoryAssumption
  <2> HIDE DEF new
  <2> QED
    BY <1>3, <2>1 DEF BlockBuffer
<1>5. alloced' = alloced \cup {new}
  BY <1>1 DEF TakeFrom
<1> HIDE DEF new
<1>6. \A c \in alloced' : buffer'[c] \in BlockBuffer(c)
  BY <1>1, <1>4, <1>5 DEF TypeOK, BlockBuffer, new
<1>7. BuffersOK'
  BY <1>1, <1>5, <1>6 DEF BuffersOK, BlockBuffer, new
<1> QED
  BY <1>1, <1>2, <1>7 DEF Malloc

LEMMA FreeType ==
  ASSUME TypeOK, NEW addr, Free(addr)
  PROVE  BuffersOK' /\ stack' = stack /\ head' = head /\ status' = status /\ result' \in Nat
<1>1. PICK b \in alloced : GiveBack(b) /\ buffer' = [c \in alloced \ {b} |-> buffer[c]]
  BY DEF Free
<1>2. alloced' = alloced \ {b}
  BY <1>1 DEF GiveBack
<1>3. BuffersOK'
  BY <1>1, <1>2 DEF TypeOK, BuffersOK, BlockBuffer
<1> QED
  BY <1>3 DEF Free

-----------------------------------------------------------------------------
(* What a load of a block or of the stack returns.                         *)
LEMMA LoadStackReads ==
  ASSUME TypeOK, NEW size \in Sizes, NEW addr, LoadStack(size, addr)
  PROVE  /\ result' \in Nat
         /\ Shifts(result')[size] = 0
         /\ \A j \in 0 .. size - 1 : ByteAt(result', j) = stack[addr + j]
         /\ Span(addr, size) \subseteq StackAddr
<1>1. addr \in StackAddr /\ IsAligned(size, addr) /\ addr \in Int /\ size \in Nat
  BY MemoryAssumption DEF LoadStack, StackAddr
<1>2. Span(addr, size) \subseteq StackAddr
  BY <1>1, StackAccess
<1>3. \A j \in 0 .. size - 1 : addr + j \in Span(addr, size)
  BY <1>1 DEF Span
<1>4. \A j \in 0 .. size - 1 : stack[addr + j] \in 0 .. BYTE - 1
  BY <1>2, <1>3 DEF TypeOK
<1>5. result' = LoadLittleEndian(size, stack, addr)
  BY DEF LoadStack
<1> QED
  BY <1>1, <1>2, <1>4, <1>5, LoadReadsBytes

LEMMA LoadHeapReads ==
  ASSUME HeapInv, BlocksAligned, TypeOK, NEW size \in Sizes, NEW addr \in Addr, LoadHeap(size, addr)
  PROVE  /\ result' \in Nat
         /\ Shifts(result')[size] = 0
         /\ \E b \in FindBlock(addr) :
              \A j \in 0 .. size - 1 : ByteAt(result', j) = buffer[b][addr - b.first + j]
<1>1. IsAligned(size, addr) /\ addr \in Int /\ size \in Nat
  BY MemoryAssumption, HeapAssumption DEF LoadHeap, Addr
<1>2. PICK b \in FindBlock(addr) : result' = LoadLittleEndian(size, buffer[b], addr - b.first)
  BY DEF LoadHeap
<1>3. PICK ofs, bytes, n : ofs = addr - b.first /\ bytes = buffer[b] /\ n = b.second - b.first
  OBVIOUS
<1>4. /\ b \in alloced /\ b.first \in Int /\ b.second \in Int
      /\ ofs \in Nat /\ ofs + size <= n
  BY <1>1, <1>3, HeapAccess
<1>5. bytes \in [0 .. n - 1 -> 0 .. BYTE - 1]
  BY <1>3, <1>4 DEF TypeOK
<1>6. n \in Int
  BY <1>3, <1>4
<1>7. \A j \in 0 .. size - 1 : bytes[ofs + j] \in 0 .. BYTE - 1
  <2>1. \A j \in 0 .. size - 1 : ofs + j \in 0 .. n - 1
    BY <1>1, <1>4, <1>6
  <2> QED
    BY <1>5, <2>1
<1>8. result' = LoadLittleEndian(size, bytes, ofs)
  BY <1>2, <1>3
<1>9. /\ result' \in Nat /\ Shifts(result')[size] = 0
      /\ \A j \in 0 .. size - 1 : ByteAt(result', j) = bytes[ofs + j]
  BY <1>4, <1>7, <1>8, LoadReadsBytes
<1> QED
  BY <1>3, <1>9

LEMMA StoreHeapType ==
  ASSUME HeapInv, BlocksAligned, TypeOK, NEW size \in Sizes, NEW addr \in Addr, NEW val \in Nat,
         StoreHeap(size, addr, val)
  PROVE  BuffersOK'
<1>1. PICK b \in FindBlock(addr) :
        buffer' = [buffer EXCEPT ![b] = StoreLittleEndian(size, buffer[b], addr - b.first, val)]
  BY DEF StoreHeap
<1>2. PICK n, ofs, bytes : n = b.second - b.first /\ ofs = addr - b.first /\ bytes = buffer[b]
  OBVIOUS
<1>3. /\ b \in alloced /\ n \in Int /\ ofs \in Nat /\ val \in Nat
      /\ bytes \in [0 .. n - 1 -> 0 .. BYTE - 1]
  <2>1. IsAligned(size, addr) /\ addr \in Int
    BY HeapAssumption DEF StoreHeap, Addr
  <2>2. b \in alloced /\ b.first \in Int /\ b.second \in Int /\ b.first <= addr
    BY <2>1, HeapAccess
  <2>3. bytes \in [0 .. n - 1 -> 0 .. BYTE - 1]
    BY <1>2, <2>2 DEF TypeOK
  <2> QED
    BY <1>2, <2>1, <2>2, <2>3, MemoryAssumption
<1>4. StoreLittleEndian(size, bytes, ofs, val) \in [0 .. n - 1 -> 0 .. BYTE - 1]
  BY <1>3, StoreKeepsBytes
<1>5. /\ DOMAIN buffer' = alloced
      /\ buffer'[b] \in BlockBuffer(b)
      /\ \A c \in alloced : c # b => buffer'[c] = buffer[c]
  BY <1>1, <1>2, <1>3, <1>4 DEF TypeOK, BlockBuffer
<1>6. UNCHANGED alloced
  BY DEF StoreHeap, heapVars
<1>7. \A c \in alloced : buffer'[c] \in BlockBuffer(c)
  BY <1>5 DEF TypeOK, BlockBuffer
<1> QED
  BY <1>5, <1>6, <1>7 DEF BuffersOK, BlockBuffer

LEMMA StoreStackType ==
  ASSUME TypeOK, NEW size \in Sizes, NEW addr \in Addr, NEW val \in Nat,
         StoreStack(size, addr, val)
  PROVE  stack' \in [StackAddr -> 0 .. BYTE - 1]
<1>1. addr \in Nat /\ val \in Nat /\ STACK_MAX \in Int
  BY HeapAssumption, MemoryAssumption DEF Addr
<1>2. stack \in [0 .. STACK_MAX - 1 -> 0 .. BYTE - 1]
  BY DEF TypeOK, StackAddr
<1> QED
  BY <1>1, <1>2, StoreKeepsBytes DEF StoreStack, StackAddr

LEMMA AnyTypeOK == HeapInv /\ BlocksAligned /\ TypeOK /\ AnyStep => TypeOK'
<1> SUFFICES ASSUME HeapInv, BlocksAligned, TypeOK, AnyStep PROVE TypeOK'
  OBVIOUS
<1>1. HeapTypeOK'
  BY AnyHeapInv DEF HeapInv
<1>2. SUFFICES /\ BuffersOK' /\ stack' \in [StackAddr -> 0 .. BYTE - 1]
               /\ head' \in Addr /\ result' \in Nat /\ status' \in Status
  BY <1>1 DEF TypeOK, BuffersOK, BlockBuffer, Status, StackAddr, Addr
<1>3. BuffersOK /\ stack \in [StackAddr -> 0 .. BYTE - 1] /\ head \in Addr /\ result \in Nat
      /\ status \in Status
  BY DEF TypeOK, BuffersOK, BlockBuffer, Status
<1>4. UNCHANGED <<alloced, buffer>> => BuffersOK'
  BY <1>3 DEF BuffersOK, BlockBuffer
<1>5. ASSUME NEW size \in Nat, Malloc(size)
      PROVE  /\ BuffersOK' /\ stack' \in [StackAddr -> 0 .. BYTE - 1]
             /\ head' \in Addr /\ result' \in Nat /\ status' \in Status
  BY <1>3, <1>5, MallocType
<1>6. ASSUME NEW addr \in Addr, Free(addr)
      PROVE  /\ BuffersOK' /\ stack' \in [StackAddr -> 0 .. BYTE - 1]
             /\ head' \in Addr /\ result' \in Nat /\ status' \in Status
  BY <1>3, <1>6, FreeType
<1>7. ASSUME NEW size \in Sizes, NEW addr \in Addr, LoadStack(size, addr) \/ LoadHeap(size, addr)
      PROVE  /\ BuffersOK' /\ stack' \in [StackAddr -> 0 .. BYTE - 1]
             /\ head' \in Addr /\ result' \in Nat /\ status' \in Status
  <2>1. UNCHANGED <<alloced, buffer, stack, status>> /\ head' = addr
    BY <1>7 DEF LoadStack, LoadHeap, heapVars
  <2>2. result' \in Nat
    BY <1>7, LoadStackReads, LoadHeapReads
  <2> QED
    BY <1>3, <1>4, <2>1, <2>2
<1>8. ASSUME NEW size \in Sizes, NEW addr \in Addr, NEW val \in Nat, StoreStack(size, addr, val)
      PROVE  /\ BuffersOK' /\ stack' \in [StackAddr -> 0 .. BYTE - 1]
             /\ head' \in Addr /\ result' \in Nat /\ status' \in Status
  <2>1. UNCHANGED <<alloced, buffer, status>> /\ head' = addr /\ result' = 0
    BY <1>8 DEF StoreStack, heapVars
  <2> QED
    BY <1>3, <1>4, <1>8, <2>1, StoreStackType
<1>9. ASSUME NEW size \in Sizes, NEW addr \in Addr, NEW val \in Nat, StoreHeap(size, addr, val)
      PROVE  /\ BuffersOK' /\ stack' \in [StackAddr -> 0 .. BYTE - 1]
             /\ head' \in Addr /\ result' \in Nat /\ status' \in Status
  <2>1. UNCHANGED <<stack, status>> /\ head' = addr /\ result' = 0
    BY <1>9 DEF StoreHeap
  <2> QED
    BY <1>3, <1>9, <2>1, StoreHeapType
<1>10. CASE ResetStack \/ ResetHeap
  BY <1>3, <1>4, <1>10, AddrFacts DEF ResetStack, ResetHeap, ResetTo, heapVars
<1>11. ASSUME NEW why \in Status, StopWith(why)
       PROVE  /\ BuffersOK' /\ stack' \in [StackAddr -> 0 .. BYTE - 1]
              /\ head' \in Addr /\ result' \in Nat /\ status' \in Status
  BY <1>3, <1>4, <1>11 DEF StopWith, heapVars
<1>12. CASE UNCHANGED vars
  BY <1>3, <1>4, <1>12 DEF vars, heapVars
<1> QED
  BY <1>5, <1>6, <1>7, <1>8, <1>9, <1>10, <1>11, <1>12 DEF AnyStep

LEMMA NextTypeOK == HeapInv /\ BlocksAligned /\ TypeOK /\ [Next]_vars => TypeOK'
BY AnyTypeOK, NextIsAnyStep

(* Memory stays well typed: every block has a buffer of its length, and    *)
(* whatever is stored a byte is a byte.                                    *)
THEOREM TypeTheorem == Spec => []TypeOK
<1> QED BY InitHeapInv, NextHeapInv, InitAligned, NextAligned, InitTypeOK, NextTypeOK, PTL
           DEF Spec, Init

-----------------------------------------------------------------------------
(* The memory a program sees.                                              *)

LEMMA FlatMapped == Flat!Mapped = Mapped
<1>1. Flat!Span(0, STACK_MAX) = StackAddr
  BY MemoryAssumption DEF Flat!Span, StackAddr
<1>2. Flat!Mapped = Flat!Span(0, STACK_MAX) \cup UNION {b.first .. b.second - 1 : b \in alloced}
  BY DEF Flat!Mapped
<1> QED
  BY <1>1, <1>2 DEF Mapped, Bytes

LEMMA FlatBytes ==
  ASSUME NEW val, NEW i
  PROVE  Flat!After(val) = Shifts(val) /\ Flat!ByteOf(val, i) = ByteAt(val, i)
BY DEF Flat!After, Flat!ByteOf, Shifts, ByteAt

(* Blocks of the heap that lie apart.                                      *)
HeapBlocks(A) ==
  /\ A \subseteq Block
  /\ \A b \in A : HEAP_MIN <= b.first /\ b.first < b.second /\ b.second <= HEAP_MAX
  /\ \A b, c \in A : b # c => Apart(b, c)

LEMMA AllocedAreHeapBlocks ==
  /\ HeapInv => HeapBlocks(alloced)
  /\ HeapInv' => HeapBlocks(alloced')
BY DEF HeapInv, HeapTypeOK, BlocksInHeap, BlocksDisjoint, HeapBlocks, Apart, HEAP_MAX, Block

LEMMA OneBlock ==
  ASSUME NEW A, HeapBlocks(A), NEW b \in A, NEW a \in Bytes(b)
  PROVE  /\ (CHOOSE c \in A : a \in Bytes(c)) = b
         /\ a \notin StackAddr
         /\ a \in HEAP_MIN .. HEAP_MAX - 1
<1>1. \A c \in A : c.first \in Int /\ c.second \in Int
  BY DEF HeapBlocks, Block
<1>2. a \in Int /\ b.first <= a /\ a < b.second
  BY <1>1 DEF Bytes
<1>3. ASSUME NEW c \in A, a \in Bytes(c) PROVE c = b
  BY <1>1, <1>2, <1>3 DEF HeapBlocks, Apart, Bytes
<1>4. a \notin StackAddr /\ a \in HEAP_MIN .. HEAP_MAX - 1
  BY <1>1, <1>2, HeapBounds, HeapAssumption, MemoryAssumption DEF HeapBlocks, StackAddr
<1> QED
  BY <1>3, <1>4

LEMMA SeenInBlock ==
  ASSUME HeapInv, NEW b \in alloced, NEW a \in Bytes(b)
  PROVE  a \notin StackAddr /\ ByteSeen(a) = buffer[b][a - b.first] /\ a \in Mapped
<1>1. HeapBlocks(alloced)
  BY AllocedAreHeapBlocks
<1> QED
  BY <1>1, OneBlock DEF ByteSeen, Mapped

LEMMA SeenInBlockAfter ==
  ASSUME HeapInv', NEW b \in alloced', NEW a \in Bytes(b)
  PROVE  a \notin StackAddr /\ ByteSeen(a)' = buffer'[b][a - b.first]
<1>1. HeapBlocks(alloced')
  BY AllocedAreHeapBlocks
<1>2. (CHOOSE c \in alloced' : a \in Bytes(c)) = b /\ a \notin StackAddr
  BY <1>1, OneBlock
<1> QED
  BY <1>2 DEF ByteSeen, StackAddr, Bytes

LEMMA SeenStays ==
  ASSUME HeapInv, UNCHANGED alloced, NEW b \in alloced, NEW a \in Bytes(b)
  PROVE  ByteSeen(a)' = buffer'[b][a - b.first]
<1>1. HeapBlocks(alloced)
  BY AllocedAreHeapBlocks
<1>2. (CHOOSE c \in alloced : a \in Bytes(c)) = b /\ a \notin StackAddr
  BY <1>1, OneBlock
<1> QED
  BY <1>2 DEF ByteSeen, StackAddr, Bytes

LEMMA SeenInStack ==
  ASSUME NEW a \in StackAddr
  PROVE  ByteSeen(a) = stack[a] /\ ByteSeen(a)' = stack'[a] /\ a \in Mapped
BY DEF ByteSeen, StackAddr, Mapped

LEMMA ViewFacts ==
  ASSUME status = "running"
  PROVE  FlatView = [a \in Mapped |-> ByteSeen(a)]
BY DEF FlatView

LEMMA ViewAfter ==
  ASSUME status' = "running"
  PROVE  FlatView' = [a \in Mapped' |-> ByteSeen(a)']
BY DEF FlatView

LEMMA SameView ==
  ASSUME UNCHANGED <<alloced, buffer, stack, status>>
  PROVE  FlatView' = FlatView
<1>1. Mapped' = Mapped
  BY DEF Mapped, StackAddr, Bytes
<1>2. \A a : ByteSeen(a)' = ByteSeen(a)
  BY DEF ByteSeen, StackAddr, Bytes
<1> QED
  BY <1>1, <1>2 DEF FlatView

(* An address that is mapped is one of the stack or of a block.            *)
LEMMA MappedCases ==
  ASSUME NEW a \in Mapped
  PROVE  a \in StackAddr \/ \E b \in alloced : a \in Bytes(b)
BY DEF Mapped

-----------------------------------------------------------------------------
(* Every step is one the flat memory may take.                             *)

LEMMA StopsFlat ==
  ASSUME NEW why \in {"rejected", "host out of memory", "undefined"},
         status = "running", StopWith(why)
  PROVE  Flat!Next
<1>1. status' = why /\ UNCHANGED <<alloced, result>> /\ status' # "running"
  BY DEF StopWith, heapVars
<1>2. FlatView' = <<>>
  BY <1>1 DEF FlatView
<1> QED
  BY <1>1, <1>2 DEF Flat!Next, Flat!Stop

LEMMA ResetsFlat ==
  ASSUME ResetStack \/ ResetHeap
  PROVE  Flat!Next
<1>1. status = "running" /\ result' = 0 /\ UNCHANGED <<alloced, buffer, stack, status>>
  BY DEF ResetStack, ResetHeap, ResetTo, heapVars
<1>2. FlatView' = FlatView
  BY <1>1, SameView
<1> QED
  BY <1>1, <1>2 DEF Flat!Next, Flat!Reset

LEMMA LoadsFlat ==
  ASSUME HeapInv, BlocksAligned, TypeOK, NEW size \in Sizes, NEW addr \in Addr,
         LoadStack(size, addr) \/ LoadHeap(size, addr)
  PROVE  Flat!Next
<1>1. /\ status = "running" /\ UNCHANGED <<alloced, buffer, stack, status>>
      /\ IsAligned(size, addr) /\ addr \in Int /\ size \in Nat \ {0}
  BY HeapAssumption, MemoryAssumption DEF LoadStack, LoadHeap, heapVars, Addr
<1>2. FlatView' = FlatView
  BY <1>1, SameView
<1>3. /\ result' \in Nat /\ Shifts(result')[size] = 0
      /\ Span(addr, size) \subseteq Mapped
      /\ \A a \in Span(addr, size) : ByteSeen(a) = ByteAt(result', a - addr)
  <2>1. CASE LoadStack(size, addr)
    <3>1. /\ result' \in Nat /\ Shifts(result')[size] = 0
          /\ \A j \in 0 .. size - 1 : ByteAt(result', j) = stack[addr + j]
          /\ Span(addr, size) \subseteq StackAddr
      BY <2>1, LoadStackReads
    <3>2. ASSUME NEW a \in Span(addr, size) PROVE ByteSeen(a) = ByteAt(result', a - addr)
      <4>1. a - addr \in 0 .. size - 1 /\ addr + (a - addr) = a
        BY <1>1 DEF Span
      <4> QED
        BY <3>1, <4>1, SeenInStack
    <3> QED
      BY <3>1, <3>2 DEF Mapped
  <2>2. CASE LoadHeap(size, addr)
    <3>1. /\ result' \in Nat /\ Shifts(result')[size] = 0
      BY <2>2, LoadHeapReads
    <3>2. PICK b \in FindBlock(addr) :
            \A j \in 0 .. size - 1 : ByteAt(result', j) = buffer[b][addr - b.first + j]
      BY <2>2, LoadHeapReads
    <3>3. b \in alloced /\ b.first \in Int /\ Span(addr, size) \subseteq Bytes(b)
      BY <1>1, HeapAccess
    <3>4. ASSUME NEW a \in Span(addr, size) PROVE ByteSeen(a) = ByteAt(result', a - addr)
      <4>1. a - addr \in 0 .. size - 1 /\ addr - b.first + (a - addr) = a - b.first
        BY <1>1, <3>3 DEF Span
      <4>2. ByteSeen(a) = buffer[b][a - b.first]
        BY <3>3, SeenInBlock
      <4> QED
        BY <3>2, <4>1, <4>2
    <3> QED
      BY <3>1, <3>3, <3>4 DEF Mapped
  <2> QED
    BY <2>1, <2>2
<1>4. Restrict(FlatView, Span(addr, size)) =
        [a \in Span(addr, size) |-> ByteAt(result', a - addr)]
  BY <1>1, <1>3, ViewFacts DEF Restrict
<1>5. Flat!Load(size, addr)
  BY <1>1, <1>2, <1>3, <1>4, FlatBytes DEF Flat!Load, Flat!Restrict, Restrict, Flat!Span, Span
<1>6. addr \in Mapped /\ Flat!Accessible(size, addr)
  <2>1. addr \in Span(addr, size)
    BY <1>1 DEF Span
  <2> QED
    BY <1>1, <1>3, <2>1, FlatMapped DEF Flat!Accessible, IsAligned, Flat!Span, Span
<1> QED
  BY <1>1, <1>2, <1>5, <1>6, FlatMapped DEF Flat!Next

LEMMA StoreStackFlat ==
  ASSUME HeapInv, TypeOK, NEW size \in Sizes, NEW addr \in Addr, NEW val \in Values,
         StoreStack(size, addr, val)
  PROVE  Flat!Next
<1>1. /\ status = "running" /\ status' = status /\ result' = 0 /\ UNCHANGED <<alloced, buffer>>
      /\ IsAligned(size, addr) /\ addr \in StackAddr
      /\ stack' = StoreLittleEndian(size, stack, addr, val)
  BY DEF StoreStack, heapVars
<1>2. addr \in Int /\ size \in Nat \ {0}
  BY HeapAssumption, MemoryAssumption DEF Addr
<1>3. Span(addr, size) \subseteq StackAddr
  BY <1>1, StackAccess
<1>4. Mapped' = Mapped
  BY <1>1 DEF Mapped, StackAddr, Bytes
<1>5. ASSUME NEW a \in Mapped
      PROVE  ByteSeen(a)' = IF a \in Span(addr, size) THEN ByteAt(val, a - addr) ELSE ByteSeen(a)
  <2>1. CASE a \in StackAddr
    <3>1. ByteSeen(a)' = stack'[a] /\ ByteSeen(a) = stack[a]
      BY <2>1, SeenInStack
    <3>2. a \in DOMAIN stack
      BY <2>1 DEF TypeOK
    <3> QED
      BY <1>1, <3>1, <3>2 DEF StoreLittleEndian, Span
  <2>2. CASE a \notin StackAddr
    <3>1. ByteSeen(a)' = ByteSeen(a)
      BY <1>1, <2>2 DEF ByteSeen, StackAddr, Bytes
    <3> QED
      BY <1>3, <2>2, <3>1
  <2> QED
    BY <2>1, <2>2
<1>6. FlatView' = [a \in Mapped |-> IF a \in Span(addr, size) THEN ByteAt(val, a - addr) ELSE FlatView[a]]
  BY <1>1, <1>4, <1>5, ViewFacts, ViewAfter
<1>7. Flat!Store(size, addr, val)
  BY <1>1, <1>6, FlatMapped, FlatBytes DEF Flat!Store, Flat!Span, Span
<1>8. addr \in Mapped /\ Flat!Accessible(size, addr)
  <2>1. Span(addr, size) \subseteq Mapped /\ addr \in Mapped
    BY <1>1, <1>3 DEF Mapped
  <2> QED
    BY <1>1, <2>1, FlatMapped DEF Flat!Accessible, IsAligned, Flat!Span, Span
<1> QED
  BY <1>1, <1>7, <1>8, FlatMapped DEF Flat!Next

LEMMA StoreHeapFlat ==
  ASSUME HeapInv, BlocksAligned, TypeOK, NEW size \in Sizes, NEW addr \in Addr, NEW val \in Values,
         StoreHeap(size, addr, val)
  PROVE  Flat!Next
<1>1. /\ status = "running" /\ status' = status /\ result' = 0 /\ UNCHANGED <<alloced, stack>>
      /\ IsAligned(size, addr)
  BY DEF StoreHeap, heapVars
<1>2. PICK b \in FindBlock(addr) :
        buffer' = [buffer EXCEPT ![b] = StoreLittleEndian(size, buffer[b], addr - b.first, val)]
  BY DEF StoreHeap
<1>3. addr \in Int /\ size \in Nat \ {0}
  BY HeapAssumption, MemoryAssumption DEF Addr
<1>4. /\ b \in alloced /\ b.first \in Int /\ b.second \in Int
      /\ Span(addr, size) \subseteq Bytes(b)
  BY <1>1, <1>3, HeapAccess
<1>5. Mapped' = Mapped
  BY <1>1 DEF Mapped, StackAddr, Bytes
<1>6. ASSUME NEW a \in Mapped
      PROVE  ByteSeen(a)' = IF a \in Span(addr, size) THEN ByteAt(val, a - addr) ELSE ByteSeen(a)
  <2>1. CASE a \in StackAddr
    <3>1. ByteSeen(a)' = ByteSeen(a)
      BY <1>1, <2>1, SeenInStack
    <3>2. a \notin Bytes(b)
      BY <1>4, <2>1, SeenInBlock
    <3> QED
      BY <1>4, <3>1, <3>2
  <2>2. ASSUME NEW c \in alloced, a \in Bytes(c), c # b
        PROVE  ByteSeen(a)' = IF a \in Span(addr, size) THEN ByteAt(val, a - addr) ELSE ByteSeen(a)
    <3>1. a \notin Bytes(b)
      BY <1>4, <2>2 DEF HeapInv, HeapTypeOK, Block, BlocksDisjoint, Apart, Bytes
    <3>2. buffer'[c] = buffer[c]
      BY <1>2, <1>4, <2>2 DEF TypeOK
    <3>3. ByteSeen(a)' = buffer'[c][a - c.first]
      BY <1>1, <2>2, SeenStays
    <3>4. ByteSeen(a) = buffer[c][a - c.first]
      BY <2>2, SeenInBlock
    <3> QED
      BY <1>4, <3>1, <3>2, <3>3, <3>4
  <2>3. CASE a \in Bytes(b)
    <3>1. PICK ofs, i, bytes : ofs = addr - b.first /\ i = a - b.first /\ bytes = buffer[b]
      OBVIOUS
    <3>2. buffer'[b] = StoreLittleEndian(size, bytes, ofs, val)
      BY <1>2, <1>4, <3>1 DEF TypeOK
    <3>3. ByteSeen(a)' = buffer'[b][i] /\ ByteSeen(a) = bytes[i]
      BY <1>1, <1>4, <2>3, <3>1, SeenStays, SeenInBlock
    <3>4. a \in Int /\ i \in 0 .. b.second - b.first - 1 /\ i - ofs = a - addr
          /\ (i \in ofs .. ofs + size - 1 <=> a \in Span(addr, size))
      BY <1>3, <1>4, <2>3, <3>1 DEF Bytes, Span
    <3>5. i \in DOMAIN bytes
      BY <1>4, <3>1, <3>4 DEF TypeOK
    <3>6. buffer'[b][i] = IF i \in ofs .. ofs + size - 1 THEN ByteAt(val, i - ofs) ELSE bytes[i]
      BY <3>2, <3>5 DEF StoreLittleEndian
    <3> QED
      BY <3>3, <3>4, <3>6
  <2> QED
    BY <2>1, <2>2, <2>3, MappedCases
<1>7. FlatView' = [a \in Mapped |-> IF a \in Span(addr, size) THEN ByteAt(val, a - addr) ELSE FlatView[a]]
  BY <1>1, <1>5, <1>6, ViewFacts, ViewAfter
<1>8. Flat!Store(size, addr, val)
  BY <1>1, <1>7, FlatMapped, FlatBytes DEF Flat!Store, Flat!Span, Span
<1>9. addr \in Mapped /\ Flat!Accessible(size, addr)
  <2>1. Span(addr, size) \subseteq Mapped
    BY <1>4 DEF Mapped
  <2>2. addr \in Span(addr, size)
    BY <1>3 DEF Span
  <2> QED
    BY <1>1, <2>1, <2>2, FlatMapped DEF Flat!Accessible, IsAligned, Flat!Span, Span
<1> QED
  BY <1>1, <1>8, <1>9, FlatMapped DEF Flat!Next

LEMMA ValidSizes ==
  ASSUME NEW size \in MallocSizes, ValidSize(size)
  PROVE  size \in Flat!MallocSizes /\ size \in Nat /\ size # 0
<1>1. size \in 0 .. MaxMalloc /\ size # 0 /\ size % WORD = 0 /\ MaxMalloc \in Nat
  BY MemoryAssumption DEF MallocSizes, ValidSize
<1>2. size \in 1 .. MaxMalloc /\ size \in Nat
  BY <1>1
<1> QED
  BY <1>1, <1>2 DEF Flat!MallocSizes

(* A stretch of integers apart from another shares none with it.           *)
LEMMA StretchesApart ==
  ASSUME NEW l1 \in Int, NEW h1 \in Int, NEW l2 \in Int, NEW h2 \in Int, h1 <= l2 \/ h2 <= l1
  PROVE  (l1 .. h1 - 1) \cap (l2 .. h2 - 1) = {}
OBVIOUS

(* A stretch the flat memory has room for lies in one freed block.         *)
LEMMA RoomIsFree ==
  ASSUME HeapInv, NEW lo \in Int, NEW size \in Nat, size # 0, Flat!Room(lo, size)
  PROVE  \E c \in freed : c.first <= lo /\ lo + size <= c.second
<1> DEFINE hi == lo + size
<1>1. lo .. hi - 1 \subseteq HEAP_MIN .. HEAP_MAX - 1 /\ lo .. hi - 1 \cap Mapped = {}
  BY FlatMapped DEF Flat!Room, Flat!Span
<1>2. lo \in lo .. hi - 1 /\ hi - 1 \in lo .. hi - 1 /\ hi \in Int /\ lo < hi
  OBVIOUS
<1> HIDE DEF hi
<1>3. lo \in HEAP_MIN .. HEAP_MAX /\ hi \in HEAP_MIN .. HEAP_MAX
  BY <1>1, <1>2, HeapBounds
<1>4. ASSUME NEW b \in alloced PROVE Apart(block_t(lo, hi), b)
  <2>1. b.first \in Int /\ b.second \in Int /\ b.first < b.second
    BY DEF HeapInv, HeapTypeOK, Block, BlocksInHeap
  <2>2. Bytes(b) \cap lo .. hi - 1 = {}
    BY <1>1 DEF Mapped
  <2>3. lo \notin Bytes(b) /\ b.first \notin lo .. hi - 1
    BY <1>2, <2>1, <2>2 DEF Bytes
  <2> QED
    BY <1>2, <2>1, <2>3 DEF Apart, block_t, Bytes
<1>5. \E c \in freed : c.first <= lo /\ hi <= c.second
  BY <1>2, <1>3, <1>4, HeapInvNoLostRoom DEF NoLostRoom
<1> QED
  BY <1>5 DEF hi

LEMMA OutOfMemoryFlat ==
  ASSUME HeapInv, NEW size \in MallocSizes, MallocOutOfMemory(size)
  PROVE  Flat!Next
<1>1. /\ status = "running" /\ ValidSize(size) /\ NoFit(size)
      /\ status' = "out of memory" /\ UNCHANGED <<alloced, result>>
  BY DEF MallocOutOfMemory, StopWith, heapVars
<1>2. size \in Flat!MallocSizes /\ size \in Nat /\ size # 0
  BY <1>1, ValidSizes
<1>3. ASSUME NEW lo \in HEAP_MIN .. HEAP_MAX - 1, Flat!Room(lo, size) PROVE FALSE
  <2>1. PICK c \in freed : c.first <= lo /\ lo + size <= c.second
    BY <1>2, <1>3, HeapBounds, RoomIsFree
  <2>2. c.first \in Int /\ c.second \in Int /\ lo \in Int
    BY HeapBounds DEF HeapInv, HeapTypeOK, Block
  <2>3. c.second - c.first >= size
    BY <1>2, <2>1, <2>2
  <2> QED
    BY <1>1, <2>1, <2>3 DEF NoFit, Fits
<1>4. FlatView' = <<>>
  BY <1>1 DEF FlatView
<1>5. Flat!MallocFails(size)
  BY <1>1, <1>3, <1>4 DEF Flat!MallocFails
<1> QED
  BY <1>1, <1>2, <1>5 DEF Flat!Next

LEMMA MallocFlat ==
  ASSUME HeapInv, HeapInv', TypeOK, NEW size \in MallocSizes, Malloc(size)
  PROVE  Flat!Next
<1>1. status = "running" /\ status' = status /\ ValidSize(size) /\ UNCHANGED stack
  BY DEF Malloc
<1>2. size \in Flat!MallocSizes /\ size \in Nat /\ size # 0
  BY <1>1, ValidSizes
<1>3. PICK b \in freed : /\ FirstFit(b, size) /\ TakeFrom(b, size)
                         /\ buffer' = [c \in alloced \cup {block_t(b.first, b.first + size)} |->
                              IF c = block_t(b.first, b.first + size)
                                THEN [i \in 0 .. size - 1 |-> 0] ELSE buffer[c]]
                         /\ result' = b.first
  BY DEF Malloc
<1>4. PICK lo, new : lo = b.first /\ new = block_t(lo, lo + size)
  OBVIOUS
<1>5. /\ alloced' = alloced \cup {new}
      /\ buffer' = [c \in alloced \cup {new} |-> IF c = new THEN [i \in 0 .. size - 1 |-> 0] ELSE buffer[c]]
      /\ result' = lo
  BY <1>3, <1>4 DEF TakeFrom
<1>6. /\ lo \in Int /\ b.second \in Int /\ HEAP_MIN <= lo /\ lo + size <= b.second
      /\ b.second <= HEAP_MAX
  BY <1>2, <1>3, <1>4 DEF HeapInv, HeapTypeOK, Block, BlocksInHeap, FirstFit, Fits
<1>7. new = [first |-> lo, second |-> lo + size] /\ new.first = lo /\ new.second = lo + size
  BY <1>4 DEF block_t
<1>8. Bytes(new) = lo .. lo + size - 1
  <2>1. Bytes(new) = new.first .. new.second - 1
    BY DEF Bytes
  <2>2. PICK hi : hi = lo + size
    OBVIOUS
  <2>3. new.first = lo /\ new.second = hi
    BY <1>7, <2>2
  <2>4. Bytes(new) = lo .. hi - 1
    BY <2>1, <2>3
  <2>5. hi - 1 = lo + size - 1     \* - binds tighter than +
    BY <1>2, <1>6, <2>2
  <2> QED
    BY <2>4, <2>5
<1>9. \A c \in alloced : Bytes(c) \cap Bytes(new) = {}
  <2>1. ASSUME NEW c \in alloced PROVE Bytes(c) \cap Bytes(new) = {}
    <3>1. c.second <= lo \/ b.second <= c.first
      BY <1>4 DEF HeapInv, BlocksDisjoint, Apart
    <3>2. c.first \in Int /\ c.second \in Int
      BY DEF HeapInv, HeapTypeOK, Block
    <3>3. c.second <= lo \/ lo + size <= c.first
      BY <1>2, <1>6, <3>1, <3>2
    <3>4. lo + size \in Int
      BY <1>2, <1>6
    <3>5. lo \in Int
      BY <1>6
    <3>6. \A l1, h1, l2, h2 \in Int :
            h1 <= l2 \/ h2 <= l1 => (l1 .. h1 - 1) \cap (l2 .. h2 - 1) = {}
      BY StretchesApart
    <3>7. (c.first .. c.second - 1) \cap (lo .. (lo + size) - 1) = {}
      BY <3>2, <3>3, <3>4, <3>5, <3>6
    <3>8. Bytes(c) = c.first .. c.second - 1
      BY DEF Bytes
    <3>9. (lo + size) - 1 = lo + size - 1
      BY <1>2, <1>6
    <3> QED
      BY <1>8, <3>7, <3>8, <3>9
  <2> QED
    BY <2>1
<1>10. Bytes(new) \cap Mapped = {}
  <2>1. Bytes(new) \cap StackAddr = {}
    BY <1>2, <1>6, <1>8, HeapAssumption, MemoryAssumption DEF StackAddr
  <2> QED
    BY <1>9, <2>1 DEF Mapped
<1>11. Flat!Room(lo, size)
  <2>1. lo .. lo + size - 1 \subseteq HEAP_MIN .. HEAP_MAX - 1
    BY <1>2, <1>6, HeapBounds
  <2> QED
    BY <1>8, <1>10, <2>1, FlatMapped DEF Flat!Room, Flat!Span
<1>12. ASSUME NEW l \in HEAP_MIN .. lo - 1, Flat!Room(l, size) PROVE FALSE
  <2>1. PICK c \in freed : c.first <= l /\ l + size <= c.second
    BY <1>2, <1>6, <1>12, HeapBounds, RoomIsFree
  <2>2. c.first \in Int /\ c.second \in Int /\ l \in Int /\ l < lo
    BY <1>6, HeapBounds DEF HeapInv, HeapTypeOK, Block
  <2>3. c = b \/ Before(b, c)
    BY <1>2, <1>3, <2>1, <2>2 DEF FirstFit, Fits
  <2> QED
    BY <1>4, <1>6, <2>1, <2>2, <2>3 DEF Before
<1>13. Mapped' = Mapped \cup Bytes(new)
  BY <1>5 DEF Mapped, StackAddr, Bytes
<1>14. ASSUME NEW a \in Mapped PROVE ByteSeen(a)' = ByteSeen(a)
  <2>1. CASE a \in StackAddr
    BY <1>1, <2>1, SeenInStack
  <2>2. ASSUME NEW c \in alloced, a \in Bytes(c) PROVE ByteSeen(a)' = ByteSeen(a)
    <3>1. c # new
      BY <1>9, <2>2
    <3>2. buffer'[c] = buffer[c] /\ c \in alloced'
      BY <1>5, <3>1
    <3> QED
      BY <2>2, <3>2, SeenInBlock, SeenInBlockAfter
  <2> QED
    BY <2>1, <2>2, MappedCases
<1>15. ASSUME NEW a \in Bytes(new) PROVE ByteSeen(a)' = 0
  <2>1. new \in alloced' /\ buffer'[new] = [i \in 0 .. size - 1 |-> 0]
    BY <1>5
  <2>2. ByteSeen(a)' = buffer'[new][a - new.first]
    BY <2>1, SeenInBlockAfter
  <2>3. a - new.first \in 0 .. size - 1
    BY <1>2, <1>6, <1>7, <1>8
  <2> QED
    BY <2>1, <2>2, <2>3
<1>16. FlatView' = [a \in Mapped \cup Bytes(new) |-> IF a \in Mapped THEN FlatView[a] ELSE 0]
  BY <1>1, <1>13, <1>14, <1>15, ViewFacts, ViewAfter
<1>17. Flat!Malloc(size, lo)
  BY <1>1, <1>5, <1>7, <1>8, <1>11, <1>12, <1>16, FlatMapped DEF Flat!Malloc, Flat!Span
<1>18. lo \in HEAP_MIN .. HEAP_MAX - 1
  BY <1>2, <1>6, HeapBounds
<1> QED
  BY <1>1, <1>2, <1>17, <1>18 DEF Flat!Next

LEMMA FreeFlat ==
  ASSUME HeapInv, HeapInv', NEW addr \in Addr, Free(addr)
  PROVE  Flat!Next
<1>1. status = "running" /\ status' = status /\ UNCHANGED stack /\ result' = 0
  BY DEF Free
<1>2. PICK b \in alloced : GiveBack(b) /\ buffer' = [c \in alloced \ {b} |-> buffer[c]]
  BY DEF Free
<1>3. alloced' = alloced \ {b}
  BY <1>2 DEF GiveBack
<1>4. \A c \in alloced \ {b} : Bytes(c) \cap Bytes(b) = {}
  BY DEF HeapInv, HeapTypeOK, Block, BlocksDisjoint, Apart, Bytes
<1>5. Mapped' = Mapped \ Bytes(b)
  <2>1. Bytes(b) \cap StackAddr = {}
    BY SeenInBlock
  <2>2. Mapped' = StackAddr \cup UNION {Bytes(c) : c \in alloced \ {b}}
    BY <1>3 DEF Mapped, StackAddr, Bytes
  <2> QED
    BY <1>4, <2>1, <2>2 DEF Mapped
<1>6. ASSUME NEW a \in Mapped \ Bytes(b) PROVE ByteSeen(a)' = ByteSeen(a)
  <2>1. CASE a \in StackAddr
    BY <1>1, <2>1, SeenInStack
  <2>2. ASSUME NEW c \in alloced, a \in Bytes(c) PROVE ByteSeen(a)' = ByteSeen(a)
    <3>1. c # b
      BY <1>6, <2>2
    <3>2. buffer'[c] = buffer[c] /\ c \in alloced'
      BY <1>2, <1>3, <3>1
    <3> QED
      BY <2>2, <3>2, SeenInBlock, SeenInBlockAfter
  <2> QED
    BY <2>1, <2>2, MappedCases
<1>7. FlatView' = [a \in Mapped \ Bytes(b) |-> FlatView[a]]
  BY <1>1, <1>5, <1>6, ViewFacts, ViewAfter
<1>8. b.first \in Int /\ b.second \in Int
  BY DEF HeapInv, HeapTypeOK, Block
<1>9. Flat!Span(b.first, b.second - b.first) = Bytes(b)
  <2>1. PICK lo, hi : lo = b.first /\ hi = b.second
    OBVIOUS
  <2>2. lo + (hi - lo) - 1 = hi - 1
    BY <1>8, <2>1
  <2>3. lo .. lo + (hi - lo) - 1 = lo .. hi - 1
    BY <2>2
  <2> QED
    BY <2>1, <2>3 DEF Flat!Span, Bytes
<1>10. Flat!Free(b)
  BY <1>1, <1>3, <1>7, <1>9, FlatMapped DEF Flat!Free, Flat!Restrict, Restrict
<1> QED
  BY <1>1, <1>10 DEF Flat!Next

LEMMA InitFlat == Init => Flat!Init
<1> SUFFICES ASSUME Init PROVE Flat!Init
  OBVIOUS
<1>1. alloced = {} /\ status = "running" /\ result = 0 /\ stack = [a \in StackAddr |-> 0]
  BY DEF Init, HeapInit
<1>2. Mapped = StackAddr
  BY <1>1 DEF Mapped
<1>3. FlatView = [a \in StackAddr |-> 0]
  BY <1>1, <1>2, ViewFacts, SeenInStack
<1>4. Flat!Span(0, STACK_MAX) = StackAddr
  BY MemoryAssumption DEF Flat!Span, StackAddr
<1> QED
  BY <1>1, <1>3, <1>4 DEF Flat!Init

LEMMA MemorySteps ==
  ASSUME [Next]_vars
  PROVE  \/ UNCHANGED vars
         \/ \E size \in MallocSizes : Malloc(size)
         \/ \E addr \in Addr : Free(addr)
         \/ \E size \in Sizes, addr \in Addr : LoadStack(size, addr) \/ LoadHeap(size, addr)
         \/ \E size \in Sizes, addr \in Addr, val \in Values :
              StoreStack(size, addr, val) \/ StoreHeap(size, addr, val)
         \/ ResetStack \/ ResetHeap
         \/ \E size \in MallocSizes : MallocOutOfMemory(size)
         \/ \E why \in {"rejected", "host out of memory", "undefined"} :
              status = "running" /\ StopWith(why)
BY DEF Next, MallocInvalid, HostOutOfMemory, FreeInvalid, AccessRejected, AccessWraps

LEMMA NextFlat ==
  HeapInv /\ HeapInv' /\ BlocksAligned /\ TypeOK /\ [Next]_vars => [Flat!Next]_(Flat!flatVars)
<1> SUFFICES ASSUME HeapInv, HeapInv', BlocksAligned, TypeOK, [Next]_vars
             PROVE  [Flat!Next]_(Flat!flatVars)
  OBVIOUS
<1>1. CASE UNCHANGED vars
  <2>1. UNCHANGED <<alloced, buffer, stack, status, result>>
    BY <1>1 DEF vars, heapVars
  <2>2. FlatView' = FlatView
    BY <2>1, SameView
  <2> QED
    BY <2>1, <2>2 DEF Flat!flatVars
<1>2. CASE Flat!Next
  BY <1>2
<1> QED
  BY <1>1, <1>2, MemorySteps, StopsFlat, ResetsFlat, LoadsFlat, StoreStackFlat, StoreHeapFlat,
     OutOfMemoryFlat, MallocFlat, FreeFlat

(* The memory implements a flat map of bytes with first-fit allocation.    *)
THEOREM FlatMemoryTheorem == Spec => ImplementsFlatMemory
<1> QED BY InitHeapInv, NextHeapInv, InitAligned, NextAligned, InitTypeOK, NextTypeOK,
           InitFlat, NextFlat, PTL DEF Spec, Init, ImplementsFlatMemory, Flat!Spec

=============================================================================
