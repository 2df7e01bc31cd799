------------------------ MODULE MemoryAccess_proofs ------------------------
(***************************************************************************)
(* What is proved about the passes that MemoryAccessPasses runs one after  *)
(* the other.                                                              *)
(*                                                                         *)
(* ReorderMemAccess, for blocks of any length: its list scheduling makes a *)
(* permutation of the block that is legal and keeps the order of the       *)
(* accesses the pass knows to be in conflict, and changes between stack    *)
(* and heap hardly more often than the block did.                          *)
(*                                                                         *)
(* ResetPointer, for areas of any size with a gap between them that is     *)
(* worth a reset: no reset instruction costs more than it saves.           *)
(***************************************************************************)
EXTENDS MemoryAccessPasses, FiniteSetTheorems, Induction, TLAPS

-----------------------------------------------------------------------------
(* What a pointer operand is.                                              *)
LEMMA InstructionsOfBlock ==
  ASSUME NEW b, IsBlock(b), NEW n \in DOMAIN b
  PROVE  b[n].kind \in Kind /\ b[n].ops \in Seq(Int)
<1>1. b[n] \in Instruction
  BY DEF IsBlock
<1> QED
  BY <1>1 DEF Instruction

LEMMA PointerOperandIsEarlier ==
  ASSUME NEW b, IsBlock(b), NEW n \in DOMAIN b, b[n].kind \in {"address", "load", "store"}
  PROVE  PointerOperand(b[n]) \in Outside \/ PointerOperand(b[n]) \in 1 .. n - 1
<1>1. b[n].ops \in Seq(Int) /\ b[n].ops # <<>>
  BY InstructionsOfBlock DEF IsBlock
<1>2. 1 \in DOMAIN b[n].ops /\ Len(b[n].ops) \in DOMAIN b[n].ops
  BY <1>1
<1>3. PointerOperand(b[n]) \in Range(b[n].ops)
  BY <1>2 DEF PointerOperand, Last, Range
<1> QED
  BY <1>3 DEF IsBlock

-----------------------------------------------------------------------------
(* The two types are well defined, though they look up that of the pointer *)
(* operand: it is in front of the instruction.                             *)
AreaType == {"stack", "heap", "unknown"}

(* What an instruction takes its type from, and the type of the others.    *)
OpTypeFrom(b) ==
  [n \in DOMAIN b |-> IF b[n].kind = "address" THEN PointerOperand(b[n]) ELSE 0]
OpTypeBase(b) ==
  [n \in DOMAIN b |->
     IF b[n].kind = "address" /\ PointerOperand(b[n]) \in Outside
     THEN OutsideOpType(PointerOperand(b[n]))
     ELSE IF b[n].kind \in {"malloc", "free"} THEN "heap"
     ELSE IF b[n].kind \in {"alloca", "alloca_bytes"} THEN "stack" ELSE "unknown"]

LEMMA OpTypeFollows ==
  ASSUME NEW b, IsBlock(b), NEW t
  PROVE  /\ OpTypeBase(b) \in [DOMAIN b -> AreaType]
         /\ \A n \in DOMAIN b :
              OpTypeOf(b, t, n) = IF OpTypeFrom(b)[n] \in 1 .. n - 1
                                  THEN t[OpTypeFrom(b)[n]] ELSE OpTypeBase(b)[n]
<1>1. ASSUME NEW v \in Outside
      PROVE  OutsideOpType(v) \in AreaType
  BY DEF OutsideOpType, Outside, AreaType, AnAlloca, AMalloc, AGlobal, ALoad, AResult, Other
<1>2. OpTypeBase(b) \in [DOMAIN b -> AreaType]
  BY <1>1 DEF OpTypeBase, AreaType
<1>3. ASSUME NEW n \in DOMAIN b
      PROVE  OpTypeOf(b, t, n) = IF OpTypeFrom(b)[n] \in 1 .. n - 1
                                 THEN t[OpTypeFrom(b)[n]] ELSE OpTypeBase(b)[n]
  <2> DEFINE p == PointerOperand(b[n])
  <2>1. CASE b[n].kind = "address"
    <3>1. p \in Outside <=> ~(p \in 1 .. n - 1)
      BY <2>1, PointerOperandIsEarlier DEF Outside, Other, AnAlloca
    <3>2. OpTypeOf(b, t, n) = IF p \in Outside THEN OutsideOpType(p) ELSE t[p]
      BY <2>1 DEF OpTypeOf
    <3>3. OpTypeFrom(b)[n] = p
      BY <2>1 DEF OpTypeFrom
    <3>4. p \in Outside => OpTypeBase(b)[n] = OutsideOpType(p)
      BY <2>1 DEF OpTypeBase
    <3> QED
      BY <3>1, <3>2, <3>3, <3>4
  <2>2. CASE b[n].kind # "address"
    <3>1. OpTypeFrom(b)[n] = 0 /\ ~(0 \in 1 .. n - 1)
      BY <2>2 DEF OpTypeFrom
    <3>2. b[n].kind \in Kind
      BY InstructionsOfBlock
    <3>3. OpTypeOf(b, t, n) = OpTypeBase(b)[n]
      BY <2>2, <3>2 DEF OpTypeOf, OpTypeBase, Kind
    <3> QED
      BY <3>1, <3>3
  <2> QED
    BY <2>1, <2>2
<1> QED
  BY <1>2, <1>3

LEMMA OpTypeType ==
  ASSUME NEW b, IsBlock(b)
  PROVE  /\ \A n \in DOMAIN b : getOpTypeReorder(b)[n] \in AreaType
         /\ \A v \in Outside \cup DOMAIN b : OpType(b, v) \in AreaType
<1> DEFINE N == Len(b)
<1>1. N \in Nat /\ DOMAIN b = 1 .. N
  BY DEF IsBlock
<1> HIDE DEF N
<1>2. OpTypeBase(b) \in [1 .. N -> AreaType]
  BY <1>1, OpTypeFollows
<1>3. PICK t \in [1 .. N -> AreaType] : Follows(t, N, OpTypeBase(b), OpTypeFrom(b))
  BY <1>1, <1>2, FollowsExists
<1>4. t = [n \in DOMAIN b |-> OpTypeOf(b, t, n)]
  <2>1. \A n \in DOMAIN b : t[n] = OpTypeOf(b, t, n)
    BY <1>1, <1>3, OpTypeFollows DEF Follows
  <2> QED
    BY <1>1, <2>1
<1> DEFINE g == getOpTypeReorder(b)
<1>5. g = [n \in DOMAIN b |-> OpTypeOf(b, g, n)]
  BY <1>4 DEF getOpTypeReorder
<1> HIDE DEF g
<1>6. \A n \in 1 .. N : g[n] = OpTypeOf(b, g, n)
  BY <1>1, <1>5
<1>7. Follows(g, N, OpTypeBase(b), OpTypeFrom(b))
  BY <1>1, <1>6, OpTypeFollows DEF Follows
<1>8. \A n \in DOMAIN b : g[n] \in AreaType
  BY <1>1, <1>2, <1>7, FollowsType
<1>9. \A v \in Outside : OutsideOpType(v) \in AreaType
  BY DEF OutsideOpType, Outside, AreaType, AnAlloca, AMalloc, AGlobal, ALoad, AResult, Other
<1> QED
  BY <1>8, <1>9 DEF OpType, g

BlockTypeFrom(b) ==
  [n \in DOMAIN b |-> IF b[n].kind \in {"address", "load", "store"}
                      THEN PointerOperand(b[n]) ELSE 0]
BlockTypeBase(b) ==
  [n \in DOMAIN b |->
     IF b[n].kind \in {"address", "load", "store"} THEN OutsideBlockType(PointerOperand(b[n]))
     ELSE IF b[n].kind \in {"malloc", "free"} THEN "heap"
     ELSE IF b[n].kind \in {"alloca", "alloca_bytes"} THEN "stack"
     ELSE IF b[n].kind = "call" THEN "call" ELSE "unknown"]

LEMMA BlockTypeFollows ==
  ASSUME NEW b, IsBlock(b), NEW t, NEW n \in DOMAIN b
  PROVE  BlockTypeOf(b, t, n) = IF BlockTypeFrom(b)[n] \in 1 .. n - 1
                                THEN t[BlockTypeFrom(b)[n]] ELSE BlockTypeBase(b)[n]
<1> DEFINE p == PointerOperand(b[n])
<1>1. CASE b[n].kind \in {"address", "load", "store"}
  <2>1. p \in Outside <=> ~(p \in 1 .. n - 1)
    BY <1>1, PointerOperandIsEarlier DEF Outside, Other, AnAlloca
  <2>2. BlockTypeOf(b, t, n) = IF p \in Outside THEN OutsideBlockType(p) ELSE t[p]
    BY <1>1 DEF BlockTypeOf
  <2>3. BlockTypeFrom(b)[n] = p
    BY <1>1 DEF BlockTypeFrom
  <2>4. BlockTypeBase(b)[n] = OutsideBlockType(p)
    BY <1>1 DEF BlockTypeBase
  <2> QED
    BY <2>1, <2>2, <2>3, <2>4
<1>2. CASE b[n].kind \notin {"address", "load", "store"}
  <2>1. BlockTypeFrom(b)[n] = 0 /\ ~(0 \in 1 .. n - 1)
    BY <1>2 DEF BlockTypeFrom
  <2>2. b[n].kind \in Kind
    BY InstructionsOfBlock
  <2>3. BlockTypeOf(b, t, n) = BlockTypeBase(b)[n]
    BY <1>2, <2>2 DEF BlockTypeOf, BlockTypeBase, Kind
  <2> QED
    BY <2>1, <2>3
<1> QED
  BY <1>1, <1>2

LEMMA BlockTypeIsFunction ==
  ASSUME NEW b, IsBlock(b)
  PROVE  getBlockType(b) = [k \in DOMAIN b |-> BlockTypeOf(b, getBlockType(b), k)]
<1> DEFINE N == Len(b)
           S == {BlockTypeBase(b)[k] : k \in 1 .. N}
<1>1. N \in Nat /\ DOMAIN b = 1 .. N
  BY DEF IsBlock
<1> HIDE DEF N
<1>2. BlockTypeBase(b) \in [1 .. N -> S]
  BY <1>1 DEF BlockTypeBase
<1>3. PICK t \in [1 .. N -> S] : Follows(t, N, BlockTypeBase(b), BlockTypeFrom(b))
  BY <1>1, <1>2, FollowsExists
<1>4. t = [k \in DOMAIN b |-> BlockTypeOf(b, t, k)]
  <2>1. \A k \in DOMAIN b : t[k] = BlockTypeOf(b, t, k)
    BY <1>1, <1>3, BlockTypeFollows DEF Follows
  <2> QED
    BY <1>1, <2>1
<1> QED
  BY <1>4 DEF getBlockType

(* A phi has no area, so that it is never held back.                       *)
LEMMA PhiHasNoArea ==
  ASSUME NEW b, IsBlock(b), NEW n \in DOMAIN b, b[n].kind = "phi"
  PROVE  getBlockType(b)[n] = "unknown"
<1> DEFINE g == getBlockType(b)
<1>1. g = [k \in DOMAIN b |-> BlockTypeOf(b, g, k)]
  BY BlockTypeIsFunction
<1> HIDE DEF g
<1>2. g[n] = BlockTypeOf(b, g, n)
  BY <1>1
<1> QED
  BY <1>2 DEF g, BlockTypeOf

-----------------------------------------------------------------------------
(* The inductive invariant.                                                *)

(* The instructions that have to be in front of j when the block is        *)
(* rebuilt.                                                                *)
MustPrecede(i, j) == j \in dom[i] \/ (insts[i].kind = "phi" /\ insts[j].kind # "phi")

ReorderTypeOK ==
  /\ insts \in Blocks
  /\ type = getBlockType(insts)
  /\ dom = [i \in DOMAIN insts |-> {j \in i + 1 .. Len(insts) : checkDom(insts, i, j)}]
  /\ newInsts \in Seq(DOMAIN insts)
  /\ used \subseteq DOMAIN insts
  /\ block \in {"stack", "heap"}
  /\ at \in 0 .. Len(insts)

(* Every instruction waits for those in front of it that are not placed.   *)
CountsAreRight ==
  cnt = [j \in DOMAIN insts |-> Cardinality({i \in DOMAIN insts \ used : j \in dom[i]})]

(* What has to be in front of an instruction was placed before it.         *)
InOrder ==
  \A l \in DOMAIN newInsts : \A i \in DOMAIN insts :
    MustPrecede(i, newInsts[l]) => \E k \in 1 .. l - 1 : newInsts[k] = i

(* As long as there is a phi left, the loop is in its first round and has  *)
(* placed everything it came by.                                           *)
PhisFirst ==
  \A k \in DOMAIN insts :
    insts[k].kind = "phi" /\ k \notin used => used = 1 .. at /\ at < k

(* The loop that changes the blocking has found nothing, from the first    *)
(* instruction on.                                                         *)
LookedFromTheStart == ~flag => at = 0

ReorderInv ==
  /\ ReorderTypeOK
  /\ LookedFromTheStart
  /\ Permuted
  /\ CountsAreRight
  /\ InOrder
  /\ PhisFirst

-----------------------------------------------------------------------------
LEMMA ReorderInitInv == ReorderInit => ReorderInv
<1> SUFFICES ASSUME ReorderInit PROVE ReorderInv
  OBVIOUS
<1> USE DEF ReorderInit
<1>1. insts \in Seq(Instruction) /\ Len(insts) \in Nat /\ DOMAIN insts = 1 .. Len(insts)
  BY ReorderAssumption DEF IsBlock
<1>2. ReorderTypeOK
  BY <1>1 DEF ReorderTypeOK
<1>3. Permuted
  <2>1. Range(newInsts) = {}
    BY DEF Range
  <2>2. Done => DOMAIN insts = {}
    BY <1>1 DEF Done
  <2> QED
    BY <2>1, <2>2 DEF Permuted
<1>4. CountsAreRight
  <2>1. DOMAIN insts \ used = DOMAIN insts
    OBVIOUS
  <2> QED
    BY <2>1 DEF CountsAreRight
<1>5. InOrder
  BY DEF InOrder
<1>6. PhisFirst
  BY <1>1 DEF PhisFirst
<1>7. LookedFromTheStart
  BY DEF LookedFromTheStart
<1> QED
  BY <1>2, <1>3, <1>4, <1>5, <1>6, <1>7 DEF ReorderInv

(* What is in the state of a block.                                        *)
LEMMA BlockFacts ==
  ASSUME ReorderInv
  PROVE  /\ IsBlock(insts)
         /\ Len(insts) \in Nat
         /\ DOMAIN insts = 1 .. Len(insts)
         /\ DOMAIN dom = DOMAIN insts
         /\ \A i \in DOMAIN insts : dom[i] \subseteq i + 1 .. Len(insts)
         /\ Len(newInsts) \in Nat
         /\ DOMAIN newInsts = 1 .. Len(newInsts)
         /\ \A k \in DOMAIN newInsts : newInsts[k] \in DOMAIN insts
<1> USE DEF ReorderInv, ReorderTypeOK
<1>1. IsBlock(insts)
  BY ReorderAssumption
<1>2. Len(insts) \in Nat /\ DOMAIN insts = 1 .. Len(insts)
  BY <1>1 DEF IsBlock
<1>3. Len(newInsts) \in Nat /\ DOMAIN newInsts = 1 .. Len(newInsts)
  OBVIOUS
<1>4. \A k \in DOMAIN newInsts : newInsts[k] \in DOMAIN insts
  OBVIOUS
<1> QED
  BY <1>1, <1>2, <1>3, <1>4

(* An instruction whose count is zero waits for nothing any more, and one  *)
(* that is waited for is counted.                                          *)
LEMMA CountIsZero ==
  ASSUME ReorderInv, NEW n \in DOMAIN insts, cnt[n] = 0
  PROVE  \A i \in DOMAIN insts : n \in dom[i] => i \in used
<1> DEFINE W == {i \in DOMAIN insts \ used : n \in dom[i]}
<1>1. IsFiniteSet(DOMAIN insts)
  BY BlockFacts, FS_Interval
<1>2. IsFiniteSet(W)
  BY <1>1, FS_Subset
<1>3. Cardinality(W) = 0
  BY DEF ReorderInv, CountsAreRight
<1>4. W = {}
  BY <1>2, <1>3, FS_EmptySet
<1> QED
  BY <1>4

(* The first phi that is not placed yet is the next instruction the loop   *)
(* comes by, and it is pushed there.                                       *)
LEMMA NextIsPhi ==
  ASSUME ReorderInv, NEW k \in DOMAIN insts, insts[k].kind = "phi", k \notin used
  PROVE  /\ used = 1 .. at
         /\ at + 1 \in DOMAIN insts
         /\ insts[at + 1].kind = "phi"
         /\ at + 1 \in Pushable
<1>1. used = 1 .. at /\ at < k /\ at \in Nat
  BY DEF ReorderInv, PhisFirst, ReorderTypeOK
<1>2. at + 1 \in DOMAIN insts /\ at + 1 \in 1 .. k
  BY <1>1, BlockFacts
<1>3. insts[at + 1].kind = "phi"
  BY <1>2, BlockFacts DEF IsBlock
<1>4. type[at + 1] # block
  BY <1>2, <1>3, BlockFacts, PhiHasNoArea DEF ReorderInv, ReorderTypeOK
<1>5. cnt[at + 1] = 0
  <2>1. {i \in DOMAIN insts \ used : at + 1 \in dom[i]} = {}
    BY <1>1, BlockFacts
  <2> QED
    BY <1>2, <2>1, FS_EmptySet DEF ReorderInv, CountsAreRight
<1>6. at + 1 \notin used
  BY <1>1
<1> QED
  BY <1>1, <1>2, <1>3, <1>4, <1>5, <1>6, BlockFacts DEF Pushable, CanPush

(* The first of the instructions that are left waits for nothing.          *)
LEMMA FirstLeft ==
  ASSUME ReorderInv, used # DOMAIN insts
  PROVE  \E n \in DOMAIN insts \ used : cnt[n] = 0 /\ \A m \in DOMAIN insts \ used : n <= m
<1> DEFINE Left == DOMAIN insts \ used
<1>1. Left # {} /\ Left \subseteq Nat
  <2>1. used \subseteq DOMAIN insts
    BY DEF ReorderInv, ReorderTypeOK
  <2>2. DOMAIN insts \subseteq Nat
    <3>1. DOMAIN insts = 1 .. Len(insts)
      BY BlockFacts
    <3> QED
      BY <3>1
  <2> QED
    BY <2>1, <2>2
<1>2. PICK n \in Left : \A m \in Left : n <= m
  BY <1>1, LeastNat
<1>3. {i \in DOMAIN insts \ used : n \in dom[i]} = {}
  <2> SUFFICES ASSUME NEW i \in Left, n \in dom[i] PROVE FALSE
    OBVIOUS
  <2>1. n \in i + 1 .. Len(insts) /\ i \in Nat /\ n \in Nat
    BY BlockFacts
  <2> QED
    BY <1>2, <2>1
<1>4. cnt[n] = 0
  BY <1>3, FS_EmptySet DEF ReorderInv, CountsAreRight
<1> QED
  BY <1>2, <1>4

LEMMA PushInv ==
  ASSUME ReorderInv, Push
  PROVE  ReorderInv'
<1>1. PICK n \in Pushable :
        /\ \A m \in Pushable : n <= m
        /\ newInsts' = Append(newInsts, n)
        /\ used' = used \cup {n}
        /\ cnt' = [j \in DOMAIN cnt |-> IF j \in dom[n] THEN cnt[j] - 1 ELSE cnt[j]]
        /\ at' = n
        /\ flag' = TRUE
  BY DEF Push
<1>2. UNCHANGED <<insts, type, dom, block, pc>> /\ pc = "scan"
  BY DEF Push
<1>3. n \in DOMAIN insts /\ n \notin used /\ cnt[n] = 0 /\ n \in at + 1 .. Len(insts)
  BY <1>1, BlockFacts DEF Pushable, CanPush, ReorderInv, ReorderTypeOK
<1> DEFINE N == Len(newInsts)
<1>4. /\ newInsts' \in Seq(DOMAIN insts)
      /\ DOMAIN newInsts' = 1 .. N + 1
      /\ newInsts'[N + 1] = n
      /\ \A k \in 1 .. N : newInsts'[k] = newInsts[k]
      /\ N \in Nat
  BY <1>1, <1>3 DEF ReorderInv, ReorderTypeOK
<1>5. ReorderTypeOK'
  BY <1>1, <1>2, <1>3, <1>4, BlockFacts DEF ReorderInv, ReorderTypeOK
<1> HIDE DEF N
<1>6. DOMAIN newInsts = 1 .. N
  BY DEF N, ReorderInv, ReorderTypeOK
<1>7. Permuted'
  <2>1. \A k \in 1 .. N : newInsts[k] \in used
    BY <1>6 DEF ReorderInv, Permuted, Range
  <2>2. \A k, l \in DOMAIN newInsts' : newInsts'[k] = newInsts'[l] => k = l
    <3>1. \A k \in 1 .. N + 1 : k \in 1 .. N \/ k = N + 1
      BY <1>4
    <3>2. \A k, l \in 1 .. N : newInsts[k] = newInsts[l] => k = l
      BY <1>6 DEF ReorderInv, Permuted
    <3> QED
      BY <1>3, <1>4, <2>1, <3>1, <3>2
  <2>3. Range(newInsts') = used'
    <3>1. used = {newInsts[k] : k \in 1 .. N}
      BY <1>6 DEF ReorderInv, Permuted, Range
    <3>2. Range(newInsts') = {newInsts'[k] : k \in 1 .. N + 1}
      BY <1>4 DEF Range
    <3>3. N + 1 \in 1 .. N + 1 /\ \A k \in 1 .. N + 1 : k \in 1 .. N \/ k = N + 1
      BY <1>4
    <3> QED
      BY <1>1, <1>4, <3>1, <3>2, <3>3
  <2>4. ~Done'
    BY <1>2 DEF Done
  <2> QED
    BY <2>2, <2>3, <2>4 DEF Permuted, Range
<1>8. CountsAreRight'
  <2> DEFINE W(j) == {i \in DOMAIN insts \ used : j \in dom[i]}
             V(j) == {i \in DOMAIN insts \ (used \cup {n}) : j \in dom[i]}
  <2>1. DOMAIN cnt = DOMAIN insts /\ \A j \in DOMAIN insts : cnt[j] = Cardinality(W(j))
    BY DEF ReorderInv, CountsAreRight
  <2>2. ASSUME NEW j \in DOMAIN insts
        PROVE  cnt'[j] = Cardinality(V(j))
    <3>1. IsFiniteSet(DOMAIN insts)
      BY BlockFacts, FS_Interval
    <3>2. IsFiniteSet(W(j))
      BY <3>1, FS_Subset
    <3>3. V(j) = W(j) \ {n}
      OBVIOUS
    <3>4. n \in W(j) <=> j \in dom[n]
      BY <1>3
    <3>5. cnt[j] = Cardinality(W(j))
      BY <2>1
    <3>6. cnt'[j] = IF j \in dom[n] THEN cnt[j] - 1 ELSE cnt[j]
      BY <1>1, <2>1
    <3>7. CASE j \in dom[n]
      <4>1. Cardinality(W(j) \ {n}) = Cardinality(W(j)) - 1
        BY <3>2, <3>4, <3>7, FS_RemoveElement
      <4> QED
        BY <4>1, <3>3, <3>5, <3>6, <3>7
    <3>8. CASE j \notin dom[n]
      <4>1. V(j) = W(j)
        BY <3>3, <3>4, <3>8
      <4> QED
        BY <4>1, <3>5, <3>6, <3>8
    <3> QED
      BY <3>7, <3>8
  <2>3. cnt' = [j \in DOMAIN insts |-> Cardinality(V(j))]
    <3> HIDE DEF V
    <3>1. cnt' = [j \in DOMAIN insts |-> cnt'[j]]
      BY <1>1, <2>1
    <3> QED
      BY <2>2, <3>1
  <2> QED
    BY <1>1, <1>2, <2>3 DEF CountsAreRight
<1>9. InOrder'
  <2> SUFFICES ASSUME NEW l \in DOMAIN newInsts', NEW i \in DOMAIN insts,
                      MustPrecede(i, newInsts'[l])
               PROVE  \E k \in 1 .. l - 1 : newInsts'[k] = i
    BY <1>2 DEF InOrder, MustPrecede
  <2>1. CASE l \in 1 .. N
    <3>1. MustPrecede(i, newInsts[l])
      BY <1>4, <2>1
    <3>2. PICK k \in 1 .. l - 1 : newInsts[k] = i
      BY <2>1, <3>1, <1>6 DEF ReorderInv, InOrder
    <3>3. k \in 1 .. N
      BY <1>4, <2>1
    <3> QED
      BY <3>2, <3>3, <1>4
  <2>2. CASE l = N + 1
    <3>1. i \in used
      <4>1. CASE n \in dom[i]
        BY <4>1, <1>3, CountIsZero
      <4>2. CASE insts[i].kind = "phi" /\ insts[n].kind # "phi"
        <5>1. SUFFICES ASSUME i \notin used PROVE FALSE
          OBVIOUS
        <5>2. at + 1 \in Pushable /\ insts[at + 1].kind = "phi" /\ at + 1 <= n
          BY <4>2, <5>1, NextIsPhi, <1>3 DEF ReorderInv, ReorderTypeOK
        <5>3. n <= at + 1
          BY <1>1, <5>2
        <5>4. n = at + 1
          BY <1>3, <5>2, <5>3 DEF ReorderInv, ReorderTypeOK
        <5> QED
          BY <4>2, <5>2, <5>4
      <4> QED
        BY <4>1, <4>2, <2>2, <1>4 DEF MustPrecede
    <3>2. PICK k \in 1 .. N : newInsts[k] = i
      BY <3>1, <1>6 DEF ReorderInv, Permuted, Range
    <3>3. k \in 1 .. l - 1
      BY <1>4, <2>2
    <3> QED
      BY <3>2, <3>3, <1>4
  <2> QED
    BY <1>4, <2>1, <2>2
<1>10. PhisFirst'
  <2> SUFFICES ASSUME NEW k \in DOMAIN insts, insts[k].kind = "phi", k \notin used \cup {n}
               PROVE  used \cup {n} = 1 .. n /\ n < k
    BY <1>1, <1>2 DEF PhisFirst
  <2>1. used = 1 .. at /\ at < k /\ at \in Nat /\ k \in Nat
    BY BlockFacts DEF ReorderInv, PhisFirst, ReorderTypeOK
  <2>2. at + 1 \in Pushable
    BY NextIsPhi
  <2>3. n = at + 1
    BY <1>1, <1>3, <2>1, <2>2
  <2>4. n # k
    OBVIOUS
  <2> QED
    BY <2>1, <2>3, <2>4
<1>11. LookedFromTheStart'
  BY <1>1 DEF LookedFromTheStart
<1> QED
  BY <1>5, <1>7, <1>8, <1>9, <1>10, <1>11 DEF ReorderInv

(* The loop comes to its end only after all phis are placed.               *)
LEMMA NoPhiLeft ==
  ASSUME ReorderInv, Pushable = {}
  PROVE  \A k \in DOMAIN insts : insts[k].kind = "phi" => k \in used
BY NextIsPhi

LEMMA RescanInv ==
  ASSUME ReorderInv, Rescan \/ ChangeBlocking
  PROVE  ReorderInv'
<1>1. Pushable = {} /\ at' = 0 /\ UNCHANGED <<insts, type, dom, newInsts, used, cnt>>
  BY DEF Rescan, ChangeBlocking
<1>2. block' \in {"stack", "heap"}
  BY DEF Rescan, ChangeBlocking, OtherArea, ReorderInv, ReorderTypeOK
<1>3. Done' => used = DOMAIN insts
  BY DEF Rescan, ChangeBlocking, Done
<1>4. ReorderTypeOK'
  BY <1>1, <1>2, BlockFacts DEF ReorderInv, ReorderTypeOK
<1>5. Permuted'
  BY <1>1, <1>3 DEF ReorderInv, Permuted
<1>6. CountsAreRight' /\ InOrder'
  BY <1>1 DEF ReorderInv, CountsAreRight, InOrder, MustPrecede
<1>7. PhisFirst'
  BY <1>1, NoPhiLeft DEF PhisFirst
<1>8. LookedFromTheStart'
  BY <1>1 DEF LookedFromTheStart
<1> QED
  BY <1>4, <1>5, <1>6, <1>7, <1>8 DEF ReorderInv

LEMMA ReorderStepInv == ReorderInv /\ [ReorderNext]_reorderVars => ReorderInv'
<1> SUFFICES ASSUME ReorderInv, [ReorderNext]_reorderVars PROVE ReorderInv'
  OBVIOUS
<1>1. CASE Push
  BY <1>1, PushInv
<1>2. CASE Rescan \/ ChangeBlocking
  BY <1>2, RescanInv
<1>3. CASE UNCHANGED reorderVars
  <2>1. ReorderTypeOK' /\ LookedFromTheStart' /\ Permuted' /\ CountsAreRight' /\ InOrder' /\ PhisFirst'
    BY <1>3 DEF ReorderInv, reorderVars, ReorderTypeOK, Permuted, CountsAreRight, InOrder,
                MustPrecede, PhisFirst, LookedFromTheStart, Done
  <2> QED
    BY <2>1 DEF ReorderInv
<1> QED
  BY <1>1, <1>2, <1>3 DEF ReorderNext

LEMMA ReorderInvariant == ReorderSpec => []ReorderInv
BY ReorderInitInv, ReorderStepInv, PTL DEF ReorderSpec

-----------------------------------------------------------------------------
(* At the end every instruction has its place, behind those that had to be *)
(* in front of it.                                                         *)
LEMMA Placed ==
  ASSUME ReorderInv, Done, NEW n \in DOMAIN insts
  PROVE  Place(n) \in DOMAIN newInsts /\ newInsts[Place(n)] = n
<1>1. \E k \in DOMAIN newInsts : newInsts[k] = n
  BY DEF ReorderInv, Permuted, Range
<1> QED
  BY <1>1 DEF Place

LEMMA PrecedesInTheEnd ==
  ASSUME ReorderInv, Done, NEW i \in DOMAIN insts, NEW j \in DOMAIN insts, MustPrecede(i, j)
  PROVE  InFrontOf(i, j)
<1>1. Place(i) \in DOMAIN newInsts /\ newInsts[Place(i)] = i
  BY Placed
<1>2. Place(j) \in DOMAIN newInsts /\ newInsts[Place(j)] = j
  BY Placed
<1>3. PICK k \in 1 .. Place(j) - 1 : newInsts[k] = i
  BY <1>2 DEF ReorderInv, InOrder
<1>4. k \in DOMAIN newInsts /\ k < Place(j)
  BY <1>2, BlockFacts
<1>5. k = Place(i)
  BY <1>1, <1>3, <1>4 DEF ReorderInv, Permuted
<1> QED
  BY <1>4, <1>5 DEF InFrontOf

LEMMA DomIsCheckDom ==
  ASSUME ReorderInv, NEW i \in DOMAIN insts, NEW j \in DOMAIN insts, i < j, checkDom(insts, i, j)
  PROVE  MustPrecede(i, j)
<1>1. j \in i + 1 .. Len(insts)
  BY BlockFacts
<1> QED
  BY <1>1 DEF ReorderInv, ReorderTypeOK, MustPrecede

(* Two accesses the pass knows to be in conflict: checkDom keeps them in   *)
(* their order.                                                            *)
LEMMA KnownConflictIsChecked ==
  ASSUME NEW b, IsBlock(b), NEW i \in DOMAIN b, NEW j \in DOMAIN b,
         Conflict(b, i, j),
         b[j].kind # "free",
         Touches(b, i) # Anywhere \/ Touches(b, j) = Anywhere \/ b[i].kind = "call"
  PROVE  checkDom(b, i, j)
<1> DEFINE A == {"load", "store"}
           p(n) == OpType(b, PointerOperand(b[n]))
<1>1. b[i].kind \in A \cup {"call"} /\ b[j].kind \in A \cup {"call"}
  BY DEF Conflict, Touches
<1>2. ASSUME NEW n \in DOMAIN b, b[n].kind \in A
      PROVE  /\ p(n) \in AreaType
             /\ getAccessTypeReorder(b, n) = p(n)
             /\ Touches(b, n) = IF p(n) \in Anywhere THEN {p(n)} ELSE Anywhere
  <2>1. PointerOperand(b[n]) \in Outside \cup DOMAIN b
    <3>1. n - 1 \in Int /\ 1 .. n - 1 \subseteq DOMAIN b
      BY DEF IsBlock
    <3> QED
      BY <1>2, <3>1, PointerOperandIsEarlier
  <2>2. p(n) \in AreaType
    BY <2>1, OpTypeType
  <2>3. getAccessTypeReorder(b, n) = p(n)
    BY <1>2 DEF getAccessTypeReorder
  <2>4. Touches(b, n) = MayPointTo(b, PointerOperand(b[n]))
    BY <1>2 DEF Touches
  <2>5. MayPointTo(b, PointerOperand(b[n])) = IF p(n) \in Anywhere THEN {p(n)} ELSE Anywhere
    BY <2>2 DEF MayPointTo, Anywhere, AreaType
  <2> QED
    BY <2>2, <2>3, <2>4, <2>5
<1>3. ASSUME NEW n \in DOMAIN b, b[n].kind = "call"
      PROVE  getAccessTypeReorder(b, n) = "call"
  BY <1>3 DEF getAccessTypeReorder
<1> DEFINE It == getAccessTypeReorder(b, i)
           Jt == getAccessTypeReorder(b, j)
<1>4. It # "noeffect" /\ Jt # "noeffect"
  BY <1>1, <1>2, <1>3 DEF AreaType
<1>5. "call" \in {It, Jt} \/ It = Jt \/ Jt = "unknown"
  <2>1. CASE b[i].kind = "call" \/ b[j].kind = "call"
    BY <2>1, <1>3
  <2>2. CASE b[i].kind \in A /\ b[j].kind \in A
    <3>1. /\ It = p(i) /\ p(i) \in AreaType
          /\ Touches(b, i) = IF p(i) \in Anywhere THEN {p(i)} ELSE Anywhere
      BY <1>2, <2>2
    <3>2. /\ Jt = p(j) /\ p(j) \in AreaType
          /\ Touches(b, j) = IF p(j) \in Anywhere THEN {p(j)} ELSE Anywhere
      BY <1>2, <2>2
    <3>3. Touches(b, i) \cap Touches(b, j) # {}
      BY DEF Conflict
    <3>4. Touches(b, i) # Anywhere \/ Touches(b, j) = Anywhere
      BY <2>2
    <3> HIDE DEF p, It, Jt
    <3>5. CASE p(j) \in Anywhere
      <4>1. Touches(b, j) # Anywhere
        BY <3>2, <3>5 DEF Anywhere
      <4>2. p(i) \in Anywhere
        BY <3>1, <3>4, <4>1
      <4>3. p(i) = p(j)
        BY <3>1, <3>2, <3>3, <3>5, <4>2
      <4> QED
        BY <4>3, <3>1, <3>2
    <3>6. CASE p(j) \notin Anywhere
      BY <3>2, <3>6 DEF Anywhere, AreaType
    <3> QED
      BY <3>5, <3>6
  <2> QED
    BY <1>1, <2>1, <2>2
<1> QED
  BY <1>4, <1>5 DEF checkDom

-----------------------------------------------------------------------------
(* Whatever the block, the pass loses no instruction and doubles none.     *)
THEOREM PermutedTheorem == ReorderSpec => []Permuted
<1>1. ReorderInv => Permuted
  BY DEF ReorderInv
<1> QED
  BY <1>1, ReorderInvariant, PTL

(* The block the pass leaves is legal: operands come before their uses and *)
(* the phis before everything else.                                        *)
THEOREM LegalTheorem == ReorderSpec => []Legal
<1>1. ReorderInv => Legal
  <2> SUFFICES ASSUME ReorderInv, Done, NEW i \in DOMAIN insts, NEW j \in DOMAIN insts
               PROVE  /\ i < j /\ i \in Range(insts[j].ops) => InFrontOf(i, j)
                      /\ insts[i].kind = "phi" /\ insts[j].kind # "phi" => InFrontOf(i, j)
    BY DEF Legal
  <2>1. i < j /\ i \in Range(insts[j].ops) => InFrontOf(i, j)
    <3>1. i \in Range(insts[j].ops) => checkDom(insts, i, j)
      BY DEF checkDom
    <3> QED
      BY <3>1, DomIsCheckDom, PrecedesInTheEnd
  <2>2. insts[i].kind = "phi" /\ insts[j].kind # "phi" => InFrontOf(i, j)
    BY PrecedesInTheEnd DEF MustPrecede
  <2> QED
    BY <2>1, <2>2
<1> QED
  BY <1>1, ReorderInvariant, PTL

(* The accesses the pass knows to be in conflict keep their order.         *)
THEOREM KnownConflictsKeptTheorem == ReorderSpec => []KnownConflictsKept
<1>1. ReorderInv => KnownConflictsKept
  <2> SUFFICES ASSUME ReorderInv, Done, NEW i \in DOMAIN insts, NEW j \in DOMAIN insts,
                      i < j, Conflict(insts, i, j), insts[j].kind # "free",
                      \/ Touches(insts, i) # Anywhere
                      \/ Touches(insts, j) = Anywhere
                      \/ insts[i].kind = "call"
               PROVE  InFrontOf(i, j)
    BY DEF KnownConflictsKept
  <2>1. checkDom(insts, i, j)
    BY BlockFacts, KnownConflictIsChecked
  <2> QED
    BY <2>1, DomIsCheckDom, PrecedesInTheEnd
<1> QED
  BY <1>1, ReorderInvariant, PTL

(* The step that releases the other area lets an instruction go, as long   *)
(* as there is one left: so there are at most two such steps for every     *)
(* instruction, and the loop ends (while (lft), ReorderMemAccess.cpp:157). *)
EveryChangeReleases ==
  [][ChangeBlocking => used = DOMAIN insts \/ Pushable' # {}]_reorderVars

(* Whenever the pass turns to the other area, an instruction that waits    *)
(* can be pushed, unless none is left.                                     *)
THEOREM EveryChangeReleasesTheorem == ReorderSpec => EveryChangeReleases
<1>1. ReorderInv /\ [ReorderNext]_reorderVars
        => [ChangeBlocking => used = DOMAIN insts \/ Pushable' # {}]_reorderVars
  <2> SUFFICES ASSUME ReorderInv, ChangeBlocking, used # DOMAIN insts
               PROVE  Pushable' # {}
    OBVIOUS
  <2>1. PICK n \in DOMAIN insts \ used : cnt[n] = 0
    BY FirstLeft
  <2>2. Pushable = {} /\ at = 0
    BY DEF ChangeBlocking, ReorderInv, LookedFromTheStart
  <2>3. n \in 1 .. Len(insts)
    BY BlockFacts
  <2>4. type[n] = block
    BY <2>1, <2>2, <2>3 DEF Pushable, CanPush
  <2>5. block' # block
    BY DEF ChangeBlocking, OtherArea, ReorderInv, ReorderTypeOK
  <2>6. UNCHANGED <<insts, type, used, cnt>> /\ at' = 0
    BY DEF ChangeBlocking
  <2>7. Pushable' = {m \in 1 .. Len(insts) : m \notin used /\ type[m] # block' /\ cnt[m] = 0}
    BY <2>6 DEF Pushable, CanPush
  <2> QED
    BY <2>1, <2>3, <2>4, <2>5, <2>7
<1> QED
  BY <1>1, ReorderInvariant, PTL DEF ReorderSpec, EveryChangeReleases

-----------------------------------------------------------------------------
(* The changes between the areas, counted along an order.                  *)
Walks == [area : {"none"} \cup Anywhere, switches : Nat]

IsWalk(g, areas, N, start) ==
  /\ g \in [0 .. N -> Walks]
  /\ g[0] = start
  /\ \A k \in 1 .. N : g[k] = Visit(g[k - 1], areas[k])

LEMMA VisitType == \A w \in Walks : \A a : Visit(w, a) \in Walks
BY DEF Visit, Walks, Anywhere

LEMMA WalkExists ==
  ASSUME NEW N \in Nat, NEW areas, NEW start \in Walks
  PROVE  \E g : IsWalk(g, areas, N, start)
<1> DEFINE step == [k \in 1 .. N |-> [w \in Walks |-> Visit(w, areas[k])]]
<1>1. step \in [1 .. N -> [Walks -> Walks]]
  BY VisitType
<1>2. \A k \in 1 .. N : \A w \in Walks : step[k][w] = Visit(w, areas[k])
  OBVIOUS
<1> HIDE DEF step
<1>3. PICK g \in [0 .. N -> Walks] : Iterates(g, N, start, step)
  BY <1>1, IterateExists
<1>4. ASSUME NEW k \in 1 .. N
      PROVE  g[k] = Visit(g[k - 1], areas[k])
  <2>1. g[k - 1] \in Walks
    <3>1. k - 1 \in 0 .. N
      OBVIOUS
    <3> QED
      BY <3>1
  <2>2. g[k] = step[k][g[k - 1]]
    BY <1>3 DEF Iterates
  <2> QED
    BY <1>2, <2>1, <2>2
<1>5. g[0] = start
  BY <1>3 DEF Iterates
<1> QED
  BY <1>4, <1>5 DEF IsWalk

NoAccess == [area |-> "none", switches |-> 0]

LEMMA WalkIsWalk ==
  ASSUME NEW areas, Len(areas) \in Nat
  PROVE  IsWalk(Walk(areas), areas, Len(areas), NoAccess)
<1> DEFINE N == Len(areas)
<1>1. NoAccess \in Walks
  BY DEF NoAccess, Walks
<1> HIDE DEF N
<1>2. PICK g : IsWalk(g, areas, N, NoAccess)
  BY <1>1, WalkExists DEF N
<1>3. g = [k \in 0 .. N |-> IF k = 0 THEN NoAccess ELSE Visit(g[k - 1], areas[k])]
  <2>1. \A k \in 0 .. N : k = 0 \/ k \in 1 .. N
    BY DEF N
  <2>2. \A k \in 0 .. N : g[k] = IF k = 0 THEN NoAccess ELSE Visit(g[k - 1], areas[k])
    BY <1>2, <2>1 DEF IsWalk
  <2> QED
    BY <1>2, <2>2 DEF IsWalk
<1> DEFINE W == Walk(areas)
<1>4. W = [k \in 0 .. N |-> IF k = 0 THEN NoAccess ELSE Visit(W[k - 1], areas[k])]
  BY <1>3 DEF Walk, NoAccess, N
<1> HIDE DEF W
<1>5. W[0] = NoAccess /\ \A k \in 1 .. N : W[k] = Visit(W[k - 1], areas[k])
  <2>1. 0 \in 0 .. N /\ \A k \in 1 .. N : k \in 0 .. N /\ k # 0
    BY DEF N
  <2> QED
    BY <1>4, <2>1
<1>6. 0 .. N \subseteq {k \in Int : W[k] \in Walks}
  <2> DEFINE T == {k \in Int : W[k] \in Walks}
  <2>1. 0 \in T
    BY <1>1, <1>5
  <2>2. \A k \in 1 .. N : k - 1 \in T => k \in T
    BY <1>5, VisitType DEF N
  <2> HIDE DEF T
  <2>3. 0 .. N \subseteq T
    BY <2>1, <2>2, UpTo DEF N
  <2> QED
    BY <2>3 DEF T
<1> QED
  BY <1>4, <1>5, <1>6 DEF IsWalk, N, W

(* The walk along an order does not depend on what comes later.            *)
LEMMA SameWalk ==
  ASSUME NEW N \in Nat, NEW M \in Nat, NEW start, NEW f, NEW g, NEW areas, NEW more,
         IsWalk(f, areas, N, start), IsWalk(g, more, M, start),
         N <= M, \A k \in 1 .. N : areas[k] = more[k]
  PROVE  f[N] = g[N]
<1> DEFINE T == {k \in 0 .. N : f[k] = g[k]}
<1>1. 0 \in T
  BY DEF IsWalk
<1>2. ASSUME NEW k \in 1 .. N, k - 1 \in T
      PROVE  k \in T
  <2>1. k \in 1 .. M /\ k \in 0 .. N
    OBVIOUS
  <2>2. f[k] = Visit(f[k - 1], areas[k]) /\ g[k] = Visit(g[k - 1], more[k])
    BY <2>1 DEF IsWalk
  <2>3. f[k - 1] = g[k - 1]
    BY <1>2
  <2> QED
    BY <2>1, <2>2, <2>3
<1> HIDE DEF T
<1>3. 0 .. N \subseteq T
  BY <1>1, <1>2, UpTo
<1> QED
  BY <1>3 DEF T

(* One more access.                                                        *)
LEMMA WalkOn ==
  ASSUME NEW areas, NEW more, NEW N \in Nat, Len(areas) = N, Len(more) = N + 1,
         \A k \in 1 .. N : areas[k] = more[k]
  PROVE  Walk(more)[N + 1] = Visit(Walk(areas)[N], more[N + 1])
<1>1. IsWalk(Walk(areas), areas, N, NoAccess)
  BY WalkIsWalk
<1>2. IsWalk(Walk(more), more, N + 1, NoAccess)
  BY WalkIsWalk
<1>3. Walk(areas)[N] = Walk(more)[N]
  BY <1>1, <1>2, SameWalk
<1>4. N + 1 \in 1 .. N + 1 /\ (N + 1) - 1 = N
  OBVIOUS
<1>5. Walk(more)[N + 1] = Visit(Walk(more)[(N + 1) - 1], more[N + 1])
  BY <1>2, <1>4 DEF IsWalk
<1> QED
  BY <1>3, <1>4, <1>5

(* The loop releases the stack first, then the heap, and so on.  The phase *)
(* of an instruction is the one by which the loop has come to it, if it    *)
(* follows the order there was before.                                     *)
FirstPhase == [area |-> "stack", switches |-> 1]

IsPhase(p) ==
  /\ p.area \in Anywhere
  /\ p.switches \in Nat \ {0}
  /\ p.area = "stack" <=> p.switches % 2 = 1

(* An order with s changes needs at most s + 2 phases.                     *)
LEMMA PhasesOfOrder ==
  ASSUME NEW N \in Nat, NEW areas, NEW g, NEW w,
         IsWalk(g, areas, N, FirstPhase), IsWalk(w, areas, N, NoAccess)
  PROVE  \A n \in 0 .. N :
           /\ IsPhase(g[n])
           /\ g[n].switches <= w[n].switches + 2
           /\ n # 0 => /\ g[n - 1].switches <= g[n].switches
                       /\ areas[n] \in Anywhere => g[n].area = areas[n]
<1> DEFINE T == {n \in 0 .. N : /\ IsPhase(g[n])
                                /\ g[n].switches <= w[n].switches + 2
                                /\ w[n].area = "none" => g[n] = FirstPhase
                                /\ w[n].area # "none" => g[n].area = w[n].area}
<1>1. 0 \in T
  BY DEF IsWalk, IsPhase, FirstPhase, NoAccess, Anywhere
<1>2. ASSUME NEW n \in 1 .. N
      PROVE  /\ g[n] = Visit(g[n - 1], areas[n])
             /\ w[n] = Visit(w[n - 1], areas[n])
             /\ g[n] \in Walks /\ w[n] \in Walks
             /\ g[n - 1] \in Walks /\ w[n - 1] \in Walks
  <2>1. n \in 0 .. N /\ n - 1 \in 0 .. N
    OBVIOUS
  <2> QED
    BY <2>1 DEF IsWalk
<1>3. ASSUME NEW n \in 1 .. N, n - 1 \in T
      PROVE  n \in T
  <2> DEFINE a == areas[n]
             p == g[n - 1]
             v == w[n - 1]
  <2>1. /\ IsPhase(p) /\ p.switches <= v.switches + 2
        /\ v.area = "none" => p = FirstPhase
        /\ v.area # "none" => p.area = v.area
    BY <1>3
  <2>2. p.switches \in Nat /\ v.switches \in Nat
    BY <1>2 DEF Walks
  <2>3. g[n] = Visit(p, a) /\ w[n] = Visit(v, a) /\ n \in 0 .. N
    BY <1>2
  <2> HIDE DEF a, p, v
  <2>4. CASE a \notin Anywhere
    BY <2>1, <2>3, <2>4 DEF Visit
  <2>5. CASE a \in Anywhere /\ a = p.area
    <3>1. g[n] = p
      BY <2>3, <2>5 DEF Visit
    <3>2. CASE v.area = "none"
      <4>1. w[n] = [area |-> a, switches |-> 0]
        BY <2>3, <2>5, <3>2 DEF Visit, Anywhere
      <4>2. p = FirstPhase
        BY <2>1, <3>2
      <4> QED
        BY <2>1, <2>3, <2>5, <3>1, <4>1, <4>2 DEF FirstPhase, Anywhere
    <3>3. CASE v.area # "none"
      <4>1. w[n] = v
        BY <2>1, <2>3, <2>5, <3>3 DEF Visit
      <4> QED
        BY <2>1, <2>3, <3>1, <4>1
    <3> QED
      BY <3>2, <3>3
  <2>6. CASE a \in Anywhere /\ a # p.area
    <3>1. g[n] = [area |-> a, switches |-> p.switches + 1]
      BY <2>1, <2>3, <2>6 DEF Visit, IsPhase, Anywhere
    <3>2. IsPhase(g[n])
      BY <2>1, <2>6, <3>1 DEF IsPhase, Anywhere
    <3>3. CASE v.area = "none"
      <4>1. w[n] = [area |-> a, switches |-> 0]
        BY <2>3, <2>6, <3>3 DEF Visit, Anywhere
      <4>2. p.switches = 1
        BY <2>1, <3>3 DEF FirstPhase
      <4> QED
        BY <2>3, <2>6, <3>1, <3>2, <4>1, <4>2 DEF Anywhere
    <3>4. CASE v.area # "none"
      <4>1. w[n] = [area |-> a, switches |-> v.switches + 1]
        BY <2>1, <2>3, <2>6, <3>4 DEF Visit
      <4> QED
        BY <2>1, <2>2, <2>3, <2>6, <3>1, <3>2, <4>1 DEF Anywhere
    <3> QED
      BY <3>3, <3>4
  <2> QED
    BY <2>4, <2>5, <2>6
<1> HIDE DEF T
<1>4. 0 .. N \subseteq T
  BY <1>1, <1>3, UpTo
<1>5. ASSUME NEW n \in 1 .. N
      PROVE  /\ g[n - 1].switches <= g[n].switches
             /\ areas[n] \in Anywhere => g[n].area = areas[n]
  <2>1. g[n - 1].switches \in Nat
    BY <1>2 DEF Walks
  <2>2. g[n - 1].area \in Anywhere
    <3>1. n - 1 \in 0 .. N
      OBVIOUS
    <3> QED
      BY <1>4, <3>1 DEF T, IsPhase
  <2>3. g[n] = Visit(g[n - 1], areas[n])
    BY <1>2
  <2>4. g[n - 1].area # "none"
    BY <2>2 DEF Anywhere
  <2>5. CASE areas[n] \notin Anywhere \/ areas[n] = g[n - 1].area
    BY <2>1, <2>3, <2>5 DEF Visit
  <2>6. CASE areas[n] \in Anywhere /\ areas[n] # g[n - 1].area
    <3>1. g[n] = [area |-> areas[n], switches |-> g[n - 1].switches + 1]
      BY <2>3, <2>4, <2>6 DEF Visit
    <3> QED
      BY <2>1, <3>1
  <2> QED
    BY <2>5, <2>6
<1>6. \A n \in 0 .. N : n # 0 => n \in 1 .. N
  OBVIOUS
<1> QED
  BY <1>4, <1>5, <1>6 DEF T

LEMMA PhasesGrow ==
  ASSUME NEW N \in Nat, NEW g \in [0 .. N -> Walks], NEW m \in 0 .. N,
         \A n \in 1 .. N : g[n - 1].switches <= g[n].switches
  PROVE  \A n \in m .. N : g[m].switches <= g[n].switches
<1> DEFINE T == {n \in 0 .. N : n < m \/ g[m].switches <= g[n].switches}
<1>1. \A n \in 0 .. N : g[n].switches \in Nat
  BY DEF Walks
<1>2. 0 \in T
  BY <1>1
<1>3. ASSUME NEW n \in 1 .. N, n - 1 \in T
      PROVE  n \in T
  <2>1. n \in 0 .. N /\ n - 1 \in 0 .. N
    OBVIOUS
  <2>2. g[n - 1].switches <= g[n].switches
    OBVIOUS
  <2>3. n = m \/ n < m \/ ~(n - 1 < m)
    BY <2>1
  <2> QED
    BY <1>1, <1>3, <2>1, <2>2, <2>3
<1> HIDE DEF T
<1>4. 0 .. N \subseteq T
  BY <1>2, <1>3, UpTo
<1> QED
  BY <1>4 DEF T

-----------------------------------------------------------------------------
(* The areas of the instructions, in the order they had and in the new     *)
(* one.                                                                    *)
NewAreas == [k \in DOMAIN newInsts |-> type[newInsts[k]]]

Phases == CHOOSE g : IsWalk(g, type, Len(insts), FirstPhase)

(* In phase k everything of the phases before is placed, and there were at *)
(* most k - 1 changes, the next one included if what is released now is    *)
(* not what was accessed last.                                             *)
InPhase(k) ==
  /\ block = IF k % 2 = 1 THEN "heap" ELSE "stack"
  /\ \A n \in DOMAIN insts : Phases[n].switches < k => n \in used
  /\ LET w == Walk(NewAreas)[Len(newInsts)]
     IN w.switches <= IF w.area = block THEN k - 2 ELSE k - 1

(* The loop has come no further than the phases of the order there was.    *)
SwitchInv ==
  IF Done THEN FewSwitches ELSE \E k \in 1 .. Switches(type) + 2 : InPhase(k)

LEMMA AreasFacts ==
  ASSUME ReorderInv
  PROVE  /\ Len(type) = Len(insts)
         /\ Len(NewAreas) = Len(newInsts)
         /\ Walk(type)[Len(insts)] \in Walks
         /\ Walk(NewAreas)[Len(newInsts)] \in Walks
         /\ Switches(NewAreas) = Walk(NewAreas)[Len(newInsts)].switches
<1>1. IsBlock(insts) /\ Len(insts) \in Nat /\ DOMAIN insts = 1 .. Len(insts)
      /\ DOMAIN newInsts = 1 .. Len(newInsts) /\ Len(newInsts) \in Nat
  BY BlockFacts
<1>2. type = [n \in 1 .. Len(insts) |-> type[n]]
  BY <1>1, BlockTypeIsFunction DEF ReorderInv, ReorderTypeOK
<1>3. Len(type) = Len(insts)
  BY <1>1, <1>2, LenOfFunction
<1>4. Len(NewAreas) = Len(newInsts)
  <2>1. NewAreas = [n \in 1 .. Len(newInsts) |-> NewAreas[n]]
    BY <1>1 DEF NewAreas
  <2> QED
    BY <1>1, <2>1, LenOfFunction
<1>5. /\ IsWalk(Walk(type), type, Len(insts), NoAccess)
      /\ IsWalk(Walk(NewAreas), NewAreas, Len(newInsts), NoAccess)
  BY <1>1, <1>3, <1>4, WalkIsWalk
<1> QED
  BY <1>1, <1>3, <1>4, <1>5 DEF IsWalk, Switches

LEMMA PhaseFacts ==
  ASSUME ReorderInv
  PROVE  \A n \in DOMAIN insts :
           /\ IsPhase(Phases[n])
           /\ Phases[n].switches <= Switches(type) + 2
           /\ type[n] \in Anywhere => Phases[n].area = type[n]
           /\ Switches(type) \in Nat
           /\ \A m \in DOMAIN insts : n <= m => Phases[n].switches <= Phases[m].switches
<1> DEFINE N == Len(insts)
<1>1. N \in Nat /\ DOMAIN insts = 1 .. N /\ Len(type) = N
  BY BlockFacts, AreasFacts
<1>2. IsWalk(Walk(type), type, N, NoAccess)
  BY <1>1, WalkIsWalk
<1>3. FirstPhase \in Walks
  BY DEF FirstPhase, Walks, Anywhere
<1> HIDE DEF N
<1>4. IsWalk(Phases, type, N, FirstPhase)
  <2>1. \E g : IsWalk(g, type, N, FirstPhase)
    BY <1>1, <1>3, WalkExists
  <2> QED
    BY <2>1 DEF Phases, N
<1>5. \A n \in 0 .. N :
        /\ IsPhase(Phases[n])
        /\ Phases[n].switches <= Walk(type)[n].switches + 2
        /\ n # 0 => /\ Phases[n - 1].switches <= Phases[n].switches
                    /\ type[n] \in Anywhere => Phases[n].area = type[n]
  BY <1>1, <1>2, <1>4, PhasesOfOrder
<1>6. Phases \in [0 .. N -> Walks]
  BY <1>4 DEF IsWalk
<1>7. \A n \in 1 .. N : n \in 0 .. N /\ n # 0 /\ N \in n .. N
  BY <1>1
<1>8. \A n \in 1 .. N : Phases[n - 1].switches <= Phases[n].switches
  BY <1>5, <1>7
<1>9. ASSUME NEW n \in 1 .. N
      PROVE  Phases[n].switches <= Switches(type) + 2
  <2>1. Phases[n].switches <= Phases[N].switches
    BY <1>1, <1>6, <1>7, <1>8, PhasesGrow
  <2>2. Phases[N].switches <= Walk(type)[N].switches + 2
    BY <1>1, <1>5
  <2>3. Phases[n].switches \in Nat /\ Phases[N].switches \in Nat /\ Walk(type)[N].switches \in Nat
    BY <1>1, <1>2, <1>6, <1>7 DEF IsWalk, Walks
  <2> QED
    BY <1>1, <2>1, <2>2, <2>3 DEF Switches
<1>10. Switches(type) \in Nat
  BY <1>1, AreasFacts DEF Switches, Walks
<1>11. \A n, m \in 1 .. N : n <= m => Phases[n].switches <= Phases[m].switches
  <2>1. \A n, m \in 1 .. N : n <= m => m \in n .. N
    OBVIOUS
  <2> QED
    BY <1>1, <1>6, <1>7, <1>8, <2>1, PhasesGrow
<1> QED
  BY <1>1, <1>5, <1>7, <1>9, <1>10, <1>11

LEMMA SwitchInit == ReorderInit => SwitchInv
<1> SUFFICES ASSUME ReorderInit PROVE SwitchInv
  OBVIOUS
<1>1. ReorderInv
  BY ReorderInitInv
<1>2. newInsts = <<>> /\ Len(newInsts) = 0 /\ block = "heap" /\ used = {}
  BY DEF ReorderInit
<1>3. Len(NewAreas) = 0
  BY <1>1, <1>2, AreasFacts
<1>4. Walk(NewAreas)[Len(newInsts)] = NoAccess
  <2>1. IsWalk(Walk(NewAreas), NewAreas, 0, NoAccess)
    BY <1>3, WalkIsWalk
  <2> QED
    BY <1>2, <2>1 DEF IsWalk
<1>5. Switches(type) \in Nat /\ Switches(NewAreas) = 0
  BY <1>1, <1>4, AreasFacts DEF Switches, Walks, NoAccess
<1>6. CASE Done
  <2>1. FewSwitches
    BY <1>5 DEF FewSwitches, NewAreas
  <2> QED
    BY <1>6, <2>1 DEF SwitchInv
<1>7. CASE ~Done
  <2>1. \A n \in DOMAIN insts : Phases[n].switches \in Nat \ {0}
    BY <1>1, PhaseFacts DEF IsPhase
  <2>2. InPhase(1)
    BY <1>2, <1>4, <2>1 DEF InPhase, NoAccess
  <2>3. 1 \in 1 .. Switches(type) + 2
    BY <1>5
  <2> QED
    BY <1>7, <2>2, <2>3 DEF SwitchInv
<1> QED
  BY <1>6, <1>7

LEMMA PushSwitches ==
  ASSUME ReorderInv, SwitchInv, Push
  PROVE  SwitchInv'
<1>1. PICK n \in Pushable : newInsts' = Append(newInsts, n) /\ used' = used \cup {n}
  BY DEF Push
<1>2. UNCHANGED <<insts, type, block, pc>> /\ ~Done /\ ~Done'
  BY DEF Push, Done
<1>3. PICK k \in 1 .. Switches(type) + 2 : InPhase(k)
  BY <1>2 DEF SwitchInv
<1>4. n \in DOMAIN insts /\ type[n] # block
  BY <1>1, BlockFacts DEF Pushable, CanPush, ReorderInv, ReorderTypeOK
<1> DEFINE N == Len(newInsts)
           w == Walk(NewAreas)[N]
           v == Walk(NewAreas')[N + 1]
<1>5. /\ N \in Nat /\ Len(newInsts') = N + 1
      /\ DOMAIN newInsts = 1 .. N /\ DOMAIN newInsts' = 1 .. N + 1
      /\ newInsts'[N + 1] = n /\ \A l \in 1 .. N : newInsts'[l] = newInsts[l]
  BY <1>1, <1>4 DEF ReorderInv, ReorderTypeOK
<1>6. Len(NewAreas) = N /\ w \in Walks
  BY AreasFacts
<1>7. Len(NewAreas') = N + 1
  <2>1. NewAreas' = [l \in 1 .. N + 1 |-> NewAreas'[l]]
    BY <1>5 DEF NewAreas
  <2>2. N + 1 \in Nat
    BY <1>5
  <2> HIDE DEF N
  <2> QED
    BY <2>1, <2>2, LenOfFunction
<1> HIDE DEF N
<1>8. NewAreas'[N + 1] = type[n] /\ \A l \in 1 .. N : NewAreas[l] = NewAreas'[l]
  BY <1>2, <1>5 DEF NewAreas
<1>9. v = Visit(w, type[n])
  <2> DEFINE more == NewAreas'
  <2>1. N \in Nat /\ Len(NewAreas) = N /\ Len(more) = N + 1 /\ more[N + 1] = type[n]
        /\ \A l \in 1 .. N : NewAreas[l] = more[l]
    BY <1>5, <1>6, <1>7, <1>8
  <2> HIDE DEF more
  <2>2. Walk(more)[N + 1] = Visit(Walk(NewAreas)[N], more[N + 1])
    BY <2>1, WalkOn
  <2> QED
    BY <2>1, <2>2 DEF more
<1> HIDE DEF v, w
<1>10. v.switches <= IF v.area = block THEN k - 2 ELSE k - 1
  <2>1. w.switches <= IF w.area = block THEN k - 2 ELSE k - 1
    BY <1>3 DEF InPhase, w, N
  <2>2. k \in Int /\ k >= 1 /\ w.switches \in Nat
    BY <1>3, <1>6, PhaseFacts, <1>4 DEF Walks
  <2>3. CASE type[n] \notin Anywhere \/ type[n] = w.area
    BY <1>9, <2>1, <2>3 DEF Visit
  <2>4. CASE type[n] \in Anywhere /\ type[n] # w.area
    <3>1. v = [area |-> type[n], switches |-> IF w.area = "none" THEN 0 ELSE w.switches + 1]
      BY <1>9, <2>4 DEF Visit
    <3>2. w.area # "none" => w.area = block
      BY <1>4, <1>6, <2>4 DEF Walks, Anywhere, ReorderInv, ReorderTypeOK
    <3> QED
      BY <1>4, <2>1, <2>2, <3>1, <3>2
  <2> QED
    BY <2>3, <2>4
<1>11. Phases' = Phases
  BY <1>2 DEF Phases
<1>12. InPhase(k)'
  BY <1>1, <1>2, <1>3, <1>5, <1>10, <1>11 DEF InPhase, v
<1> QED
  BY <1>2, <1>3, <1>12 DEF SwitchInv

LEMMA ChangeSwitches ==
  ASSUME ReorderInv, SwitchInv, ChangeBlocking
  PROVE  SwitchInv'
<1>1. /\ Pushable = {} /\ at = 0 /\ ~Done
      /\ UNCHANGED <<insts, type, newInsts, used>>
      /\ block' = IF block = "heap" THEN "stack" ELSE "heap"
      /\ Done' => used = DOMAIN insts
      /\ ~Done' => used # DOMAIN insts
  BY DEF ChangeBlocking, OtherArea, Done, ReorderInv, LookedFromTheStart
<1>2. PICK k \in 1 .. Switches(type) + 2 : InPhase(k)
  BY <1>1 DEF SwitchInv
<1> DEFINE w == Walk(NewAreas)[Len(newInsts)]
<1>3. w.switches \in Nat /\ Switches(NewAreas) = w.switches /\ Switches(type) \in Nat
  BY AreasFacts DEF Walks, Switches
<1>4. w.switches <= (IF w.area = block THEN k - 2 ELSE k - 1) /\ k \in Int
  BY <1>2, <1>3 DEF InPhase
<1> HIDE DEF w
<1>5. Phases' = Phases /\ NewAreas' = NewAreas
  BY <1>1 DEF Phases, NewAreas
<1>6. CASE Done'
  <2>1. Switches(NewAreas) <= Switches(type) + 1
    BY <1>2, <1>3, <1>4
  <2>2. FewSwitches'
    BY <1>1, <1>5, <2>1 DEF FewSwitches, NewAreas
  <2> QED
    BY <1>6, <2>2 DEF SwitchInv
<1>7. CASE ~Done'
  <2>1. PICK n \in DOMAIN insts \ used : cnt[n] = 0 /\ \A m \in DOMAIN insts \ used : n <= m
    BY <1>1, <1>7, FirstLeft
  <2>2. type[n] = block
    BY <1>1, <2>1, BlockFacts DEF Pushable, CanPush
  <2>3. block \in Anywhere
    BY DEF ReorderInv, ReorderTypeOK, Anywhere
  <2>4. Phases[n].area = block /\ IsPhase(Phases[n]) /\ Phases[n].switches <= Switches(type) + 2
    BY <2>2, <2>3, PhaseFacts
  <2>5. Phases[n].switches >= k + 1
    <3>1. Phases[n].switches \in Nat /\ ~(Phases[n].switches < k)
      BY <1>2, <2>1, <2>4 DEF InPhase, IsPhase
    <3>2. block = "stack" <=> k % 2 = 0
      BY <1>2, <1>4 DEF InPhase
    <3>3. block = "stack" <=> Phases[n].switches % 2 = 1
      BY <2>4 DEF IsPhase
    <3> QED
      BY <1>4, <3>1, <3>2, <3>3
  <2>6. ASSUME NEW m \in DOMAIN insts, m \notin used
        PROVE  ~(Phases[m].switches < k + 1)
    <3>1. n \in Int /\ m \in Int /\ n <= m
      BY <2>1, <2>6, BlockFacts
    <3>2. Phases[n].switches <= Phases[m].switches
      BY <2>1, <2>6, <3>1, PhaseFacts
    <3>3. Phases[n].switches \in Nat /\ Phases[m].switches \in Nat
      BY <2>1, PhaseFacts DEF IsPhase
    <3> QED
      BY <1>4, <2>5, <3>2, <3>3
  <2>7. block' = IF (k + 1) % 2 = 1 THEN "heap" ELSE "stack"
    BY <1>1, <1>2, <1>4 DEF InPhase
  <2>8. w.switches <= IF w.area = block' THEN (k + 1) - 2 ELSE (k + 1) - 1
    BY <1>1, <1>3, <1>4
  <2>9. InPhase(k + 1)'
    BY <1>1, <1>5, <2>6, <2>7, <2>8 DEF InPhase, w
  <2>10. k + 1 \in 1 .. Switches(type) + 2
    BY <1>2, <1>3, <2>4, <2>5 DEF IsPhase
  <2> QED
    BY <1>1, <1>7, <2>9, <2>10 DEF SwitchInv
<1> QED
  BY <1>6, <1>7

LEMMA SwitchStepInv ==
  ReorderInv /\ SwitchInv /\ [ReorderNext]_reorderVars => SwitchInv'
<1> SUFFICES ASSUME ReorderInv, SwitchInv, [ReorderNext]_reorderVars PROVE SwitchInv'
  OBVIOUS
<1>1. CASE Push
  BY <1>1, PushSwitches
<1>2. CASE ChangeBlocking
  BY <1>2, ChangeSwitches
<1>3. CASE Rescan \/ UNCHANGED reorderVars
  <2>1. UNCHANGED <<insts, type, newInsts, used, block, pc>>
    BY <1>3 DEF Rescan, reorderVars
  <2>2. Phases' = Phases /\ NewAreas' = NewAreas /\ Done' = Done /\ FewSwitches' = FewSwitches
    BY <2>1 DEF Phases, NewAreas, Done, FewSwitches
  <2>3. \A k : InPhase(k)' = InPhase(k)
    BY <2>1, <2>2 DEF InPhase
  <2> QED
    BY <2>1, <2>2, <2>3 DEF SwitchInv
<1> QED
  BY <1>1, <1>2, <1>3 DEF ReorderNext

(* Whatever the block, the new order changes between the areas at most     *)
(* once more than the order there was (ReorderMemAccess.cpp:153-195).      *)
THEOREM FewSwitchesTheorem == ReorderSpec => []FewSwitches
<1>1. SwitchInv => FewSwitches
  BY DEF SwitchInv, FewSwitches
<1> QED
  BY <1>1, SwitchInit, SwitchStepInv, ReorderInvariant, PTL DEF ReorderSpec

-----------------------------------------------------------------------------
(* ResetPointer.                                                           *)
States == {"unknown"} \cup Area

(* The invariant: what the pass knows is right, and it knows nothing where *)
(* a call returns to.                                                      *)
ResetInv ==
  /\ state \in States
  /\ head \in 0 .. AddrSpace - 1
  /\ saved \in Nat
  /\ callers \in Seq({"unknown"})
  /\ StateIsRight

-----------------------------------------------------------------------------
(* An access across the gap is at least a reset nearer to the origin of    *)
(* its own area than to any address of the other one.                      *)
LEMMA ResetIsWorthIt ==
  ASSUME NEW area \in Area, NEW other \in Area \ {area},
         NEW addr \in Addresses(area), NEW from \in Addresses(other)
  PROVE  /\ dist(addr, from) \in Nat
         /\ dist(addr, Origin(area)) \in Nat
         /\ dist(addr, from) >= RESET + dist(addr, Origin(area))
<1>1. CASE area = "stack"
  <2>1. other = "heap"
    BY <1>1 DEF Area
  <2>2. addr \in 0 .. STACK_MAX - 1 /\ from \in HEAP_MIN .. AddrSpace - 2
    BY <1>1, <2>1 DEF Addresses
  <2>3. dist(addr, from) = from - addr /\ dist(addr, Origin(area)) = STACK_MAX - addr
    BY <1>1, <2>2, ResetAssumption DEF dist, Origin
  <2> QED
    BY <2>2, <2>3, ResetAssumption
<1>2. CASE area = "heap"
  <2>1. other = "stack"
    BY <1>2 DEF Area
  <2>2. addr \in HEAP_MIN .. AddrSpace - 2 /\ from \in 0 .. STACK_MAX - 1
    BY <1>2, <2>1 DEF Addresses
  <2>3. dist(addr, from) = addr - from
    BY <2>2, ResetAssumption DEF dist
  <2>4. dist(addr, Origin(area)) = addr - HEAP_MIN
    BY <1>2, <2>2, ResetAssumption DEF dist, Origin
  <2> QED
    BY <2>2, <2>3, <2>4, ResetAssumption
<1> QED
  BY <1>1, <1>2 DEF Area

LEMMA AddressesAreAddresses ==
  \A area \in Area : Addresses(area) \subseteq 0 .. AddrSpace - 1
BY ResetAssumption DEF Area, Addresses

-----------------------------------------------------------------------------
LEMMA ResetInitInv == ResetInit => ResetInv
BY ResetAssumption DEF ResetInit, ResetInv, States, Area, NoHead, StateIsRight

LEMMA KnownAccessInv ==
  ASSUME ResetInv, NEW area \in Area, NEW addr \in Addresses(area), KnownAccess(area, addr)
  PROVE  ResetInv'
<1>1. saved' \in Nat
  <2>1. CASE state \in Area \ {area}
    <3>1. head \in Addresses(state)
      BY <2>1 DEF ResetInv, StateIsRight
    <3>2. /\ dist(addr, head) \in Nat
          /\ dist(addr, Origin(area)) \in Nat
          /\ dist(addr, head) >= RESET + dist(addr, Origin(area))
      BY <2>1, <3>1, ResetIsWorthIt
    <3>3. saved' = saved + dist(addr, head) - (RESET + dist(addr, Origin(area)))
      BY <2>1 DEF KnownAccess
    <3> QED
      BY <3>2, <3>3, ResetAssumption DEF ResetInv
  <2>2. CASE state \notin Area \ {area}
    BY <2>2 DEF KnownAccess, ResetInv
  <2> QED
    BY <2>1, <2>2
<1>2. state' = area /\ head' = addr /\ callers' = callers
  BY DEF KnownAccess
<1>3. head' \in 0 .. AddrSpace - 1
  BY <1>2, AddressesAreAddresses
<1>4. StateIsRight'
  BY <1>2 DEF StateIsRight, Addresses
<1> QED
  BY <1>1, <1>2, <1>3, <1>4 DEF ResetInv, States

LEMMA UnknownAccessInv ==
  ASSUME ResetInv, NEW area \in Area, NEW addr \in Addresses(area), UnknownAccess(area, addr)
  PROVE  ResetInv'
<1>1. state' = "unknown" /\ head' = addr /\ saved' = saved /\ callers' = callers
  BY DEF UnknownAccess
<1>2. head' \in 0 .. AddrSpace - 1
  BY <1>1, AddressesAreAddresses
<1> QED
  BY <1>1, <1>2 DEF ResetInv, States, StateIsRight, Area

LEMMA CallInv ==
  ASSUME ResetInv, Call
  PROVE  ResetInv'
<1>1. callers' \in Seq({"unknown"})
  BY DEF ResetInv, Call, AfterCall
<1> QED
  BY <1>1 DEF ResetInv, Call, States, StateIsRight, Area

LEMMA ReturnInv ==
  ASSUME ResetInv, Return
  PROVE  ResetInv'
<1>1. callers \in Seq({"unknown"}) /\ callers # <<>>
  BY DEF ResetInv, Return
<1>2. callers[Len(callers)] = "unknown"
  BY <1>1
<1>3. SubSeq(callers, 1, Len(callers) - 1) \in Seq({"unknown"})
  BY <1>1
<1>4. state' = "unknown" /\ callers' \in Seq({"unknown"}) /\ head' = head /\ saved' = saved
  BY <1>2, <1>3 DEF Return
<1> QED
  BY <1>4 DEF ResetInv, States, StateIsRight, Area

LEMMA NextBlockInv ==
  ASSUME ResetInv, NextBlock
  PROVE  ResetInv'
BY DEF ResetInv, NextBlock, BlockStart, States, StateIsRight, Area

LEMMA ResetStepInv == ResetInv /\ [ResetNext]_resetVars => ResetInv'
<1> SUFFICES ASSUME ResetInv, [ResetNext]_resetVars PROVE ResetInv'
  OBVIOUS
<1>1. ASSUME NEW area \in Area, NEW addr \in Addresses(area), KnownAccess(area, addr)
      PROVE  ResetInv'
  BY <1>1, KnownAccessInv
<1>2. ASSUME NEW area \in Area, NEW addr \in Addresses(area), UnknownAccess(area, addr)
      PROVE  ResetInv'
  BY <1>2, UnknownAccessInv
<1>3. CASE Call
  BY <1>3, CallInv
<1>4. CASE Return
  BY <1>4, ReturnInv
<1>5. CASE NextBlock
  BY <1>5, NextBlockInv
<1>6. CASE UNCHANGED resetVars
  <2>1. callers' = callers /\ state' = state /\ head' = head /\ saved' = saved
    BY <1>6 DEF resetVars
  <2> QED
    BY <2>1 DEF ResetInv, StateIsRight, Addresses
<1> QED
  BY <1>1, <1>2, <1>3, <1>4, <1>5, <1>6 DEF ResetNext

(* What the pass knows of the head is right at every step of every program *)
(* (ResetPointer.cpp:69-89).                                               *)
THEOREM StateAlwaysRight == ResetSpec => []StateIsRight
<1>1. ResetInv => StateIsRight
  BY DEF ResetInv
<1> QED
  BY <1>1, ResetInitInv, ResetStepInv, PTL DEF ResetSpec

(* Resets never make a program slower, as long as a reset costs no more    *)
(* than the gap between the areas (opcode.h:71-76).                        *)
THEOREM ResetsAlwaysPay == ResetSpec => []ResetsPay
<1>1. ResetInv => ResetsPay
  BY DEF ResetInv, ResetsPay
<1> QED
  BY <1>1, ResetInitInv, ResetStepInv, PTL DEF ResetSpec

=============================================================================
