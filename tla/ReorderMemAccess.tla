-------------------------- MODULE ReorderMemAccess --------------------------
(***************************************************************************)
(* The pass that reorders the instructions of a block, so that accesses to *)
(* the stack and to the heap stand together (ReorderMemAccess.cpp).        *)
(*                                                                         *)
(* An instruction has a kind and operands.  An operand is the place of     *)
(* another instruction of the block, or a value from outside of it.  The   *)
(* terminator, which stays the last one, is left out.                      *)
(***************************************************************************)
EXTENDS Integers, Sequences, FiniteSets, SequencesExt, Functions

CONSTANT Blocks   \* the blocks

(* Values from outside the block: an alloca, a malloc, a global, what was  *)
(* loaded from a global, what a call returned, and any other.              *)
AnAlloca == 0
AMalloc == -1
AGlobal == -2
ALoad == -3
AResult == -4
Other == -5
Outside == Other .. AnAlloca

(* "address" computes a pointer from its first operand (getelementptr and  *)
(* bitcast), "value" is every instruction that does not touch memory.      *)
Kind == {"phi", "alloca", "malloc", "alloca_bytes", "free", "load", "store", "call",
         "address", "value"}

Instruction == [kind : Kind, ops : Seq(Int)]
IsBlock(b) ==
  /\ b \in Seq(Instruction)
  /\ \A n \in DOMAIN b :
       /\ \A m \in Range(b[n].ops) :
            m \in Outside \/ m \in 1 .. n - 1 \/ (b[n].kind = "phi" /\ m \in DOMAIN b)
       /\ b[n].kind = "phi" => \A m \in 1 .. n : b[m].kind = "phi"
       /\ b[n].kind \in {"load", "store", "address"} => b[n].ops # <<>>

ASSUME ReorderAssumption == \A b \in Blocks : IsBlock(b)

VARIABLES
  insts,      \* the block as it was (Insts)
  type,       \* the area each instruction is held back for
  dom,        \* the instructions that must come after each one
  newInsts,   \* the places of its instructions, in the new order
  used,       \* the instructions in newInsts
  cnt,        \* how many instructions each one still waits for
  block,      \* the area whose instructions are held back
  flag,       \* an instruction was pushed since the last look
  at,         \* where the loop over the instructions is
  pc          \* "scan" or "done"

reorderVars == <<insts, type, dom, newInsts, used, cnt, block, flag, at, pc>>

-----------------------------------------------------------------------------
(* Types.                                                                  *)

PointerOperand(I) == IF I.kind = "address" THEN I.ops[1] ELSE Last(I.ops)

(* getBlockType and getOpTypeReorder of a value from outside.              *)
OutsideBlockType(v) ==
  CASE v = AnAlloca -> "stack"
    [] v \in {AMalloc, AGlobal, ALoad} -> "heap"
    [] v = AResult -> "call"
    [] v = Other -> "unknown"

OutsideOpType(v) ==
  CASE v = AnAlloca -> "stack"
    [] v \in {AMalloc, AGlobal} -> "heap"
    [] v \in {ALoad, AResult, Other} -> "unknown"

(* The area an instruction of block b is held back for, t being that of    *)
(* the instructions before it: a load and a store have that of their       *)
(* pointer, however it was come by.                                        *)
BlockTypeOf(b, t, n) ==
  CASE b[n].kind \in {"malloc", "free"} -> "heap"
    [] b[n].kind \in {"alloca", "alloca_bytes"} -> "stack"
    [] b[n].kind = "call" -> "call"
    [] b[n].kind \in {"address", "load", "store"} ->
         LET p == PointerOperand(b[n])
         IN IF p \in Outside THEN OutsideBlockType(p) ELSE t[p]
    [] b[n].kind \in {"phi", "value"} -> "unknown"

(* Mutant of getBlockType: a phi has the type of its first value.          *)
getBlockTypeOfPhi(b) ==
  LET t[n \in DOMAIN b] ==
        IF b[n].kind = "phi" /\ Head(b[n].ops) \in Outside
        THEN OutsideBlockType(Head(b[n].ops))
        ELSE BlockTypeOf(b, t, n)
  IN t

getBlockType(b) == LET t[n \in DOMAIN b] == BlockTypeOf(b, t, n) IN t

(* The area a pointer is known to point into.                              *)
OpTypeOf(b, t, n) ==
  CASE b[n].kind \in {"malloc", "free"} -> "heap"
    [] b[n].kind \in {"alloca", "alloca_bytes"} -> "stack"
    [] b[n].kind = "address" ->
         LET p == PointerOperand(b[n])
         IN IF p \in Outside THEN OutsideOpType(p) ELSE t[p]
    [] b[n].kind \in {"phi", "value", "load", "store", "call"} -> "unknown"

getOpTypeReorder(b) == LET t[n \in DOMAIN b] == OpTypeOf(b, t, n) IN t

OpType(b, v) == IF v \in Outside THEN OutsideOpType(v) ELSE getOpTypeReorder(b)[v]

(* The area an instruction accesses.                                       *)
getAccessTypeReorder(b, n) ==
  CASE b[n].kind \in {"load", "store"} -> OpType(b, PointerOperand(b[n]))
    [] b[n].kind = "call" -> "call"
    [] OTHER -> "noeffect"

-----------------------------------------------------------------------------
(* What must stay in front of what.                                        *)

(* Mutant of checkDom: accesses to one area are not kept in order.         *)
checkDomOperands(b, i, j) == i \in Range(b[j].ops)

(* I must be in front of J.                                                *)
checkDom(b, i, j) ==
  LET Itype == getAccessTypeReorder(b, i)
      Jtype == getAccessTypeReorder(b, j)
  IN \/ i \in Range(b[j].ops)
     \/ /\ Itype # "noeffect" /\ Jtype # "noeffect"
        /\ \/ "call" \in {Itype, Jtype}
           \/ Itype = Jtype
           \/ Jtype = "unknown"

ReorderInit ==
  /\ insts \in Blocks
  /\ type = getBlockType(insts)
  /\ dom = [i \in DOMAIN insts |-> {j \in i + 1 .. Len(insts) : checkDom(insts, i, j)}]
  /\ newInsts = <<>>
  /\ used = {}
  /\ cnt = [j \in DOMAIN insts |-> Cardinality({i \in DOMAIN insts : j \in dom[i]})]
  /\ block = "heap"
  /\ flag = FALSE
  /\ at = 0
  /\ pc = IF insts = <<>> THEN "done" ELSE "scan"

-----------------------------------------------------------------------------
(* The list scheduling.                                                    *)

(* The loop pushes instruction n when it comes to it.                      *)
CanPush(n) ==
  /\ n \notin used
  /\ type[n] # block
  /\ cnt[n] = 0

Pushable == {n \in at + 1 .. Len(insts) : CanPush(n)}

(* Mutant of Push: one instruction a phase.                                *)
PushOne ==
  /\ pc = "scan"
  /\ \E n \in Pushable :
       /\ \A m \in Pushable : n <= m
       /\ newInsts' = Append(newInsts, n)
       /\ used' = used \cup {n}
       /\ cnt' = [j \in DOMAIN cnt |-> IF j \in dom[n] THEN cnt[j] - 1 ELSE cnt[j]]
       /\ at' = Len(insts)
       /\ flag' = FALSE
  /\ UNCHANGED <<insts, type, dom, block, pc>>

(* Mutant of Push: the instruction is not marked as used.                  *)
PushNotUsed ==
  /\ pc = "scan"
  /\ \E n \in Pushable :
       /\ \A m \in Pushable : n <= m
       /\ newInsts' = Append(newInsts, n)
       /\ cnt' = [j \in DOMAIN cnt |-> IF j \in dom[n] THEN cnt[j] - 1 ELSE cnt[j]]
       /\ at' = n
       /\ flag' = TRUE
  /\ UNCHANGED <<insts, type, dom, used, block, pc>>

(* The next instruction of the loop that is pushed.                        *)
Push ==
  /\ pc = "scan"
  /\ \E n \in Pushable :
       /\ \A m \in Pushable : n <= m
       /\ newInsts' = Append(newInsts, n)
       /\ used' = used \cup {n}
       /\ cnt' = [j \in DOMAIN cnt |-> IF j \in dom[n] THEN cnt[j] - 1 ELSE cnt[j]]
       /\ at' = n
       /\ flag' = TRUE
  /\ UNCHANGED <<insts, type, dom, block, pc>>

(* The end of the loop over the instructions: once more, or ...            *)
Rescan ==
  /\ pc = "scan"
  /\ Pushable = {}
  /\ flag
  /\ flag' = FALSE
  /\ at' = 0
  /\ UNCHANGED <<insts, type, dom, newInsts, used, cnt, block, pc>>

(* Mutant of OtherArea: the block stays what it is.                        *)
OtherAreaNever == block

(* STACK+HEAP-block                                                        *)
OtherArea == IF block = "heap" THEN "stack" ELSE "heap"

(* ... with the other area, or the block is rebuilt.                       *)
ChangeBlocking ==
  /\ pc = "scan"
  /\ Pushable = {}
  /\ ~flag
  /\ block' = OtherArea
  /\ at' = 0
  /\ pc' = IF used = DOMAIN insts THEN "done" ELSE "scan"
  /\ UNCHANGED <<insts, type, dom, newInsts, used, cnt, flag>>

ReorderNext == Push \/ Rescan \/ ChangeBlocking

ReorderSpec == ReorderInit /\ [][ReorderNext]_reorderVars /\ WF_reorderVars(ReorderNext)

-----------------------------------------------------------------------------
(* What an order of the instructions means: the areas a value may point    *)
(* into, whatever the pass knows of it, and the accesses that must not     *)
(* change places.                                                          *)

Anywhere == {"stack", "heap"}

MayPointTo(b, v) ==
  CASE OpType(b, v) = "stack" -> {"stack"}
    [] OpType(b, v) = "heap" -> {"heap"}
    [] OTHER -> Anywhere

Touches(b, n) ==
  CASE b[n].kind \in {"load", "store"} -> MayPointTo(b, PointerOperand(b[n]))
    [] b[n].kind = "call" -> Anywhere
    [] b[n].kind = "free" -> {"heap"}
    [] OTHER -> {}

Changes(b, n) == b[n].kind \in {"store", "call", "free"}

(* The order of i and j, of which i comes first, matters.  What a program  *)
(* has freed it does not touch any more.                                   *)
Conflict(b, i, j) ==
  /\ b[i].kind # "free"
  /\ Touches(b, i) \cap Touches(b, j) # {}
  /\ Changes(b, i) \/ Changes(b, j)

Done == pc = "done"
Place(n) == CHOOSE k \in DOMAIN newInsts : newInsts[k] = n
InFrontOf(i, j) == Place(i) < Place(j)

(* The pass loses no instruction and doubles none, at any point of the     *)
(* scheduling (ReorderMemAccess.cpp:157-195).                              *)
Permuted ==
  /\ \A k, l \in DOMAIN newInsts : newInsts[k] = newInsts[l] => k = l
  /\ Range(newInsts) = used
  /\ Done => used = DOMAIN insts

(* The block stays legal: every operand is computed before it is used, and *)
(* the phis stay in front of everything else, though nothing in the pass   *)
(* is about them (they have no area, and the loop meets them first).       *)
Legal ==
  Done => \A i, j \in DOMAIN insts :
    /\ i < j /\ i \in Range(insts[j].ops) => InFrontOf(i, j)
    /\ insts[i].kind = "phi" /\ insts[j].kind # "phi" => InFrontOf(i, j)

(* Of two accesses that may touch the same place the first stays first,    *)
(* when the pass knows the area of the first or does not know that of the  *)
(* second, and the second is no free (ReorderMemAccess.cpp:113-118).       *)
KnownConflictsKept ==
  Done => \A i, j \in DOMAIN insts :
    /\ i < j
    /\ Conflict(insts, i, j)
    /\ insts[j].kind # "free"
    /\ Touches(insts, i) # Anywhere \/ Touches(insts, j) = Anywhere \/ insts[i].kind = "call"
    => InFrontOf(i, j)

(* "without changing the program's behavior, this pass will reorder        *)
(* instructions" (documents/C._Progress_Report(SP2).md:118): every pair of *)
(* accesses that may touch the same place keeps its order.                 *)
ConflictsKept ==
  Done => \A i, j \in DOMAIN insts :
    i < j /\ Conflict(insts, i, j) => InFrontOf(i, j)

(* An access to the area a: the area of the last access and how often it   *)
(* was not the same as that of the access before it.                       *)
Visit(w, a) ==
  IF a \notin Anywhere \/ a = w.area THEN w
  ELSE [area |-> a, switches |-> IF w.area = "none" THEN 0 ELSE w.switches + 1]

Walk(areas) ==
  LET w[k \in 0 .. Len(areas)] ==
        IF k = 0 THEN [area |-> "none", switches |-> 0] ELSE Visit(w[k - 1], areas[k])
  IN w

(* How often code that goes through these areas changes between them.      *)
Switches(areas) == Walk(areas)[Len(areas)].switches

(* The pass does what it is for: the new order changes between the areas   *)
(* at most once more than any order that was there before, the once being  *)
(* the price of starting with the stack (ReorderMemAccess.cpp:153).        *)
FewSwitches ==
  Done => Switches([k \in DOMAIN newInsts |-> type[newInsts[k]]]) <= Switches(type) + 1

(* The loop ends: there is always an area to release that lets it go on    *)
(* (while (lft), ReorderMemAccess.cpp:157).                                *)
Terminates == <>Done

=============================================================================
