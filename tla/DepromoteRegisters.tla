------------------------ MODULE DepromoteRegisters -------------------------
(***************************************************************************)
(* The translation of a function from IR values to registers and stack     *)
(* slots (class DepromoteRegisters, src/core/Backend.cpp, with the         *)
(* analysis RAHelper it rests on).                                         *)
(*                                                                         *)
(* The pass visits the blocks in layout order and the instructions of a    *)
(* block in order.  An operand that is in no register is filled from its   *)
(* slot; when no register is free, a value is evicted, and spilled to its  *)
(* slot if it may still be needed.  Beside the pass's own state the module *)
(* runs the code that it emits: regs and slots say which value each        *)
(* register and each slot REALLY holds at this point of the block, so that *)
(* what the pass believes can be compared with it.                         *)
(*                                                                         *)
(* A function that calls alloca_bytes addresses its slots through a copy   *)
(* of the stack pointer, RefSP, in register RefSPId.  spill_ref saves the  *)
(* copy in the word below sp, slots[RefSP], for the time of one call.      *)
(*                                                                         *)
(* A program is a sequence of blocks.  Operands that are constants,        *)
(* arguments or globals take no register and are left out.                 *)
(***************************************************************************)
EXTENDS RegisterAllocator, SequencesExt

CONSTANTS
  Programs,   \* the functions translated
  None,       \* no value, or none that is known
  RefSP       \* the copy of the stack pointer

ASSUME DepromoteAssumption ==
  None \notin Instruction /\ RefSP \notin Instruction /\ None # RefSP

VARIABLES
  prog,         \* the function: a sequence of blocks
  bb,           \* the block being translated
  pos,          \* the instruction of the block, 0 before the first
  args,         \* the operands translated so far: [val, reg]
  AdventMap,    \* the uses of each value that are still to come in the block
  SourceToEmitMap, \* the register each value was given last, 0 for none
  PtrRegId,     \* the temporary register of a getelementptr, 0 for none
  scaled,       \* the indices of the getelementptr already added
  RefSet,       \* the stack pointer is kept in register RefSPId
  RefSpilled,   \* it is spilled around the next call
  regs,         \* ghost: the content of each register
  slots         \* ghost: the content of each value's slot, and of RefSP's

passVars == <<bb, pos, args, PtrRegId, scaled, RefSet, RefSpilled>>
vars == <<ra, prog, passVars, AdventMap, SourceToEmitMap, regs, slots>>

-----------------------------------------------------------------------------
(* Programs.                                                               *)
(*                                                                         *)
(* A block has phis ([def, from], from: block -> value or None), code,     *)
(* which ends with a branch ("br") or a return ("ret"), and successors.    *)

Instr(kind, ops, def) == [kind |-> kind, ops |-> ops, def |-> def]

Body(b) ==
  [i \in DOMAIN prog[b].phis |-> Instr("phi", <<>>, prog[b].phis[i].def)] \o prog[b].code

Blocks == DOMAIN prog

Defs(b) == {Body(b)[i].def : i \in DOMAIN Body(b)} \ {None}
DefBlock(v) == CHOOSE b \in Blocks : v \in Defs(b)

(* The value that the j-th phi of the i-th successor of b takes from b.    *)
FromHere(b, i, j) == prog[prog[b].succs[i]].phis[j].from[b]

(* What processPHIsInSuccessor stores at the end of b: for each successor, *)
(* the incoming value of each of its phis.                                 *)
PhiOperands(b) ==
  FlattenSeq([i \in DOMAIN prog[b].succs |->
    FlattenSeq([j \in DOMAIN prog[prog[b].succs[i]].phis |->
      IF FromHere(b, i, j) = None THEN <<>> ELSE <<FromHere(b, i, j)>>])])

(* The operands of an instruction in the order they are translated: a      *)
(* terminator's phis come before its condition.                            *)
Operands(b, i) ==
  IF Body(b)[i].kind = "br" THEN PhiOperands(b) \o Body(b)[i].ops
                            ELSE Body(b)[i].ops

(* The uses of v in block b: the timestep and the operand.  The code has   *)
(* the timesteps in a queue, in this order.                                *)
Advents(b, v) ==
  UNION {{<<i, k>> : k \in {j \in DOMAIN Operands(b, i) : Operands(b, i)[j] = v}} :
          i \in DOMAIN Body(b)}

(* The front of that queue.                                                *)
FirstUse(uses) ==
  CHOOSE u \in uses : \A w \in uses : u[1] < w[1] \/ (u[1] = w[1] /\ u[2] <= w[2])

(* RAHelper: the blocks where v appears.  A use by a phi counts for the    *)
(* block the value comes from.                                             *)
AdventBlocks(v) ==
  {b \in Blocks : v \in Defs(b) \/ \E i \in DOMAIN Body(b) : Contains(Body(b)[i].ops, v)}
    \cup {b \in Blocks : \E c \in Blocks : \E j \in DOMAIN prog[c].phis :
            b \in DOMAIN prog[c].phis[j].from /\ prog[c].phis[j].from[b] = v}

ReturnBlock(b) == Last(prog[b].code).kind = "ret"

FinalUses(b) ==
  {v \in Instruction : \/ AdventBlocks(v) = {b}
                       \/ /\ ReturnBlock(b)
                          /\ \E i \in DOMAIN Body(b) : Contains(Body(b)[i].ops, v)}

-----------------------------------------------------------------------------
(* The functions that are translated, as LLVM's verifier leaves them, and  *)
(* with the definition of each value before its uses in layout order.      *)

Terminators == {"br", "ret"}

(* A block ends with its terminator; every instruction is a user.          *)
TypedProgram ==
  /\ Len(prog) \in Nat /\ Blocks = 1 .. Len(prog)
  /\ \A b \in Blocks :
       /\ prog[b].phis \in Seq(Range(prog[b].phis))
       /\ prog[b].code \in Seq(Range(prog[b].code)) /\ prog[b].code # <<>>
       /\ prog[b].succs \in Seq(Blocks)
       /\ \A i \in DOMAIN Body(b) :
            /\ <<b, i>> \in User /\ i \in Timestep
            /\ Body(b)[i].kind \in Terminators <=> i = Len(Body(b))
            /\ Body(b)[i].kind = "gep" => Body(b)[i].ops # <<>>
            /\ Body(b)[i].kind \in {"set_ref", "spill_ref"} => Body(b)[i].ops = <<>>
            /\ Body(b)[i].kind \in {"op", "gep", "gep_const", "call"} \/ Len(Body(b)[i].ops) <= 1
            /\ Body(b)[i].kind \in Terminators \cup {"set_ref", "spill_ref"}
                 => Body(b)[i].def = None
            /\ Body(b)[i].ops \in Seq(Instruction)
            /\ Body(b)[i].def \in Instruction \cup {None}

(* A phi has a value for every block that branches to its own.             *)
PhisComplete ==
  \A b \in Blocks : \A c \in Range(prog[b].succs) : \A j \in DOMAIN prog[c].phis :
    /\ b \in DOMAIN prog[c].phis[j].from
    /\ prog[c].phis[j].from[b] \in Instruction \cup {None}

DefinedOnce ==
  \A b, c \in Blocks : \A i \in DOMAIN Body(b), j \in DOMAIN Body(c) :
    Body(b)[i].def = Body(c)[j].def /\ Body(b)[i].def # None => b = c /\ i = j

(* Before the i-th instruction of b, in layout order, v is defined.        *)
DefinedBefore(v, b, i) ==
  \E c \in Blocks : \E j \in DOMAIN Body(c) :
    Body(c)[j].def = v /\ (c < b \/ (c = b /\ j < i))

UsedAfterDefinition ==
  /\ \A b \in Blocks : \A i \in DOMAIN Body(b) : \A k \in DOMAIN Operands(b, i) :
       DefinedBefore(Operands(b, i)[k], b, i)
  /\ \A v \in Instruction : \A c \in AdventBlocks(v) : \E b \in Blocks : b <= c /\ v \in Defs(b)

(* AllocaBytesHandler: set_ref starts the entry block, and a spill_ref is  *)
(* in a function with a set_ref, directly before the call it is made for.  *)
RefCalls ==
  \A b \in Blocks : \A i \in DOMAIN Body(b) :
    /\ Body(b)[i].kind = "set_ref" => b = 1 /\ i = 1
    /\ Body(b)[i].kind = "spill_ref" =>
         /\ Body(1)[1].kind = "set_ref"
         /\ i + 1 \in DOMAIN Body(b) /\ Body(b)[i + 1].kind = "call"

WellFormed ==
  TypedProgram /\ PhisComplete /\ DefinedOnce /\ UsedAfterDefinition /\ RefCalls

-----------------------------------------------------------------------------
(* The instruction at work, and its name as a user.                        *)
Now == Body(bb)[pos]
NowUser == <<bb, pos>>
NowOperands == Operands(bb, pos)

Working == bb \in Blocks /\ pos >= 1
Translated == Len(args) = Len(NowOperands)

-----------------------------------------------------------------------------
(* One call of the pass can evict, spill, fill and define in a row.  The   *)
(* operators below take the part of the state this changes as a record.    *)

Machine == [ra |-> ra, regs |-> regs, slots |-> slots, emit |-> SourceToEmitMap]

Commit(m) ==
  /\ ra' = m.ra
  /\ regs' = m.regs
  /\ slots' = m.slots
  /\ SourceToEmitMap' = m.emit

(* Mutant of NextAdvent: no more advent is a signed -1.                    *)
NextAdventSigned(uses) == IF uses = {} THEN -1 ELSE FirstUse(uses)[1]

NextAdvent(uses) == IF uses = {} THEN NO_MORE_ADVENT ELSE FirstUse(uses)[1]

(* Mutant of MustSpill: a value not used in its block is forgotten.        *)
MustSpillUsedOnly(a) ==
  /\ DefBlock(a.Source) = bb
  /\ a.LastUser # NoUser
  /\ AdventMap[a.Source] # {} \/ a.Source \notin FinalUses(a.LastUser[1])

(* Mutant of MustSpill: only the uses in other blocks count.               *)
MustSpillForOthers(a) ==
  /\ DefBlock(a.Source) = bb
  /\ a.LastUser = NoUser \/ a.Source \notin FinalUses(a.LastUser[1])

(* The condition of evict: the victim was defined in this block, and it is *)
(* used later here, or never was used here, or its last user is not in a   *)
(* block where it is used for the last time.                               *)
MustSpill(a) ==
  /\ DefBlock(a.Source) = bb
  /\ \/ AdventMap[a.Source] # {}
     \/ a.LastUser = NoUser
     \/ a.Source \notin FinalUses(a.LastUser[1])

RefSPId == MAX_REG_N

(* Slots are addressed from sp, and after set_ref from register RefSPId:   *)
(* this holds the stack pointer.                                           *)
BaseHolds(m) == RefSet => m.regs[RefSPId] = RefSP

(* A store from a wrong base may go to any slot.                           *)
Evicted(m, a) ==
  [m EXCEPT !.ra = evict(@, a),
            !.slots = IF ~MustSpill(a) THEN @
                      ELSE IF BaseHolds(m)
                        THEN [@ EXCEPT ![a.Source] = m.regs[m.emit[a.Source]]]
                        ELSE [s \in DOMAIN @ |-> None]]

(* A register is free, if need be after an eviction.  No outcome: the      *)
(* allocator's assertion fails.                                            *)
WithFreeRegister(m) ==
  IF HasFree(m.ra) THEN {m} ELSE {Evicted(m, a) : a \in Victims(m.ra)}

TopRegister(m) == Head(m.ra.FreeRegisters)

(* requestRegister(v) when a register is free; the instruction emitted for *)
(* it writes content there.                                                *)
Place(m, v, content) ==
  [m EXCEPT !.ra = update(request(@, v), v, NoUser, NextAdvent(AdventMap[v])),
            !.regs[TopRegister(m)] = content,
            !.emit[v] = TopRegister(m)]

(* What is loaded for v; from a wrong base, nothing that is known.         *)
Filled(m, v) == IF BaseHolds(m) THEN m.slots[v] ELSE None

(* getRegister: v is in a register already, or is loaded from its slot.    *)
WithValue(m, v) ==
  IF IsActive(m.ra, v) THEN {m} ELSE {Place(n, v, Filled(n, v)) : n \in WithFreeRegister(m)}

-----------------------------------------------------------------------------
(* The register of the reference stack pointer (see visitCallInst).        *)

(* Register RefSPId is free, if need be after evicting the value in it.    *)
WithRefRegister(m) ==
  IF IsFreeRegister(m.ra, RefSPId)
    THEN {m}
    ELSE {Evicted(m, a) : a \in {c \in m.ra.ActiveSet : c.RegId = RefSPId}}

(* Mutant of HoldRefRegister: the allocator is not told.                   *)
HoldRefRegisterFreely(m) == m

HoldRefRegister(m) == [m EXCEPT !.ra = requestTempRegister(@, RefSPId)]

(* After the call the emitter loads the register with what spill_ref saved.*)
Reloaded(m) == [m EXCEPT !.regs[RefSPId] = m.slots[RefSP]]

-----------------------------------------------------------------------------
(* The steps.                                                              *)

Init ==
  /\ AllocatorInit
  /\ prog \in Programs /\ WellFormed
  /\ bb = 1
  /\ pos = 0
  /\ args = <<>>
  /\ AdventMap = [v \in Instruction |-> {}]
  /\ SourceToEmitMap = [v \in Instruction |-> 0]
  /\ PtrRegId = 0
  /\ scaled = 0
  /\ RefSet = FALSE
  /\ RefSpilled = FALSE
  /\ regs = [r \in 0 .. MAX_REG_N |-> None]
  /\ slots = [v \in Instruction \cup {RefSP} |-> None]

(* visitBasicBlock.  What the registers hold when the block is run is not  *)
(* known: it may be entered from anywhere.  Only the register of the       *)
(* reference stack pointer is not a block's own.                           *)
EnterBlock ==
  /\ bb \in Blocks
  /\ pos = 0
  /\ pos' = 1
  /\ AdventMap' = [v \in Instruction |-> Advents(bb, v)]
  /\ SourceToEmitMap' = [v \in Instruction |-> 0]
  /\ regs' = [r \in 0 .. MAX_REG_N |-> IF RefSet /\ r = RefSPId THEN regs[r] ELSE None]
  /\ UNCHANGED <<ra, prog, bb, args, PtrRegId, scaled, RefSet, RefSpilled, slots>>

(* The visitors that report their user before the first operand: store,    *)
(* binary operators, icmp, select ("op") and getelementptr.  The operands  *)
(* of a "gep" are its pointer and its indices; the pointer of a            *)
(* "gep_const" is in no register, and its operands are only the indices.   *)
IsGep(kind) == kind \in {"gep", "gep_const"}
Reports(kind) == kind = "op" \/ IsGep(kind)

Reported ==
  IF Reports(Now.kind) THEN [Machine EXCEPT !.ra = reportUser(@, NowUser)] ELSE Machine

PointerOperands == IF Now.kind = "gep" THEN 1 ELSE 0

(* A call gives the reference register up before its arguments.            *)
MustGiveUpRef == Now.kind = "call" /\ RefSpilled /\ RefSPId \in ra.TempRegisters

(* A getelementptr copies its pointer, and adds each index, before it      *)
(* translates the next operand.                                            *)
GepReady ==
  IsGep(Now.kind) /\ Len(args) >= PointerOperands =>
    PtrRegId # 0 /\ scaled = Len(args) - PointerOperands

(* translateSrcOperandToTgt of the next operand.                           *)
TranslateOperand ==
  /\ Working
  /\ ~Translated
  /\ ~MustGiveUpRef
  /\ GepReady
  /\ LET v == NowOperands[Len(args) + 1]
     IN /\ AdventMap' = [AdventMap EXCEPT ![v] = @ \ {FirstUse(@)}]
        /\ \E n \in WithValue(Reported, v) :
             /\ Commit([n EXCEPT !.ra =
                          update(@, v, NowUser, NextAdvent(AdventMap'[v]))])
             /\ args' = Append(args, [val |-> v, reg |-> n.emit[v]])
  /\ UNCHANGED <<prog, bb, pos, PtrRegId, scaled, RefSet, RefSpilled>>

(* visitGetElementPtrInst: the pointer is copied to a temporary register,  *)
(* because the operand's own must not be changed.                          *)
CopyPointer ==
  /\ Working
  /\ IsGep(Now.kind) /\ Len(args) = PointerOperands /\ PtrRegId = 0
  /\ \E n \in WithFreeRegister(Reported) :
       /\ PtrRegId' = TopRegister(n)
       /\ Commit([n EXCEPT !.ra = requestTemp(@),
                           !.regs[TopRegister(n)] = Now.def])
  /\ UNCHANGED <<prog, bb, pos, args, AdventMap, scaled, RefSet, RefSpilled>>

(* The index is added to the copy; unless the elements are bytes it is     *)
(* multiplied first, in a temporary register that is given up at once.     *)
ScaleIndex ==
  /\ Working
  /\ IsGep(Now.kind) /\ PtrRegId # 0 /\ scaled = Len(args) - PointerOperands - 1
  /\ scaled' = scaled + 1
  /\ \/ Commit(Machine)
     \/ \E n \in WithFreeRegister(Machine) :
          Commit([n EXCEPT !.ra = giveUpTempRegister(requestTemp(@), TopRegister(n)),
                           !.regs[TopRegister(n)] = None])
  /\ UNCHANGED <<prog, bb, pos, args, AdventMap, PtrRegId, RefSet, RefSpilled>>

(* The result of the instruction, if it has one: the value is in its       *)
(* register from here on.                                                  *)
WithResult(m) ==
  IF Now.def = None THEN {m}
                    ELSE {Place(n, Now.def, Now.def) : n \in WithFreeRegister(m)}

NextInstruction ==
  /\ args' = <<>>
  /\ PtrRegId' = 0
  /\ scaled' = 0
  /\ pos' = pos + 1
  /\ UNCHANGED <<prog, bb, AdventMap>>

(* The end of every visitor but those of calls and terminators.            *)
EmitInstruction ==
  /\ Working
  /\ Translated
  /\ Now.kind \in {"phi", "move", "op", "gep", "gep_const"}
  /\ GepReady
  /\ LET m == IF Reports(Now.kind)
                THEN [Machine EXCEPT !.ra = reportUser(@, NoUser)]
                ELSE Machine
         n == IF IsGep(Now.kind)
                THEN [m EXCEPT !.ra = giveUpTempRegister(@, PtrRegId)]
                ELSE m
     IN \E k \in WithResult(n) : Commit(k)
  /\ NextInstruction
  /\ UNCHANGED <<RefSet, RefSpilled>>

(* visitCallInst, of set_ref in the entry block.                           *)
EmitSetRef ==
  /\ Working
  /\ Now.kind = "set_ref" /\ ~RefSet
  /\ RefSet' = TRUE
  /\ \E m \in WithRefRegister(Machine) :
       Commit([HoldRefRegister(m) EXCEPT !.regs[RefSPId] = RefSP])
  /\ NextInstruction
  /\ UNCHANGED RefSpilled

(* visitCallInst, of spill_ref.                                            *)
EmitSpillRef ==
  /\ Working
  /\ Now.kind = "spill_ref" /\ RefSet
  /\ RefSpilled' = TRUE
  /\ slots' = [slots EXCEPT ![RefSP] = regs[RefSPId]]
  /\ NextInstruction
  /\ UNCHANGED <<ra, SourceToEmitMap, regs, RefSet>>

(* visitCallInst, of any other function: before the arguments ...          *)
GiveUpRef ==
  /\ Working
  /\ MustGiveUpRef
  /\ ra' = giveUpTempRegister(ra, RefSPId)
  /\ UNCHANGED <<prog, passVars, AdventMap, SourceToEmitMap, regs, slots>>

(* ... and after them.  The value in the register is evicted after the     *)
(* emitter has reloaded it.                                                *)
EmitCall ==
  /\ Working
  /\ Now.kind = "call"
  /\ Translated
  /\ ~MustGiveUpRef
  /\ \E m \in WithResult(Machine) :
       IF RefSpilled
         THEN \E n \in WithRefRegister(Reloaded(m)) : Commit(HoldRefRegister(n))
         ELSE Commit(m)
  /\ RefSpilled' = FALSE
  /\ NextInstruction
  /\ UNCHANGED RefSet

NextBlock ==
  /\ bb' = bb + 1
  /\ pos' = 0
  /\ args' = <<>>
  /\ UNCHANGED <<prog, AdventMap, PtrRegId, scaled, RefSet, RefSpilled>>

(* Mutant of Cleared: values stay in their registers across blocks.        *)
ClearedNever == TRUE

(* The loop of clearRA is over.                                            *)
Cleared == ra.ActiveSet = {}

(* Branches and switches end with clearRA: one value after the other is    *)
(* evicted, until there is none.                                           *)
ClearRA ==
  /\ Working
  /\ Translated
  /\ Now.kind = "br" /\ ~Cleared
  /\ \E a \in Victims(ra) : Commit(Evicted(Machine, a))
  /\ UNCHANGED <<prog, passVars, AdventMap>>

(* The end of visitBranchInst and visitSwitchInst.                         *)
EmitBranch ==
  /\ Working
  /\ Translated
  /\ Now.kind = "br" /\ Cleared
  /\ Commit(Machine)
  /\ NextBlock

(* visitReturnInst: nothing is cleared.                                    *)
EmitReturn ==
  /\ Working
  /\ Translated
  /\ Now.kind = "ret"
  /\ Commit(Machine)
  /\ NextBlock

(* The function is translated.                                             *)
Done == bb \notin Blocks /\ UNCHANGED vars

Next ==
  \/ EnterBlock
  \/ TranslateOperand
  \/ CopyPointer
  \/ ScaleIndex
  \/ EmitInstruction
  \/ EmitSetRef
  \/ EmitSpillRef
  \/ GiveUpRef
  \/ EmitCall
  \/ ClearRA
  \/ EmitBranch
  \/ EmitReturn
  \/ Done

Spec == Init /\ [][Next]_vars

-----------------------------------------------------------------------------
Content == Instruction \cup {None, RefSP}

TypeOK ==
  /\ AllocatorTypeOK
  /\ prog \in Programs
  /\ pos \in Nat
  /\ args \in Seq([val : Instruction, reg : 0 .. MAX_REG_N])
  /\ AdventMap \in [Instruction -> SUBSET (Timestep \X Nat)]
  /\ SourceToEmitMap \in [Instruction -> 0 .. MAX_REG_N]
  /\ PtrRegId \in 0 .. MAX_REG_N
  /\ scaled \in Nat
  /\ RefSet \in BOOLEAN
  /\ RefSpilled \in BOOLEAN
  /\ regs \in [0 .. MAX_REG_N -> Content]
  /\ slots \in [Instruction \cup {RefSP} -> Content]

(* A phi's value is stored as soon as it is translated; the other operands *)
(* are read when the instruction is emitted.                               *)
Stored(i) ==
  Now.kind = "br" /\ i <= Len(PhiOperands(bb)) /\ i < Len(args)

(* "report the current user to prevent evicting the registers currently    *)
(* used" (RegisterAllocator.cpp:178): when an instruction is emitted, each *)
(* operand's register still holds that operand, though the operands after  *)
(* it may have been filled and others spilled since it was translated.     *)
OperandsHold ==
  Working => \A i \in DOMAIN args : Stored(i) \/ regs[args[i].reg] = args[i].val

(* What the allocator believes is so on the machine: the register of an    *)
(* allocation holds its value (Backend.cpp:129-163 spills and fills by it).*)
AllocatorIsRight ==
  Working => \A a \in ra.ActiveSet : regs[a.RegId] = a.Source

(* evict (Backend.cpp:129-136) drops a value without a store only when no  *)
(* block needs its slot: once a block is translated, the slot of each of   *)
(* its values that another block uses holds that value.                    *)
SpilledForOtherBlocks ==
  pos = 0 =>
    \A b \in 1 .. bb - 1 : \A v \in Defs(b) : AdventBlocks(v) # {b} => slots[v] = v

(* "Normal load and store instructions will use this ref sp as sp"         *)
(* (C._Progress_Report(SP2).md:90): the allocator lets no value into       *)
(* register RefSPId (Backend.cpp:618-641), and but for the time of a call  *)
(* it is spilled for, the register holds the stack pointer.                *)
ReferenceKept == Working /\ RefSet => RefSpilled \/ regs[RefSPId] = RefSP

(* "designed a block-level register allocation": no allocation outlives    *)
(* the block it was made in.                                               *)
AllocationsAreOfThisBlock ==
  Working => \A a \in ra.ActiveSet : SourceToEmitMap[a.Source] = a.RegId

=============================================================================
