------------------------------- MODULE Machine -------------------------------
(***************************************************************************)
(* The machine that runs a program: State::exec_function of state.cpp, the *)
(* statements of stmt.cpp and the registers of regfile.cpp, on the memory  *)
(* of the module Memory.                                                   *)
(*                                                                         *)
(* exec_function is recursive: a call saves ALL registers in a local       *)
(* variable, runs the callee on the same register file and puts the saved  *)
(* registers back.  frames is the stack of its activations.  An access to  *)
(* memory is the operation of Memory conjoined with its effect on the      *)
(* registers.                                                              *)
(***************************************************************************)
EXTENDS Memory, Arithmetic, Program, SequencesExt

CONSTANTS
  Inputs,     \* the numbers a program may read
  MaxDepth    \* activations the stack of the host has room for

(* A register holds WORD bytes, and an address.                            *)
ASSUME MachineAssumption ==
  /\ WordRange = AddrSpace
  /\ \E bits \in 1 .. WIDTH : BYTE = Pow2[bits] /\ WORD * bits = WIDTH
  /\ Inputs \subseteq Word
  /\ MaxDepth \in Nat \ {0}

VARIABLES
  regs,     \* the registers
  nargs,    \* how many of the argument registers may be read
  frames    \* the activations of exec_function

execVars == <<regs, nargs, frames>>
machineVars == <<vars, execVars>>

RegFile == [regs : [Reg -> Word], nargs : 0 .. NREG]
CurrRegFile == [regs |-> regs, nargs |-> nargs]
ZeroRegs == [r \in Reg |-> 0]

(* function, curr and old are the local variables of exec_function.        *)
frame(f, n, rf) == [function |-> f, curr |-> n, old |-> rf]

MachineInit ==
  /\ Init
  /\ regs = [ZeroRegs EXCEPT ![RegSp] = STACK_MAX]
  /\ nargs = 0
  /\ frames = <<>>

Running == status = "running" /\ frames # <<>>
Top == Last(frames)
Stmt == code[Top.curr]

-----------------------------------------------------------------------------
(* Registers and operands.                                                 *)

(* read_reg stops the program at an argument it was not given.             *)
Readable(v) == v.kind = "reg" => v.n \notin A1 + nargs .. A16

(* get_value, for an operand that may be read.                             *)
get_value(v) == IF v.kind = "lit" THEN v.n ELSE regs[v.n]
Val(i) == get_value(Stmt.vals[i])

(* write_reg: the argument registers are read only; a result nobody wants  *)
(* is dropped.                                                             *)
Writable(r) == r \notin A1 .. A16
write_reg(rf, r, val) == IF r = RegNone THEN rf ELSE [rf EXCEPT ![r] = val]

(* The statement reads arguments that were not passed.                     *)
CannotRead == \E i \in DOMAIN Stmt.vals : ~Readable(Stmt.vals[i])
CannotWrite == "lhs" \in DOMAIN Stmt /\ Stmt.op # "call" /\ ~Writable(Stmt.lhs)

(* Statement op can be run.                                                *)
Exec(op) ==
  /\ Running
  /\ Stmt.op = op
  /\ ~CannotRead
  /\ ~CannotWrite
  /\ UNCHANGED programVars

GoTo(n) == frames' = [frames EXCEPT ![Len(frames)].curr = n]
Continue == GoTo(next[Top.curr]) /\ UNCHANGED nargs
SetLhs(val) == regs' = write_reg(regs, Stmt.lhs, val)
Quiet == UNCHANGED vars

-----------------------------------------------------------------------------
(* Statements on memory.                                                   *)

(* ptr + ofs is a uint64_t.                                                *)
Address(i) == (Val(i) + Stmt.ofs) % AddrSpace

ExecMalloc ==
  /\ Exec("malloc")
  /\ Malloc(Val(1))
  /\ SetLhs(result')
  /\ Continue

ExecFree ==
  /\ Exec("free")
  /\ Free(Val(1))
  /\ Continue
  /\ UNCHANGED regs

ExecLoad ==
  /\ Exec("load")
  /\ LoadStack(Stmt.size, Address(1)) \/ LoadHeap(Stmt.size, Address(1))
  /\ SetLhs(result')
  /\ Continue

ExecStore ==
  /\ Exec("store")
  /\ \/ StoreStack(Stmt.size, Address(2), Val(1))
     \/ StoreHeap(Stmt.size, Address(2), Val(1))
  /\ Continue
  /\ UNCHANGED regs

ExecReset ==
  /\ \/ Exec("reset stack") /\ ResetStack
     \/ Exec("reset heap") /\ ResetHeap
  /\ Continue
  /\ UNCHANGED regs

(* The memory refuses the operation, or breaks.                            *)
MemoryStops ==
  /\ \/ /\ Exec("malloc")
        /\ \/ MallocInvalid(Val(1))
           \/ MallocOutOfMemory(Val(1))
           \/ HostOutOfMemory(Val(1))
     \/ Exec("free") /\ FreeInvalid(Val(1))
     \/ Exec("load") /\ (\/ AccessRejected(Stmt.size, Address(1))
                         \/ AccessWraps(Stmt.size, Address(1)))
     \/ Exec("store") /\ (\/ AccessRejected(Stmt.size, Address(2))
                          \/ AccessWraps(Stmt.size, Address(2)))
  /\ UNCHANGED execVars

-----------------------------------------------------------------------------
(* Statements on registers only, and those on the world outside.           *)

ExecBop ==
  /\ Exec("bop")
  /\ ~DividesByZero(Stmt.kind, Stmt.size, Val(2))
  /\ ~DivisionOverflows(Stmt.kind, Stmt.size, Val(1), Val(2))
  /\ SetLhs(compute(Stmt.kind, Stmt.size, Val(1), Val(2)))
  /\ Continue
  /\ Quiet

ExecSelect ==
  /\ Exec("select")
  /\ SetLhs(IF Val(1) # 0 THEN Val(2) ELSE Val(3))
  /\ Continue
  /\ Quiet

ExecRead ==
  /\ Exec("read")
  /\ \E n \in Inputs : SetLhs(n)
  /\ Continue
  /\ Quiet

ExecWrite ==
  /\ Exec("write")
  /\ SetLhs(0)
  /\ Continue
  /\ Quiet

ExecAssert ==
  /\ Exec("assert")
  /\ Val(1) = Val(2)
  /\ Continue
  /\ Quiet
  /\ UNCHANGED regs

-----------------------------------------------------------------------------
(* Control.                                                                *)

CurrFunction == functions[Top.function]

(* The block a branch goes to.                                             *)
Target ==
  CASE Stmt.op = "br" -> Stmt.bb
    [] Stmt.op = "brcond" -> IF Val(1) # 0 THEN Stmt.true_bb ELSE Stmt.false_bb
    [] Stmt.op = "switch" ->
         IF Val(1) \in DOMAIN Stmt.bb_map THEN Stmt.bb_map[Val(1)] ELSE Stmt.default_bb

(* Mutant of ExecBranch: an undefined block is not noticed.                *)
ExecBranchAnyBlock ==
  /\ \E op \in {"br", "brcond", "switch"} : Exec(op)
  /\ GoTo(get_bb(CurrFunction, Target))
  /\ UNCHANGED <<regs, nargs>>
  /\ Quiet

ExecBranch ==
  /\ \E op \in {"br", "brcond", "switch"} : Exec(op)
  /\ get_bb(CurrFunction, Target) # 0
  /\ GoTo(get_bb(CurrFunction, Target))
  /\ UNCHANGED <<regs, nargs>>
  /\ Quiet

(* Mutant of CanCall: the number of arguments is not compared.             *)
CanCallAnyArity == Stmt.fname \in DOMAIN functions

CanCall ==
  /\ Stmt.fname \in DOMAIN functions
  /\ functions[Stmt.fname].nargs = Len(Stmt.vals)

(* setup_args, on from arg1, with no look at the number of registers.      *)
setup_args ==
  [r \in Reg |-> IF r - A1 + 1 \in DOMAIN Stmt.vals THEN Val(r - A1 + 1) ELSE regs[r]]

ExecCall ==
  /\ Exec("call")
  /\ CanCall
  /\ Len(frames) < MaxDepth
  /\ frames' = Append([frames EXCEPT ![Len(frames)].old = CurrRegFile],
                      frame(Stmt.fname, get_first_bb(functions[Stmt.fname]),
                            [regs |-> ZeroRegs, nargs |-> 0]))
  /\ nargs' = functions[Stmt.fname].nargs
  /\ regs' = setup_args
  /\ Quiet

(* The recursion of the interpreter has no limit but the host's stack.     *)
HostStackOverflow ==
  /\ Exec("call")
  /\ CanCall
  /\ Len(frames) = MaxDepth
  /\ StopWith("undefined")
  /\ UNCHANGED execVars

Caller == frames[Len(frames) - 1]
CallStmtOfCaller == code[Caller.curr]

(* Mutant of Restored: set_nargs is not undone.                            *)
RestoredRegsOnly ==
  /\ nargs' = nargs
  /\ regs' = write_reg(Caller.old.regs, CallStmtOfCaller.lhs, Val(1))

(* Mutant of Restored: the result is written before the registers are put  *)
(* back, to the register file of the callee.                               *)
RestoredNever ==
  /\ nargs' = Caller.old.nargs
  /\ regs' = write_reg(regs, CallStmtOfCaller.lhs, Val(1))

(* regfile = old; regfile.write_reg(lhs, ret)                              *)
Restored ==
  /\ nargs' = Caller.old.nargs
  /\ regs' = write_reg(Caller.old.regs, CallStmtOfCaller.lhs, Val(1))

ExecRet ==
  /\ Exec("ret")
  /\ Len(frames) > 1
  /\ Writable(CallStmtOfCaller.lhs)
  /\ Restored
  /\ frames' = [Front(frames) EXCEPT ![Len(frames) - 1].curr = next[Caller.curr]]
  /\ Quiet

(* main returns.                                                           *)
Finish ==
  /\ Exec("ret")
  /\ Len(frames) = 1
  /\ StopWith("finished")
  /\ UNCHANGED execVars

(* invoke_runtime_error and invoke_assertion_failed.                       *)
Rejected ==
  \/ CannotRead
  \/ CannotWrite
  \/ /\ ~CannotRead
     /\ \/ Stmt.op = "bop" /\ DividesByZero(Stmt.kind, Stmt.size, Val(2))
        \/ Stmt.op \in {"br", "brcond", "switch"} /\ get_bb(CurrFunction, Target) = 0
        \/ Stmt.op = "call" /\ ~CanCall
        \/ Stmt.op = "ret" /\ Len(frames) > 1 /\ ~Writable(CallStmtOfCaller.lhs)
        \/ Stmt.op = "assert" /\ Val(1) # Val(2)
        \/ Stmt.op = "read"

RuntimeError ==
  /\ Running
  /\ Rejected
  /\ StopWith("rejected")
  /\ UNCHANGED <<programVars, execVars>>

(* The host traps.                                                         *)
HostTrap ==
  /\ Exec("bop")
  /\ DivisionOverflows(Stmt.kind, Stmt.size, Val(1), Val(2))
  /\ StopWith("undefined")
  /\ UNCHANGED execVars

(* exec_function(main), once the program is there.                         *)
Start ==
  /\ frames = <<>>
  /\ status = "running"
  /\ get_first_bb(functions["main"]) # 0
  /\ frames' = <<frame("main", get_first_bb(functions["main"]), CurrRegFile)>>
  /\ UNCHANGED <<vars, regs, nargs, programVars>>

MachineNext ==
  \/ ExecMalloc \/ ExecFree \/ ExecLoad \/ ExecStore \/ ExecReset \/ MemoryStops
  \/ ExecBop \/ ExecSelect \/ ExecRead \/ ExecWrite \/ ExecAssert
  \/ ExecBranch \/ ExecCall \/ HostStackOverflow \/ ExecRet \/ Finish
  \/ RuntimeError \/ HostTrap

=============================================================================
