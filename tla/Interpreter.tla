---------------------------- MODULE Interpreter ----------------------------
(***************************************************************************)
(* The interpreter: it parses a file and runs the program it holds, from   *)
(* main.  What the machine relies on while it runs was established line by *)
(* line while the file was parsed.                                         *)
(***************************************************************************)
EXTENDS Parser, Machine

(* The sizes and the operations that the regular expressions let through   *)
(* are those the machine has.                                              *)
SizesTaken(s) ==
  /\ s.op \in {"load", "store"} => s.size \in Sizes
  /\ s.op = "bop" => s.kind \in BopKind \cup CondKind /\ s.size \in Widths

ASSUME InterpreterAssumption ==
  /\ ConstRange = AddrSpace
  /\ \A f \in Files : \A i \in DOMAIN f : f[i].kind = "statement" => SizesTaken(f[i].stmt)

interpreterVars == <<programVars, parserVars, machineVars>>

InterpreterInit == ParserInit /\ MachineInit

InterpreterNext ==
  \/ ParserNext /\ UNCHANGED machineVars
  \/ pstate = "accepted" /\ Start /\ UNCHANGED parserVars
  \/ pstate = "accepted" /\ MachineNext /\ UNCHANGED parserVars

InterpreterSpec == InterpreterInit /\ [][InterpreterNext]_interpreterVars

-----------------------------------------------------------------------------
InterpreterTypeOK ==
  /\ \A f \in DOMAIN functions : functions[f].nargs \in 0 .. NREG
  /\ DOMAIN next = DOMAIN code
  /\ regs \in [Reg -> Word]
  /\ nargs \in 0 .. NREG
  /\ \A i \in DOMAIN frames :
       /\ frames[i].function \in DOMAIN functions
       /\ frames[i].old \in RegFile

(* Whatever the file, an accepted program never runs off the end of a      *)
(* block: every block of every function exists with its first statement,   *)
(* and every statement that does not leave its block is linked to the next *)
(* one (parser.cpp:604-655 links them one line late, through prev_stmt).   *)
BlocksEnd ==
  pstate = "accepted" =>
    /\ \A f \in DOMAIN functions :
         LET blocks == functions[f].bb_map
         IN functions[f].first_bb \in DOMAIN blocks /\ \A b \in DOMAIN blocks : blocks[b] \in DOMAIN code
    /\ \A n \in DOMAIN code : ~IsTerminator(code[n]) => next[n] \in DOMAIN code /\ n < next[n]

(* exec_function never follows a null statement (state.cpp:22-28, 85, 92): *)
(* the check of the first block is the only one it makes.                  *)
NeverNull ==
  \A i \in DOMAIN frames : frames[i].curr \in DOMAIN code

(* The statements of function f: those its blocks lead to.                 *)
Reached(f) ==
  LET firsts == {functions[f].bb_map[b] : b \in DOMAIN functions[f].bb_map}
      reached[n \in 0 .. line] ==
        n \in firsts \/ \E p \in DOMAIN next : p < n /\ next[p] = n /\ reached[p]
  IN reached

StmtsOf(f) == {n \in 0 .. line : Reached(f)[n]}

(* Control stays inside the function that was called, and the number of    *)
(* arguments that may be read is the one it declares, also after a call    *)
(* that returned (state.cpp:73-82 sets it on the way in and restores it by *)
(* copying the whole register file back).                                  *)
ArgumentsOfTheFunction ==
  Running =>
    /\ nargs = functions[Top.function].nargs
    /\ \A i \in DOMAIN frames : frames[i].curr \in StmtsOf(frames[i].function)

(* The registers of activation d as it sees them when it runs.             *)
RegsOf(d) == IF d = Len(frames) THEN regs ELSE frames[d].old.regs

(* A call keeps every register of every activation below: when it returns, *)
(* all registers of the caller are what they were, but the one for the     *)
(* result; and a register that holds an argument keeps it for as long as   *)
(* the activation lasts.                                                   *)
CallsKeepRegisters ==
  [][\A d \in DOMAIN frames \cap DOMAIN frames' :
       \A r \in Reg :
         \/ d >= Len(frames) /\ r \notin A1 .. A16
         \/ Len(frames') = d /\ d < Len(frames) /\ code[frames[d].curr].lhs = r
         \/ RegsOf(d)'[r] = RegsOf(d)[r]
    ]_interpreterVars

(* A callee starts with the stack pointer of its caller: setup_args        *)
(* (stmt.cpp:428-435) writes as many registers from arg1 on as the call    *)
(* has operands and would run into sp; what stops it is that the parser    *)
(* takes no more than 16 arguments and the call must agree with it.        *)
ArgumentsMissSp ==
  [][Len(frames') > Len(frames) => regs'[RegSp] = regs[RegSp]]_interpreterVars

=============================================================================
