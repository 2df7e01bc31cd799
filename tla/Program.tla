------------------------------ MODULE Program ------------------------------
(***************************************************************************)
(* A program of the machine, as the interpreter keeps it (program.cpp,     *)
(* function.cpp, stmt.h): functions by name, blocks by name, and the       *)
(* statements, each with a pointer to the next one of its block.           *)
(*                                                                         *)
(* A statement is known by the number of its line; 0 is the null pointer.  *)
(***************************************************************************)
EXTENDS Integers, Sequences

CONSTANTS
  NREG,            \* general registers, and argument registers (16 each)
  FunctionNames,
  BlockNames

ASSUME ProgramAssumption == NREG \in Nat \ {0}

VARIABLES
  functions,   \* function_map: the functions by name
  code,        \* the statement on each line that has one
  next         \* the next statement of each statement

programVars == <<functions, code, next>>

(* The registers: r1 .. r16, arg1 .. arg16, sp, and none at all.           *)
A1 == NREG
A16 == 2 * NREG - 1
RegSp == 2 * NREG
RegNone == 2 * NREG + 1
Reg == 0 .. RegSp

(* An operand is a register or a literal.                                  *)
RegVal(r) == [kind |-> "reg", n |-> r]
LitVal(n) == [kind |-> "lit", n |-> n]
Operand == {RegVal(r) : r \in Reg} \cup [kind : {"lit"}, n : Nat]

(* The statements, with the operands in the order they are written.        *)
MemoryStmt ==
  [op : {"malloc"}, lhs : Reg, vals : [1 .. 1 -> Operand]]
  \cup [op : {"free"}, vals : [1 .. 1 -> Operand]]
  \cup [op : {"load"}, lhs : Reg, size : Nat, vals : [1 .. 1 -> Operand], ofs : Nat]
  \cup [op : {"store"}, size : Nat, vals : [1 .. 2 -> Operand], ofs : Nat]
  \cup [op : {"reset stack", "reset heap"}, vals : {<<>>}]

ArithmeticStmt ==
  [op : {"bop"}, lhs : Reg, kind : STRING, size : Nat, vals : [1 .. 2 -> Operand]]
  \cup [op : {"select"}, lhs : Reg, vals : [1 .. 3 -> Operand]]

CallStmt == [op : {"call"}, lhs : Reg \cup {RegNone}, fname : FunctionNames, vals : Seq(Operand)]

OutsideStmt ==
  [op : {"read"}, lhs : Reg \cup {RegNone}, vals : {<<>>}]
  \cup [op : {"write"}, lhs : Reg \cup {RegNone}, vals : [1 .. 1 -> Operand]]
  \cup [op : {"assert"}, vals : [1 .. 2 -> Operand]]

BranchStmt ==
  [op : {"ret"}, vals : [1 .. 1 -> Operand]]
  \cup [op : {"br"}, bb : BlockNames, vals : {<<>>}]
  \cup [op : {"brcond"}, true_bb : BlockNames, false_bb : BlockNames, vals : [1 .. 1 -> Operand]]

TerminatorOp == {"ret", "br", "brcond", "switch"}
IsTerminator(s) == s.op \in TerminatorOp

ProgramInit ==
  /\ functions = <<>>
  /\ code = <<>>
  /\ next = <<>>

(* A map with a value for one more key; what a key has it keeps.           *)
insert(map, key, val) ==
  [k \in DOMAIN map \cup {key} |-> IF k \in DOMAIN map THEN map[k] ELSE val]

(* The first statement of a block of function f, 0 when there is no such   *)
(* block.                                                                  *)
get_bb(f, bb) == IF bb \in DOMAIN f.bb_map THEN f.bb_map[bb] ELSE 0
get_first_bb(f) == get_bb(f, f.first_bb)

=============================================================================
