------------------------------- MODULE Parser -------------------------------
(***************************************************************************)
(* The parser of the interpreter (parser.cpp): an automaton that reads a   *)
(* file line by line and builds the program.  The first error ends the     *)
(* interpreter.                                                            *)
(*                                                                         *)
(* A line is given by the form the regular expressions see in it: nothing, *)
(* the start or the end of a function, the label of a block, a statement   *)
(* with its operands, or something else.                                   *)
(***************************************************************************)
EXTENDS Program, SequencesExt

CONSTANTS
  Files,           \* the files, each a sequence of lines
  ConstRange,      \* literals must be below 2^64
  WithoutLast(_)   \* the name of a block without its last character

(* A line, by its form.                                                    *)
LineStmt ==
  MemoryStmt \cup ArithmeticStmt \cup CallStmt \cup OutsideStmt \cup BranchStmt
  \cup [op : {"ret"}, vals : {<<>>}]
  \cup [op : {"switch"}, vals : [1 .. 1 -> Operand], default_bb : BlockNames,
        table : Seq([val : Nat, bb : BlockNames])]

Line ==
  [kind : {"blank", "other"}]
  \cup [kind : {"start"}, name : FunctionNames, nargs : Nat]
  \cup [kind : {"end"}, name : FunctionNames]
  \cup [kind : {"label"}, name : BlockNames, glued : BOOLEAN]
  \cup [kind : {"statement"}, stmt : LineStmt]

ASSUME ParserAssumption ==
  /\ ConstRange \in Nat
  /\ \A f \in Files : \A i \in DOMAIN f : f[i] \in Line
  /\ \A f \in Files : f \in Seq(Range(f))

VARIABLES
  file,            \* the file that is read
  pstate,          \* the state of the automaton, "accepted" or "rejected"
  line,            \* lines read
  curr_function,   \* the function being read
  curr_bb,         \* the block being read
  prev_stmt        \* the statement before

parserVars == <<file, pstate, line, curr_function, curr_bb, prev_stmt>>

ParserInit ==
  /\ file \in Files
  /\ ProgramInit
  /\ pstate = "PSBegin"
  /\ line = 0
  /\ curr_function = "none"
  /\ curr_bb = "none"
  /\ prev_stmt = 0

-----------------------------------------------------------------------------
(* What the regular expressions and the parse_ functions make of a line.   *)

(* Mutant of IsStart: any number of arguments.                             *)
IsStartAnyArgs(l) == l.kind = "start"

(* tArgN: a function has at most as many arguments as there are registers  *)
(* for them.                                                               *)
IsStart(l) == l.kind = "start" /\ l.nargs <= NREG

IsNormal(l) == l.kind = "statement" /\ ~IsTerminator(l.stmt)
IsEnd(l) == l.kind = "statement" /\ IsTerminator(l.stmt)

(* The numbers in a statement; parse_const accepts those of 64 bits.       *)
Literals(s) ==
  {s.vals[i].n : i \in {j \in DOMAIN s.vals : s.vals[j].kind = "lit"}}
  \cup (IF "ofs" \in DOMAIN s THEN {s.ofs} ELSE {})
  \cup (IF s.op = "switch" THEN {s.table[i].val : i \in DOMAIN s.table} ELSE {})

(* No number is out of range and no case of a switch comes twice.          *)
WellFormed(s) ==
  /\ \A n \in Literals(s) : n < ConstRange
  /\ s.op = "switch" =>
       \A i, j \in DOMAIN s.table : s.table[i].val = s.table[j].val => i = j

(* ret without a value returns 0; the table of a switch becomes a map.     *)
parse_terminator(s) ==
  CASE s.op = "ret" /\ s.vals = <<>> -> [op |-> "ret", vals |-> <<LitVal(0)>>]
    [] s.op = "switch" ->
         [op |-> "switch", vals |-> s.vals, default_bb |-> s.default_bb,
          bb_map |-> [n \in {s.table[i].val : i \in DOMAIN s.table} |->
                        s.table[CHOOSE i \in DOMAIN s.table : s.table[i].val = n].bb]]
    [] OTHER -> s

(* A call of read without operands, or of write with one, is a statement   *)
(* of its own; with any other number it is a call like any other.          *)
parse_normal_stmt(s) ==
  CASE s.op = "call" /\ s.fname = "read" /\ s.vals = <<>> ->
         [op |-> "read", lhs |-> s.lhs, vals |-> <<>>]
    [] s.op = "call" /\ s.fname = "write" /\ Len(s.vals) = 1 ->
         [op |-> "write", lhs |-> s.lhs, vals |-> s.vals]
    [] OTHER -> s

(* The last character of the first word is taken for the colon.            *)
parse_bbname(l) == IF l.glued THEN l.name ELSE WithoutLast(l.name)

-----------------------------------------------------------------------------
(* The automaton.                                                          *)

CurrBlocks == functions[curr_function].bb_map

(* The automaton goes on with line l; otherwise it is a syntax error.      *)
Accepts(l) ==
  \/ l.kind = "blank"
  \/ CASE pstate \in {"PSBegin", "PSEndFunction"} ->
            IsStart(l) /\ l.name \notin {"read", "write"} \cup DOMAIN functions
       [] pstate = "PSStartFunction" -> l.kind = "label"
       [] pstate = "PSStartBB" ->
            /\ l.kind = "statement" /\ WellFormed(l.stmt)
            /\ IsNormal(l) => curr_bb \notin DOMAIN CurrBlocks
       [] pstate = "PSNormal" -> l.kind = "statement" /\ WellFormed(l.stmt)
       [] pstate = "PSEndBB" ->
            l.kind = "label" \/ (l.kind = "end" /\ l.name = curr_function)

Blank(l) ==
  /\ l.kind = "blank"
  /\ UNCHANGED <<programVars, pstate, curr_function, curr_bb, prev_stmt>>

(* set_function.                                                           *)
StartFunction(l) ==
  /\ pstate \in {"PSBegin", "PSEndFunction"}
  /\ IsStart(l)
  /\ functions' = insert(functions, l.name,
                         [nargs |-> l.nargs, first_bb |-> "none", bb_map |-> <<>>])
  /\ curr_function' = l.name
  /\ pstate' = "PSStartFunction"
  /\ UNCHANGED <<code, next, curr_bb, prev_stmt>>

(* The first label of a function: set_first_bb.                            *)
FirstLabel(l) ==
  /\ pstate = "PSStartFunction"
  /\ l.kind = "label"
  /\ curr_bb' = parse_bbname(l)
  /\ functions' = [functions EXCEPT ![curr_function].first_bb = parse_bbname(l)]
  /\ pstate' = "PSStartBB"
  /\ UNCHANGED <<code, next, curr_function, prev_stmt>>

NextLabel(l) ==
  /\ pstate = "PSEndBB"
  /\ l.kind = "label"
  /\ curr_bb' = parse_bbname(l)
  /\ pstate' = "PSStartBB"
  /\ UNCHANGED <<programVars, curr_function, prev_stmt>>

(* Statement s is made, at the line just read.                             *)
New(s) ==
  /\ code' = insert(code, line + 1, s)
  /\ UNCHANGED <<curr_function, curr_bb>>

(* The first statement of a block: set_bb, which keeps the block that is   *)
(* there already.  Only for a statement that is no terminator is that an   *)
(* error (see Accepts).                                                    *)
set_bb(bb, n) ==
  functions' = [functions EXCEPT ![curr_function].bb_map = insert(@, bb, n)]

FirstStatement(l) ==
  /\ pstate = "PSStartBB"
  /\ IsNormal(l)
  /\ New(parse_normal_stmt(l.stmt))
  /\ set_bb(curr_bb, line + 1)
  /\ next' = insert(next, line + 1, 0)
  /\ prev_stmt' = line + 1
  /\ pstate' = "PSNormal"

OnlyTerminator(l) ==
  /\ pstate = "PSStartBB"
  /\ IsEnd(l)
  /\ New(parse_terminator(l.stmt))
  /\ set_bb(curr_bb, line + 1)
  /\ next' = insert(next, line + 1, 0)
  /\ pstate' = "PSEndBB"
  /\ UNCHANGED prev_stmt

(* Mutant of set_next: the statement before is not linked to the new one.  *)
set_nextNever(n) == next' = insert(next, n, 0)

(* prev_stmt->set_next(curr_stmt)                                          *)
set_next(n) == next' = insert([next EXCEPT ![prev_stmt] = n], n, 0)

Statement(l) ==
  /\ pstate = "PSNormal"
  /\ IsNormal(l)
  /\ New(parse_normal_stmt(l.stmt))
  /\ set_next(line + 1)
  /\ prev_stmt' = line + 1
  /\ UNCHANGED <<functions, pstate>>

Terminator(l) ==
  /\ pstate = "PSNormal"
  /\ IsEnd(l)
  /\ New(parse_terminator(l.stmt))
  /\ set_next(line + 1)
  /\ pstate' = "PSEndBB"
  /\ UNCHANGED <<functions, prev_stmt>>

EndFunction(l) ==
  /\ pstate = "PSEndBB"
  /\ l.kind = "end"
  /\ pstate' = "PSEndFunction"
  /\ UNCHANGED <<programVars, curr_function, curr_bb, prev_stmt>>

Parsing == pstate \notin {"accepted", "rejected"}
AtEnd == line = Len(file)
LineRead == file[line + 1]

ReadLine ==
  /\ Parsing
  /\ ~AtEnd
  /\ Accepts(LineRead)
  /\ line' = line + 1
  /\ UNCHANGED file
  /\ \/ Blank(LineRead)
     \/ StartFunction(LineRead)
     \/ FirstLabel(LineRead)
     \/ NextLabel(LineRead)
     \/ FirstStatement(LineRead)
     \/ OnlyTerminator(LineRead)
     \/ Statement(LineRead)
     \/ Terminator(LineRead)
     \/ EndFunction(LineRead)

(* The end of the file: the last function must be complete, and there must *)
(* be a main that takes no arguments.                                      *)
Complete ==
  /\ pstate = "PSEndFunction"
  /\ "main" \in DOMAIN functions
  /\ functions["main"].nargs = 0

EndOfFile ==
  /\ Parsing
  /\ AtEnd
  /\ Complete
  /\ pstate' = "accepted"
  /\ UNCHANGED <<programVars, file, line, curr_function, curr_bb, prev_stmt>>

(* invoke_syntax_error.                                                    *)
SyntaxError ==
  /\ Parsing
  /\ IF AtEnd THEN ~Complete ELSE ~Accepts(LineRead)
  /\ pstate' = "rejected"
  /\ UNCHANGED <<programVars, file, line, curr_function, curr_bb, prev_stmt>>

ParserNext == ReadLine \/ EndOfFile \/ SyntaxError

=============================================================================
