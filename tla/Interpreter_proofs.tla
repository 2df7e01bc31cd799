------------------------- MODULE Interpreter_proofs -------------------------
(***************************************************************************)
(* What holds of every program the interpreter accepts, whatever the file: *)
(* the statements are linked, control never leaves the function that was   *)
(* called, calls keep the registers of their callers, and every register   *)
(* always holds a word.                                                    *)
(***************************************************************************)
EXTENDS Interpreter, Memory_proofs, Induction, TLAPS

-----------------------------------------------------------------------------
(* The helpers of the parser.                                              *)
LEMMA InsertLemma ==
  ASSUME NEW map, NEW key, NEW val
  PROVE  /\ DOMAIN insert(map, key, val) = DOMAIN map \cup {key}
         /\ key \notin DOMAIN map => insert(map, key, val)[key] = val
         /\ \A k \in DOMAIN map : insert(map, key, val)[k] = map[k]
BY DEF insert

(* What the machine relies on in a statement: a result has a register, a   *)
(* call its operands in a sequence.                                        *)
HasLhs == {"malloc", "load", "bop", "select", "read", "write"}
GoodStmt(s) ==
  /\ s.op \in HasLhs => "lhs" \in DOMAIN s
  /\ s.op = "call" => s.vals \in Seq(Operand)

LEMMA LineStmtIsGood ==
  ASSUME NEW s \in LineStmt
  PROVE  GoodStmt(s)
<1>1. CASE s \in MemoryStmt
  BY <1>1 DEF MemoryStmt, GoodStmt, HasLhs
<1>2. CASE s \in ArithmeticStmt
  BY <1>2 DEF ArithmeticStmt, GoodStmt, HasLhs
<1>3. CASE s \in CallStmt
  BY <1>3 DEF CallStmt, GoodStmt, HasLhs
<1>4. CASE s \in OutsideStmt
  BY <1>4 DEF OutsideStmt, GoodStmt, HasLhs
<1>5. CASE s \notin MemoryStmt \cup ArithmeticStmt \cup CallStmt \cup OutsideStmt
  <2>1. s.op \in TerminatorOp
    BY <1>5 DEF LineStmt, BranchStmt, TerminatorOp
  <2> QED
    BY <2>1 DEF TerminatorOp, GoodStmt, HasLhs
<1> QED
  BY <1>1, <1>2, <1>3, <1>4, <1>5

LEMMA NormalStmtIsGood ==
  ASSUME NEW s \in LineStmt, ~IsTerminator(s)
  PROVE  GoodStmt(parse_normal_stmt(s)) /\ ~IsTerminator(parse_normal_stmt(s))
<1> DEFINE t == parse_normal_stmt(s)
<1>1. \/ t = [op |-> "read", lhs |-> s.lhs, vals |-> <<>>]
      \/ t = [op |-> "write", lhs |-> s.lhs, vals |-> s.vals]
      \/ t = s
  BY DEF parse_normal_stmt
<1>2. CASE t = [op |-> "read", lhs |-> s.lhs, vals |-> <<>>]
  BY <1>2 DEF GoodStmt, HasLhs, IsTerminator, TerminatorOp
<1>3. CASE t = [op |-> "write", lhs |-> s.lhs, vals |-> s.vals]
  BY <1>3 DEF GoodStmt, HasLhs, IsTerminator, TerminatorOp
<1>4. CASE t = s
  BY <1>4, LineStmtIsGood
<1> QED
  BY <1>1, <1>2, <1>3, <1>4

LEMMA TerminatorIsGood ==
  ASSUME NEW s \in LineStmt, IsTerminator(s)
  PROVE  GoodStmt(parse_terminator(s)) /\ IsTerminator(parse_terminator(s))
<1> DEFINE t == parse_terminator(s)
<1>1. t.op \in {"ret", "switch"} \/ t = s
  BY DEF parse_terminator
<1>2. t.op \in TerminatorOp
  BY <1>1 DEF IsTerminator, TerminatorOp
<1> QED
  BY <1>2 DEF GoodStmt, HasLhs, IsTerminator, TerminatorOp

-----------------------------------------------------------------------------
(* The program while it is read.                                           *)

PState == {"PSBegin", "PSStartFunction", "PSStartBB", "PSNormal", "PSEndBB", "PSEndFunction",
           "accepted", "rejected"}
InFunction == {"PSStartFunction", "PSStartBB", "PSNormal", "PSEndBB"}

FileOK ==
  /\ file \in Files
  /\ line \in 0 .. Len(file)
  /\ pstate \in PState

CodeOK ==
  /\ DOMAIN code \subseteq 1 .. line
  /\ DOMAIN next = DOMAIN code
  /\ \A n \in DOMAIN code : GoodStmt(code[n])

FunctionsOK ==
  /\ \A f \in DOMAIN functions :
       /\ functions[f] = [nargs |-> functions[f].nargs, first_bb |-> functions[f].first_bb,
                          bb_map |-> functions[f].bb_map]
       /\ functions[f].nargs \in 0 .. NREG
       /\ \A b \in DOMAIN functions[f].bb_map : functions[f].bb_map[b] \in DOMAIN code
  /\ pstate \in InFunction => curr_function \in DOMAIN functions

(* A function has its first block, but for the one whose first block is    *)
(* being read and has no statement yet.                                    *)
FirstBlocks ==
  pstate # "rejected" =>
    \A f \in DOMAIN functions :
      \/ functions[f].first_bb \in DOMAIN functions[f].bb_map
      \/ /\ f = curr_function
         /\ \/ pstate = "PSStartFunction"
            \/ pstate = "PSStartBB" /\ functions[f].first_bb = curr_bb

(* A statement is linked to the next one of its block, but for the last    *)
(* one that was read, of a block that goes on.                             *)
Links ==
  /\ pstate = "PSNormal" => prev_stmt \in DOMAIN code
  /\ pstate # "rejected" =>
       \A n \in DOMAIN code :
         \/ IsTerminator(code[n])
         \/ next[n] \in DOMAIN code /\ n < next[n]
         \/ pstate = "PSNormal" /\ n = prev_stmt

MainIsThere ==
  pstate = "accepted" => "main" \in DOMAIN functions /\ functions["main"].nargs = 0

ParserInv == FileOK /\ CodeOK /\ FunctionsOK /\ FirstBlocks /\ Links /\ MainIsThere

LEMMA ParserInitInv == ParserInit => ParserInv
<1> SUFFICES ASSUME ParserInit PROVE ParserInv
  OBVIOUS
<1> USE DEF ParserInit, ProgramInit
<1>1. FileOK
  <2>1. file \in Seq(Range(file))
    BY ParserAssumption
  <2>2. Len(file) \in Nat
    BY <2>1
  <2> QED
    BY <2>2 DEF FileOK, PState
<1>2. DOMAIN functions = {} /\ DOMAIN code = {} /\ DOMAIN next = {}
  OBVIOUS
<1>3. CodeOK /\ FunctionsOK
  BY <1>2 DEF CodeOK, FunctionsOK, InFunction
<1>4. FirstBlocks /\ Links /\ MainIsThere
  BY <1>2 DEF FirstBlocks, Links, MainIsThere
<1> QED
  BY <1>1, <1>3, <1>4 DEF ParserInv

LEMMA NextPlace ==
  ASSUME NEW L \in Nat, NEW k \in 0 .. L, k # L
  PROVE  k \in Nat /\ k + 1 \in 1 .. L /\ k + 1 \in 0 .. L /\ k + 1 \notin 1 .. k
OBVIOUS

(* A line that is read has a form, and its statement too.                  *)
LEMMA LineReadLemma ==
  ASSUME ParserInv, ~AtEnd
  PROVE  /\ line \in Nat
         /\ line + 1 \in 0 .. Len(file)
         /\ line + 1 \notin DOMAIN code
         /\ LineRead.kind = "statement" => LineRead.stmt \in LineStmt
         /\ LineRead.kind = "start" => LineRead.nargs \in Nat
<1>1. file \in Files /\ line \in 0 .. Len(file) /\ line # Len(file)
  BY DEF ParserInv, FileOK, AtEnd
<1>2. Len(file) \in Nat /\ DOMAIN file = 1 .. Len(file)
  <2>1. file \in Seq(Range(file))
    BY <1>1, ParserAssumption
  <2> QED
    BY <2>1
<1>3. line \in Nat /\ line + 1 \in DOMAIN file /\ line + 1 \in 0 .. Len(file) /\ line + 1 \notin 1 .. line
  BY <1>1, <1>2, NextPlace
<1>4. LineRead \in Line
  BY <1>1, <1>3, ParserAssumption DEF LineRead
<1>5. /\ LineRead.kind = "statement" => LineRead.stmt \in LineStmt
      /\ LineRead.kind = "start" => LineRead.nargs \in Nat
  BY <1>4 DEF Line
<1>6. line + 1 \notin DOMAIN code
  BY <1>3 DEF ParserInv, CodeOK
<1> QED
  BY <1>3, <1>5, <1>6

(* The steps that read no statement.                                       *)
LEMMA StartFunctionInv ==
  ASSUME ParserInv, ~AtEnd, StartFunction(LineRead), line' = line + 1, UNCHANGED file
  PROVE  ParserInv'
<1> DEFINE new == LineRead.name
           F == [nargs |-> LineRead.nargs, first_bb |-> "none", bb_map |-> <<>>]
<1>1. /\ functions' = insert(functions, new, F)
      /\ curr_function' = new
      /\ pstate' = "PSStartFunction"
      /\ UNCHANGED <<code, next, curr_bb, prev_stmt>>
      /\ pstate \in {"PSBegin", "PSEndFunction"}
  BY DEF StartFunction
<1>2. line \in Nat /\ line + 1 \in 0 .. Len(file) /\ LineRead.nargs \in 0 .. NREG
  BY LineReadLemma, ProgramAssumption DEF StartFunction, IsStart
<1>3. FileOK'
  BY <1>1, <1>2 DEF ParserInv, FileOK, PState
<1>4. CodeOK'
  BY <1>1, <1>2 DEF ParserInv, CodeOK
<1> HIDE DEF new, F
<1>5. /\ DOMAIN functions' = DOMAIN functions \cup {new}
      /\ new \notin DOMAIN functions => functions'[new] = F
      /\ \A f \in DOMAIN functions : functions'[f] = functions[f]
  <2>1. functions' = insert(functions, new, F)
    BY <1>1
  <2> QED
    BY <2>1 DEF insert
<1>6. FunctionsOK'
  <2>1. DOMAIN F.bb_map = {} /\ F.nargs = LineRead.nargs
    BY DEF F
  <2>2. F = [nargs |-> F.nargs, first_bb |-> F.first_bb, bb_map |-> F.bb_map]
    BY DEF F
  <2> QED
    BY <1>1, <1>2, <1>5, <2>1, <2>2 DEF ParserInv, FunctionsOK
<1>7. FirstBlocks'
  BY <1>1, <1>5 DEF ParserInv, FirstBlocks
<1>8. Links' /\ MainIsThere'
  BY <1>1 DEF ParserInv, Links, MainIsThere
<1> QED
  BY <1>3, <1>4, <1>6, <1>7, <1>8 DEF ParserInv

LEMMA FirstLabelInv ==
  ASSUME ParserInv, ~AtEnd, FirstLabel(LineRead), line' = line + 1, UNCHANGED file
  PROVE  ParserInv'
<1> DEFINE bb == parse_bbname(LineRead)
<1>1. /\ functions' = [functions EXCEPT ![curr_function].first_bb = bb]
      /\ curr_bb' = bb
      /\ pstate' = "PSStartBB"
      /\ pstate = "PSStartFunction"
      /\ UNCHANGED <<code, next, curr_function, prev_stmt>>
  BY DEF FirstLabel
<1> HIDE DEF bb
<1>2. line \in Nat /\ line + 1 \in 0 .. Len(file)
  BY LineReadLemma
<1>3. FileOK'
  BY <1>1, <1>2 DEF ParserInv, FileOK, PState
<1>4. CodeOK'
  BY <1>1, <1>2 DEF ParserInv, CodeOK
<1>5. curr_function \in DOMAIN functions
  BY <1>1 DEF ParserInv, FunctionsOK, InFunction
<1>6. /\ DOMAIN functions' = DOMAIN functions
      /\ functions'[curr_function] = [nargs |-> functions[curr_function].nargs, first_bb |-> bb,
                                      bb_map |-> functions[curr_function].bb_map]
      /\ \A f \in DOMAIN functions : f # curr_function => functions'[f] = functions[f]
  BY <1>1, <1>5 DEF ParserInv, FunctionsOK
<1>7. FunctionsOK'
  BY <1>1, <1>5, <1>6 DEF ParserInv, FunctionsOK
<1>8. FirstBlocks'
  BY <1>1, <1>5, <1>6 DEF ParserInv, FirstBlocks
<1>9. Links' /\ MainIsThere'
  BY <1>1 DEF ParserInv, Links, MainIsThere
<1> QED
  BY <1>3, <1>4, <1>7, <1>8, <1>9 DEF ParserInv

LEMMA PassOverInv ==
  ASSUME ParserInv, ~AtEnd, line' = line + 1, UNCHANGED file,
         Blank(LineRead) \/ NextLabel(LineRead) \/ EndFunction(LineRead)
  PROVE  ParserInv'
<1>1. /\ UNCHANGED <<functions, code, next, curr_function, prev_stmt>>
      /\ \/ UNCHANGED <<pstate, curr_bb>>
         \/ pstate = "PSEndBB" /\ pstate' \in {"PSStartBB", "PSEndFunction"}
  BY DEF Blank, NextLabel, EndFunction, programVars
<1>2. line \in Nat /\ line + 1 \in 0 .. Len(file)
  BY LineReadLemma
<1>3. FileOK'
  BY <1>1, <1>2 DEF ParserInv, FileOK, PState
<1>4. CodeOK'
  BY <1>1, <1>2 DEF ParserInv, CodeOK
<1>5. FunctionsOK'
  BY <1>1 DEF ParserInv, FunctionsOK, InFunction
<1>6. FirstBlocks'
  BY <1>1 DEF ParserInv, FirstBlocks
<1>7. Links' /\ MainIsThere'
  BY <1>1 DEF ParserInv, Links, MainIsThere
<1> QED
  BY <1>3, <1>4, <1>5, <1>6, <1>7 DEF ParserInv

(* The steps that read a statement.                                        *)
LEMMA NewInv ==
  ASSUME ParserInv, ~AtEnd, NEW s, GoodStmt(s), New(s), line' = line + 1,
         DOMAIN next' = DOMAIN next \cup {line + 1}
  PROVE  /\ CodeOK'
         /\ DOMAIN code' = DOMAIN code \cup {line + 1}
         /\ code'[line + 1] = s
         /\ \A n \in DOMAIN code : code'[n] = code[n]
<1>1. code' = insert(code, line + 1, s)
  BY DEF New
<1>2. line \in Nat /\ line + 1 \notin DOMAIN code
  BY LineReadLemma
<1>3. /\ DOMAIN code' = DOMAIN code \cup {line + 1}
      /\ code'[line + 1] = s
      /\ \A n \in DOMAIN code : code'[n] = code[n]
  BY <1>1, <1>2 DEF insert
<1>4. DOMAIN code \subseteq 1 .. line /\ DOMAIN next = DOMAIN code
  BY DEF ParserInv, CodeOK
<1>5. DOMAIN code' \subseteq 1 .. line'
  BY <1>2, <1>3, <1>4
<1>6. \A n \in DOMAIN code' : GoodStmt(code'[n])
  BY <1>3 DEF ParserInv, CodeOK
<1> QED
  BY <1>3, <1>4, <1>5, <1>6 DEF CodeOK

LEMMA SetBbInv ==
  ASSUME ParserInv, pstate \in InFunction, NEW n, n \in DOMAIN code', set_bb(curr_bb, n),
         DOMAIN code \subseteq DOMAIN code', UNCHANGED <<curr_function, curr_bb>>,
         pstate' \in {"PSNormal", "PSEndBB"}, pstate = "PSStartBB"
  PROVE  FunctionsOK' /\ FirstBlocks'
<1> DEFINE f == functions[curr_function]
           map == insert(f.bb_map, curr_bb, n)
<1>1. curr_function \in DOMAIN functions
  BY DEF ParserInv, FunctionsOK
<1>2. f = [nargs |-> f.nargs, first_bb |-> f.first_bb, bb_map |-> f.bb_map]
  BY <1>1 DEF ParserInv, FunctionsOK
<1>3. functions' = [functions EXCEPT ![curr_function].bb_map = map]
  BY DEF set_bb
<1> HIDE DEF map
<1>4. /\ DOMAIN functions' = DOMAIN functions
      /\ functions'[curr_function] = [nargs |-> f.nargs, first_bb |-> f.first_bb, bb_map |-> map]
      /\ \A g \in DOMAIN functions : g # curr_function => functions'[g] = functions[g]
  BY <1>1, <1>2, <1>3
<1>5. /\ DOMAIN map = DOMAIN f.bb_map \cup {curr_bb}
      /\ \A b \in DOMAIN map : map[b] = n \/ (b \in DOMAIN f.bb_map /\ map[b] = f.bb_map[b])
  BY DEF map, insert
<1>6. f.nargs \in 0 .. NREG /\ \A b \in DOMAIN f.bb_map : f.bb_map[b] \in DOMAIN code
  BY <1>1 DEF ParserInv, FunctionsOK
<1>7. \A b \in DOMAIN map : map[b] \in DOMAIN code'
  BY <1>5, <1>6
<1>8. ASSUME NEW g \in DOMAIN functions
      PROVE  /\ functions'[g] = [nargs |-> functions'[g].nargs, first_bb |-> functions'[g].first_bb,
                                 bb_map |-> functions'[g].bb_map]
             /\ functions'[g].nargs \in 0 .. NREG
             /\ \A b \in DOMAIN functions'[g].bb_map : functions'[g].bb_map[b] \in DOMAIN code'
  <2>1. CASE g = curr_function
    BY <2>1, <1>4, <1>6, <1>7
  <2>2. CASE g # curr_function
    BY <2>2, <1>4 DEF ParserInv, FunctionsOK
  <2> QED
    BY <2>1, <2>2
<1>9. FunctionsOK'
  BY <1>1, <1>4, <1>8 DEF FunctionsOK
<1>10. FirstBlocks'
  <2>1. f.first_bb \in DOMAIN map
    BY <1>1, <1>5 DEF ParserInv, FirstBlocks
  <2> QED
    BY <1>1, <1>4, <2>1 DEF ParserInv, FirstBlocks
<1> QED
  BY <1>9, <1>10

LEMMA FileOKStep ==
  ASSUME ParserInv, ~AtEnd, line' = line + 1, UNCHANGED file, pstate' \in PState
  PROVE  FileOK'
BY LineReadLemma DEF ParserInv, FileOK

(* The first statement of a block.                                         *)
LEMMA BlockStartInv ==
  ASSUME ParserInv, ~AtEnd, line' = line + 1, UNCHANGED file,
         FirstStatement(LineRead) \/ OnlyTerminator(LineRead)
  PROVE  ParserInv'
<1> DEFINE n == line + 1
<1>1. PICK s : /\ GoodStmt(s) /\ New(s)
               /\ \/ /\ pstate' = "PSNormal"
                     /\ prev_stmt' = n
                  \/ /\ pstate' = "PSEndBB"
                     /\ IsTerminator(s)
  <2>1. CASE FirstStatement(LineRead)
    <3>1. LineRead.stmt \in LineStmt /\ ~IsTerminator(LineRead.stmt)
      BY <2>1, LineReadLemma DEF FirstStatement, IsNormal
    <3>2. GoodStmt(parse_normal_stmt(LineRead.stmt))
      BY <3>1, NormalStmtIsGood
    <3>3. New(parse_normal_stmt(LineRead.stmt)) /\ pstate' = "PSNormal" /\ prev_stmt' = n
      BY <2>1 DEF FirstStatement
    <3> QED
      BY <3>2, <3>3
  <2>2. CASE OnlyTerminator(LineRead)
    <3>1. LineRead.stmt \in LineStmt /\ IsTerminator(LineRead.stmt)
      BY <2>2, LineReadLemma DEF OnlyTerminator, IsEnd
    <3>2. GoodStmt(parse_terminator(LineRead.stmt)) /\ IsTerminator(parse_terminator(LineRead.stmt))
      BY <3>1, TerminatorIsGood
    <3>3. New(parse_terminator(LineRead.stmt)) /\ pstate' = "PSEndBB"
      BY <2>2 DEF OnlyTerminator
    <3> QED
      BY <3>2, <3>3
  <2> QED
    BY <2>1, <2>2
<1>2. /\ pstate = "PSStartBB"
      /\ set_bb(curr_bb, n)
      /\ next' = insert(next, n, 0)
      /\ UNCHANGED <<curr_function, curr_bb>>
  BY DEF FirstStatement, OnlyTerminator, New
<1>3. /\ DOMAIN next' = DOMAIN next \cup {n}
      /\ \A m \in DOMAIN next : next'[m] = next[m]
  <2>1. next' = insert(next, n, 0)
    BY <1>2
  <2> QED
    BY <2>1 DEF insert
<1>4. /\ CodeOK'
      /\ DOMAIN code' = DOMAIN code \cup {n}
      /\ code'[n] = s
      /\ \A m \in DOMAIN code : code'[m] = code[m]
  BY <1>1, <1>3, NewInv
<1> HIDE DEF n
<1>5. FunctionsOK' /\ FirstBlocks'
  <2>1. pstate \in InFunction /\ n \in DOMAIN code' /\ DOMAIN code \subseteq DOMAIN code'
    BY <1>2, <1>4 DEF InFunction
  <2> QED
    BY <1>1, <1>2, <2>1, SetBbInv
<1>6. Links'
  <2>1. \A m \in DOMAIN code : IsTerminator(code[m]) \/ (next[m] \in DOMAIN code /\ m < next[m])
    BY <1>2 DEF ParserInv, Links
  <2>2. ASSUME NEW m \in DOMAIN code
        PROVE  IsTerminator(code'[m]) \/ (next'[m] \in DOMAIN code' /\ m < next'[m])
    <3>1. next'[m] = next[m] /\ code'[m] = code[m]
      BY <1>3, <1>4 DEF ParserInv, CodeOK
    <3> QED
      BY <2>1, <3>1, <1>4
  <2>3. IsTerminator(code'[n]) \/ (pstate' = "PSNormal" /\ n = prev_stmt')
    BY <1>1, <1>4
  <2>4. pstate' = "PSNormal" => prev_stmt' \in DOMAIN code'
    BY <1>1, <1>4
  <2> QED
    BY <1>4, <2>2, <2>3, <2>4 DEF Links
<1>7. FileOK' /\ MainIsThere'
  BY <1>1, FileOKStep DEF MainIsThere, PState
<1> QED
  BY <1>4, <1>5, <1>6, <1>7 DEF ParserInv

(* Every other statement of a block: it is linked to the one before.       *)
LEMMA BlockGoesOnInv ==
  ASSUME ParserInv, ~AtEnd, line' = line + 1, UNCHANGED file,
         Statement(LineRead) \/ Terminator(LineRead)
  PROVE  ParserInv'
<1> DEFINE n == line + 1
<1>1. PICK s : /\ GoodStmt(s) /\ New(s)
               /\ \/ /\ pstate' = "PSNormal"
                     /\ prev_stmt' = n
                  \/ /\ pstate' = "PSEndBB"
                     /\ IsTerminator(s)
  <2>1. CASE Statement(LineRead)
    <3>1. LineRead.stmt \in LineStmt /\ ~IsTerminator(LineRead.stmt)
      BY <2>1, LineReadLemma DEF Statement, IsNormal
    <3>2. GoodStmt(parse_normal_stmt(LineRead.stmt))
      BY <3>1, NormalStmtIsGood
    <3>3. New(parse_normal_stmt(LineRead.stmt)) /\ pstate' = "PSNormal" /\ prev_stmt' = n
      BY <2>1 DEF Statement
    <3> QED
      BY <3>2, <3>3
  <2>2. CASE Terminator(LineRead)
    <3>1. LineRead.stmt \in LineStmt /\ IsTerminator(LineRead.stmt)
      BY <2>2, LineReadLemma DEF Terminator, IsEnd
    <3>2. GoodStmt(parse_terminator(LineRead.stmt)) /\ IsTerminator(parse_terminator(LineRead.stmt))
      BY <3>1, TerminatorIsGood
    <3>3. New(parse_terminator(LineRead.stmt)) /\ pstate' = "PSEndBB"
      BY <2>2 DEF Terminator
    <3> QED
      BY <3>2, <3>3
  <2> QED
    BY <2>1, <2>2
<1>2. /\ pstate = "PSNormal"
      /\ set_next(n)
      /\ UNCHANGED <<functions, curr_function, curr_bb>>
  BY DEF Statement, Terminator, New
<1>3. n \notin DOMAIN code /\ DOMAIN next = DOMAIN code /\ line \in Nat /\ DOMAIN code \subseteq 1 .. line
  BY LineReadLemma DEF ParserInv, CodeOK
<1>4. prev_stmt \in DOMAIN code /\ prev_stmt < n
  <2>1. prev_stmt \in DOMAIN code
    BY <1>2 DEF ParserInv, Links
  <2> QED
    BY <2>1, <1>3
<1>5. /\ DOMAIN next' = DOMAIN next \cup {n}
      /\ next'[prev_stmt] = n
      /\ \A m \in DOMAIN next : m # prev_stmt => next'[m] = next[m]
  <2> DEFINE linked == [next EXCEPT ![prev_stmt] = n]
  <2>1. next' = insert(linked, n, 0)
    BY <1>2 DEF set_next
  <2>2. /\ DOMAIN linked = DOMAIN next
        /\ linked[prev_stmt] = n
        /\ \A m \in DOMAIN next : m # prev_stmt => linked[m] = next[m]
    BY <1>3, <1>4
  <2> HIDE DEF linked
  <2>3. /\ DOMAIN next' = DOMAIN linked \cup {n}
        /\ \A m \in DOMAIN linked : next'[m] = linked[m]
    BY <2>1 DEF insert
  <2> QED
    BY <2>2, <2>3, <1>3, <1>4
<1>6. /\ CodeOK'
      /\ DOMAIN code' = DOMAIN code \cup {n}
      /\ code'[n] = s
      /\ \A m \in DOMAIN code : code'[m] = code[m]
  BY <1>1, <1>5, NewInv
<1> HIDE DEF n
<1>7. FunctionsOK'
  BY <1>1, <1>2, <1>6 DEF ParserInv, FunctionsOK, InFunction
<1>8. FirstBlocks'
  BY <1>2 DEF ParserInv, FirstBlocks
<1>9. Links'
  <2>1. \A m \in DOMAIN code :
          m # prev_stmt => IsTerminator(code[m]) \/ (next[m] \in DOMAIN code /\ m < next[m])
    BY <1>2 DEF ParserInv, Links
  <2>2. ASSUME NEW m \in DOMAIN code
        PROVE  IsTerminator(code'[m]) \/ (next'[m] \in DOMAIN code' /\ m < next'[m])
    <3>1. CASE m = prev_stmt
      BY <3>1, <1>4, <1>5, <1>6
    <3>2. CASE m # prev_stmt
      <4>1. next'[m] = next[m] /\ code'[m] = code[m]
        BY <3>2, <1>3, <1>5, <1>6
      <4> QED
        BY <2>1, <3>2, <4>1, <1>6
    <3> QED
      BY <3>1, <3>2
  <2>3. IsTerminator(code'[n]) \/ (pstate' = "PSNormal" /\ n = prev_stmt')
    BY <1>1, <1>6
  <2>4. pstate' = "PSNormal" => prev_stmt' \in DOMAIN code'
    BY <1>1, <1>6
  <2> QED
    BY <1>6, <2>2, <2>3, <2>4 DEF Links
<1>10. FileOK' /\ MainIsThere'
  BY <1>1, FileOKStep DEF MainIsThere, PState
<1> QED
  BY <1>6, <1>7, <1>8, <1>9, <1>10 DEF ParserInv

LEMMA ParserStepInv ==
  ASSUME ParserInv, ParserNext
  PROVE  ParserInv'
<1>1. CASE ReadLine
  <2>1. line' = line + 1 /\ UNCHANGED file /\ ~AtEnd
    BY <1>1 DEF ReadLine
  <2> QED
    BY <1>1, <2>1, PassOverInv, StartFunctionInv, FirstLabelInv, BlockStartInv, BlockGoesOnInv
       DEF ReadLine
<1>2. CASE EndOfFile
  <2>1. /\ pstate = "PSEndFunction" /\ pstate' = "accepted"
        /\ "main" \in DOMAIN functions /\ functions["main"].nargs = 0
        /\ UNCHANGED <<functions, code, next, file, line, curr_function, curr_bb, prev_stmt>>
    BY <1>2 DEF EndOfFile, Complete, programVars
  <2>2. FileOK' /\ CodeOK' /\ FunctionsOK'
    BY <2>1 DEF ParserInv, FileOK, PState, CodeOK, FunctionsOK, InFunction
  <2>3. FirstBlocks' /\ Links' /\ MainIsThere'
    BY <2>1 DEF ParserInv, FirstBlocks, Links, MainIsThere
  <2> QED
    BY <2>2, <2>3 DEF ParserInv
<1>3. CASE SyntaxError
  <2>1. /\ pstate' = "rejected"
        /\ UNCHANGED <<functions, code, next, file, line, curr_function, curr_bb, prev_stmt>>
    BY <1>3 DEF SyntaxError, programVars
  <2>2. FileOK' /\ CodeOK' /\ FunctionsOK'
    BY <2>1 DEF ParserInv, FileOK, PState, CodeOK, FunctionsOK, InFunction
  <2>3. FirstBlocks' /\ Links' /\ MainIsThere'
    BY <2>1 DEF FirstBlocks, Links, MainIsThere
  <2> QED
    BY <2>2, <2>3 DEF ParserInv
<1> QED
  BY <1>1, <1>2, <1>3 DEF ParserNext

LEMMA ParserStaysInv ==
  ASSUME ParserInv, UNCHANGED <<programVars, parserVars>>
  PROVE  ParserInv'
<1>1. UNCHANGED <<functions, code, next, file, pstate, line, curr_function, curr_bb, prev_stmt>>
  BY DEF programVars, parserVars
<1>2. FileOK' /\ CodeOK' /\ FunctionsOK'
  BY <1>1 DEF ParserInv, FileOK, CodeOK, FunctionsOK
<1>3. FirstBlocks' /\ Links' /\ MainIsThere'
  BY <1>1 DEF ParserInv, FirstBlocks, Links, MainIsThere
<1> QED
  BY <1>2, <1>3 DEF ParserInv

-----------------------------------------------------------------------------
(* The statements of a function.                                           *)

LEMMA ProgramFacts ==
  ASSUME ParserInv
  PROVE  /\ line \in Nat
         /\ DOMAIN code \subseteq 0 .. line
         /\ DOMAIN next = DOMAIN code
         /\ DOMAIN next \subseteq Nat
         /\ 0 \notin DOMAIN code
<1>1. line \in Nat /\ DOMAIN code \subseteq 1 .. line
  <2>1. file \in Seq(Range(file)) /\ line \in 0 .. Len(file)
    BY ParserAssumption DEF ParserInv, FileOK
  <2>2. Len(file) \in Nat
    BY <2>1
  <2> QED
    BY <2>1, <2>2 DEF ParserInv, CodeOK
<1>2. \A n \in 1 .. line : n \in 0 .. line /\ n \in Nat /\ n # 0
  BY <1>1
<1> QED
  BY <1>1, <1>2 DEF ParserInv, CodeOK

LEMMA ReachedUnfolds ==
  ASSUME NEW f, line \in Nat, DOMAIN next \subseteq Nat
  PROVE  Reached(f) = [n \in 0 .. line |->
           IsReached({functions[f].bb_map[b] : b \in DOMAIN functions[f].bb_map}, next, Reached(f), n)]
<1> DEFINE firsts == {functions[f].bb_map[b] : b \in DOMAIN functions[f].bb_map}
<1>1. PICK g : g = [n \in 0 .. line |-> IsReached(firsts, next, g, n)]
  <2> HIDE DEF firsts
  <2> QED
    BY ReachedExists
<1> QED
  BY <1>1 DEF IsReached, Reached

LEMMA BlockIsOfFunction ==
  ASSUME ParserInv, NEW f \in DOMAIN functions, NEW b \in DOMAIN functions[f].bb_map
  PROVE  functions[f].bb_map[b] \in StmtsOf(f) /\ functions[f].bb_map[b] \in DOMAIN code
<1> DEFINE firsts == {functions[f].bb_map[c] : c \in DOMAIN functions[f].bb_map}
           n == functions[f].bb_map[b]
<1>1. n \in DOMAIN code
  BY DEF ParserInv, FunctionsOK
<1>2. n \in 0 .. line /\ n \in firsts
  BY <1>1, ProgramFacts
<1>3. Reached(f) = [m \in 0 .. line |-> IsReached(firsts, next, Reached(f), m)]
  BY ProgramFacts, ReachedUnfolds
<1> HIDE DEF n, firsts
<1>4. Reached(f)[n] = IsReached(firsts, next, Reached(f), n)
  BY <1>2, <1>3
<1>5. Reached(f)[n]
  BY <1>2, <1>4 DEF IsReached
<1> QED
  BY <1>1, <1>2, <1>5 DEF StmtsOf, n

LEMMA NextIsOfFunction ==
  ASSUME ParserInv, pstate = "accepted", NEW f, NEW n \in DOMAIN code, n \in StmtsOf(f),
         ~IsTerminator(code[n])
  PROVE  next[n] \in DOMAIN code /\ next[n] \in StmtsOf(f)
<1> DEFINE firsts == {functions[f].bb_map[c] : c \in DOMAIN functions[f].bb_map}
           m == next[n]
<1>1. m \in DOMAIN code /\ n < m
  BY DEF ParserInv, Links
<1>2. m \in 0 .. line /\ n \in DOMAIN next
  BY <1>1, ProgramFacts
<1>3. Reached(f) = [k \in 0 .. line |-> IsReached(firsts, next, Reached(f), k)]
  BY ProgramFacts, ReachedUnfolds
<1>4. Reached(f)[n]
  BY DEF StmtsOf
<1> HIDE DEF firsts
<1>5. IsReached(firsts, next, Reached(f), m)
  BY <1>1, <1>2, <1>4 DEF IsReached
<1>6. Reached(f)[m]
  <2> HIDE DEF m
  <2>1. Reached(f)[m] = IsReached(firsts, next, Reached(f), m)
    BY <1>2, <1>3
  <2> QED
    BY <1>5, <2>1
<1> QED
  BY <1>1, <1>2, <1>6 DEF StmtsOf

-----------------------------------------------------------------------------
(* The inductive invariant of the machine.                                 *)

IsRegs(rf) == rf = [r \in Reg |-> rf[r]]

(* An activation that is not the last one waits for a call, with its       *)
(* registers saved.                                                        *)
FrameOK(i) ==
  /\ frames[i] = frame(frames[i].function, frames[i].curr, frames[i].old)
  /\ frames[i].function \in DOMAIN functions
  /\ frames[i].curr \in DOMAIN code
  /\ frames[i].curr \in StmtsOf(frames[i].function)
  /\ i < Len(frames) =>
       /\ code[frames[i].curr].op = "call"
       /\ IsRegs(frames[i].old.regs)
       /\ frames[i].old.nargs = functions[frames[i].function].nargs

FramesOK ==
  /\ frames \in Seq(Range(frames))
  /\ \A i \in DOMAIN frames : FrameOK(i)

NargsOK ==
  nargs = IF frames = <<>> THEN 0 ELSE functions[Top.function].nargs

InterpreterInv ==
  /\ ParserInv
  /\ frames # <<>> => pstate = "accepted"
  /\ IsRegs(regs)
  /\ FramesOK
  /\ NargsOK

LEMMA InterpreterInitInv == InterpreterInit => InterpreterInv
<1> SUFFICES ASSUME InterpreterInit PROVE InterpreterInv
  OBVIOUS
<1>1. ParserInv
  BY ParserInitInv DEF InterpreterInit
<1>2. frames = <<>> /\ nargs = 0 /\ regs = [ZeroRegs EXCEPT ![RegSp] = STACK_MAX]
  BY DEF InterpreterInit, MachineInit
<1>3. IsRegs(regs)
  BY <1>2 DEF IsRegs, ZeroRegs
<1>4. FramesOK
  BY <1>2 DEF FramesOK
<1>5. NargsOK
  BY <1>2 DEF NargsOK
<1> QED
  BY <1>1, <1>2, <1>3, <1>4, <1>5 DEF InterpreterInv

LEMMA FramesFacts ==
  ASSUME InterpreterInv, frames # <<>>
  PROVE  /\ Len(frames) \in Nat \ {0}
         /\ DOMAIN frames = 1 .. Len(frames)
         /\ Top = frames[Len(frames)]
         /\ FrameOK(Len(frames))
<1>1. frames \in Seq(Range(frames))
  BY DEF InterpreterInv, FramesOK
<1>2. Len(frames) \in Nat \ {0} /\ DOMAIN frames = 1 .. Len(frames)
  BY <1>1
<1> QED
  BY <1>2 DEF InterpreterInv, FramesOK, Top, Last

-----------------------------------------------------------------------------
(* The shapes of the steps of the machine.                                 *)

(* The running activation goes on with statement n; the statement may have *)
(* written the register of its result.                                     *)
MovesTo(n) ==
  /\ Running
  /\ UNCHANGED programVars
  /\ UNCHANGED nargs
  /\ GoTo(n)
  /\ n \in DOMAIN code
  /\ n \in StmtsOf(Top.function)
  /\ \/ regs' = regs
     \/ Writable(Stmt.lhs) /\ \E v : regs' = write_reg(regs, Stmt.lhs, v)

LEMMA RunningFacts ==
  ASSUME InterpreterInv, Running
  PROVE  /\ frames # <<>>
         /\ pstate = "accepted"
         /\ FrameOK(Len(frames))
         /\ Top = frames[Len(frames)]
         /\ Top.curr \in DOMAIN code
         /\ Top.curr \in StmtsOf(Top.function)
         /\ Top.function \in DOMAIN functions
         /\ Len(frames) \in Nat \ {0}
         /\ DOMAIN frames = 1 .. Len(frames)
<1>1. frames # <<>> /\ pstate = "accepted"
  BY DEF Running, InterpreterInv
<1> QED
  BY <1>1, FramesFacts DEF FrameOK

LEMMA ContinueMoves ==
  ASSUME InterpreterInv, NEW op, op \notin TerminatorOp, Exec(op), Continue,
         regs' = regs \/ (op \in HasLhs /\ \E v : SetLhs(v))
  PROVE  \E n : MovesTo(n)
<1>1. Running /\ Stmt.op = op /\ ~CannotWrite /\ UNCHANGED programVars
  BY DEF Exec
<1>2. Stmt = code[Top.curr] /\ ~IsTerminator(code[Top.curr])
  BY <1>1 DEF Stmt, IsTerminator
<1>3. next[Top.curr] \in DOMAIN code /\ next[Top.curr] \in StmtsOf(Top.function)
  BY <1>1, <1>2, RunningFacts, NextIsOfFunction DEF InterpreterInv
<1>4. GoTo(next[Top.curr]) /\ UNCHANGED nargs
  BY DEF Continue
<1>5. op \in HasLhs => Writable(Stmt.lhs)
  <2>1. GoodStmt(Stmt)
    BY <1>1, <1>2, RunningFacts DEF InterpreterInv, ParserInv, CodeOK
  <2>2. op \in HasLhs => "lhs" \in DOMAIN Stmt /\ Stmt.op # "call"
    BY <1>1, <2>1 DEF GoodStmt, HasLhs
  <2> QED
    BY <1>1, <2>2 DEF CannotWrite
<1>6. MovesTo(next[Top.curr])
  BY <1>1, <1>3, <1>4, <1>5 DEF MovesTo, SetLhs
<1> QED
  BY <1>6

LEMMA BranchMoves ==
  ASSUME InterpreterInv, ExecBranch
  PROVE  \E n : MovesTo(n)
<1> DEFINE n == get_bb(CurrFunction, Target)
<1>1. Running /\ UNCHANGED programVars /\ n # 0 /\ GoTo(n) /\ UNCHANGED <<regs, nargs>>
  BY DEF ExecBranch, Exec
<1>2. Target \in DOMAIN CurrFunction.bb_map /\ n = CurrFunction.bb_map[Target]
  BY <1>1 DEF get_bb
<1>3. n \in StmtsOf(Top.function) /\ n \in DOMAIN code
  BY <1>1, <1>2, RunningFacts, BlockIsOfFunction DEF InterpreterInv, CurrFunction
<1> HIDE DEF n
<1>4. MovesTo(n)
  BY <1>1, <1>3 DEF MovesTo
<1> QED
  BY <1>4

LEMMA MachineShapes ==
  ASSUME InterpreterInv, MachineNext
  PROVE  \/ UNCHANGED <<programVars, execVars>>
         \/ \E n : MovesTo(n)
         \/ ExecCall
         \/ ExecRet
<1>1. CASE ExecMalloc
  <2>1. Exec("malloc") /\ Continue /\ \E v : SetLhs(v)
    BY <1>1 DEF ExecMalloc
  <2> QED
    BY <2>1, ContinueMoves DEF HasLhs, TerminatorOp
<1>2. CASE ExecLoad
  <2>1. Exec("load") /\ Continue /\ \E v : SetLhs(v)
    BY <1>2 DEF ExecLoad
  <2> QED
    BY <2>1, ContinueMoves DEF HasLhs, TerminatorOp
<1>3. CASE ExecBop
  <2>1. Exec("bop") /\ Continue /\ \E v : SetLhs(v)
    BY <1>3 DEF ExecBop
  <2> QED
    BY <2>1, ContinueMoves DEF HasLhs, TerminatorOp
<1>4. CASE ExecSelect
  <2>1. Exec("select") /\ Continue /\ \E v : SetLhs(v)
    BY <1>4 DEF ExecSelect
  <2> QED
    BY <2>1, ContinueMoves DEF HasLhs, TerminatorOp
<1>5. CASE ExecRead
  <2>1. Exec("read") /\ Continue /\ \E v : SetLhs(v)
    BY <1>5 DEF ExecRead
  <2> QED
    BY <2>1, ContinueMoves DEF HasLhs, TerminatorOp
<1>6. CASE ExecWrite
  <2>1. Exec("write") /\ Continue /\ \E v : SetLhs(v)
    BY <1>6 DEF ExecWrite
  <2> QED
    BY <2>1, ContinueMoves DEF HasLhs, TerminatorOp
<1>7. CASE ExecFree \/ ExecStore \/ ExecReset \/ ExecAssert
  <2>1. PICK op \in {"free", "store", "reset stack", "reset heap", "assert"} :
          Exec(op) /\ Continue /\ regs' = regs
    BY <1>7 DEF ExecFree, ExecStore, ExecReset, ExecAssert
  <2>2. op \notin TerminatorOp
    BY DEF TerminatorOp
  <2> QED
    BY <2>1, <2>2, ContinueMoves
<1>8. CASE ExecBranch
  BY <1>8, BranchMoves
<1>9. CASE MemoryStops
  BY <1>9 DEF MemoryStops, Exec
<1>10. CASE HostStackOverflow \/ Finish \/ RuntimeError \/ HostTrap
  BY <1>10 DEF HostStackOverflow, Finish, RuntimeError, HostTrap, Exec
<1> QED
  BY <1>1, <1>2, <1>3, <1>4, <1>5, <1>6, <1>7, <1>8, <1>9, <1>10 DEF MachineNext

-----------------------------------------------------------------------------
(* The activations after a step.                                           *)

LEMMA SeqOfItsRange ==
  ASSUME NEW S, NEW s \in Seq(S)
  PROVE  s \in Seq(Range(s))
BY DEF Range

LEMMA OneLess ==
  ASSUME NEW L \in Nat, L > 1
  PROVE  L - 1 \in Nat \ {0} /\ L - 1 \in 1 .. L /\ L - 1 \in 1 .. L - 1 /\ L - 1 < L
OBVIOUS

LEMMA MoveFrames ==
  ASSUME InterpreterInv, NEW n, MovesTo(n)
  PROVE  /\ frames' \in Seq(Range(frames'))
         /\ Len(frames') = Len(frames)
         /\ DOMAIN frames' = DOMAIN frames
         /\ frames'[Len(frames)] = frame(Top.function, n, Top.old)
         /\ \A i \in DOMAIN frames : i # Len(frames) => frames'[i] = frames[i]
<1> DEFINE L == Len(frames)
           new == frame(Top.function, n, Top.old)
           S == Range(frames) \cup {new}
<1>1. frames \in Seq(Range(frames)) /\ L \in Nat \ {0} /\ DOMAIN frames = 1 .. L /\ Top = frames[L]
  BY RunningFacts DEF MovesTo, InterpreterInv, FramesOK
<1>2. frames' = [frames EXCEPT ![L].curr = n]
  BY DEF MovesTo, GoTo
<1>3. frames[L] = frame(Top.function, Top.curr, Top.old)
  BY RunningFacts DEF MovesTo, FrameOK
<1>4. frames' = [frames EXCEPT ![L] = new]
  <2>1. [frames[L] EXCEPT !.curr = n] = new
    BY <1>3 DEF frame
  <2> HIDE DEF new, L
  <2> QED
    BY <1>2, <2>1
<1> HIDE DEF new
<1>5. frames \in Seq(S) /\ new \in S
  BY <1>1
<1> HIDE DEF S
<1>6. frames' \in Seq(S) /\ Len(frames') = L
  BY <1>1, <1>4, <1>5
<1>7. frames' \in Seq(Range(frames'))
  BY <1>6, SeqOfItsRange
<1>8. /\ DOMAIN frames' = DOMAIN frames
      /\ frames'[L] = new
      /\ \A i \in DOMAIN frames : i # L => frames'[i] = frames[i]
  BY <1>1, <1>4
<1> QED
  BY <1>6, <1>7, <1>8 DEF new

LEMMA CallFrames ==
  ASSUME InterpreterInv, ExecCall
  PROVE  LET L == Len(frames)
             g == Stmt.fname
         IN /\ frames' \in Seq(Range(frames'))
            /\ Len(frames') = L + 1
            /\ DOMAIN frames' = 1 .. L + 1
            /\ frames'[L] = frame(Top.function, Top.curr, CurrRegFile)
            /\ frames'[L + 1] = frame(g, get_first_bb(functions[g]), [regs |-> ZeroRegs, nargs |-> 0])
            /\ \A i \in 1 .. L : i # L => frames'[i] = frames[i]
<1> DEFINE L == Len(frames)
           g == Stmt.fname
           new == frame(g, get_first_bb(functions[g]), [regs |-> ZeroRegs, nargs |-> 0])
           saved == frame(Top.function, Top.curr, CurrRegFile)
           S == Range(frames) \cup {new, saved}
<1>1. frames \in Seq(Range(frames)) /\ L \in Nat \ {0} /\ DOMAIN frames = 1 .. L /\ Top = frames[L]
  BY RunningFacts DEF ExecCall, Exec, InterpreterInv, FramesOK
<1>2. frames' = Append([frames EXCEPT ![L].old = CurrRegFile], new)
  BY DEF ExecCall
<1>3. frames[L] = frame(Top.function, Top.curr, Top.old)
  BY RunningFacts DEF ExecCall, Exec, FrameOK
<1>4. [frames EXCEPT ![L].old = CurrRegFile] = [frames EXCEPT ![L] = saved]
  <2>1. [frames[L] EXCEPT !.old = CurrRegFile] = saved
    BY <1>3 DEF frame
  <2> HIDE DEF saved, L
  <2> QED
    BY <2>1
<1> HIDE DEF new, saved
<1>5. frames \in Seq(S) /\ new \in S /\ saved \in S
  BY <1>1
<1> HIDE DEF S
<1> DEFINE below == [frames EXCEPT ![L] = saved]
<1>6. below \in Seq(S) /\ Len(below) = L
  BY <1>1, <1>5
<1>7. below[L] = saved /\ \A i \in 1 .. L : i # L => below[i] = frames[i]
  BY <1>1
<1>8. frames' = Append(below, new)
  BY <1>2, <1>4
<1> HIDE DEF below
<1>9. frames' \in Seq(S) /\ Len(frames') = L + 1 /\ DOMAIN frames' = 1 .. L + 1
  BY <1>5, <1>6, <1>8
<1>10. frames'[L + 1] = new /\ \A i \in 1 .. L : frames'[i] = below[i]
  BY <1>5, <1>6, <1>8
<1>11. L \in 1 .. L
  BY <1>1
<1>12. frames' \in Seq(Range(frames'))
  BY <1>9, SeqOfItsRange
<1> QED
  BY <1>7, <1>9, <1>10, <1>11, <1>12 DEF new, saved

LEMMA ReturnFrames ==
  ASSUME InterpreterInv, ExecRet
  PROVE  LET K == Len(frames) - 1
         IN /\ K \in Nat \ {0}
            /\ frames' \in Seq(Range(frames'))
            /\ Len(frames') = K
            /\ DOMAIN frames' = 1 .. K
            /\ frames'[K] = frame(frames[K].function, next[frames[K].curr], frames[K].old)
            /\ \A i \in 1 .. K : i # K => frames'[i] = frames[i]
<1> DEFINE L == Len(frames)
           K == L - 1
           new == frame(frames[K].function, next[frames[K].curr], frames[K].old)
           S == Range(frames) \cup {new}
<1>1. frames \in Seq(Range(frames)) /\ L \in Nat \ {0} /\ DOMAIN frames = 1 .. L
  BY RunningFacts DEF ExecRet, Exec, InterpreterInv, FramesOK
<1>2. frames' = [Front(frames) EXCEPT ![L - 1].curr = next[frames[L - 1].curr]] /\ L > 1
  BY DEF ExecRet, Caller
<1>3. K \in Nat \ {0} /\ K \in 1 .. L
  BY <1>1, <1>2, OneLess
<1> DEFINE below == Front(frames)
<1> HIDE DEF S
<1>4. frames \in Seq(S) /\ new \in S
  BY <1>1 DEF S
<1>5. below \in Seq(S) /\ Len(below) = K /\ \A i \in 1 .. K : below[i] = frames[i]
  BY <1>1, <1>3, <1>4 DEF Front
<1>6. below[K] = frame(frames[K].function, frames[K].curr, frames[K].old)
  <2>1. FrameOK(K)
    BY <1>1, <1>3 DEF InterpreterInv, FramesOK
  <2>2. K \in 1 .. K
    BY <1>3
  <2> QED
    BY <2>1, <2>2, <1>5 DEF FrameOK
<1> HIDE DEF below
<1>7. frames' = [below EXCEPT ![K] = new]
  <2>1. frames' = [below EXCEPT ![K].curr = next[frames[K].curr]]
    BY <1>2 DEF below
  <2> QED
    <3>1. [below[K] EXCEPT !.curr = next[frames[K].curr]] = new
      BY <1>6 DEF frame
    <3> HIDE DEF new, K
    <3> QED
      BY <2>1, <3>1
<1> HIDE DEF new
<1>8. frames' \in Seq(S) /\ Len(frames') = K /\ DOMAIN frames' = 1 .. K
  BY <1>3, <1>4, <1>5, <1>7
<1>9. frames'[K] = new /\ \A i \in 1 .. K : i # K => frames'[i] = frames[i]
  BY <1>3, <1>5, <1>7
<1>10. frames' \in Seq(Range(frames'))
  BY <1>8, SeqOfItsRange
<1> QED
  BY <1>3, <1>8, <1>9, <1>10 DEF new

-----------------------------------------------------------------------------
(* The steps of the machine keep the invariant.                            *)

LEMMA FrameStays ==
  ASSUME NEW i, FrameOK(i), UNCHANGED <<functions, code, next, line>>,
         frames'[i] = frames[i], i < Len(frames') => i < Len(frames)
  PROVE  FrameOK(i)'
BY DEF FrameOK, StmtsOf, Reached

LEMMA FrameAfter ==
  ASSUME NEW i, NEW f, NEW n, NEW o, frames'[i] = frame(f, n, o),
         UNCHANGED <<functions, code, next, line>>,
         f \in DOMAIN functions, n \in DOMAIN code, n \in StmtsOf(f),
         i < Len(frames') =>
           code[n].op = "call" /\ IsRegs(o.regs) /\ o.nargs = functions[f].nargs
  PROVE  FrameOK(i)'
<1>1. frames'[i].function = f /\ frames'[i].curr = n /\ frames'[i].old = o
  BY DEF frame
<1>2. (frames[i].curr \in StmtsOf(frames[i].function))'
  BY <1>1 DEF StmtsOf, Reached
<1> QED
  BY <1>1, <1>2 DEF FrameOK

LEMMA TopAfter ==
  ASSUME NEW k \in Nat \ {0}, NEW f, NEW n, NEW o, Len(frames') = k, frames'[k] = frame(f, n, o),
         UNCHANGED functions, nargs' = functions[f].nargs
  PROVE  NargsOK'
<1>1. frames' # <<>>
  <2>1. Len(<<>>) = 0
    OBVIOUS
  <2> QED
    BY <2>1
<1>2. Top' = frame(f, n, o)
  BY DEF Top, Last
<1>3. Top'.function = f
  BY <1>2 DEF frame
<1> QED
  BY <1>1, <1>3 DEF NargsOK

LEMMA WriteRegLemma ==
  ASSUME NEW rf, IsRegs(rf), NEW r, NEW v
  PROVE  /\ IsRegs(write_reg(rf, r, v))
         /\ \A q \in Reg : q # r => write_reg(rf, r, v)[q] = rf[q]
BY DEF IsRegs, write_reg

LEMMA MoveInv ==
  ASSUME InterpreterInv, NEW n, MovesTo(n), UNCHANGED parserVars
  PROVE  InterpreterInv'
<1>1. PICK L : L = Len(frames)
  OBVIOUS
<1>2. PICK f, o : f = Top.function /\ o = Top.old
  OBVIOUS
<1>3. /\ L \in Nat \ {0} /\ DOMAIN frames = 1 .. L /\ pstate = "accepted" /\ frames # <<>>
      /\ f \in DOMAIN functions
  BY <1>1, <1>2, RunningFacts DEF MovesTo
<1>4. UNCHANGED <<functions, code, next, line, pstate, nargs>>
  BY DEF MovesTo, programVars, parserVars
<1>5. ParserInv'
  BY ParserStaysInv DEF MovesTo, InterpreterInv
<1>6. IsRegs(regs')
  BY WriteRegLemma DEF MovesTo, InterpreterInv
<1>7. /\ frames' \in Seq(Range(frames'))
      /\ Len(frames') = L
      /\ DOMAIN frames' = 1 .. L
      /\ frames'[L] = frame(f, n, o)
      /\ \A i \in 1 .. L : i # L => frames'[i] = frames[i]
  BY <1>1, <1>2, <1>3, MoveFrames
<1>8. FrameOK(L)'
  <2>1. n \in DOMAIN code /\ n \in StmtsOf(f)
    BY <1>2 DEF MovesTo
  <2>2. ~(L < Len(frames'))
    BY <1>3, <1>7
  <2> QED
    BY <2>1, <2>2, <1>3, <1>4, <1>7, FrameAfter
<1>9. ASSUME NEW i \in 1 .. L, i # L
      PROVE  FrameOK(i)'
  <2>1. FrameOK(i)
    BY <1>3 DEF InterpreterInv, FramesOK
  <2> QED
    BY <2>1, <1>1, <1>4, <1>7, <1>9, FrameStays
<1>10. FramesOK'
  BY <1>7, <1>8, <1>9 DEF FramesOK
<1>11. NargsOK'
  <2>1. nargs' = functions[f].nargs
    BY <1>2, <1>3, <1>4 DEF InterpreterInv, NargsOK
  <2> QED
    BY <2>1, <1>3, <1>4, <1>7, TopAfter
<1> QED
  BY <1>3, <1>4, <1>5, <1>6, <1>10, <1>11 DEF InterpreterInv

LEMMA CallInv ==
  ASSUME InterpreterInv, ExecCall, UNCHANGED parserVars
  PROVE  InterpreterInv'
<1>1. PICK L, g : L = Len(frames) /\ g = Stmt.fname
  OBVIOUS
<1>2. PICK first, f, n, o : first = get_first_bb(functions[g]) /\ f = Top.function /\ n = Top.curr
                           /\ o = CurrRegFile
  OBVIOUS
<1>3. /\ L \in Nat \ {0} /\ DOMAIN frames = 1 .. L /\ pstate = "accepted" /\ frames # <<>>
      /\ f \in DOMAIN functions /\ n \in DOMAIN code /\ n \in StmtsOf(f)
  BY <1>1, <1>2, RunningFacts DEF ExecCall, Exec
<1>4. UNCHANGED <<functions, code, next, line, pstate>> /\ UNCHANGED programVars
  BY DEF ExecCall, Exec, programVars, parserVars
<1>5. ParserInv'
  BY <1>4, ParserStaysInv DEF InterpreterInv
<1>6. IsRegs(regs')
  BY DEF ExecCall, setup_args, IsRegs
<1>7. g \in DOMAIN functions /\ nargs' = functions[g].nargs /\ code[n].op = "call"
  BY <1>1, <1>2 DEF ExecCall, CanCall, Exec, Stmt
<1>8. first \in DOMAIN code /\ first \in StmtsOf(g)
  <2>1. functions[g].first_bb \in DOMAIN functions[g].bb_map
    BY <1>3, <1>7 DEF InterpreterInv, ParserInv, FirstBlocks
  <2>2. first = functions[g].bb_map[functions[g].first_bb]
    BY <1>2, <2>1 DEF get_first_bb, get_bb
  <2> QED
    BY <2>1, <2>2, <1>7, BlockIsOfFunction DEF InterpreterInv
<1>9. /\ frames' \in Seq(Range(frames'))
      /\ Len(frames') = L + 1
      /\ DOMAIN frames' = 1 .. L + 1
      /\ frames'[L] = frame(f, n, o)
      /\ frames'[L + 1] = frame(g, first, [regs |-> ZeroRegs, nargs |-> 0])
      /\ \A i \in 1 .. L : i # L => frames'[i] = frames[i]
  BY <1>1, <1>2, CallFrames
<1>10. FrameOK(L + 1)'
  <2>1. ~(L + 1 < Len(frames'))
    BY <1>3, <1>9
  <2> QED
    BY <2>1, <1>4, <1>7, <1>8, <1>9, FrameAfter
<1>11. FrameOK(L)'
  <2>1. IsRegs(o.regs)
    BY <1>2 DEF InterpreterInv, CurrRegFile
  <2>2. o.nargs = functions[f].nargs
    BY <1>2, <1>3 DEF InterpreterInv, NargsOK, CurrRegFile
  <2> QED
    BY <2>1, <2>2, <1>3, <1>4, <1>7, <1>9, FrameAfter
<1>12. ASSUME NEW i \in 1 .. L, i # L
       PROVE  FrameOK(i)'
  <2>1. FrameOK(i)
    BY <1>3 DEF InterpreterInv, FramesOK
  <2>2. i < L
    BY <1>3, <1>12
  <2> QED
    BY <2>1, <2>2, <1>1, <1>4, <1>9, <1>12, FrameStays
<1>13. FramesOK'
  <2>1. \A i \in 1 .. L + 1 : i \in 1 .. L \/ i = L + 1
    BY <1>3
  <2> QED
    BY <2>1, <1>9, <1>10, <1>11, <1>12 DEF FramesOK
<1>14. NargsOK'
  <2>1. L + 1 \in Nat \ {0}
    BY <1>3
  <2> QED
    BY <2>1, <1>4, <1>7, <1>9, TopAfter
<1> QED
  BY <1>3, <1>4, <1>5, <1>6, <1>13, <1>14 DEF InterpreterInv

LEMMA ReturnInv ==
  ASSUME InterpreterInv, ExecRet, UNCHANGED parserVars
  PROVE  InterpreterInv'
<1>1. PICK L : L = Len(frames)
  OBVIOUS
<1>2. PICK K : K = L - 1
  OBVIOUS
<1>3. PICK f, c, o : f = frames[K].function /\ c = frames[K].curr /\ o = frames[K].old
  OBVIOUS
<1>4. PICK m : m = next[c]
  OBVIOUS
<1>5. /\ L \in Nat \ {0} /\ DOMAIN frames = 1 .. L /\ pstate = "accepted" /\ frames # <<>>
      /\ L > 1
  BY <1>1, RunningFacts DEF ExecRet, Exec
<1>6. UNCHANGED <<functions, code, next, line, pstate>> /\ UNCHANGED programVars
  BY DEF ExecRet, Exec, programVars, parserVars
<1>7. ParserInv'
  BY <1>6, ParserStaysInv DEF InterpreterInv
<1>8. K \in Nat \ {0} /\ K \in 1 .. L /\ K \in 1 .. K /\ K < L
  BY <1>2, <1>5, OneLess
<1>9. /\ f \in DOMAIN functions /\ c \in DOMAIN code /\ c \in StmtsOf(f) /\ code[c].op = "call"
      /\ IsRegs(o.regs) /\ o.nargs = functions[f].nargs
  <2>1. FrameOK(K)
    BY <1>5, <1>8 DEF InterpreterInv, FramesOK
  <2> QED
    BY <2>1, <1>1, <1>3, <1>8 DEF FrameOK
<1>10. /\ frames' \in Seq(Range(frames'))
       /\ Len(frames') = K
       /\ DOMAIN frames' = 1 .. K
       /\ frames'[K] = frame(f, m, o)
       /\ \A i \in 1 .. K : i # K => frames'[i] = frames[i]
  BY <1>1, <1>2, <1>3, <1>4, ReturnFrames
<1>11. /\ nargs' = o.nargs
       /\ \E r, v : regs' = write_reg(o.regs, r, v)
  BY <1>1, <1>2, <1>3 DEF ExecRet, Restored, Caller
<1>12. m \in DOMAIN code /\ m \in StmtsOf(f)
  <2>1. ~IsTerminator(code[c])
    BY <1>9 DEF IsTerminator, TerminatorOp
  <2> QED
    BY <1>4, <1>5, <1>9, <2>1, NextIsOfFunction DEF InterpreterInv
<1>13. IsRegs(regs')
  BY <1>9, <1>11, WriteRegLemma
<1>14. FrameOK(K)'
  <2>1. ~(K < Len(frames'))
    BY <1>8, <1>10
  <2> QED
    BY <2>1, <1>6, <1>9, <1>10, <1>12, FrameAfter
<1>15. ASSUME NEW i \in 1 .. K, i # K
       PROVE  FrameOK(i)'
  <2>1. i \in DOMAIN frames /\ (i < K => i < L)
    BY <1>5, <1>8
  <2>2. FrameOK(i)
    BY <2>1 DEF InterpreterInv, FramesOK
  <2> QED
    BY <2>1, <2>2, <1>1, <1>6, <1>10, <1>15, FrameStays
<1>16. FramesOK'
  BY <1>10, <1>14, <1>15 DEF FramesOK
<1>17. NargsOK'
  BY <1>6, <1>8, <1>9, <1>10, <1>11, TopAfter
<1> QED
  BY <1>5, <1>6, <1>7, <1>13, <1>16, <1>17 DEF InterpreterInv

(* No program runs while it is being read.                                 *)
LEMMA ReadingInv ==
  ASSUME InterpreterInv, ParserNext, UNCHANGED machineVars
  PROVE  InterpreterInv'
<1>1. frames = <<>>
  BY DEF InterpreterInv, ParserNext, ReadLine, EndOfFile, SyntaxError, Parsing
<1>2. UNCHANGED <<regs, nargs, frames>>
  BY DEF machineVars, execVars
<1>3. ParserInv'
  BY ParserStepInv DEF InterpreterInv
<1>4. FramesOK'
  BY <1>1, <1>2 DEF InterpreterInv, FramesOK
<1>5. NargsOK'
  BY <1>1, <1>2 DEF InterpreterInv, NargsOK
<1>6. IsRegs(regs')
  BY <1>2 DEF InterpreterInv
<1> QED
  BY <1>1, <1>2, <1>3, <1>4, <1>5, <1>6 DEF InterpreterInv

LEMMA StartInv ==
  ASSUME InterpreterInv, pstate = "accepted", Start, UNCHANGED parserVars
  PROVE  InterpreterInv'
<1>1. PICK first, o : first = get_first_bb(functions["main"]) /\ o = CurrRegFile
  OBVIOUS
<1>2. /\ UNCHANGED <<functions, code, next, line, pstate, regs, nargs>> /\ UNCHANGED programVars
      /\ frames = <<>> /\ frames' = <<frame("main", first, o)>> /\ first # 0
  BY <1>1 DEF Start, programVars, parserVars
<1>3. "main" \in DOMAIN functions /\ functions["main"].nargs = 0
  BY DEF InterpreterInv, ParserInv, MainIsThere
<1>4. first \in DOMAIN code /\ first \in StmtsOf("main")
  <2>1. /\ functions["main"].first_bb \in DOMAIN functions["main"].bb_map
        /\ first = functions["main"].bb_map[functions["main"].first_bb]
    BY <1>1, <1>2 DEF get_first_bb, get_bb
  <2> QED
    BY <2>1, <1>3, BlockIsOfFunction DEF InterpreterInv
<1>5. Len(frames') = 1 /\ DOMAIN frames' = 1 .. 1 /\ frames'[1] = frame("main", first, o)
  BY <1>2
<1>6. ParserInv'
  BY <1>2, ParserStaysInv DEF InterpreterInv
<1>7. FrameOK(1)'
  <2>1. ~(1 < Len(frames'))
    BY <1>5
  <2> QED
    BY <2>1, <1>2, <1>3, <1>4, <1>5, FrameAfter
<1>8. frames' \in Seq(Range(frames'))
  <2>1. frames' \in Seq({frame("main", first, o)})
    BY <1>2
  <2> QED
    BY <2>1, SeqOfItsRange
<1>9. FramesOK'
  BY <1>5, <1>7, <1>8 DEF FramesOK
<1>10. NargsOK'
  <2>1. nargs' = functions["main"].nargs
    BY <1>2, <1>3 DEF InterpreterInv, NargsOK
  <2>2. 1 \in Nat \ {0} /\ Len(frames') = 1 /\ frames'[1] = frame("main", first, o)
    BY <1>5
  <2>3. UNCHANGED functions
    BY <1>2
  <2> QED
    BY <2>1, <2>2, <2>3, TopAfter
<1>11. IsRegs(regs')
  BY <1>2 DEF InterpreterInv
<1> QED
  BY <1>2, <1>6, <1>9, <1>10, <1>11 DEF InterpreterInv

LEMMA NothingInv ==
  ASSUME InterpreterInv, UNCHANGED <<programVars, parserVars, execVars>>
  PROVE  InterpreterInv'
<1>1. UNCHANGED <<functions, code, next, line, pstate, regs, nargs, frames>>
  BY DEF programVars, parserVars, execVars
<1>2. ParserInv'
  BY ParserStaysInv DEF InterpreterInv
<1>3. ASSUME NEW i \in DOMAIN frames
      PROVE  FrameOK(i)'
  BY <1>1, FrameStays DEF InterpreterInv, FramesOK
<1>4. FramesOK'
  BY <1>1, <1>3 DEF InterpreterInv, FramesOK
<1>5. NargsOK'
  BY <1>1 DEF InterpreterInv, NargsOK, Top
<1>6. IsRegs(regs')
  BY <1>1 DEF InterpreterInv
<1> QED
  BY <1>1, <1>2, <1>4, <1>5, <1>6 DEF InterpreterInv

LEMMA InterpreterStepInv ==
  InterpreterInv /\ [InterpreterNext]_interpreterVars => InterpreterInv'
<1> SUFFICES ASSUME InterpreterInv, [InterpreterNext]_interpreterVars PROVE InterpreterInv'
  OBVIOUS
<1>1. CASE ParserNext /\ UNCHANGED machineVars
  BY <1>1, ReadingInv
<1>2. CASE pstate = "accepted" /\ Start /\ UNCHANGED parserVars
  BY <1>2, StartInv
<1>3. CASE pstate = "accepted" /\ MachineNext /\ UNCHANGED parserVars
  BY <1>3, MachineShapes, NothingInv, MoveInv, CallInv, ReturnInv
<1>4. CASE UNCHANGED interpreterVars
  <2>1. UNCHANGED <<programVars, parserVars, execVars>>
    BY <1>4 DEF interpreterVars, machineVars
  <2> QED
    BY <2>1, NothingInv
<1> QED
  BY <1>1, <1>2, <1>3, <1>4 DEF InterpreterNext

LEMMA InterpreterInvariant == InterpreterSpec => []InterpreterInv
BY InterpreterInitInv, InterpreterStepInv, PTL DEF InterpreterSpec

-----------------------------------------------------------------------------
(* Whatever the file, the blocks of an accepted program are there and end  *)
(* (parser.cpp:604-655).                                                   *)
THEOREM BlocksEndTheorem == InterpreterSpec => []BlocksEnd
<1>1. InterpreterInv => BlocksEnd
  <2> SUFFICES ASSUME InterpreterInv, pstate = "accepted"
               PROVE  /\ \A f \in DOMAIN functions :
                           /\ functions[f].first_bb \in DOMAIN functions[f].bb_map
                           /\ \A b \in DOMAIN functions[f].bb_map :
                                functions[f].bb_map[b] \in DOMAIN code
                      /\ \A n \in DOMAIN code :
                           ~IsTerminator(code[n]) => next[n] \in DOMAIN code /\ n < next[n]
    BY DEF BlocksEnd
  <2>1. ASSUME NEW f \in DOMAIN functions
        PROVE  /\ functions[f].first_bb \in DOMAIN functions[f].bb_map
               /\ \A b \in DOMAIN functions[f].bb_map : functions[f].bb_map[b] \in DOMAIN code
    BY DEF InterpreterInv, ParserInv, FirstBlocks, FunctionsOK
  <2>2. ASSUME NEW n \in DOMAIN code, ~IsTerminator(code[n])
        PROVE  next[n] \in DOMAIN code /\ n < next[n]
    BY <2>2 DEF InterpreterInv, ParserInv, Links
  <2> QED
    BY <2>1, <2>2
<1> QED
  BY <1>1, InterpreterInvariant, PTL

(* exec_function never follows a null statement.                           *)
THEOREM NeverNullTheorem == InterpreterSpec => []NeverNull
<1>1. InterpreterInv => NeverNull
  BY DEF InterpreterInv, FramesOK, FrameOK, NeverNull
<1> QED
  BY <1>1, InterpreterInvariant, PTL

(* Control stays inside the function that was called, and the arguments    *)
(* that may be read are those it declares.                                 *)
THEOREM ArgumentsTheorem == InterpreterSpec => []ArgumentsOfTheFunction
<1>1. InterpreterInv => ArgumentsOfTheFunction
  BY DEF InterpreterInv, FramesOK, FrameOK, NargsOK, Running, ArgumentsOfTheFunction
<1> QED
  BY <1>1, InterpreterInvariant, PTL

-----------------------------------------------------------------------------
(* What a step may never do.                                               *)

(* Every step of the interpreter has one of the shapes.                    *)
LEMMA InterpreterShapes ==
  ASSUME InterpreterInv, [InterpreterNext]_interpreterVars
  PROVE  \/ frames = <<>> /\ UNCHANGED regs
         \/ UNCHANGED execVars
         \/ \E n : MovesTo(n)
         \/ ExecCall
         \/ ExecRet
<1>1. CASE ParserNext /\ UNCHANGED machineVars
  BY <1>1 DEF machineVars
<1>2. CASE pstate = "accepted" /\ Start /\ UNCHANGED parserVars
  BY <1>2 DEF Start
<1>3. CASE pstate = "accepted" /\ MachineNext /\ UNCHANGED parserVars
  BY <1>3, MachineShapes
<1>4. CASE UNCHANGED interpreterVars
  BY <1>4 DEF interpreterVars, machineVars
<1> QED
  BY <1>1, <1>2, <1>3, <1>4 DEF InterpreterNext

(* What a step may do to register r of activation d.                       *)
Keeps(d, r) ==
  \/ d >= Len(frames) /\ r \notin A1 .. A16
  \/ Len(frames') = d /\ d < Len(frames) /\ code[frames[d].curr].lhs = r
  \/ RegsOf(d)'[r] = RegsOf(d)[r]

LEMMA SavedRegsKept ==
  ASSUME NEW d, NEW r, d # Len(frames), d # Len(frames'), frames'[d] = frames[d]
  PROVE  Keeps(d, r)
BY DEF Keeps, RegsOf

LEMMA MoveKeeps ==
  ASSUME InterpreterInv, NEW n, MovesTo(n), NEW d \in DOMAIN frames, NEW r \in Reg
  PROVE  Keeps(d, r)
<1>1. PICK L : L = Len(frames)
  OBVIOUS
<1>2. /\ L \in Nat \ {0} /\ DOMAIN frames = 1 .. L
      /\ Len(frames') = L
      /\ \A i \in 1 .. L : i # L => frames'[i] = frames[i]
  BY <1>1, RunningFacts, MoveFrames DEF MovesTo
<1>3. CASE d # L
  BY <1>1, <1>2, <1>3, SavedRegsKept
<1>4. CASE d = L /\ r \notin A1 .. A16
  BY <1>1, <1>2, <1>4 DEF Keeps
<1>5. CASE d = L /\ r \in A1 .. A16
  <2>1. regs'[r] = regs[r]
    BY <1>5, WriteRegLemma DEF MovesTo, Writable, InterpreterInv
  <2> QED
    BY <2>1, <1>1, <1>2, <1>5 DEF Keeps, RegsOf
<1> QED
  BY <1>3, <1>4, <1>5

LEMMA CallKeeps ==
  ASSUME InterpreterInv, ExecCall, NEW d \in DOMAIN frames, NEW r \in Reg
  PROVE  Keeps(d, r)
<1>1. PICK L, o, f, n : L = Len(frames) /\ o = CurrRegFile /\ f = Top.function /\ n = Top.curr
  OBVIOUS
<1>2. /\ L \in Nat \ {0} /\ DOMAIN frames = 1 .. L
      /\ Len(frames') = L + 1
      /\ frames'[L] = frame(f, n, o)
      /\ \A i \in 1 .. L : i # L => frames'[i] = frames[i]
  BY <1>1, RunningFacts, CallFrames DEF ExecCall, Exec
<1>3. d # L + 1
  BY <1>2
<1>4. CASE d # L
  BY <1>1, <1>2, <1>3, <1>4, SavedRegsKept
<1>5. CASE d = L
  <2>1. frames'[d].old.regs = regs
    BY <1>1, <1>2, <1>5 DEF frame, CurrRegFile
  <2> QED
    BY <2>1, <1>1, <1>2, <1>3, <1>5 DEF Keeps, RegsOf
<1> QED
  BY <1>4, <1>5

LEMMA ReturnKeeps ==
  ASSUME InterpreterInv, ExecRet, NEW d \in DOMAIN frames, d \in DOMAIN frames', NEW r \in Reg
  PROVE  Keeps(d, r)
<1>1. PICK L : L = Len(frames)
  OBVIOUS
<1>2. PICK K : K = L - 1
  OBVIOUS
<1>3. PICK rf, lhs : rf = frames[K].old.regs /\ lhs = code[frames[K].curr].lhs
  OBVIOUS
<1>4. L \in Nat \ {0} /\ DOMAIN frames = 1 .. L /\ L > 1
  BY <1>1, RunningFacts DEF ExecRet, Exec
<1>5. K \in Nat \ {0} /\ K \in 1 .. L /\ K < L
  BY <1>2, <1>4, OneLess
<1>6. /\ Len(frames') = K
      /\ DOMAIN frames' = 1 .. K
      /\ \A i \in 1 .. K : i # K => frames'[i] = frames[i]
  BY <1>1, <1>2, ReturnFrames
<1>7. d \in 1 .. K /\ d # L
  BY <1>4, <1>5, <1>6
<1>8. CASE d # K
  BY <1>1, <1>6, <1>7, <1>8, SavedRegsKept
<1>9. CASE d = K /\ r = lhs
  BY <1>1, <1>3, <1>5, <1>6, <1>9 DEF Keeps
<1>10. CASE d = K /\ r # lhs
  <2>1. FrameOK(K)
    BY <1>4, <1>5 DEF InterpreterInv, FramesOK
  <2>2. IsRegs(rf)
    BY <2>1, <1>1, <1>3, <1>5 DEF FrameOK
  <2>3. \E v : regs' = write_reg(rf, lhs, v)
    BY <1>1, <1>2, <1>3 DEF ExecRet, Restored, Caller, CallStmtOfCaller
  <2>4. regs'[r] = rf[r]
    BY <2>2, <2>3, <1>10, WriteRegLemma
  <2> QED
    BY <2>4, <1>1, <1>3, <1>6, <1>7, <1>10 DEF Keeps, RegsOf
<1> QED
  BY <1>8, <1>9, <1>10

LEMMA StepKeeps ==
  ASSUME InterpreterInv, [InterpreterNext]_interpreterVars,
         NEW d \in DOMAIN frames \cap DOMAIN frames', NEW r \in Reg
  PROVE  Keeps(d, r)
<1>1. CASE frames = <<>> /\ UNCHANGED regs
  BY <1>1
<1>2. CASE UNCHANGED execVars
  BY <1>2 DEF execVars, Keeps, RegsOf
<1> QED
  BY <1>1, <1>2, InterpreterShapes, MoveKeeps, CallKeeps, ReturnKeeps

(* A call keeps the registers of every activation below, and a register    *)
(* that holds an argument keeps it as long as its activation lasts:        *)
(* exec_function saves the whole register file and puts it back            *)
(* (state.cpp:73-82), and write_reg refuses the argument registers.        *)
THEOREM CallsKeepRegistersTheorem == InterpreterSpec => CallsKeepRegisters
<1>1. InterpreterInv /\ [InterpreterNext]_interpreterVars =>
        [\A d \in DOMAIN frames \cap DOMAIN frames' :
           \A r \in Reg :
             \/ d >= Len(frames) /\ r \notin A1 .. A16
             \/ Len(frames') = d /\ d < Len(frames) /\ code[frames[d].curr].lhs = r
             \/ RegsOf(d)'[r] = RegsOf(d)[r]]_interpreterVars
  BY StepKeeps DEF Keeps
<1> QED
  BY <1>1, InterpreterInvariant, PTL DEF InterpreterSpec, CallsKeepRegisters

LEMMA CallMissesSp ==
  ASSUME InterpreterInv, ExecCall
  PROVE  regs'[RegSp] = regs[RegSp]
<1>1. PICK vals, g : vals = Stmt.vals /\ g = Stmt.fname
  OBVIOUS
<1>2. vals \in Seq(Operand)
  <2>1. GoodStmt(Stmt)
    BY RunningFacts DEF ExecCall, Exec, Stmt, InterpreterInv, ParserInv, CodeOK
  <2> QED
    BY <2>1, <1>1 DEF GoodStmt, ExecCall, Exec
<1>3. Len(vals) \in 0 .. NREG /\ DOMAIN vals = 1 .. Len(vals)
  <2>1. g \in DOMAIN functions /\ functions[g].nargs = Len(vals)
    BY <1>1 DEF ExecCall, CanCall
  <2>2. functions[g].nargs \in 0 .. NREG
    BY <2>1 DEF InterpreterInv, ParserInv, FunctionsOK
  <2> QED
    BY <2>1, <2>2, <1>2
<1>4. RegSp - A1 + 1 \notin DOMAIN vals /\ RegSp \in Reg
  <2>1. RegSp - A1 + 1 = NREG + 1 /\ RegSp \in Reg
    BY ProgramAssumption DEF RegSp, A1, Reg
  <2> QED
    BY <2>1, <1>3, ProgramAssumption
<1>5. regs' = setup_args
  BY DEF ExecCall
<1> QED
  BY <1>1, <1>4, <1>5 DEF setup_args

(* setup_args, which does not look at the number of registers, never runs  *)
(* into the stack pointer (stmt.cpp:428-435).                              *)
THEOREM ArgumentsMissSpTheorem == InterpreterSpec => ArgumentsMissSp
<1>1. InterpreterInv /\ [InterpreterNext]_interpreterVars =>
        [Len(frames') > Len(frames) => regs'[RegSp] = regs[RegSp]]_interpreterVars
  <2> SUFFICES ASSUME InterpreterInv, [InterpreterNext]_interpreterVars, Len(frames') > Len(frames)
               PROVE  regs'[RegSp] = regs[RegSp]
    OBVIOUS
  <2>1. CASE UNCHANGED regs
    BY <2>1
  <2>2. CASE ExecCall
    BY <2>2, CallMissesSp
  <2>3. CASE UNCHANGED execVars
    BY <2>3 DEF execVars
  <2>4. CASE \E n : MovesTo(n)
    <3>1. Len(frames') = Len(frames) /\ Len(frames) \in Nat
      BY <2>4, MoveFrames, RunningFacts DEF MovesTo
    <3> QED
      BY <3>1
  <2>5. CASE ExecRet
    <3>1. Len(frames') = Len(frames) - 1 /\ Len(frames) \in Nat
      BY <2>5, ReturnFrames, RunningFacts DEF ExecRet, Exec
    <3> QED
      BY <3>1
  <2> QED
    BY <2>1, <2>2, <2>3, <2>4, <2>5, InterpreterShapes
<1> QED
  BY <1>1, InterpreterInvariant, PTL DEF InterpreterSpec, ArgumentsMissSp

-----------------------------------------------------------------------------
(* Every result of the arithmetic is a word.                               *)
LEMMA PowerFacts ==
  /\ WIDTH \in Nat \ {0}
  /\ IsPow2(Pow2, WIDTH)
  /\ \A n \in 0 .. WIDTH : Pow2[n] \in Nat \ {0}
  /\ WordRange \in Nat \ {0}
<1>1. WIDTH \in Nat \ {0}
  BY ArithmeticAssumption
<1>2. PICK p : p = [n \in 0 .. WIDTH |-> IF n = 0 THEN 1 ELSE 2 * p[n - 1]]
  BY <1>1, Pow2Exist
<1>3. Pow2 = [n \in 0 .. WIDTH |-> IF n = 0 THEN 1 ELSE 2 * Pow2[n - 1]]
  BY <1>2 DEF Pow2
<1>4. IsPow2(Pow2, WIDTH)
  BY <1>1, <1>3, Pow2Unfold
<1>5. \A n \in 0 .. WIDTH : Pow2[n] \in Nat \ {0}
  BY <1>4 DEF IsPow2
<1> QED
  BY <1>1, <1>4, <1>5 DEF WordRange

LEMMA SignedIsInt ==
  ASSUME NEW a \in Int, NEW n \in 0 .. WIDTH
  PROVE  SignedValue(a, n) \in Int
<1>1. PICK p \in Nat \ {0} : p = Pow2[n]
  BY PowerFacts
<1>2. a % p \in Int
  BY DivMod
<1> QED
  BY <1>1, <1>2 DEF SignedValue

(* The signed value of a word that is not 0 is not 0.                      *)
LEMMA SignedOfNonzero ==
  ASSUME NEW b \in Word, b # 0
  PROVE  SignedValue(b, WIDTH) # 0
<1>1. WordRange \in Nat \ {0} /\ b \in 0 .. WordRange - 1
  BY PowerFacts DEF Word
<1>2. b % WordRange = b
  BY <1>1, ModSmall
<1> QED
  BY <1>1, <1>2 DEF SignedValue, WordRange

LEMMA DivisionIsInt ==
  ASSUME NEW a \in Int, NEW b \in Int, b # 0
  PROVE  Quotient(a, b) \in Int /\ Remainder(a, b) \in Int
<1>1. Magnitude(b) \in Nat \ {0} /\ Magnitude(a) \in Int
  BY DEF Magnitude
<1>2. PICK q \in Int : q = Magnitude(a) \div Magnitude(b)
  BY <1>1, DivMod
<1>3. PICK k \in Int : k = Quotient(a, b)
  BY <1>2 DEF Quotient
<1>4. PICK m \in Int : m = b * k
  OBVIOUS
<1> QED
  BY <1>3, <1>4 DEF Remainder

LEMMA FromBitsIsNat ==
  ASSUME NEW S
  PROVE  FromBits(S) \in Nat
<1> DEFINE step == [k \in 1 .. WIDTH |->
                      [x \in Nat |-> x + (IF k - 1 \in S THEN Pow2[k - 1] ELSE 0)]]
           R(h) == [k \in 0 .. WIDTH |->
                      IF k = 0 THEN 0 ELSE h[k - 1] + (IF k - 1 \in S THEN Pow2[k - 1] ELSE 0)]
           sum == CHOOSE h : h = R(h)
           T == {k \in 0 .. WIDTH : sum[k] \in Nat}
<1>1. WIDTH \in Nat /\ \A k \in 1 .. WIDTH : k - 1 \in 0 .. WIDTH /\ Pow2[k - 1] \in Nat
  BY PowerFacts
<1>2. step \in [1 .. WIDTH -> [Nat -> Nat]]
  BY <1>1
<1>3. \A k \in 1 .. WIDTH : \A x \in Nat :
        step[k][x] = x + (IF k - 1 \in S THEN Pow2[k - 1] ELSE 0)
  OBVIOUS
<1> HIDE DEF step
<1>4. PICK g \in [0 .. WIDTH -> Nat] : Iterates(g, WIDTH, 0, step)
  BY <1>1, <1>2, IterateExists
<1>5. g = R(g)
  <2>1. ASSUME NEW k \in 0 .. WIDTH, k # 0
        PROVE  g[k] = g[k - 1] + (IF k - 1 \in S THEN Pow2[k - 1] ELSE 0)
    <3>1. k \in 1 .. WIDTH /\ g[k - 1] \in Nat
      BY <1>1, <2>1
    <3>2. g[k] = step[k][g[k - 1]]
      BY <1>4, <3>1 DEF Iterates
    <3> QED
      BY <1>3, <3>1, <3>2
  <2>2. g[0] = 0
    BY <1>4 DEF Iterates
  <2> QED
    BY <2>1, <2>2
<1>6. sum = R(sum)
  <2> HIDE DEF R
  <2> QED
    BY <1>5
<1>7. FromBits(S) = sum[WIDTH]
  BY DEF FromBits
<1> HIDE DEF sum
<1>8. 0 \in T /\ \A k \in 1 .. WIDTH : k - 1 \in T => k \in T
  <2>1. 0 \in 0 .. WIDTH /\ \A k \in 1 .. WIDTH : k \in 0 .. WIDTH /\ k # 0
    BY <1>1
  <2>2. sum[0] = 0
    BY <1>6, <2>1
  <2>3. \A k \in 1 .. WIDTH : sum[k] = sum[k - 1] + (IF k - 1 \in S THEN Pow2[k - 1] ELSE 0)
    BY <1>6, <2>1
  <2>4. 0 \in T
    BY <2>1, <2>2
  <2>5. ASSUME NEW k \in 1 .. WIDTH, k - 1 \in T
        PROVE  k \in T
    <3>1. sum[k - 1] \in Nat /\ k \in 0 .. WIDTH
      BY <2>1, <2>5
    <3>2. Pow2[k - 1] \in Nat /\ sum[k] = sum[k - 1] + (IF k - 1 \in S THEN Pow2[k - 1] ELSE 0)
      BY <1>1, <2>3
    <3>3. sum[k] \in Nat
      <4> HIDE DEF T, R
      <4> QED
        BY <3>1, <3>2
    <3> QED
      BY <3>1, <3>3
  <2> HIDE DEF T
  <2> QED
    BY <2>4, <2>5
<1> HIDE DEF T
<1>9. WIDTH \in T
  <2>1. 0 .. WIDTH \subseteq T
    BY <1>1, <1>8, UpTo
  <2> QED
    BY <1>1, <2>1
<1> QED
  BY <1>7, <1>9 DEF T

(* What the operation on two words gives is a number: it divides by none   *)
(* that is 0 and shifts by less than a word.                               *)
LEMMA OnWordsIsInt ==
  ASSUME NEW kind \in BopKind \cup CondKind, NEW a \in Nat, NEW b \in Nat,
         kind \in DivKind => b # 0,
         kind \in ShiftKind => b \in 0 .. WIDTH,
         kind \notin ShiftKind => b \in Word
  PROVE  OnWords(kind, a, b) \in Int
<1>1. PICK sa, sb : sa = SignedValue(a, WIDTH) /\ sb = SignedValue(b, WIDTH)
  OBVIOUS
<1>2. sa \in Int /\ sb \in Int
  BY <1>1, PowerFacts, SignedIsInt
<1>3. CASE kind \in {"udiv", "urem"}
  <2>1. b \in Nat \ {0}
    BY <1>3 DEF DivKind
  <2>2. a \div b \in Int /\ a % b \in Int
    BY <2>1, DivMod
  <2> QED
    BY <1>3, <2>2 DEF OnWords
<1>4. CASE kind \in {"sdiv", "srem"}
  <2>1. sb # 0
    BY <1>1, <1>4, SignedOfNonzero DEF DivKind, ShiftKind
  <2>2. Quotient(sa, sb) \in Int /\ Remainder(sa, sb) \in Int
    BY <1>2, <2>1, DivisionIsInt
  <2> QED
    BY <1>1, <1>4, <2>2 DEF OnWords
<1>5. CASE kind \in ShiftKind
  <2>1. PICK p \in Nat \ {0} : p = Pow2[b]
    BY <1>5, PowerFacts
  <2>2. a * p \in Int /\ a \div p \in Int /\ sa \div p \in Int
    BY <1>2
  <2> QED
    BY <1>1, <1>5, <2>1, <2>2 DEF OnWords, ShiftKind
<1>6. CASE kind \in {"and", "or", "xor"}
  <2>1. \A S : FromBits(S) \in Int
    BY FromBitsIsNat
  <2> QED
    BY <1>6, <2>1 DEF OnWords
<1>7. CASE kind \in {"add", "sub", "mul"}
  <2>1. a + b \in Int /\ a - b \in Int /\ a * b \in Int
    OBVIOUS
  <2> QED
    BY <1>7, <2>1 DEF OnWords
<1>8. CASE kind \in CondKind
  BY <1>8 DEF OnWords, Bit, CondKind
<1> QED
  BY <1>3, <1>4, <1>5, <1>6, <1>7, <1>8 DEF BopKind, DivKind, ShiftKind

(* To cut a word leaves a word.                                            *)
LEMMA CutIsWord ==
  ASSUME NEW w \in Word, NEW size \in Widths
  PROVE  w % Pow2[size] \in Word
<1>1. w \in 0 .. WordRange - 1 /\ WordRange \in Nat
  BY PowerFacts DEF Word
<1>2. PICK p \in Nat \ {0} : p = Pow2[size]
  BY PowerFacts, ArithmeticAssumption
<1>3. PICK r \in 0 .. p - 1, q \in Int : r = w % p /\ w = p * q + r
  <2>1. w \in Int
    BY <1>1
  <2>2. (w % p) \in 0 .. p - 1 /\ w \div p \in Int /\ w = p * (w \div p) + (w % p)
    BY <2>1, DivMod
  <2> QED
    BY <2>2
<1>4. q >= 0
  BY <1>1, <1>3
<1>5. p * q >= 0
  BY <1>4
<1>6. r <= w
  BY <1>3, <1>5
<1>7. w % Pow2[size] = r
  BY <1>2, <1>3
<1> QED
  BY <1>1, <1>6, <1>7 DEF Word

LEMMA OperandIsWord ==
  ASSUME NEW kind, NEW size \in Widths, NEW val \in Word
  PROVE  get_op1(kind, size, val) \in Word
<1>1. size \in 0 .. WIDTH /\ WordRange \in Nat \ {0} /\ val \in Int
  BY PowerFacts, ArithmeticAssumption DEF Word
<1>2. PICK s \in Int : s = SignedValue(val, size)
  BY <1>1, SignedIsInt
<1>3. (s % WordRange) \in 0 .. WordRange - 1
  BY <1>1, DivMod
<1> QED
  BY <1>2, <1>3, CutIsWord DEF get_op1, Word

LEMMA ComputeIsWord ==
  ASSUME NEW kind \in BopKind \cup CondKind, NEW size \in Widths,
         NEW x \in Word, NEW y \in Word, ~DividesByZero(kind, size, y)
  PROVE  compute(kind, size, x, y) \in Word
<1>1. PICK a, b : a = get_op1(kind, size, x) /\ b = get_op2(kind, size, y)
  OBVIOUS
<1>2. /\ size \in Nat \ {0} /\ size <= WIDTH /\ WIDTH \in Nat
      /\ y \in Nat /\ WordRange \in Nat \ {0} /\ Word \subseteq Nat
  BY PowerFacts, ArithmeticAssumption DEF Word
<1>3. a \in Nat
  BY <1>1, <1>2, OperandIsWord
<1>4. kind \in ShiftKind => b \in 0 .. WIDTH
  <2>1. (y % size) \in 0 .. size - 1
    BY <1>2, DivMod
  <2> QED
    BY <1>1, <1>2, <2>1 DEF get_op2
<1>5. kind \notin ShiftKind => b \in Word
  BY <1>1, OperandIsWord DEF get_op2
<1>6. kind \in DivKind => b # 0
  BY <1>1 DEF DividesByZero
<1>7. b \in Nat
  <2>1. 0 .. WIDTH \subseteq Nat
    OBVIOUS
  <2> QED
    BY <1>2, <1>4, <1>5, <2>1
<1>8. PICK w \in Int : w = OnWords(kind, a, b)
  BY <1>3, <1>4, <1>5, <1>6, <1>7, OnWordsIsInt
<1>9. w % WordRange \in Word
  BY <1>2, DivMod DEF Word
<1> QED
  BY <1>1, <1>8, <1>9, CutIsWord DEF compute

(* A word has WORD digits: there is a power of BYTE for each of them.      *)
LEMMA BytePowers ==
  \E power :
    /\ power[0] = 1
    /\ \A i \in 0 .. WORD : power[i] \in Nat \ {0} /\ power[i] <= WordRange
    /\ \A i \in 1 .. WORD : power[i] = power[i - 1] * BYTE
<1>1. PICK bits \in 1 .. WIDTH : BYTE = Pow2[bits] /\ WORD * bits = WIDTH
  BY MachineAssumption
<1>2. WIDTH \in Nat \ {0} /\ WORD \in Nat \ {0} /\ bits \in Nat \ {0}
  BY PowerFacts, HeapAssumption
<1>3. ASSUME NEW i \in 0 .. WORD
      PROVE  i * bits \in 0 .. WIDTH /\ (WORD - i) * bits \in 0 .. WIDTH
             /\ i * bits + (WORD - i) * bits = WIDTH
  <2>1. PICK j \in Nat : j = WORD - i
    BY <1>2
  <2>2. i + j = WORD /\ i \in Nat
    BY <1>2, <2>1
  <2>3. (i + j) * bits = i * bits + j * bits
    BY <1>2, <2>2
  <2>4. i * bits \in Nat /\ j * bits \in Nat
    BY <1>2, <2>2
  <2>5. i * bits + j * bits = WIDTH
    BY <1>1, <2>2, <2>3
  <2> QED
    BY <1>2, <2>1, <2>4, <2>5
<1> DEFINE power == [i \in 0 .. WORD |-> Pow2[i * bits]]
<1>4. power[0] = 1
  <2>1. 0 * bits = 0 /\ 0 \in 0 .. WORD
    BY <1>2
  <2> QED
    BY <2>1, PowerFacts DEF IsPow2
<1>5. ASSUME NEW i \in 0 .. WORD
      PROVE  power[i] \in Nat \ {0} /\ power[i] <= WordRange
  <2>1. PICK m \in 0 .. WIDTH : m = i * bits
    BY <1>3
  <2>2. PICK n \in 0 .. WIDTH : n = (WORD - i) * bits
    BY <1>3
  <2>3. m + n = WIDTH
    BY <1>3, <2>1, <2>2
  <2>4. Pow2[WIDTH] = Pow2[m] * Pow2[n]
    BY <1>2, <2>3, PowerFacts, Pow2Plus
  <2>5. PICK p \in Nat \ {0}, q \in Nat \ {0} : p = Pow2[m] /\ q = Pow2[n]
    BY PowerFacts
  <2>6. p <= p * q
    OBVIOUS
  <2> QED
    BY <2>1, <2>4, <2>5, <2>6 DEF WordRange
<1>6. ASSUME NEW i \in 1 .. WORD
      PROVE  power[i] = power[i - 1] * BYTE
  <2>1. i \in 0 .. WORD /\ i - 1 \in 0 .. WORD /\ i \in Nat
    BY <1>2
  <2>2. PICK m \in 0 .. WIDTH : m = (i - 1) * bits
    BY <1>3, <2>1
  <2>3. m + bits = i * bits /\ m + bits \in 0 .. WIDTH
    <3>1. (i - 1) * bits = i * bits - bits /\ i * bits \in Int
      BY <1>2, <2>1
    <3> QED
      BY <1>2, <1>3, <2>1, <2>2, <3>1
  <2>4. Pow2[m + bits] = Pow2[m] * Pow2[bits]
    BY <1>2, <2>3, PowerFacts, Pow2Plus
  <2> QED
    BY <1>1, <2>1, <2>2, <2>3, <2>4
<1> HIDE DEF power
<1> QED
  BY <1>4, <1>5, <1>6

(* What has no more bytes than a word is a word.                           *)
LEMMA FewBytesAreWord ==
  ASSUME NEW val \in Nat, NEW size \in Sizes, Shifts(val)[size] = 0
  PROVE  val \in Word
<1>1. PICK power : /\ power[0] = 1
                   /\ \A i \in 0 .. WORD : power[i] \in Nat \ {0} /\ power[i] <= WordRange
                   /\ \A i \in 1 .. WORD : power[i] = power[i - 1] * BYTE
  BY BytePowers
<1>2. /\ size \in Nat \ {0} /\ size <= WORD /\ WORD \in Nat /\ BYTE \in Nat \ {0}
      /\ WordRange \in Nat
  BY HeapAssumption, MemoryAssumption, PowerFacts
<1> DEFINE T == {k \in 0 .. size : Shifts(val)[size - k] < power[k]}
<1>3. 0 \in T
  BY <1>1, <1>2
<1>4. ASSUME NEW k \in 1 .. size, k - 1 \in T
      PROVE  k \in T
  <2>1. PICK i \in 1 .. WORD : i = size - k + 1
    BY <1>2
  <2>2. size - (k - 1) = i /\ size - k = i - 1 /\ i - 1 \in 0 .. WORD /\ i \in 0 .. WORD
        /\ k - 1 \in 0 .. WORD /\ k \in 1 .. WORD /\ k \in 0 .. size
    BY <1>2, <2>1
  <2>3. PICK a \in Nat, b \in Nat : a = Shifts(val)[i] /\ b = Shifts(val)[i - 1]
    BY <2>2, ShiftsUnfold
  <2>4. a = b \div BYTE
    BY <2>3, ShiftsUnfold
  <2>5. PICK r \in 0 .. BYTE - 1 : b = BYTE * a + r
    <3>1. b \in Int
      OBVIOUS
    <3>2. (b % BYTE) \in 0 .. BYTE - 1 /\ b = BYTE * (b \div BYTE) + (b % BYTE)
      BY <1>2, <3>1, DivMod
    <3> QED
      BY <2>4, <3>2
  <2>6. PICK p \in Nat \ {0} : p = power[k - 1]
    BY <1>1, <2>2
  <2>7. a < p
    BY <1>4, <2>2, <2>3, <2>6
  <2>8. a * BYTE + r < p * BYTE
    BY <1>2, <2>7, ProductFits
  <2>9. BYTE * a = a * BYTE
    BY <1>2
  <2>10. power[k] = p * BYTE
    BY <1>1, <2>2, <2>6
  <2>11. b < power[k]
    BY <2>5, <2>8, <2>9, <2>10
  <2> QED
    BY <2>2, <2>3, <2>11
<1> HIDE DEF T
<1>5. 0 .. size \subseteq T
  BY <1>2, <1>3, <1>4, UpTo
<1>6. Shifts(val)[size - size] < power[size]
  BY <1>2, <1>5 DEF T
<1>7. Shifts(val)[0] = val /\ size - size = 0
  BY <1>2, ShiftsUnfold
<1>8. power[size] <= WordRange /\ power[size] \in Nat
  BY <1>1, <1>2
<1> QED
  BY <1>2, <1>6, <1>7, <1>8 DEF Word

-----------------------------------------------------------------------------
(* What the machine relies on in the operands of a statement: the literals *)
(* are words, the operands it reads are there, and the sizes are those of  *)
(* the machine.                                                            *)
WordOperand == {RegVal(r) : r \in Reg} \cup [kind : {"lit"}, n : Word]

WordStmt(s) ==
  /\ \A i \in DOMAIN s.vals : s.vals[i] \in WordOperand
  /\ s.op \in {"malloc", "free", "load", "ret"} => 1 \in DOMAIN s.vals
  /\ s.op \in {"store", "bop"} => {1, 2} \subseteq DOMAIN s.vals
  /\ s.op = "select" => {2, 3} \subseteq DOMAIN s.vals
  /\ s.op \in {"load", "store"} => s.ofs \in Nat
  /\ SizesTaken(s)

LEMMA LiteralsAreWords ==
  ASSUME NEW s, \A i \in DOMAIN s.vals : s.vals[i] \in Operand, WellFormed(s)
  PROVE  \A i \in DOMAIN s.vals : s.vals[i] \in WordOperand
<1>1. ConstRange = WordRange /\ WordRange \in Nat
  BY InterpreterAssumption, MachineAssumption, PowerFacts
<1>2. ASSUME NEW i \in DOMAIN s.vals, s.vals[i].kind = "lit"
      PROVE  s.vals[i].n < WordRange
  <2>1. s.vals[i].n \in Literals(s)
    BY <1>2 DEF Literals
  <2> QED
    BY <1>1, <2>1 DEF WellFormed
<1>3. ASSUME NEW i \in DOMAIN s.vals
      PROVE  s.vals[i] \in WordOperand
  <2>1. CASE s.vals[i] \in {RegVal(r) : r \in Reg}
    BY <2>1 DEF WordOperand
  <2>2. CASE s.vals[i] \in [kind : {"lit"}, n : Nat]
    <3>1. s.vals[i].n \in Word
      BY <1>1, <1>2, <2>2 DEF Word
    <3> QED
      BY <2>2, <3>1 DEF WordOperand
  <2> QED
    BY <2>1, <2>2 DEF Operand
<1> QED
  BY <1>3

(* The operands of a statement, as they are written.                       *)
LEMMA LineStmtOperands ==
  ASSUME NEW s \in LineStmt
  PROVE  /\ \A i \in DOMAIN s.vals : s.vals[i] \in Operand
         /\ s.op \in {"malloc", "free", "load"} => 1 \in DOMAIN s.vals
         /\ s.op = "ret" => s.vals = <<>> \/ 1 \in DOMAIN s.vals
         /\ s.op \in {"store", "bop"} => {1, 2} \subseteq DOMAIN s.vals
         /\ s.op = "select" => {2, 3} \subseteq DOMAIN s.vals
         /\ s.op \in {"load", "store"} => s.ofs \in Nat
<1>1. CASE s \in MemoryStmt
  <2>1. CASE s.op \in {"malloc", "free", "load"}
    <3>1. s.vals \in [1 .. 1 -> Operand] /\ (s.op = "load" => s.ofs \in Nat)
      BY <1>1, <2>1 DEF MemoryStmt
    <3> QED
      BY <2>1, <3>1
  <2>2. CASE s.op = "store"
    <3>1. s.vals \in [1 .. 2 -> Operand] /\ s.ofs \in Nat
      BY <1>1, <2>2 DEF MemoryStmt
    <3> QED
      BY <2>2, <3>1
  <2>3. CASE s.op \notin {"malloc", "free", "load", "store"}
    <3>1. s.vals = <<>> /\ s.op \in {"reset stack", "reset heap"}
      BY <1>1, <2>3 DEF MemoryStmt
    <3>2. DOMAIN <<>> = {}
      OBVIOUS
    <3>3. DOMAIN s.vals = {}
      BY <3>1, <3>2, Zenon
    <3> QED
      BY <3>1, <3>3
  <2> QED
    BY <2>1, <2>2, <2>3
<1>2. CASE s \in ArithmeticStmt
  <2>1. CASE s.op = "bop"
    <3>1. s.vals \in [1 .. 2 -> Operand]
      BY <1>2, <2>1 DEF ArithmeticStmt
    <3> QED
      BY <2>1, <3>1
  <2>2. CASE s.op = "select"
    <3>1. s.vals \in [1 .. 3 -> Operand]
      BY <1>2, <2>2 DEF ArithmeticStmt
    <3> QED
      BY <2>2, <3>1
  <2> QED
    <3>1. s.op \in {"bop", "select"}
      BY <1>2 DEF ArithmeticStmt
    <3> QED
      BY <2>1, <2>2, <3>1
<1>3. CASE s \in CallStmt
  <2>1. s.vals \in Seq(Operand) /\ s.op = "call"
    BY <1>3 DEF CallStmt
  <2>2. \A i \in DOMAIN s.vals : s.vals[i] \in Operand
    BY <2>1
  <2> QED
    BY <2>1, <2>2
<1>4. CASE s \in OutsideStmt
  BY <1>4 DEF OutsideStmt
<1>5. CASE s \in BranchStmt
  BY <1>5 DEF BranchStmt
<1>6. CASE s \in [op : {"ret"}, vals : {<<>>}]
  BY <1>6
<1>7. CASE s \notin MemoryStmt \cup ArithmeticStmt \cup CallStmt \cup OutsideStmt \cup BranchStmt
                     \cup [op : {"ret"}, vals : {<<>>}]
  <2>1. s.op = "switch" /\ s.vals \in [1 .. 1 -> Operand]
    BY <1>7 DEF LineStmt
  <2> QED
    BY <2>1
<1> QED
  BY <1>1, <1>2, <1>3, <1>4, <1>5, <1>6, <1>7

LEMMA NormalStmtWords ==
  ASSUME NEW s \in LineStmt, ~IsTerminator(s), WellFormed(s), SizesTaken(s)
  PROVE  WordStmt(parse_normal_stmt(s))
<1> DEFINE t == parse_normal_stmt(s)
<1>1. \A i \in DOMAIN s.vals : s.vals[i] \in WordOperand
  BY LineStmtOperands, LiteralsAreWords
<1>2. \/ t = [op |-> "read", lhs |-> s.lhs, vals |-> <<>>]
      \/ t = [op |-> "write", lhs |-> s.lhs, vals |-> s.vals]
      \/ t = s
  BY DEF parse_normal_stmt
<1> SUFFICES WordStmt(t)
  OBVIOUS
<1> HIDE DEF t
<1>3. CASE t = [op |-> "read", lhs |-> s.lhs, vals |-> <<>>]
  BY <1>3 DEF WordStmt, SizesTaken
<1>4. CASE t = [op |-> "write", lhs |-> s.lhs, vals |-> s.vals]
  BY <1>1, <1>4 DEF WordStmt, SizesTaken
<1>5. CASE t = s
  BY <1>1, <1>5, LineStmtOperands DEF WordStmt, IsTerminator, TerminatorOp
<1> QED
  BY <1>2, <1>3, <1>4, <1>5

LEMMA TerminatorWords ==
  ASSUME NEW s \in LineStmt, IsTerminator(s), WellFormed(s), SizesTaken(s)
  PROVE  WordStmt(parse_terminator(s))
<1> DEFINE t == parse_terminator(s)
<1>1. \A i \in DOMAIN s.vals : s.vals[i] \in WordOperand
  BY LineStmtOperands, LiteralsAreWords
<1>2. \/ s.op = "ret" /\ t = [op |-> "ret", vals |-> <<LitVal(0)>>]
      \/ t.op = "switch" /\ t.vals = s.vals
      \/ t = s /\ ~(s.op = "ret" /\ s.vals = <<>>)
  BY DEF parse_terminator
<1> SUFFICES WordStmt(t)
  OBVIOUS
<1> HIDE DEF t
<1>3. CASE t = [op |-> "ret", vals |-> <<LitVal(0)>>]
  <2>1. LitVal(0) \in WordOperand
    BY PowerFacts DEF LitVal, WordOperand, Word
  <2> QED
    BY <1>3, <2>1 DEF WordStmt, SizesTaken
<1>4. CASE t.op = "switch" /\ t.vals = s.vals
  BY <1>1, <1>4 DEF WordStmt, SizesTaken
<1>5. CASE t = s /\ ~(s.op = "ret" /\ s.vals = <<>>)
  BY <1>1, <1>5, LineStmtOperands DEF WordStmt
<1> QED
  BY <1>2, <1>3, <1>4, <1>5

(* An operand that may be read has a word for value.                       *)
LEMMA ValueIsWord ==
  ASSUME regs \in [Reg -> Word], NEW v \in WordOperand
  PROVE  get_value(v) \in Word
<1>1. CASE v \in [kind : {"lit"}, n : Word]
  BY <1>1 DEF get_value
<1>2. CASE v \in {RegVal(r) : r \in Reg}
  BY <1>2 DEF get_value, RegVal
<1> QED
  BY <1>1, <1>2 DEF WordOperand

-----------------------------------------------------------------------------
(* The statements the parser has made.                                     *)
CodeWords == \A n \in DOMAIN code : WordStmt(code[n])

LEMMA NewCodeWords ==
  ASSUME CodeWords, NEW s, WordStmt(s), New(s)
  PROVE  CodeWords'
BY InsertLemma DEF CodeWords, New, insert

LEMMA ReadLineWords ==
  ASSUME ParserInv, CodeWords, ReadLine
  PROVE  CodeWords'
<1>1. ~AtEnd /\ Accepts(LineRead)
  BY DEF ReadLine
<1>2. CASE UNCHANGED code
  BY <1>2 DEF CodeWords
<1>3. LineRead.kind = "statement" => LineRead.stmt \in LineStmt /\ SizesTaken(LineRead.stmt)
  <2>1. file \in Files /\ line + 1 \in DOMAIN file
    <3>1. file \in Files /\ file \in Seq(Range(file)) /\ line \in 0 .. Len(file) /\ line # Len(file)
      BY <1>1, ParserAssumption DEF ParserInv, FileOK, AtEnd
    <3>2. PICK L \in Nat : L = Len(file) /\ DOMAIN file = 1 .. L
      BY <3>1
    <3>3. line + 1 \in 1 .. L
      BY <3>1, <3>2, NextPlace
    <3> QED
      BY <3>1, <3>2, <3>3
  <2> QED
    BY <1>1, <2>1, LineReadLemma, InterpreterAssumption DEF LineRead
<1>4. CASE FirstStatement(LineRead) \/ Statement(LineRead)
  <2>1. IsNormal(LineRead) /\ New(parse_normal_stmt(LineRead.stmt)) /\ WellFormed(LineRead.stmt)
    BY <1>1, <1>4 DEF FirstStatement, Statement, Accepts, IsNormal
  <2>2. WordStmt(parse_normal_stmt(LineRead.stmt))
    BY <1>3, <2>1, NormalStmtWords DEF IsNormal
  <2> QED
    BY <2>1, <2>2, NewCodeWords
<1>5. CASE OnlyTerminator(LineRead) \/ Terminator(LineRead)
  <2>1. IsEnd(LineRead) /\ New(parse_terminator(LineRead.stmt)) /\ WellFormed(LineRead.stmt)
    BY <1>1, <1>5 DEF OnlyTerminator, Terminator, Accepts, IsEnd
  <2>2. WordStmt(parse_terminator(LineRead.stmt))
    BY <1>3, <2>1, TerminatorWords DEF IsEnd
  <2> QED
    BY <2>1, <2>2, NewCodeWords
<1>6. CASE ~(FirstStatement(LineRead) \/ Statement(LineRead)
             \/ OnlyTerminator(LineRead) \/ Terminator(LineRead))
  <2>1. UNCHANGED code
    BY <1>6 DEF ReadLine, Blank, StartFunction, FirstLabel, NextLabel, EndFunction, programVars
  <2> QED
    BY <1>2, <2>1
<1> QED
  BY <1>4, <1>5, <1>6

-----------------------------------------------------------------------------
(* The registers hold words, and the memory is sound for as long as the    *)
(* program runs: the two depend on each other, since addresses and sizes   *)
(* come from registers and loads go to them.                               *)
MemorySound == status = "running" => HeapInv /\ BlocksAligned /\ TypeOK

WordsInv ==
  /\ CodeWords
  /\ regs \in [Reg -> Word]
  /\ \A i \in DOMAIN frames : frames[i].old \in RegFile
  /\ MemorySound

LEMMA AddressIsWord == Addr = Word /\ Word \subseteq Nat /\ 0 \in Word
BY MachineAssumption, PowerFacts DEF Addr, Word

LEMMA InitWords == InterpreterInit => WordsInv
<1> SUFFICES ASSUME InterpreterInit PROVE WordsInv
  OBVIOUS
<1>1. /\ Init /\ frames = <<>> /\ code = <<>>
      /\ regs = [ZeroRegs EXCEPT ![RegSp] = STACK_MAX]
  BY DEF InterpreterInit, MachineInit, ParserInit, ProgramInit
<1>2. STACK_MAX \in Word
  BY AddrFacts, AddressIsWord
<1>3. regs \in [Reg -> Word]
  BY <1>1, <1>2, AddressIsWord DEF ZeroRegs
<1>4. MemorySound
  BY <1>1, InitHeapInv, InitAligned, InitTypeOK DEF MemorySound, Init
<1>5. CodeWords
  BY <1>1 DEF CodeWords
<1> QED
  BY <1>1, <1>3, <1>4, <1>5 DEF WordsInv

LEMMA NargsType ==
  ASSUME InterpreterInv
  PROVE  nargs \in 0 .. NREG
<1>1. CASE frames = <<>>
  BY <1>1, ProgramAssumption DEF InterpreterInv, NargsOK
<1>2. CASE frames # <<>>
  <2>1. Top.function \in DOMAIN functions
    BY <1>2, FramesFacts DEF FrameOK
  <2> QED
    BY <1>2, <2>1 DEF InterpreterInv, NargsOK, ParserInv, FunctionsOK
<1> QED
  BY <1>1, <1>2

(* The statement that runs and its operands.                               *)
LEMMA StmtWords ==
  ASSUME InterpreterInv, WordsInv, Running
  PROVE  /\ WordStmt(Stmt)
         /\ \A i \in DOMAIN Stmt.vals : Val(i) \in Word
         /\ HeapInv /\ BlocksAligned /\ TypeOK
<1>1. WordStmt(Stmt)
  BY RunningFacts DEF WordsInv, CodeWords, Stmt
<1>2. \A i \in DOMAIN Stmt.vals : Val(i) \in Word
  BY <1>1, ValueIsWord DEF WordsInv, WordStmt, Val
<1> QED
  BY <1>1, <1>2 DEF WordsInv, MemorySound, Running

LEMMA AddressType ==
  ASSUME InterpreterInv, WordsInv, Running, NEW i \in DOMAIN Stmt.vals,
         Stmt.op \in {"load", "store"}
  PROVE  Address(i) \in Addr /\ Stmt.size \in Sizes
<1>1. Val(i) \in Nat /\ Stmt.ofs \in Nat /\ Stmt.size \in Sizes
  BY StmtWords, AddressIsWord DEF WordStmt, SizesTaken
<1>2. AddrSpace \in Nat \ {0}
  BY MachineAssumption, PowerFacts
<1>3. PICK a \in Int : a = Val(i) + Stmt.ofs
  BY <1>1
<1>4. (a % AddrSpace) \in 0 .. AddrSpace - 1
  BY <1>2, DivMod
<1> QED
  BY <1>1, <1>3, <1>4 DEF Address, Addr

(* While the program goes on, its steps are steps of the memory.           *)
LEMMA MemoryOfStep ==
  ASSUME InterpreterInv, WordsInv, [InterpreterNext]_interpreterVars, status' = "running"
  PROVE  AnyStep /\ status = "running"
<1>1. CASE UNCHANGED vars
  BY <1>1 DEF AnyStep, vars
<1>2. ASSUME NEW why, StopWith(why), why # "running"
      PROVE  FALSE
  BY <1>2 DEF StopWith
<1>3. CASE ExecMalloc
  <2>1. Running /\ Stmt.op = "malloc" /\ Malloc(Val(1))
    BY <1>3 DEF ExecMalloc, Exec
  <2>2. Val(1) \in Nat
    BY <2>1, StmtWords, AddressIsWord DEF WordStmt
  <2> QED
    BY <2>1, <2>2 DEF AnyStep, Running
<1>4. CASE ExecFree
  <2>1. Running /\ Stmt.op = "free" /\ Free(Val(1))
    BY <1>4 DEF ExecFree, Exec
  <2>2. Val(1) \in Addr
    BY <2>1, StmtWords, AddressIsWord DEF WordStmt
  <2> QED
    BY <2>1, <2>2 DEF AnyStep, Running
<1>5. CASE ExecLoad
  <2>1. /\ Running /\ Stmt.op = "load"
        /\ LoadStack(Stmt.size, Address(1)) \/ LoadHeap(Stmt.size, Address(1))
    BY <1>5 DEF ExecLoad, Exec
  <2>2. Address(1) \in Addr /\ Stmt.size \in Sizes
    BY <2>1, StmtWords, AddressType DEF WordStmt
  <2> QED
    BY <2>1, <2>2 DEF AnyStep, Running
<1>6. CASE ExecStore
  <2>1. /\ Running /\ Stmt.op = "store"
        /\ \/ StoreStack(Stmt.size, Address(2), Val(1))
           \/ StoreHeap(Stmt.size, Address(2), Val(1))
    BY <1>6 DEF ExecStore, Exec
  <2>2. 1 \in DOMAIN Stmt.vals /\ 2 \in DOMAIN Stmt.vals
    BY <2>1, StmtWords DEF WordStmt
  <2>3. Address(2) \in Addr /\ Stmt.size \in Sizes /\ Val(1) \in Nat
    BY <2>1, <2>2, StmtWords, AddressType, AddressIsWord
  <2> QED
    BY <2>1, <2>3 DEF AnyStep, Running
<1>7. CASE ExecReset
  BY <1>7 DEF ExecReset, Exec, AnyStep, Running
<1>8. CASE MemoryStops
  <2>1. \/ StopWith("rejected") \/ StopWith("out of memory")
        \/ StopWith("host out of memory") \/ StopWith("undefined")
    BY <1>8 DEF MemoryStops, MallocInvalid, MallocOutOfMemory, HostOutOfMemory, FreeInvalid,
                AccessRejected, AccessWraps
  <2> QED
    BY <1>2, <2>1
<1>9. CASE HostStackOverflow \/ Finish \/ RuntimeError \/ HostTrap
  <2>1. StopWith("undefined") \/ StopWith("finished") \/ StopWith("rejected")
    BY <1>9 DEF HostStackOverflow, Finish, RuntimeError, HostTrap
  <2> QED
    BY <1>2, <2>1
<1>10. CASE ExecBop \/ ExecSelect \/ ExecRead \/ ExecWrite \/ ExecAssert \/ ExecBranch
            \/ ExecCall \/ ExecRet
  <2>1. UNCHANGED vars
    BY <1>10 DEF ExecBop, ExecSelect, ExecRead, ExecWrite, ExecAssert, ExecBranch, ExecCall,
                 ExecRet, Quiet
  <2> QED
    BY <1>1, <2>1
<1>11. CASE MachineNext
  BY <1>3, <1>4, <1>5, <1>6, <1>7, <1>8, <1>9, <1>10, <1>11 DEF MachineNext
<1>12. CASE ~MachineNext
  <2>1. UNCHANGED vars
    BY <1>12 DEF InterpreterNext, Start, machineVars, interpreterVars
  <2> QED
    BY <1>1, <2>1
<1> QED
  BY <1>11, <1>12

LEMMA MemoryStaysSound ==
  ASSUME InterpreterInv, WordsInv, [InterpreterNext]_interpreterVars
  PROVE  MemorySound'
<1> SUFFICES ASSUME status' = "running" PROVE HeapInv' /\ BlocksAligned' /\ TypeOK'
  BY DEF MemorySound
<1>1. AnyStep /\ HeapInv /\ BlocksAligned /\ TypeOK
  BY MemoryOfStep DEF WordsInv, MemorySound
<1> QED
  BY <1>1, AnyHeapInv, AnyAligned, AnyTypeOK

-----------------------------------------------------------------------------
(* What the statements write to the registers.                             *)
LEMMA WriteRegWord ==
  ASSUME NEW rf \in [Reg -> Word], NEW r, NEW v \in Word
  PROVE  write_reg(rf, r, v) \in [Reg -> Word]
BY DEF write_reg

LEMMA LhsWord ==
  ASSUME WordsInv, NEW v \in Word, SetLhs(v)
  PROVE  regs' \in [Reg -> Word]
BY WriteRegWord DEF WordsInv, SetLhs

LEMMA MallocReturnsWord ==
  ASSUME HeapInv, NEW size \in Nat, Malloc(size)
  PROVE  result' \in Word
<1>1. PICK b \in freed : result' = b.first
  BY DEF Malloc
<1>2. PICK lo \in Int, hi \in Int : lo = b.first /\ hi = b.second
  BY <1>1 DEF HeapInv, HeapTypeOK, Block
<1>3. HEAP_MIN <= lo /\ lo <= hi /\ hi <= HEAP_MAX
  BY <1>1, <1>2 DEF HeapInv, BlocksInHeap
<1>4. b.first \in Addr
  <2>1. HEAP_MIN \in Nat /\ HEAP_MAX \in 0 .. AddrSpace - 1 /\ AddrSpace \in Nat
    BY HeapAssumption, AddrFacts DEF Addr
  <2> QED
    BY <1>2, <1>3, <2>1 DEF Addr
<1> QED
  BY <1>1, <1>4, AddressIsWord

LEMMA LoadReturnsWord ==
  ASSUME HeapInv, BlocksAligned, TypeOK, NEW size \in Sizes, NEW addr \in Addr,
         LoadStack(size, addr) \/ LoadHeap(size, addr)
  PROVE  result' \in Word
<1>1. result' \in Nat /\ Shifts(result')[size] = 0
  BY LoadStackReads, LoadHeapReads
<1> QED
  BY <1>1, FewBytesAreWord

LEMMA RegistersOfStep ==
  ASSUME InterpreterInv, WordsInv, [InterpreterNext]_interpreterVars
  PROVE  regs' \in [Reg -> Word]
<1>1. CASE UNCHANGED regs
  BY <1>1 DEF WordsInv
<1>2. CASE ExecMalloc
  <2>1. Running /\ Stmt.op = "malloc" /\ Malloc(Val(1)) /\ SetLhs(result')
    BY <1>2 DEF ExecMalloc, Exec
  <2>2. Val(1) \in Nat /\ HeapInv
    BY <2>1, StmtWords, AddressIsWord DEF WordStmt
  <2>3. PICK v : v = result'
    OBVIOUS
  <2>4. v \in Word
    BY <2>1, <2>2, <2>3, MallocReturnsWord
  <2> QED
    BY <2>1, <2>3, <2>4, LhsWord
<1>3. CASE ExecLoad
  <2>1. /\ Running /\ Stmt.op = "load" /\ SetLhs(result')
        /\ LoadStack(Stmt.size, Address(1)) \/ LoadHeap(Stmt.size, Address(1))
    BY <1>3 DEF ExecLoad, Exec
  <2>2. Address(1) \in Addr /\ Stmt.size \in Sizes /\ HeapInv /\ BlocksAligned /\ TypeOK
    BY <2>1, StmtWords, AddressType DEF WordStmt
  <2>3. PICK v : v = result'
    OBVIOUS
  <2>4. v \in Word
    BY <2>1, <2>2, <2>3, LoadReturnsWord
  <2> QED
    BY <2>1, <2>3, <2>4, LhsWord
<1>4. CASE ExecBop
  <2>1. /\ Running /\ Stmt.op = "bop" /\ ~DividesByZero(Stmt.kind, Stmt.size, Val(2))
        /\ SetLhs(compute(Stmt.kind, Stmt.size, Val(1), Val(2)))
    BY <1>4 DEF ExecBop, Exec
  <2>2. 1 \in DOMAIN Stmt.vals /\ 2 \in DOMAIN Stmt.vals
    BY <2>1, StmtWords DEF WordStmt
  <2>3. Val(1) \in Word /\ Val(2) \in Word
    BY <2>1, <2>2, StmtWords
  <2>4. Stmt.kind \in BopKind \cup CondKind /\ Stmt.size \in Widths
    BY <2>1, StmtWords DEF WordStmt, SizesTaken
  <2>5. compute(Stmt.kind, Stmt.size, Val(1), Val(2)) \in Word
    BY <2>1, <2>3, <2>4, ComputeIsWord
  <2> QED
    BY <2>1, <2>5, LhsWord
<1>5. CASE ExecSelect
  <2>1. Running /\ Stmt.op = "select" /\ SetLhs(IF Val(1) # 0 THEN Val(2) ELSE Val(3))
    BY <1>5 DEF ExecSelect, Exec
  <2>2. 2 \in DOMAIN Stmt.vals /\ 3 \in DOMAIN Stmt.vals
    BY <2>1, StmtWords DEF WordStmt
  <2>3. Val(2) \in Word /\ Val(3) \in Word
    BY <2>1, <2>2, StmtWords
  <2> QED
    BY <2>1, <2>3, LhsWord
<1>6. CASE ExecRead
  <2>1. PICK n \in Inputs : SetLhs(n)
    BY <1>6 DEF ExecRead
  <2>2. n \in Word
    BY MachineAssumption
  <2> QED
    BY <2>1, <2>2, LhsWord
<1>7. CASE ExecWrite
  BY <1>7, AddressIsWord, LhsWord DEF ExecWrite
<1>8. CASE ExecCall
  <2>1. regs' = setup_args /\ Running
    BY <1>8 DEF ExecCall, Exec
  <2> QED
    BY <2>1, StmtWords DEF setup_args, WordsInv
<1>9. CASE ExecRet
  <2>1. /\ Running /\ Stmt.op = "ret"
        /\ regs' = write_reg(Caller.old.regs, CallStmtOfCaller.lhs, Val(1))
    BY <1>9 DEF ExecRet, Exec, Restored
  <2>2. Val(1) \in Word
    BY <2>1, StmtWords DEF WordStmt
  <2>3. Caller.old.regs \in [Reg -> Word]
    <3>1. Len(frames) - 1 \in DOMAIN frames
      BY <1>9, <2>1, RunningFacts, OneLess DEF ExecRet
    <3> QED
      BY <3>1 DEF WordsInv, Caller, RegFile
  <2> QED
    BY <2>1, <2>2, <2>3, WriteRegWord
<1>10. CASE MachineNext
  <2>1. \/ ExecMalloc \/ ExecLoad \/ ExecBop \/ ExecSelect \/ ExecRead \/ ExecWrite
        \/ ExecCall \/ ExecRet \/ UNCHANGED regs
    BY <1>10 DEF MachineNext, ExecFree, ExecStore, ExecReset, MemoryStops, ExecAssert, ExecBranch,
                 HostStackOverflow, Finish, RuntimeError, HostTrap, execVars
  <2> QED
    BY <1>1, <1>2, <1>3, <1>4, <1>5, <1>6, <1>7, <1>8, <1>9, <2>1
<1>11. CASE ~MachineNext
  <2>1. UNCHANGED regs
    BY <1>11 DEF InterpreterNext, Start, machineVars, execVars, interpreterVars
  <2> QED
    BY <1>1, <2>1
<1> QED
  BY <1>10, <1>11

(* What is saved of the registers.                                         *)
LEMMA FramesOfStep ==
  ASSUME InterpreterInv, WordsInv, [InterpreterNext]_interpreterVars
  PROVE  \A i \in DOMAIN frames' : frames'[i].old \in RegFile
<1>1. CurrRegFile \in RegFile
  BY NargsType DEF WordsInv, CurrRegFile, RegFile
<1>2. CASE UNCHANGED frames
  BY <1>2 DEF WordsInv
<1>3. CASE \E n : MovesTo(n)
  <2>1. PICK n : MovesTo(n)
    BY <1>3
  <2>2. PICK L, o : L = Len(frames) /\ o = Top.old
    OBVIOUS
  <2>3. /\ DOMAIN frames' = DOMAIN frames
        /\ frames'[L] = frame(Top.function, n, o)
        /\ \A i \in DOMAIN frames : i # L => frames'[i] = frames[i]
    BY <2>1, <2>2, MoveFrames
  <2>4. o \in RegFile
    <3>1. Len(frames) \in DOMAIN frames /\ Top = frames[Len(frames)]
      BY <2>1, RunningFacts DEF MovesTo
    <3> QED
      BY <2>2, <3>1 DEF WordsInv
  <2>5. frames'[L].old = o
    BY <2>3 DEF frame
  <2> QED
    BY <2>3, <2>4, <2>5 DEF WordsInv
<1>4. CASE ExecCall
  <2>1. PICK L, o, z : L = Len(frames) /\ o = CurrRegFile /\ z = [regs |-> ZeroRegs, nargs |-> 0]
    OBVIOUS
  <2>2. L \in Nat \ {0} /\ DOMAIN frames = 1 .. L
    BY <1>4, <2>1, RunningFacts DEF ExecCall, Exec
  <2>3. /\ DOMAIN frames' = 1 .. L + 1
        /\ frames'[L].old = o
        /\ frames'[L + 1].old = z
        /\ \A i \in 1 .. L : i # L => frames'[i] = frames[i]
    BY <1>4, <2>1, CallFrames DEF frame
  <2>4. z \in RegFile
    BY <2>1, AddressIsWord, ProgramAssumption DEF RegFile, ZeroRegs
  <2>5. \A i \in 1 .. L + 1 : i = L \/ i = L + 1 \/ (i \in 1 .. L /\ i # L)
    BY <2>2
  <2> QED
    BY <1>1, <2>1, <2>2, <2>3, <2>4, <2>5 DEF WordsInv
<1>5. CASE ExecRet
  <2>1. PICK K, o : K = Len(frames) - 1 /\ o = frames[K].old
    OBVIOUS
  <2>2. Len(frames) \in Nat /\ DOMAIN frames = 1 .. Len(frames)
    BY <1>5, RunningFacts DEF ExecRet, Exec
  <2>3. /\ K \in Nat \ {0}
        /\ DOMAIN frames' = 1 .. K
        /\ frames'[K].old = o
        /\ \A i \in 1 .. K : i # K => frames'[i] = frames[i]
    BY <1>5, <2>1, ReturnFrames DEF frame
  <2>4. \A i \in 1 .. K : i \in DOMAIN frames
    BY <2>1, <2>2, <2>3
  <2>5. K \in 1 .. K
    BY <2>3
  <2> QED
    BY <2>1, <2>3, <2>4, <2>5 DEF WordsInv
<1>6. CASE MachineNext
  BY <1>2, <1>3, <1>4, <1>5, <1>6, MachineShapes DEF execVars
<1>7. CASE Start
  <2>1. PICK o : o = CurrRegFile
    OBVIOUS
  <2>2. PICK first : first = get_first_bb(functions["main"])
    OBVIOUS
  <2>3. frames' = <<frame("main", first, o)>>
    BY <1>7, <2>1, <2>2 DEF Start
  <2>4. DOMAIN frames' = {1} /\ frames'[1] = frame("main", first, o)
    BY <2>3
  <2> QED
    BY <1>1, <2>1, <2>4 DEF frame
<1>8. CASE ~MachineNext /\ ~Start
  BY <1>2, <1>8 DEF InterpreterNext, machineVars, execVars, interpreterVars
<1> QED
  BY <1>6, <1>7, <1>8

LEMMA CodeOfStep ==
  ASSUME InterpreterInv, WordsInv, [InterpreterNext]_interpreterVars
  PROVE  CodeWords'
<1>1. CASE ReadLine
  BY <1>1, ReadLineWords DEF InterpreterInv, WordsInv
<1>2. CASE MachineNext
  <2>1. UNCHANGED code
    BY <1>2, MachineShapes DEF MovesTo, ExecCall, ExecRet, Exec, programVars
  <2> QED
    BY <2>1 DEF WordsInv, CodeWords
<1>3. CASE ~ReadLine /\ ~MachineNext
  <2>1. UNCHANGED code
    BY <1>3 DEF InterpreterNext, ParserNext, EndOfFile, SyntaxError, Start, programVars,
                interpreterVars
  <2> QED
    BY <2>1 DEF WordsInv, CodeWords
<1> QED
  BY <1>1, <1>2, <1>3

LEMMA WordsInvariant == InterpreterSpec => []WordsInv
<1>1. InterpreterInv /\ WordsInv /\ [InterpreterNext]_interpreterVars => WordsInv'
  BY CodeOfStep, RegistersOfStep, FramesOfStep, MemoryStaysSound DEF WordsInv
<1> QED
  BY <1>1, InitWords, InterpreterInvariant, PTL DEF InterpreterSpec

(* A register always holds a word and an activation's saved registers too: *)
(* whatever is computed is cut to its size (StmtBop::compute, stmt.cpp:232)*)
(* what is loaded has no more bytes than a register (memory.cpp:31-42),    *)
(* the parser takes no longer literal (parser.cpp:106-114), and the number *)
(* of arguments is never more than there are registers for them.           *)
THEOREM InterpreterTypeTheorem == InterpreterSpec => []InterpreterTypeOK
<1>1. InterpreterInv /\ WordsInv => InterpreterTypeOK
  <2> SUFFICES ASSUME InterpreterInv, WordsInv PROVE InterpreterTypeOK
    OBVIOUS
  <2>1. \A f \in DOMAIN functions : functions[f].nargs \in 0 .. NREG
    BY DEF InterpreterInv, ParserInv, FunctionsOK
  <2>2. DOMAIN next = DOMAIN code
    BY DEF InterpreterInv, ParserInv, CodeOK
  <2>3. \A i \in DOMAIN frames : frames[i].function \in DOMAIN functions
    BY DEF InterpreterInv, FramesOK, FrameOK
  <2> QED
    BY <2>1, <2>2, <2>3, NargsType DEF WordsInv, InterpreterTypeOK
<1> QED
  BY <1>1, InterpreterInvariant, WordsInvariant, PTL

(* What is proved of the memory for programs of bounded sizes and values   *)
(* holds under the interpreter, whatever the program asks for: while it    *)
(* runs blocks are apart, no byte is lost, and an access is served exactly *)
(* when all of it is in the stack or in one block (memory.cpp:80-221).     *)
THEOREM MemoryOfProgramTheorem ==
  InterpreterSpec =>
    [](status = "running" => /\ BlocksDisjoint /\ NoByteLost /\ FullyCoalesced
                             /\ AccessesChecked
                             /\ TypeOK)
<1>1. WordsInv /\ status = "running" =>
        BlocksDisjoint /\ NoByteLost /\ FullyCoalesced /\ AccessesChecked /\ TypeOK
  BY InvAccessesChecked DEF WordsInv, MemorySound, HeapInv
<1> QED
  BY <1>1, WordsInvariant, PTL

=============================================================================
