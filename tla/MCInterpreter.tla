--------------------------- MODULE MCInterpreter ---------------------------
(***************************************************************************)
(* Two general and two argument registers of four bits, a stack of four    *)
(* bytes, and files made of the lines below.                               *)
(***************************************************************************)
EXTENDS Interpreter

MCSizes == {1, 2}
MCWidths == {1, 4}
MCNothing == {}
MCInputs == {5}
MCFunctionNames == {"main", "f", "read", "write"}
MCBlockNames == {".a", ".b", "."}
MCWithoutLast(name) == "."

r1 == RegVal(0)
r2 == RegVal(1)
arg1 == RegVal(A1)
sp == RegVal(RegSp)
Lit(n) == LitVal(n)

call(lhs, f, vals) == [op |-> "call", lhs |-> lhs, fname |-> f, vals |-> vals]
bop(kind, size, x, y) == [op |-> "bop", lhs |-> 0, kind |-> kind, size |-> size, vals |-> <<x, y>>]

Normals == {
  [op |-> "malloc", lhs |-> 0, vals |-> <<Lit(2)>>],
  [op |-> "malloc", lhs |-> 1, vals |-> <<r1>>],
  [op |-> "free", vals |-> <<r1>>],
  [op |-> "load", lhs |-> 0, size |-> 2, vals |-> <<sp>>, ofs |-> 14],
  [op |-> "load", lhs |-> 1, size |-> 1, vals |-> <<r1>>, ofs |-> 1],
  [op |-> "store", size |-> 1, vals |-> <<sp, r1>>, ofs |-> 0],
  [op |-> "reset stack", vals |-> <<>>],
  [op |-> "reset heap", vals |-> <<>>],
  bop("add", 4, r1, Lit(15)),
  bop("sdiv", 4, Lit(8), r1),
  bop("sub", 4, sp, Lit(17)),
  [op |-> "select", lhs |-> RegSp, vals |-> <<r1, arg1, Lit(3)>>],
  [op |-> "select", lhs |-> A1, vals |-> <<r1, r1, r1>>],
  [op |-> "assert", vals |-> <<r1, Lit(0)>>],
  call(RegNone, "f", <<r1, r2, Lit(1)>>), call(A1, "f", <<Lit(7)>>),
  call(1, "main", <<>>),
  call(0, "read", <<>>), call(0, "read", <<r1>>), call(RegNone, "write", <<r1>>) }

Calls == {
  call(0, "f", <<r1>>), call(1, "f", <<Lit(7), sp>>) }

Terminators == {
  [op |-> "ret", vals |-> <<>>],
  [op |-> "ret", vals |-> <<arg1>>],
  [op |-> "br", bb |-> ".b", vals |-> <<>>],
  [op |-> "brcond", true_bb |-> ".a", false_bb |-> ".b", vals |-> <<r1>>],
  [op |-> "switch", default_bb |-> ".b", vals |-> <<r1>>, table |-> <<[val |-> 0, bb |-> "."]>>],
  [op |-> "switch", default_bb |-> ".b", vals |-> <<r1>>,
   table |-> <<[val |-> 0, bb |-> ".a"], [val |-> 0, bb |-> ".b"]>>] }

-----------------------------------------------------------------------------
(* The files.                                                              *)

Start_(f, n) == [kind |-> "start", name |-> f, nargs |-> n]
End_(f) == [kind |-> "end", name |-> f]
Label(b) == [kind |-> "label", name |-> b, glued |-> TRUE]
Line_(s) == [kind |-> "statement", stmt |-> s]
Stmts(S) == {Line_(s) : s \in S}

RetR1 == Line_([op |-> "ret", vals |-> <<r1>>])
Ret == Line_([op |-> "ret", vals |-> <<>>])

(* main alone: two statements and any terminator, a second block.          *)
Alone ==
  {<<Start_("main", 0), Label(".a"), m, n, t, Label(".b"), RetR1, End_("main")>> :
     m, n \in Stmts(Normals), t \in Stmts(Terminators)}

(* main with a call, before or after another statement; f with a statement *)
(* and any terminator.                                                     *)
Callers == {<<m, c>> : m \in Stmts(Normals), c \in Stmts(Calls)}
             \cup {<<c, m>> : m \in Stmts(Normals), c \in Stmts(Calls)}

WithCall ==
  {<<Start_("main", 0), Label(".a")>> \o c \o
   <<RetR1, End_("main"), Start_("f", k), Label(".a"), n, t, End_("f")>> :
     c \in Callers, k \in {1, 2}, n \in Stmts(Normals), t \in Stmts(Terminators)}

(* A good file, and every file that differs from it in one line.           *)
Good ==
  <<[kind |-> "blank"], Start_("f", 1), Label(".a"), Line_([op |-> "br", bb |-> ".b", vals |-> <<>>]),
    Label(".b"), RetR1, End_("f"), Start_("main", 0), Label(".b"),
    Line_(call(0, "f", <<r1>>)), Ret, End_("main")>>

AnyLine ==
  {[kind |-> "blank"], [kind |-> "other"]}
  \cup {Start_(f, n) : f \in {"main", "f", "read"}, n \in {0, 1, 3}}
  \cup {End_("main"), End_("f"), Label(".a"), [kind |-> "label", name |-> ".b", glued |-> FALSE]}
  \cup Stmts(Normals \cup Terminators)

AlmostGood ==
  {ReplaceAt(Good, i, l) : i \in DOMAIN Good, l \in AnyLine}
  \cup {InsertAt(Good, i, l) : i \in DOMAIN Good, l \in AnyLine}
  \cup {RemoveAt(Good, i) : i \in DOMAIN Good}

MCFiles == Alone \cup WithCall \cup AlmostGood

=============================================================================
