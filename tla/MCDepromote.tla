---------------------------- MODULE MCDepromote ----------------------------
(***************************************************************************)
(* Small functions for DepromoteRegisters, four registers and seven        *)
(* values.                                                                 *)
(***************************************************************************)
EXTENDS DepromoteRegisters

CONSTANTS a, b, c, d, e, p, q   \* values

MCInstruction == {a, b, c, d, e, p, q}
MCTimestep == 1 .. 10
MCUser == (1 .. 4) \X MCTimestep

Def(v) == Instr("move", <<>>, v)
Ret(v) == Instr("ret", <<v>>, None)

(* Entry: four values and an instruction on two of them.                   *)
Entry(before, instr) ==
  [phis |-> <<>>,
   code |-> before \o <<Def(a), Def(b), Def(c), Def(d)>> \o instr
              \o <<Instr("br", <<>>, None)>>,
   succs |-> <<2>>]

(* A loop with a phi.                                                      *)
Loop(first, again, instr) ==
  [phis |-> <<[def |-> p, from |-> (1 :> first) @@ (2 :> again)]>>,
   code |-> instr \o <<Instr("br", <<q>>, None)>>,
   succs |-> <<2, 3>>]

Exit(instr, v) == [phis |-> <<>>, code |-> instr \o <<Ret(v)>>, succs |-> <<>>]

EntryCode ==
  {<<Instr("gep", <<a, b>>, e)>>,
   <<Instr("op", <<c, a, b>>, e)>>,
   <<Instr("op", <<d, a>>, None), Instr("call", <<a>>, e)>>,
   <<Instr("gep", <<d, c>>, None), Instr("op", <<b, b>>, e)>>}

LoopCode ==
  {<<Instr("op", <<p, a>>, q)>>,
   <<Instr("gep", <<b, c>>, q)>>,
   <<Instr("op", <<d, b>>, None), Instr("move", <<e>>, q)>>,
   <<Instr("call", <<p>>, q), Instr("op", <<q, a, c>>, None), Instr("gep", <<d, p>>, None)>>}

ExitCode == {<<Instr("op", <<e, q>>, None)>>, <<Instr("op", <<a, b, c>>, None)>>,
             <<>>}

LoopPrograms ==
  {<<Entry(<<>>, x), Loop(e, g, y), Exit(z, a)>> :
     x \in EntryCode, y \in LoopCode, z \in ExitCode, g \in {q, p}}

SetRef == Instr("set_ref", <<>>, None)
SpillRef == Instr("spill_ref", <<>>, None)

(* With the stack pointer kept in the last register; in the loop it is     *)
(* spilled for a call, and the register may be filled with its argument.   *)
RefPrograms ==
  {<<Entry(<<SetRef>>, x),
     Loop(a, q, <<Instr("op", <<b, c>>, q), SpillRef, Instr("call", y, None)>>),
     Exit(z, q)>> :
     x \in {<<Instr("op", <<c, a, b>>, e)>>, <<Instr("gep", <<d, c>>, e)>>},
     y \in {<<>>, <<a>>, <<d>>}, z \in {<<>>, <<Instr("gep", <<e, a>>, None)>>}}

(* Pointers that are in no register.                                       *)
GlobalPrograms ==
  {<<Entry(before, <<Instr("gep_const", x, e)>>),
     Loop(a, q, <<Instr("gep_const", y, q), Instr("op", <<p, e>>, None)>>), Exit(<<>>, q)>> :
     before \in {<<>>, <<SetRef>>}, x \in {<<>>, <<b, a>>}, y \in {<<p>>}}

(* A diamond: either side is laid out before the join, whose phi takes a   *)
(* value of each.                                                          *)
DiamondPrograms ==
  {<<[Entry(<<>>, <<Instr("op", <<c, d>>, e)>>) EXCEPT
        !.code = SubSeq(@, 1, 5) \o <<Instr("br", <<e>>, None)>>, !.succs = <<2, 3>>],
     [phis |-> <<>>, code |-> <<Instr("op", x, q), Instr("br", <<>>, None)>>, succs |-> <<4>>],
     [phis |-> <<>>, code |-> <<Instr("gep", y, None), Instr("br", <<>>, None)>>, succs |-> <<4>>],
     [phis |-> <<[def |-> p, from |-> (2 :> q) @@ (3 :> v)]>>,
      code |-> <<Instr("op", <<d, p>>, None), Ret(p)>>, succs |-> <<>>]>> :
     x \in {<<a, b>>, <<c, c>>}, y \in {<<b, c>>, <<d, a>>}, v \in {None, a, d}}

(* One block with more values than registers, all used twice.              *)
LocalPrograms ==
  {<<[phis |-> <<>>,
      code |-> <<Def(a), Def(b), Def(c), Def(d), Instr("op", x, None), Instr("op", y, None),
                 Def(e), Instr("gep", x, q), Instr("op", y, None), Ret(v)>>,
      succs |-> <<>>]>> :
     x \in {<<a, b>>, <<d, c>>}, y \in {<<c, d>>, <<a, b, c>>}, v \in {e, q}}

(* Every function of these ends with its one return block.                 *)
PassingPrograms ==
  UNION {LoopPrograms, RefPrograms, GlobalPrograms, DiamondPrograms, LocalPrograms}

(* A call with two arguments that are not in a register yet, in a block    *)
(* that uses the values in the registers again.                            *)
CallPrograms ==
  {<<Entry(<<>>, <<Instr("op", <<c, d>>, e)>>),
     [phis |-> <<>>,
      code |-> <<Instr("op", x, None), Instr("call", y, q), Instr("op", x, None), Ret(q)>>,
      succs |-> <<>>]>> :
     x \in {<<b, c>>, <<b, c, d>>}, y \in {<<a, e>>, <<e, a>>, <<a, a>>}}

(* The reference stack pointer is spilled for a call with two arguments    *)
(* that are in no register.                                                *)
SpilledArgPrograms ==
  {<<Entry(<<SetRef>>, <<>>),
     [phis |-> <<>>, code |-> <<SpillRef, Instr("call", y, None), Ret(a)>>, succs |-> <<>>]>> :
     y \in {<<a, b>>, <<c, d>>}}

(* ... or for a call whose result another block uses.                      *)
SpilledResultPrograms ==
  {<<Entry(<<SetRef>>, <<SpillRef, Instr("call", y, e)>>), Exit(<<>>, e)>> :
     y \in {<<>>, <<d>>}}

(* An early return is laid out before another block.                       *)
EarlyReturnPrograms ==
  {<<[Entry(<<>>, <<Instr("op", <<c, d>>, e)>>) EXCEPT
        !.code = SubSeq(@, 1, 5) \o <<Instr("br", <<e>>, None)>>, !.succs = <<2, 3>>],
     Exit(<<>>, u), Exit(<<Instr("op", <<a, b>>, q)>>, v)>> :
     u \in {a, b, e}, v \in {q, a}}

=============================================================================
