------------------------------ MODULE MCAccess ------------------------------
(***************************************************************************)
(* Blocks of up to three instructions of every kind, and blocks of five    *)
(* accesses that depend on each other in every way.                        *)
(***************************************************************************)
EXTENDS MemoryAccessPasses

I(kind, ops) == [kind |-> kind, ops |-> ops]

Phis == {I("phi", <<v>>) : v \in {AnAlloca, AGlobal, Other, 1, 2}}

(* The instructions there can be at place n of a block.                    *)
Operands(n) == {Other} \cup 1 .. n - 1
Pointers(n) == {AnAlloca, AMalloc, ALoad, Other} \cup 1 .. n - 1
AnyKind(n) ==
  {I("alloca", <<>>), I("alloca_bytes", <<Other>>), I("malloc", <<Other>>),
   I("load", <<AGlobal>>), I("load", <<AResult>>)}
  \cup {I(k, <<p>>) : k \in {"load", "address"}, p \in Pointers(n)}
  \cup {I("free", <<p>>) : p \in Pointers(n) \ {AnAlloca}}
  \cup {I(k, <<v>>) : k \in {"value", "call"}, v \in Operands(n)}
  \cup {I("store", <<v, p>>) : v \in Operands(n), p \in Pointers(n)}

(* Accesses to a local and to a block of the heap.                         *)
Accesses(n) ==
  {I("load", <<p>>) : p \in {AnAlloca, AMalloc}}
  \cup {I("store", <<v, p>>) : v \in 1 .. n - 1, p \in {AnAlloca, AMalloc}}
  \cup {I("call", <<>>)}

Short == AnyKind(1) \X AnyKind(2) \X AnyKind(3)
WithPhis == {b \in Phis \X (Phis \cup AnyKind(2)) \X AnyKind(3) : IsBlock(b)}
Long == Accesses(1) \X Accesses(2) \X Accesses(3) \X Accesses(4) \X Accesses(5)

MCBlocks == Short \cup Long \cup WithPhis \cup {<<>>}

=============================================================================
