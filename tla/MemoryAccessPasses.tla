------------------------- MODULE MemoryAccessPasses -------------------------
(***************************************************************************)
(* The passes about the order of memory accesses, one after the other as   *)
(* the compiler runs them (main.cpp:216-226, Backend.cpp:934).             *)
(* ReorderMemAccess works on a block of the source; the back end then      *)
(* writes a module of its own, with loads and stores of its stack slots in *)
(* between, and ResetPointer works on that.  Of the block nothing is left, *)
(* so that the walk of ResetPointer is any one.                            *)
(***************************************************************************)
EXTENDS ReorderMemAccess, ResetPointer

CONSTANTS
  MaxSaved,   \* bound of the model: savings that are counted
  MaxCalls    \* bound of the model: calls that have not returned

VARIABLE stage    \* "reorder", "reset"

accessVars == <<reorderVars, resetVars, stage>>

AccessInit ==
  /\ ReorderInit
  /\ ResetInit
  /\ stage = "reorder"

ReorderStep ==
  /\ stage = "reorder"
  /\ ReorderNext
  /\ UNCHANGED <<resetVars, stage>>

(* Backend::run, up to ResetPointer.                                       *)
Depromote ==
  /\ stage = "reorder"
  /\ Done
  /\ stage' = "reset"
  /\ insts' = <<>> /\ type' = <<>> /\ dom' = <<>> /\ newInsts' = <<>> /\ used' = {} /\ cnt' = <<>>
  /\ block' = "heap" /\ flag' = FALSE /\ at' = 0
  /\ UNCHANGED <<pc, resetVars>>

ResetStep ==
  /\ stage = "reset"
  /\ saved <= MaxSaved
  /\ Len(callers) <= MaxCalls
  /\ ResetNext
  /\ UNCHANGED <<reorderVars, stage>>

AccessNext == ReorderStep \/ Depromote \/ ResetStep

(* A pass keeps running until it is done.                                  *)
AccessSpec == AccessInit /\ [][AccessNext]_accessVars /\ WF_accessVars(ReorderStep)

=============================================================================
