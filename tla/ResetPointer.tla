---------------------------- MODULE ResetPointer ----------------------------
(***************************************************************************)
(* The pass that puts reset instructions between accesses to the two areas *)
(* of the memory (ResetPointer.cpp), and what they cost on the machine.    *)
(*                                                                         *)
(* The pass goes through a block once and decides at each access from what *)
(* it has seen so far, so that the scan and the run of the code are one    *)
(* walk here: the compiler sees the kind of each access, the machine its   *)
(* address.  An access costs by the distance of the head from it.  Right   *)
(* after a reset the access itself puts the head where it would be without *)
(* the reset, so that one head stands for the code with and without.       *)
(* Every function is scanned by itself, and so is every block.             *)
(***************************************************************************)
EXTENDS Integers, Sequences

CONSTANTS
  STACK_MAX,    \* where a reset of the stack puts the head (10240)
  HEAP_MIN,     \* where a reset of the heap puts it (20480)
  AddrSpace,    \* number of addresses (2^64)
  RESET         \* cost of a reset, in units of the cost per byte (5000)

ASSUME ResetAssumption ==
  /\ STACK_MAX \in Nat
  /\ HEAP_MIN \in Nat
  /\ AddrSpace \in Nat
  /\ RESET \in Nat
  /\ STACK_MAX < HEAP_MIN
  /\ HEAP_MIN < AddrSpace - 1
  /\ RESET <= HEAP_MIN - STACK_MAX

VARIABLES
  callers,  \* what the pass knows after each call that has not returned yet
  state,    \* what the pass knows of the access before: "stack", "heap", "unknown"
  head,     \* the head of the machine; NoHead before the first access
  saved     \* what the resets have saved up to now, in units of the cost per byte

resetVars == <<callers, state, head, saved>>

Area == {"stack", "heap"}
NoHead == AddrSpace - 1          \* (uint64_t) -1
Addresses(area) == IF area = "stack" THEN 0 .. STACK_MAX - 1 ELSE HEAP_MIN .. AddrSpace - 2
Origin(area) == IF area = "stack" THEN STACK_MAX ELSE HEAP_MIN

ResetInit ==
  /\ callers = <<>>
  /\ state = "unknown"
  /\ head = NoHead
  /\ saved = 0

dist(a, b) == IF a > b THEN a - b ELSE b - a

(* The access to addr in an area the pass can tell: a pointer whose origin *)
(* it finds is an alloca, a malloc or the constant address of a global.    *)
KnownAccess(area, addr) ==
  /\ addr \in Addresses(area)
  /\ saved' = IF state \in Area \ {area}
                THEN saved + dist(addr, head) - (RESET + dist(addr, Origin(area)))
                ELSE saved
  /\ state' = area
  /\ head' = addr
  /\ UNCHANGED callers

(* The access through any other pointer.                                   *)
UnknownAccess(area, addr) ==
  /\ addr \in Addresses(area)
  /\ state' = "unknown"
  /\ head' = addr
  /\ UNCHANGED <<callers, saved>>

(* Mutant of AfterCall: a call is taken for an instruction without effect. *)
AfterCallNoEffect == state

(* What the pass knows behind a call, but of malloc, free and alloca_bytes *)
(* which do not move the head.                                             *)
AfterCall == "unknown"

Call ==
  /\ callers' = Append(callers, AfterCall)
  /\ state' = "unknown"
  /\ UNCHANGED <<head, saved>>

Return ==
  /\ callers # <<>>
  /\ state' = callers[Len(callers)]
  /\ callers' = SubSeq(callers, 1, Len(callers) - 1)
  /\ UNCHANGED <<head, saved>>

(* Mutant of BlockStart: the scan goes on where that of the block in front *)
(* of it ended, wherever control comes from.                               *)
BlockStartContinue == {"stack", "heap", "unknown"}

(* What the pass knows at the start of a block.                            *)
BlockStart == {"unknown"}

NextBlock ==
  /\ state' \in BlockStart
  /\ UNCHANGED <<callers, head, saved>>

ResetNext ==
  \/ \E area \in Area : \E addr \in Addresses(area) :
       KnownAccess(area, addr) \/ UnknownAccess(area, addr)
  \/ Call
  \/ Return
  \/ NextBlock

ResetSpec == ResetInit /\ [][ResetNext]_resetVars

-----------------------------------------------------------------------------
(* The pass knows where the head is: a reset is only put where the head    *)
(* stands in the other area (ResetPointer.cpp:69-89).                      *)
StateIsRight ==
  state \in Area => head \in Addresses(state)

(* No reset makes the program slower: whatever the addresses, each one     *)
(* costs less than the way it saves the head (opcode.h:76, 2.0 for a reset *)
(* against 0.0004 a byte over the gap of 10240 between the areas).         *)
ResetsPay == saved >= 0

=============================================================================
