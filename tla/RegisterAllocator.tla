------------------------- MODULE RegisterAllocator -------------------------
(***************************************************************************)
(* The register allocator of the back end (src/core/RegisterAllocator.cpp):*)
(* which IR value is in which register while a block is translated.        *)
(*                                                                         *)
(* The state of an allocator is one record.  The operators below are its   *)
(* methods, as functions from a state to the next, so that a client can    *)
(* call several of them in one step; Next lets a client call them in any   *)
(* order, as long as no assertion of the code fails.                       *)
(*                                                                         *)
(* ActiveSet is a heap ordered by NextAdvent.  A set stands for it: which  *)
(* of the allocations with the same NextAdvent is on top is left open.     *)
(***************************************************************************)
EXTENDS Integers, Sequences

CONSTANTS
  MAX_REG_N,        \* number of registers (16)
  Instruction,      \* the instructions that may be in a register
  User,             \* the instructions that may use one
  Timestep,         \* the positions of instructions in a block
  NO_MORE_ADVENT,   \* the NextAdvent of a value the block does not use again
  NoUser            \* nullptr

ASSUME AllocatorAssumption ==
  /\ MAX_REG_N \in Nat
  /\ Timestep \subseteq Nat
  /\ NO_MORE_ADVENT \in Nat
  /\ \A t \in Timestep : t < NO_MORE_ADVENT
  /\ NoUser \notin User

VARIABLE ra

Register == 1 .. MAX_REG_N

Allocation == [Source : Instruction, LastUser : User \cup {NoUser},
               RegId : Register, NextAdvent : Timestep \cup {0, NO_MORE_ADVENT}]

(* Mutant of NewAllocator: register 0 is pushed too.                       *)
NewAllocatorFromZero ==
  [FreeRegisters |-> [i \in 1 .. MAX_REG_N + 1 |-> i - 1],
   TempRegisters |-> {},
   ActiveSet     |-> {},
   CurrentUser   |-> NoUser]

(* The constructor pushes MAX_REG_N first: register 1 is on top.           *)
NewAllocator ==
  [FreeRegisters |-> [i \in Register |-> i],
   TempRegisters |-> {},
   ActiveSet     |-> {},
   CurrentUser   |-> NoUser]

HasFree(s) == s.FreeRegisters # <<>>
IsActive(s, source) == \E a \in s.ActiveSet : a.Source = source

(* request, when a register is free.                                       *)
request(s, source) ==
  [s EXCEPT !.FreeRegisters = Tail(@),
            !.ActiveSet = @ \cup {[Source |-> source, LastUser |-> NoUser,
                                   RegId |-> Head(s.FreeRegisters), NextAdvent |-> 0]}]

update(s, source, user, advent) ==
  [s EXCEPT !.ActiveSet =
     {IF a.Source = source
        THEN [a EXCEPT !.LastUser = user, !.NextAdvent = advent]
        ELSE a : a \in @}]

-----------------------------------------------------------------------------
(* Eviction.                                                               *)

(* Mutant of UsedNow: nothing is protected.                                *)
UsedNowNever(s, a) == FALSE

(* The current user has already taken a from its register.                 *)
UsedNow(s, a) == s.CurrentUser # NoUser /\ a.LastUser = s.CurrentUser

(* getVictim without a register: the one whose next advent is the latest   *)
(* of those the current user does not use.  None: the assertion fails.     *)
Victims(s) ==
  {a \in s.ActiveSet :
     /\ ~UsedNow(s, a)
     /\ \A c \in s.ActiveSet : ~UsedNow(s, c) => c.NextAdvent <= a.NextAdvent}

(* Mutant of evict: the register is not pushed back.                       *)
evictLeak(s, a) == [s EXCEPT !.ActiveSet = @ \ {a}]

evict(s, a) ==
  [s EXCEPT !.ActiveSet = @ \ {a},
            !.FreeRegisters = <<a.RegId>> \o @]

-----------------------------------------------------------------------------
(* Temporary registers.                                                    *)

(* requestTempRegister(), when a register is free.                         *)
requestTemp(s) ==
  [s EXCEPT !.FreeRegisters = Tail(@),
            !.TempRegisters = @ \cup {Head(s.FreeRegisters)}]

IsFreeRegister(s, r) == \E i \in DOMAIN s.FreeRegisters : s.FreeRegisters[i] = r

(* The stack without r: the others keep their order.                       *)
Without(stack, i) ==
  [j \in 1 .. Len(stack) - 1 |-> IF j < i THEN stack[j] ELSE stack[j + 1]]

(* requestTempRegister(r), when r is free.                                 *)
requestTempRegister(s, r) ==
  LET i == CHOOSE k \in DOMAIN s.FreeRegisters : s.FreeRegisters[k] = r
  IN [s EXCEPT !.FreeRegisters = Without(@, i),
               !.TempRegisters = @ \cup {r}]

giveUpTempRegister(s, r) ==
  [s EXCEPT !.TempRegisters = @ \ {r},
            !.FreeRegisters = <<r>> \o @]

reportUser(s, user) == [s EXCEPT !.CurrentUser = user]

-----------------------------------------------------------------------------
(* Any client.                                                             *)

Request(source) ==
  /\ HasFree(ra)
  /\ ~IsActive(ra, source)
  /\ ra' = request(ra, source)

Update(source, user, advent) ==
  /\ IsActive(ra, source)
  /\ ra' = update(ra, source, user, advent)

Evict == \E a \in Victims(ra) : ra' = evict(ra, a)

EvictRegister(r) ==
  /\ r \notin ra.TempRegisters
  /\ \E a \in ra.ActiveSet : a.RegId = r /\ ra' = evict(ra, a)

RequestTemp ==
  /\ HasFree(ra)
  /\ ra' = requestTemp(ra)

RequestTempRegister(r) ==
  /\ r \notin ra.TempRegisters
  /\ IsFreeRegister(ra, r)
  /\ ra' = requestTempRegister(ra, r)

GiveUpTempRegister(r) ==
  /\ r \in ra.TempRegisters
  /\ ra' = giveUpTempRegister(ra, r)

ReportUser(user) == ra' = reportUser(ra, user)

AllocatorInit == ra = NewAllocator

AllocatorNext ==
  \/ \E source \in Instruction : Request(source)
  \/ \E source \in Instruction, user \in User \cup {NoUser},
        advent \in Timestep \cup {NO_MORE_ADVENT} : Update(source, user, advent)
  \/ Evict
  \/ RequestTemp
  \/ \E r \in Register : \/ EvictRegister(r)
                         \/ RequestTempRegister(r)
                         \/ GiveUpTempRegister(r)
  \/ \E user \in User \cup {NoUser} : ReportUser(user)

AllocatorSpec == AllocatorInit /\ [][AllocatorNext]_ra

-----------------------------------------------------------------------------
AllocatorTypeOK ==
  ra \in [FreeRegisters : Seq(Register), TempRegisters : SUBSET Register,
          ActiveSet : SUBSET Allocation, CurrentUser : User \cup {NoUser}]

(* Whatever the order of requests, evictions and temporary registers       *)
(* (RegisterAllocator.cpp:92-176), a register is always in exactly one of  *)
(* FreeRegisters, TempRegisters and ActiveSet, once: it is neither lost    *)
(* nor given to two values.                                                *)
RegistersPartitioned ==
  /\ \A i, j \in DOMAIN ra.FreeRegisters :
       ra.FreeRegisters[i] = ra.FreeRegisters[j] => i = j
  /\ \A i \in DOMAIN ra.FreeRegisters :
       /\ ra.FreeRegisters[i] \notin ra.TempRegisters
       /\ \A a \in ra.ActiveSet : a.RegId # ra.FreeRegisters[i]
  /\ \A a, c \in ra.ActiveSet : a.RegId = c.RegId \/ a.Source = c.Source => a = c
  /\ \A a \in ra.ActiveSet : a.RegId \notin ra.TempRegisters
  /\ \A r \in Register : \/ IsFreeRegister(ra, r)
                         \/ r \in ra.TempRegisters
                         \/ \E a \in ra.ActiveSet : a.RegId = r

=============================================================================
