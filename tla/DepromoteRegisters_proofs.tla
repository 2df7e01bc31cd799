--------------------- MODULE DepromoteRegisters_proofs ----------------------
(***************************************************************************)
(* What is proved about DepromoteRegisters: the values that the emitted    *)
(* code finds in its registers and its slots are those it was meant to.    *)
(*                                                                         *)
(* The invariant (DepromoteInv) compares what the pass believes with what  *)
(* its output does.  Right: the register of each allocation holds its      *)
(* value, and is the one the value was last loaded into.  Safe: each value *)
(* defined so far is in a register, or in its slot, or needed no more; this *)
(* is the condition of evict (Backend.cpp:129-136), turned around.  Both   *)
(* are predicates of the record that the operators of the module work on,  *)
(* so that one lemma for each operator serves all the actions.  Which uses *)
(* are still to come (AdventMap) is tied to the place in the block by      *)
(* Pending.  HeldInv says that the operands of an instruction that reports *)
(* its user have the protection of that user.                              *)
(*                                                                         *)
(* Three hypotheses say which functions this is true of: OneReturn, a      *)
(* block that returns is the last one, since visitReturnInst clears        *)
(* nothing; for the operands OneArgument, since visitCallInst reports no   *)
(* user; and, where values are concerned, NeverSpilled, since the register *)
(* that addresses the slots is given to values for a spilled call.         *)
(* RefHeld is what NeverSpilled gives.  The runs earlyreturn and callargs  *)
(* and the programs SpilledArgPrograms and SpilledResultPrograms of        *)
(* MCDepromote show what happens without them.                             *)
(***************************************************************************)
EXTENDS DepromoteRegisters, Induction, TLAPS

-----------------------------------------------------------------------------
(***************************************************************************)
(* The register allocator alone: for any number of registers and any       *)
(* client, every register is free, temporary or allocated, and it is only  *)
(* one of the three.                                                       *)
(*                                                                         *)
(* Three lemmas say what the operations do to the SET of registers on the  *)
(* stack FreeRegisters; with them the steps need no sequences.             *)
(***************************************************************************)
Holds(stack, r) == \E i \in DOMAIN stack : stack[i] = r
Distinct(stack) == \A i, j \in DOMAIN stack : stack[i] = stack[j] => i = j

(* allocateNewRegister pops the top register, and it alone.                *)
LEMMA Pop ==
  ASSUME NEW stack \in Seq(Register), stack # <<>>, Distinct(stack)
  PROVE  /\ Tail(stack) \in Seq(Register)
         /\ Head(stack) \in Register
         /\ Distinct(Tail(stack))
         /\ \A r : Holds(Tail(stack), r) <=> Holds(stack, r) /\ r # Head(stack)
<1>1. Len(stack) \in Nat /\ Len(stack) >= 1 /\ DOMAIN stack = 1 .. Len(stack)
  OBVIOUS
<1>2. /\ Tail(stack) \in Seq(Register)
      /\ DOMAIN Tail(stack) = 1 .. Len(stack) - 1
      /\ \A i \in 1 .. Len(stack) - 1 : Tail(stack)[i] = stack[i + 1]
  BY <1>1
<1>3. Head(stack) = stack[1] /\ stack[1] \in Register
  BY <1>1
<1>4. Distinct(Tail(stack))
  BY <1>1, <1>2 DEF Distinct
<1>5. ASSUME NEW r, Holds(Tail(stack), r)
      PROVE  Holds(stack, r) /\ r # Head(stack)
  <2>1. PICK i \in 1 .. Len(stack) - 1 : stack[i + 1] = r
    BY <1>2, <1>5 DEF Holds
  <2>2. i + 1 \in DOMAIN stack /\ 1 \in DOMAIN stack /\ i + 1 # 1
    BY <1>1
  <2> QED BY <1>3, <2>1, <2>2 DEF Holds, Distinct
<1>6. ASSUME NEW r, Holds(stack, r), r # Head(stack)
      PROVE  Holds(Tail(stack), r)
  <2>1. PICK i \in DOMAIN stack : stack[i] = r
    BY <1>6 DEF Holds
  <2>2. i - 1 \in 1 .. Len(stack) - 1 /\ stack[(i - 1) + 1] = r
    BY <1>1, <1>3, <1>6, <2>1
  <2> QED BY <1>2, <2>2 DEF Holds
<1> QED BY <1>2, <1>3, <1>4, <1>5, <1>6

(* A register that is given back is pushed.                                *)
LEMMA Push ==
  ASSUME NEW stack \in Seq(Register), NEW r \in Register,
         Distinct(stack), ~Holds(stack, r)
  PROVE  /\ <<r>> \o stack \in Seq(Register)
         /\ Distinct(<<r>> \o stack)
         /\ \A q : Holds(<<r>> \o stack, q) <=> q = r \/ Holds(stack, q)
<1> DEFINE new == <<r>> \o stack
<1>1. Len(stack) \in Nat /\ DOMAIN stack = 1 .. Len(stack)
  OBVIOUS
<1>2. /\ new \in Seq(Register)
      /\ DOMAIN new = 1 .. Len(stack) + 1
      /\ new[1] = r
      /\ \A i \in 1 .. Len(stack) : new[i + 1] = stack[i]
  BY <1>1
<1> HIDE DEF new
<1>3. \A i \in DOMAIN new : i = 1 \/ (i - 1 \in DOMAIN stack /\ new[i] = stack[i - 1])
  <2> TAKE i \in DOMAIN new
  <2>1. i \in Nat /\ (i = 1 \/ i - 1 \in 1 .. Len(stack))
    BY <1>1, <1>2
  <2>2. (i - 1) + 1 = i
    BY <2>1
  <2> QED BY <1>1, <1>2, <2>1, <2>2
<1>4. Distinct(new)
  <2> SUFFICES ASSUME NEW i \in DOMAIN new, NEW j \in DOMAIN new, new[i] = new[j]
               PROVE  i = j
    BY DEF Distinct
  <2>1. i \in Nat /\ j \in Nat
    BY <1>1, <1>2
  <2>2. CASE i = 1 \/ j = 1
    BY <1>2, <1>3, <2>2 DEF Holds
  <2>3. CASE i # 1 /\ j # 1
    <3>1. i - 1 = j - 1
      BY <1>3, <2>3 DEF Distinct
    <3> QED BY <2>1, <3>1
  <2> QED BY <2>2, <2>3
<1>5. \A q : Holds(new, q) <=> q = r \/ Holds(stack, q)
  <2> TAKE q
  <2>1. Holds(new, q) => q = r \/ Holds(stack, q)
    BY <1>2, <1>3 DEF Holds
  <2>2. q = r => Holds(new, q)
    BY <1>1, <1>2 DEF Holds
  <2>3. ASSUME Holds(stack, q) PROVE Holds(new, q)
    <3>1. PICK i \in 1 .. Len(stack) : stack[i] = q
      BY <1>1, <2>3 DEF Holds
    <3>2. i + 1 \in DOMAIN new /\ new[i + 1] = q
      BY <1>1, <1>2, <3>1
    <3> QED BY <3>2 DEF Holds
  <2> QED BY <2>1, <2>2, <2>3
<1> QED BY <1>2, <1>4, <1>5 DEF new

(* requestTempRegister(RegId) takes the register it looks for off the      *)
(* stack, and puts every other one back.                                   *)
LEMMA TakeOut ==
  ASSUME NEW stack \in Seq(Register), NEW k \in DOMAIN stack, Distinct(stack)
  PROVE  /\ Without(stack, k) \in Seq(Register)
         /\ Distinct(Without(stack, k))
         /\ \A q : Holds(Without(stack, k), q) <=> Holds(stack, q) /\ q # stack[k]
<1> DEFINE new == Without(stack, k)
           from(j) == IF j < k THEN j ELSE j + 1
<1>1. Len(stack) \in Nat /\ DOMAIN stack = 1 .. Len(stack) /\ k \in 1 .. Len(stack)
  OBVIOUS
<1>2. /\ DOMAIN new = 1 .. Len(stack) - 1
      /\ \A j \in 1 .. Len(stack) - 1 : new[j] = stack[from(j)]
  BY <1>1 DEF Without
<1>3. \A j \in 1 .. Len(stack) - 1 : from(j) \in DOMAIN stack /\ from(j) # k
  BY <1>1
<1>4. new \in Seq(Register)
  <2>1. \A j \in 1 .. Len(stack) - 1 :
          (IF j < k THEN stack[j] ELSE stack[j + 1]) \in Register
    BY <1>1
  <2>2. Len(stack) - 1 \in Nat
    BY <1>1
  <2>3. new \in [1 .. Len(stack) - 1 -> Register]
    BY <2>1 DEF Without
  <2> QED BY <2>2, <2>3
<1> HIDE DEF new
<1>5. Distinct(new)
  <2> SUFFICES ASSUME NEW i \in 1 .. Len(stack) - 1, NEW j \in 1 .. Len(stack) - 1,
                      new[i] = new[j]
               PROVE  i = j
    BY <1>2 DEF Distinct
  <2>1. from(i) = from(j)
    <3> HIDE DEF from
    <3> QED BY <1>2, <1>3 DEF Distinct
  <2> QED BY <1>1, <2>1
<1>6. ASSUME NEW q, Holds(new, q)
      PROVE  Holds(stack, q) /\ q # stack[k]
  <2>1. PICK j \in 1 .. Len(stack) - 1 : new[j] = q
    BY <1>2, <1>6 DEF Holds
  <2> HIDE DEF from
  <2> QED BY <1>2, <1>3, <2>1 DEF Holds, Distinct
<1>7. ASSUME NEW q, Holds(stack, q), q # stack[k]
      PROVE  Holds(new, q)
  <2>1. PICK i \in 1 .. Len(stack) : stack[i] = q
    BY <1>1, <1>7 DEF Holds
  <2>2. i # k
    BY <1>7, <2>1
  <2>3. PICK j \in 1 .. Len(stack) - 1 : from(j) = i
    <3>1. CASE i < k
      <4>1. i \in 1 .. Len(stack) - 1 /\ from(i) = i
        BY <1>1, <3>1
      <4> QED BY <4>1
    <3>2. CASE ~(i < k)
      <4>1. i - 1 \in 1 .. Len(stack) - 1 /\ from(i - 1) = i
        BY <1>1, <2>2, <3>2
      <4> QED BY <4>1
    <3> QED BY <3>1, <3>2
  <2> HIDE DEF from
  <2> QED BY <1>2, <2>1, <2>3 DEF Holds
<1> QED BY <1>4, <1>5, <1>6, <1>7 DEF new

-----------------------------------------------------------------------------
(* The state of an allocator, and the partition as each method needs it.   *)

State ==
  [FreeRegisters : Seq(Register), TempRegisters : SUBSET Register,
   ActiveSet : SUBSET Allocation, CurrentUser : User \cup {NoUser}]

InUse(active, r) == \E a \in active : a.RegId = r

OneEach(active) ==
  \A a, c \in active : a.RegId = c.RegId \/ a.Source = c.Source => a = c

(* Each register is in one of the three places.                            *)
InOnePlace(free, temp, active) ==
  \A r \in Register :
    /\ Holds(free, r) \/ r \in temp \/ InUse(active, r)
    /\ ~(Holds(free, r) /\ r \in temp)
    /\ ~(Holds(free, r) /\ InUse(active, r))
    /\ ~(r \in temp /\ InUse(active, r))

Partition(s) ==
  /\ Distinct(s.FreeRegisters)
  /\ OneEach(s.ActiveSet)
  /\ InOnePlace(s.FreeRegisters, s.TempRegisters, s.ActiveSet)

(* Partition is RegistersPartitioned, of a state that has the right type.  *)
LEMMA PartitionMeaning ==
  ASSUME AllocatorTypeOK
  PROVE  ra \in State /\ (RegistersPartitioned <=> Partition(ra))
<1> DEFINE free == ra.FreeRegisters
<1>1. ra \in State
  BY DEF AllocatorTypeOK, State
<1>2. free \in Seq(Register) /\ ra.ActiveSet \subseteq Allocation
  BY <1>1 DEF State
<1>3. \A i \in DOMAIN free : free[i] \in Register
  BY <1>2
<1>4. \A a \in ra.ActiveSet : a.RegId \in Register
  BY <1>2 DEF Allocation
<1>5. ASSUME RegistersPartitioned PROVE Partition(ra)
  BY <1>5 DEF RegistersPartitioned, Partition, Distinct, OneEach, InOnePlace, InUse, Holds,
              IsFreeRegister
<1>6. ASSUME Partition(ra) PROVE RegistersPartitioned
  BY <1>3, <1>4, <1>6 DEF RegistersPartitioned, Partition, Distinct, OneEach, InOnePlace,
                          InUse, Holds, IsFreeRegister
<1> QED BY <1>1, <1>5, <1>6

(* A pushed register was in none of the other places any more: the common  *)
(* part of evict and giveUpTempRegister.                                   *)
LEMMA PushKeeps ==
  ASSUME NEW s \in State, Partition(s), NEW r \in Register, ~Holds(s.FreeRegisters, r),
         NEW temp, NEW active,
         \A q \in Register : q \in temp \/ InUse(active, q)
                               <=> (q \in s.TempRegisters \/ InUse(s.ActiveSet, q)) /\ q # r,
         \A q \in Register : ~(q \in temp /\ InUse(active, q))
  PROVE  /\ <<r>> \o s.FreeRegisters \in Seq(Register)
         /\ Distinct(<<r>> \o s.FreeRegisters)
         /\ InOnePlace(<<r>> \o s.FreeRegisters, temp, active)
<1>1. s.FreeRegisters \in Seq(Register) /\ Distinct(s.FreeRegisters)
  BY DEF State, Partition
<1>2. /\ <<r>> \o s.FreeRegisters \in Seq(Register)
      /\ Distinct(<<r>> \o s.FreeRegisters)
      /\ \A q : Holds(<<r>> \o s.FreeRegisters, q) <=> q = r \/ Holds(s.FreeRegisters, q)
  BY <1>1, Push
<1> QED BY <1>2 DEF Partition, InOnePlace

LEMMA RequestKeeps ==
  ASSUME NEW s \in State, Partition(s), HasFree(s), AllocatorAssumption,
         NEW source \in Instruction, ~IsActive(s, source)
  PROVE  request(s, source) \in State /\ Partition(request(s, source))
<1> DEFINE top == Head(s.FreeRegisters)
           new == [Source |-> source, LastUser |-> NoUser, RegId |-> top, NextAdvent |-> 0]
           t == request(s, source)
<1>1. s.FreeRegisters \in Seq(Register) /\ s.FreeRegisters # <<>> /\ Distinct(s.FreeRegisters)
  BY DEF State, Partition, HasFree
<1>2. /\ Tail(s.FreeRegisters) \in Seq(Register)
      /\ top \in Register
      /\ Distinct(Tail(s.FreeRegisters))
      /\ \A r : Holds(Tail(s.FreeRegisters), r) <=> Holds(s.FreeRegisters, r) /\ r # top
  BY <1>1, Pop
<1>3. Holds(s.FreeRegisters, top)
  <2>1. 1 \in DOMAIN s.FreeRegisters /\ top = s.FreeRegisters[1]
    BY <1>1
  <2> QED BY <2>1 DEF Holds
<1>4. new \in Allocation /\ new.RegId = top /\ new.Source = source
  BY <1>2 DEF Allocation
<1>5. /\ t.FreeRegisters = Tail(s.FreeRegisters)
      /\ t.TempRegisters = s.TempRegisters
      /\ t.ActiveSet = s.ActiveSet \cup {new}
      /\ t \in State
  BY <1>2, <1>4 DEF request, State
<1> HIDE DEF t, new
<1>6. \A r : InUse(t.ActiveSet, r) <=> InUse(s.ActiveSet, r) \/ r = top
  BY <1>4, <1>5 DEF InUse
<1>7. ~InUse(s.ActiveSet, top) /\ top \notin s.TempRegisters
  BY <1>2, <1>3 DEF Partition, InOnePlace
<1>8. OneEach(t.ActiveSet)
  BY <1>4, <1>5, <1>7 DEF OneEach, Partition, IsActive, InUse
<1>9. InOnePlace(t.FreeRegisters, t.TempRegisters, t.ActiveSet)
  BY <1>2, <1>3, <1>5, <1>6, <1>7 DEF Partition, InOnePlace
<1> QED BY <1>2, <1>5, <1>8, <1>9 DEF Partition, t

LEMMA UpdateKeeps ==
  ASSUME NEW s \in State, Partition(s), NEW source, NEW user \in User \cup {NoUser},
         NEW advent \in Timestep \cup {NO_MORE_ADVENT}
  PROVE  update(s, source, user, advent) \in State
         /\ Partition(update(s, source, user, advent))
<1> DEFINE upd(a) == IF a.Source = source
                       THEN [a EXCEPT !.LastUser = user, !.NextAdvent = advent]
                       ELSE a
           t == update(s, source, user, advent)
<1>1. \A a \in s.ActiveSet : a \in Allocation
  BY DEF State
<1>2. \A a \in s.ActiveSet :
        upd(a) \in Allocation /\ upd(a).RegId = a.RegId /\ upd(a).Source = a.Source
  BY <1>1 DEF Allocation
<1>3. /\ t.FreeRegisters = s.FreeRegisters
      /\ t.TempRegisters = s.TempRegisters
      /\ t.CurrentUser = s.CurrentUser
      /\ t.ActiveSet = {upd(a) : a \in s.ActiveSet}
  BY DEF update, State
<1> HIDE DEF upd
<1>4. t \in State
  <2>1. {upd(a) : a \in s.ActiveSet} \subseteq Allocation
    BY <1>2
  <2>2. t = [s EXCEPT !.ActiveSet = {upd(a) : a \in s.ActiveSet}]
    BY DEF update, upd
  <2> HIDE DEF t
  <2> QED BY <2>1, <2>2 DEF State
<1> HIDE DEF t
<1>5. \A r : InUse(t.ActiveSet, r) <=> InUse(s.ActiveSet, r)
  BY <1>2, <1>3 DEF InUse
<1>6. OneEach(t.ActiveSet)
  BY <1>2, <1>3 DEF OneEach, Partition
<1> QED BY <1>3, <1>4, <1>5, <1>6 DEF Partition, InOnePlace, t

LEMMA EvictKeeps ==
  ASSUME NEW s \in State, Partition(s), NEW a \in s.ActiveSet
  PROVE  evict(s, a) \in State /\ Partition(evict(s, a))
<1> DEFINE t == evict(s, a)
<1>1. a.RegId \in Register /\ s.ActiveSet \subseteq Allocation
  BY DEF State, Allocation
<1>2. InUse(s.ActiveSet, a.RegId) /\ ~Holds(s.FreeRegisters, a.RegId)
  BY <1>1 DEF InUse, Partition, InOnePlace
<1>3. /\ t.FreeRegisters = <<a.RegId>> \o s.FreeRegisters
      /\ t.TempRegisters = s.TempRegisters
      /\ t.ActiveSet = s.ActiveSet \ {a}
      /\ t.CurrentUser = s.CurrentUser
  BY DEF evict, State
<1>4. \A r : InUse(t.ActiveSet, r) <=> InUse(s.ActiveSet, r) /\ r # a.RegId
  BY <1>3 DEF InUse, Partition, OneEach
<1>5. a.RegId \notin s.TempRegisters
  BY <1>1, <1>2 DEF Partition, InOnePlace
<1> HIDE DEF t
<1>6. /\ t.FreeRegisters \in Seq(Register)
      /\ Distinct(t.FreeRegisters)
      /\ InOnePlace(t.FreeRegisters, t.TempRegisters, t.ActiveSet)
  <2>1. \A q \in Register : q \in t.TempRegisters \/ InUse(t.ActiveSet, q)
               <=> (q \in s.TempRegisters \/ InUse(s.ActiveSet, q)) /\ q # a.RegId
    BY <1>3, <1>4, <1>5
  <2>2. \A q \in Register : ~(q \in t.TempRegisters /\ InUse(t.ActiveSet, q))
    BY <1>3, <1>4 DEF Partition, InOnePlace
  <2>3. /\ <<a.RegId>> \o s.FreeRegisters \in Seq(Register)
        /\ Distinct(<<a.RegId>> \o s.FreeRegisters)
        /\ InOnePlace(<<a.RegId>> \o s.FreeRegisters, t.TempRegisters, t.ActiveSet)
    BY <1>1, <1>2, <2>1, <2>2, PushKeeps
  <2> QED BY <1>3, <2>3
<1>7. OneEach(t.ActiveSet)
  BY <1>3 DEF OneEach, Partition
<1>8. t \in State
  BY <1>1, <1>3, <1>6 DEF evict, State, t
<1> QED BY <1>6, <1>7, <1>8 DEF Partition, t

LEMMA RequestTempKeeps ==
  ASSUME NEW s \in State, Partition(s), HasFree(s)
  PROVE  requestTemp(s) \in State /\ Partition(requestTemp(s))
<1> DEFINE top == Head(s.FreeRegisters)
           t == requestTemp(s)
<1>1. s.FreeRegisters \in Seq(Register) /\ s.FreeRegisters # <<>> /\ Distinct(s.FreeRegisters)
  BY DEF State, Partition, HasFree
<1>2. /\ Tail(s.FreeRegisters) \in Seq(Register)
      /\ top \in Register
      /\ Distinct(Tail(s.FreeRegisters))
      /\ \A r : Holds(Tail(s.FreeRegisters), r) <=> Holds(s.FreeRegisters, r) /\ r # top
  BY <1>1, Pop
<1>3. Holds(s.FreeRegisters, top)
  <2>1. 1 \in DOMAIN s.FreeRegisters /\ top = s.FreeRegisters[1]
    BY <1>1
  <2> QED BY <2>1 DEF Holds
<1>4. /\ t.FreeRegisters = Tail(s.FreeRegisters)
      /\ t.TempRegisters = s.TempRegisters \cup {top}
      /\ t.ActiveSet = s.ActiveSet
      /\ t \in State
  BY <1>2 DEF requestTemp, State
<1> HIDE DEF t
<1>5. InOnePlace(t.FreeRegisters, t.TempRegisters, t.ActiveSet)
  BY <1>2, <1>3, <1>4 DEF Partition, InOnePlace
<1> QED BY <1>2, <1>4, <1>5 DEF Partition, t

LEMMA RequestTempRegisterKeeps ==
  ASSUME NEW s \in State, Partition(s), NEW r \in Register, IsFreeRegister(s, r)
  PROVE  requestTempRegister(s, r) \in State /\ Partition(requestTempRegister(s, r))
<1> DEFINE k == CHOOSE i \in DOMAIN s.FreeRegisters : s.FreeRegisters[i] = r
           t == requestTempRegister(s, r)
<1>1. s.FreeRegisters \in Seq(Register) /\ Distinct(s.FreeRegisters)
  BY DEF State, Partition
<1>2. k \in DOMAIN s.FreeRegisters /\ s.FreeRegisters[k] = r
  BY DEF IsFreeRegister
<1>3. /\ t.FreeRegisters = Without(s.FreeRegisters, k)
      /\ t.TempRegisters = s.TempRegisters \cup {r}
      /\ t.ActiveSet = s.ActiveSet
      /\ t.CurrentUser = s.CurrentUser
      /\ t = [s EXCEPT !.FreeRegisters = Without(@, k), !.TempRegisters = @ \cup {r}]
  BY DEF requestTempRegister, State
<1> HIDE DEF k, t
<1>4. /\ Without(s.FreeRegisters, k) \in Seq(Register)
      /\ Distinct(Without(s.FreeRegisters, k))
      /\ \A q : Holds(Without(s.FreeRegisters, k), q) <=> Holds(s.FreeRegisters, q) /\ q # r
  BY <1>1, <1>2, TakeOut
<1>5. t \in State
  BY <1>3, <1>4 DEF State
<1>6. Holds(s.FreeRegisters, r)
  BY <1>2 DEF Holds
<1>7. InOnePlace(t.FreeRegisters, t.TempRegisters, t.ActiveSet)
  BY <1>3, <1>4, <1>6 DEF Partition, InOnePlace
<1> QED BY <1>3, <1>4, <1>5, <1>7 DEF Partition, t

LEMMA GiveUpTempRegisterKeeps ==
  ASSUME NEW s \in State, Partition(s), NEW r \in s.TempRegisters
  PROVE  giveUpTempRegister(s, r) \in State /\ Partition(giveUpTempRegister(s, r))
<1> DEFINE t == giveUpTempRegister(s, r)
<1>1. r \in Register
  BY DEF State
<1>2. ~Holds(s.FreeRegisters, r) /\ ~InUse(s.ActiveSet, r)
  BY <1>1 DEF Partition, InOnePlace
<1>3. /\ t.FreeRegisters = <<r>> \o s.FreeRegisters
      /\ t.TempRegisters = s.TempRegisters \ {r}
      /\ t.ActiveSet = s.ActiveSet
      /\ t = [s EXCEPT !.FreeRegisters = <<r>> \o @, !.TempRegisters = @ \ {r}]
  BY DEF giveUpTempRegister, State
<1> HIDE DEF t
<1>4. /\ t.FreeRegisters \in Seq(Register)
      /\ Distinct(t.FreeRegisters)
      /\ InOnePlace(t.FreeRegisters, t.TempRegisters, t.ActiveSet)
  <2>1. \A q \in Register : q \in t.TempRegisters \/ InUse(t.ActiveSet, q)
               <=> (q \in s.TempRegisters \/ InUse(s.ActiveSet, q)) /\ q # r
    BY <1>2, <1>3
  <2>2. \A q \in Register : ~(q \in t.TempRegisters /\ InUse(t.ActiveSet, q))
    BY <1>3 DEF Partition, InOnePlace
  <2>3. /\ <<r>> \o s.FreeRegisters \in Seq(Register)
        /\ Distinct(<<r>> \o s.FreeRegisters)
        /\ InOnePlace(<<r>> \o s.FreeRegisters, t.TempRegisters, t.ActiveSet)
    BY <1>1, <1>2, <2>1, <2>2, PushKeeps
  <2> QED BY <1>3, <2>3
<1>5. t \in State
  BY <1>3, <1>4 DEF State
<1> QED BY <1>3, <1>4, <1>5 DEF Partition, t

LEMMA ReportUserKeeps ==
  ASSUME NEW s \in State, Partition(s), NEW user \in User \cup {NoUser}
  PROVE  reportUser(s, user) \in State /\ Partition(reportUser(s, user))
BY DEF reportUser, State, Partition

-----------------------------------------------------------------------------
AllocatorInv == ra \in State /\ Partition(ra)

LEMMA InitAllocatorInv == AllocatorInit => AllocatorInv
<1> SUFFICES ASSUME AllocatorInit PROVE AllocatorInv
  OBVIOUS
<1>1. MAX_REG_N \in Nat
  BY AllocatorAssumption DEF AllocatorAssumption
<1>2. /\ ra.FreeRegisters = [i \in 1 .. MAX_REG_N |-> i]
      /\ ra.TempRegisters = {}
      /\ ra.ActiveSet = {}
      /\ ra.CurrentUser = NoUser
      /\ ra = [FreeRegisters |-> ra.FreeRegisters, TempRegisters |-> ra.TempRegisters,
               ActiveSet |-> ra.ActiveSet, CurrentUser |-> ra.CurrentUser]
  BY DEF AllocatorInit, NewAllocator, Register
<1>3. ra.FreeRegisters \in Seq(Register)
  BY <1>1, <1>2 DEF Register
<1>4. ra \in State
  BY <1>2, <1>3 DEF State
<1>5. \A r \in Register : Holds(ra.FreeRegisters, r)
  BY <1>2 DEF Holds, Register
<1> QED BY <1>2, <1>4, <1>5 DEF AllocatorInv, Partition, Distinct, OneEach, InOnePlace, InUse

LEMMA NextAllocatorInv == AllocatorInv /\ [AllocatorNext]_ra => AllocatorInv'
<1> SUFFICES ASSUME AllocatorInv, [AllocatorNext]_ra PROVE AllocatorInv'
  OBVIOUS
<1> USE AllocatorAssumption
<1>1. ra \in State /\ Partition(ra)
  BY DEF AllocatorInv
<1>2. ASSUME NEW source \in Instruction, Request(source) PROVE AllocatorInv'
  BY <1>1, <1>2, RequestKeeps DEF Request, AllocatorInv
<1>3. ASSUME NEW source \in Instruction, NEW user \in User \cup {NoUser},
             NEW advent \in Timestep \cup {NO_MORE_ADVENT}, Update(source, user, advent)
      PROVE  AllocatorInv'
  BY <1>1, <1>3, UpdateKeeps DEF Update, AllocatorInv
<1>4. CASE Evict
  <2>1. PICK a \in Victims(ra) : ra' = evict(ra, a)
    BY <1>4 DEF Evict
  <2>2. a \in ra.ActiveSet
    BY DEF Victims
  <2> QED BY <1>1, <2>1, <2>2, EvictKeeps DEF AllocatorInv
<1>5. CASE RequestTemp
  BY <1>1, <1>5, RequestTempKeeps DEF RequestTemp, AllocatorInv
<1>6. ASSUME NEW r \in Register, EvictRegister(r) PROVE AllocatorInv'
  <2>1. PICK a \in ra.ActiveSet : ra' = evict(ra, a)
    BY <1>6 DEF EvictRegister
  <2> QED BY <1>1, <2>1, EvictKeeps DEF AllocatorInv
<1>7. ASSUME NEW r \in Register, RequestTempRegister(r) PROVE AllocatorInv'
  BY <1>1, <1>7, RequestTempRegisterKeeps DEF RequestTempRegister, AllocatorInv
<1>8. ASSUME NEW r \in Register, GiveUpTempRegister(r) PROVE AllocatorInv'
  BY <1>1, <1>8, GiveUpTempRegisterKeeps DEF GiveUpTempRegister, AllocatorInv
<1>9. ASSUME NEW user \in User \cup {NoUser}, ReportUser(user) PROVE AllocatorInv'
  BY <1>1, <1>9, ReportUserKeeps DEF ReportUser, AllocatorInv
<1>10. CASE UNCHANGED ra
  BY <1>1, <1>10 DEF AllocatorInv
<1> QED BY <1>2, <1>3, <1>4, <1>5, <1>6, <1>7, <1>8, <1>9, <1>10 DEF AllocatorNext

LEMMA AllocatorInvMeaning == AllocatorInv => AllocatorTypeOK /\ RegistersPartitioned
<1>1. AllocatorInv => AllocatorTypeOK
  BY DEF AllocatorInv, AllocatorTypeOK, State
<1> QED BY <1>1, PartitionMeaning DEF AllocatorInv

(* Every register handed to a value or given back is one the allocator     *)
(* has, and every user it reports one it was told (RegisterAllocator.h).   *)
THEOREM AllocatorTypeTheorem == AllocatorSpec => []AllocatorTypeOK
<1> QED BY AllocatorInvMeaning, InitAllocatorInv, NextAllocatorInv, PTL DEF AllocatorSpec

(* RegisterAllocator.cpp:92-176: whatever the client does, no register is  *)
(* lost and none is given to two values.                                   *)
THEOREM PartitionTheorem == AllocatorSpec => []RegistersPartitioned
<1> QED BY AllocatorInvMeaning, InitAllocatorInv, NextAllocatorInv, PTL DEF AllocatorSpec

-----------------------------------------------------------------------------
(* Concatenation, and flattening of sequences of sequences.                *)
LEMMA Joined ==
  ASSUME NEW S, NEW s \in Seq(S), NEW t \in Seq(S)
  PROVE  /\ s \o t \in Seq(S) /\ Len(s \o t) = Len(s) + Len(t)
         /\ \A i \in 1 .. Len(s) : (s \o t)[i] = s[i]
         /\ \A i \in 1 .. Len(t) : (s \o t)[Len(s) + i] = t[i]
<1>1. Len(s) \in Nat /\ Len(t) \in Nat
  OBVIOUS
<1> QED BY <1>1

(* A sequence of sequences, flattened, has the elements of those.          *)
LEMMA Flattened ==
  ASSUME NEW S, NEW N \in Nat, NEW ss \in [1 .. N -> Seq(S)]
  PROVE  FlattenSeq(ss) \in Seq(S)
<1>1. ss \in Seq(Seq(S)) /\ Len(ss) = N
  OBVIOUS
<1>2. CASE N = 0
  <2>1. ss = <<>> /\ Len(ss) = 0
    BY <1>1, <1>2
  <2>2. FlattenSeq(ss) = ss
    BY <2>1 DEF FlattenSeq
  <2>3. ss \in Seq(S)
    BY <2>1
  <2> QED BY <2>2, <2>3
<1>3. CASE N # 0
  <2> DEFINE Unfolds(f) == f = [i \in 1 .. N |-> IF i = 1 THEN ss[i] ELSE f[i - 1] \o ss[i]]
             step == [k \in 1 .. N - 1 |-> [s \in Seq(S) |-> s \o ss[k + 1]]]
  <2>1. N - 1 \in Nat /\ 1 \in 1 .. N /\ N \in 1 .. N
    BY <1>3
  <2>2. step \in [1 .. N - 1 -> [Seq(S) -> Seq(S)]]
    <3> SUFFICES ASSUME NEW k \in 1 .. N - 1, NEW s \in Seq(S) PROVE s \o ss[k + 1] \in Seq(S)
      OBVIOUS
    <3>1. k + 1 \in 1 .. N
      BY <2>1
    <3>2. ss[k + 1] \in Seq(S)
      BY <3>1
    <3> QED BY <3>2, Joined
  <2>3. PICK g \in [0 .. N - 1 -> Seq(S)] : Iterates(g, N - 1, ss[1], step)
    <3>1. ss[1] \in Seq(S)
      BY <2>1
    <3> HIDE DEF step
    <3> QED BY <2>1, <2>2, <3>1, IterateExists
  <2>4. \E f : Unfolds(f)
    <3> DEFINE f == [i \in 1 .. N |-> g[i - 1]]
    <3>1. ASSUME NEW i \in 1 .. N
          PROVE  f[i] = IF i = 1 THEN ss[i] ELSE f[i - 1] \o ss[i]
      <4>1. CASE i = 1
        BY <2>3, <4>1 DEF Iterates
      <4>2. CASE i # 1
        <5>1. i - 1 \in 1 .. N - 1 /\ i - 1 \in 1 .. N /\ i - 2 \in 0 .. N - 1
                  /\ (i - 1) + 1 = i
              /\ (i - 1) - 1 = i - 2
          BY <2>1, <4>2
        <5>2. g[i - 1] = step[i - 1][g[i - 2]]
          BY <2>3, <5>1 DEF Iterates
        <5>3. step[i - 1][g[i - 2]] = g[i - 2] \o ss[i]
          BY <2>3, <5>1
        <5>4. f[i] = g[i - 1] /\ f[i - 1] = g[i - 2]
          BY <5>1
        <5> QED BY <4>2, <5>2, <5>3, <5>4
      <4> QED BY <4>1, <4>2
    <3>2. f = [i \in 1 .. N |-> f[i]]
      OBVIOUS
    <3> HIDE DEF f
    <3>3. Unfolds(f)
      BY <3>1, <3>2
    <3> QED BY <3>3
  <2> DEFINE flat == CHOOSE f : Unfolds(f)
  <2>5. Unfolds(flat)
    BY <2>4
  <2>6. FlattenSeq(ss) = flat[N]
    BY <1>1, <1>3 DEF FlattenSeq
  <2> HIDE DEF flat
  <2> DEFINE T == {k \in 0 .. N : k = 0 \/ flat[k] \in Seq(S)}
  <2>7. 0 .. N \subseteq T
    <3>1. 0 \in T
      OBVIOUS
    <3>2. ASSUME NEW k \in 1 .. N, k - 1 \in T PROVE k \in T
      <4>1. ss[k] \in Seq(S)
        OBVIOUS
      <4>2. flat[k] = IF k = 1 THEN ss[k] ELSE flat[k - 1] \o ss[k]
        BY <2>5
      <4>3. CASE k = 1
        BY <4>1, <4>2, <4>3
      <4>4. CASE k # 1
        <5>1. flat[k - 1] \in Seq(S)
          BY <3>2, <4>4
        <5>2. flat[k - 1] \o ss[k] \in Seq(S)
          BY <4>1, <5>1, Joined
        <5>3. flat[k] \in Seq(S) /\ k \in 0 .. N
          BY <4>2, <4>4, <5>2
        <5> QED BY <5>3
      <4> QED BY <4>3, <4>4
    <3> HIDE DEF T
    <3> QED BY <3>1, <3>2, UpTo
  <2> QED BY <1>3, <2>1, <2>6, <2>7
<1> QED BY <1>2, <1>3

-----------------------------------------------------------------------------
(* The programs.                                                           *)
LEMMA OfItsRange ==
  ASSUME NEW s, s \in Seq(Range(s))
  PROVE  Len(s) \in Nat /\ DOMAIN s = 1 .. Len(s) /\ \A i \in DOMAIN s : s[i] \in Range(s)
<1>1. Len(s) \in Nat /\ DOMAIN s = 1 .. Len(s)
  OBVIOUS
<1> QED BY <1>1 DEF Range

(* A block is not empty, and ends with the last of its code.               *)
LEMMA BodyFacts ==
  ASSUME TypedProgram, NEW b \in Blocks
  PROVE  /\ Len(Body(b)) \in Nat /\ Len(Body(b)) > 0
         /\ DOMAIN Body(b) = 1 .. Len(Body(b))
         /\ Body(b)[Len(Body(b))] = Last(prog[b].code)
<1> DEFINE phis == prog[b].phis
           code == prog[b].code
           first == [i \in DOMAIN phis |-> Instr("phi", <<>>, phis[i].def)]
           S == {first[i] : i \in DOMAIN phis} \cup Range(code)
<1>1. phis \in Seq(Range(phis)) /\ code \in Seq(Range(code)) /\ code # <<>>
  BY DEF TypedProgram
<1> HIDE DEF phis, code
<1>2. /\ Len(phis) \in Nat /\ DOMAIN phis = 1 .. Len(phis)
      /\ Len(code) \in Nat /\ DOMAIN code = 1 .. Len(code)
  BY <1>1, OfItsRange
<1>3. first \in Seq(S) /\ Len(first) = Len(phis)
  BY <1>2
<1>4. code \in Seq(S) /\ Len(code) > 0
  <2>1. \A i \in 1 .. Len(code) : code[i] \in S
    BY <1>1, <1>2, OfItsRange
  <2>2. code = [i \in 1 .. Len(code) |-> code[i]]
    BY <1>1, <1>2
  <2>3. code \in [1 .. Len(code) -> S]
    BY <2>1, <2>2
  <2>4. code \in Seq(S)
    BY <1>2, <2>3
  <2> QED BY <1>1, <1>2, <2>4
<1> HIDE DEF first, S
<1>5. Body(b) = first \o code
  BY DEF Body, first, phis, code
<1>6. /\ first \o code \in Seq(S) /\ Len(first \o code) = Len(first) + Len(code)
      /\ (first \o code)[Len(first) + Len(code)] = code[Len(code)]
  <2>1. Len(code) \in 1 .. Len(code)
    BY <1>2, <1>4
  <2> QED BY <1>3, <1>4, <2>1, Joined
<1>7. Last(code) = code[Len(code)]
  BY DEF Last
<1>8. Len(Body(b)) \in Nat /\ DOMAIN Body(b) = 1 .. Len(Body(b))
  BY <1>5, <1>6
<1> QED BY <1>2, <1>3, <1>4, <1>5, <1>6, <1>7, <1>8 DEF code

(* A sequence is one of any set its elements are in.                       *)
LEMMA InSmallerSet ==
  ASSUME NEW S, NEW s, NEW T, s \in Seq(T), \A i \in 1 .. Len(s) : s[i] \in S
  PROVE  s \in Seq(S)
<1>1. Len(s) \in Nat /\ s = [i \in 1 .. Len(s) |-> s[i]]
  OBVIOUS
<1>2. s \in [1 .. Len(s) -> S]
  BY <1>1
<1> QED BY <1>1, <1>2

(* What is translated in b is used in b, by the analysis RAHelper.         *)
LEMMA PhiOperandsAppear ==
  ASSUME TypedProgram, PhisComplete, NEW b \in Blocks
  PROVE  PhiOperands(b) \in Seq({v \in Instruction : b \in AdventBlocks(v)})
<1> DEFINE S == {v \in Instruction : b \in AdventBlocks(v)}
           succs == prog[b].succs
           one(i, j) == IF FromHere(b, i, j) = None THEN <<>> ELSE <<FromHere(b, i, j)>>
           of(i) == [j \in DOMAIN prog[prog[b].succs[i]].phis |-> one(i, j)]
           all == [i \in DOMAIN prog[b].succs |-> FlattenSeq(of(i))]
<1>1. succs \in Seq(Blocks)
  BY DEF TypedProgram
<1>2. Len(succs) \in Nat /\ DOMAIN succs = 1 .. Len(succs)
          /\ \A i \in DOMAIN succs : succs[i] \in Blocks
  BY <1>1
<1>3. ASSUME NEW i \in DOMAIN succs PROVE FlattenSeq(of(i)) \in Seq(S)
  <2> DEFINE phis == prog[succs[i]].phis
  <2>1. succs[i] \in Blocks /\ succs[i] \in Range(succs)
    BY <1>2, <1>3 DEF Range
  <2>2. phis \in Seq(Range(phis))
    BY <2>1 DEF TypedProgram
  <2>3. Len(phis) \in Nat /\ DOMAIN phis = 1 .. Len(phis)
    <3> HIDE DEF phis
    <3> QED BY <2>2, OfItsRange
  <2>4. ASSUME NEW j \in DOMAIN phis PROVE one(i, j) \in Seq(S)
    <3>1. CASE FromHere(b, i, j) = None
      BY <3>1
    <3>2. CASE FromHere(b, i, j) # None
      <4>1. b \in DOMAIN phis[j].from /\ FromHere(b, i, j) = phis[j].from[b]
        BY <2>1, <2>4 DEF PhisComplete, FromHere
      <4>2. FromHere(b, i, j) \in Instruction
        BY <2>1, <2>4, <3>2 DEF PhisComplete, FromHere
      <4>3. b \in AdventBlocks(FromHere(b, i, j))
        BY <2>1, <2>4, <4>1 DEF AdventBlocks
      <4>4. FromHere(b, i, j) \in S
        BY <4>2, <4>3
      <4> HIDE DEF S
      <4> QED BY <3>2, <4>4
    <3> QED BY <3>1, <3>2
  <2>5. of(i) = [j \in 1 .. Len(phis) |-> one(i, j)]
    BY <2>3
  <2> HIDE DEF phis, one, S
  <2>6. of(i) \in [1 .. Len(phis) -> Seq(S)]
    BY <2>3, <2>4, <2>5
  <2> HIDE DEF of
  <2> QED BY <2>3, <2>6, Flattened
<1> HIDE DEF S, of
<1>4. all \in [1 .. Len(succs) -> Seq(S)]
  BY <1>2, <1>3
<1>5. FlattenSeq(all) \in Seq(S)
  <2> HIDE DEF all
  <2> QED BY <1>2, <1>4, Flattened
<1>6. PhiOperands(b) = FlattenSeq(all)
  BY DEF PhiOperands, of
<1> QED BY <1>5, <1>6 DEF S

(* Operands are values, and appear in their block.                         *)
LEMMA OperandFacts ==
  ASSUME TypedProgram, PhisComplete, NEW b \in Blocks, NEW i \in DOMAIN Body(b)
  PROVE  /\ Operands(b, i) \in Seq(Instruction)
         /\ \A k \in DOMAIN Operands(b, i) : b \in AdventBlocks(Operands(b, i)[k])
<1> DEFINE S == {v \in Instruction : b \in AdventBlocks(v)}
           ops == Body(b)[i].ops
<1>1. ops \in Seq(Instruction)
  BY DEF TypedProgram
<1>2. ASSUME NEW k \in 1 .. Len(ops) PROVE ops[k] \in S
  <2>1. ops[k] \in Instruction
    BY <1>1
  <2>2. Contains(Body(b)[i].ops, ops[k])
    BY DEF Contains
  <2>3. b \in AdventBlocks(ops[k])
    BY <2>2 DEF AdventBlocks
  <2> QED BY <2>1, <2>3
<1> HIDE DEF S
<1>3. ops \in Seq(S)
  <2> HIDE DEF ops
  <2> QED BY <1>1, <1>2, InSmallerSet
<1>4. PhiOperands(b) \in Seq(S)
  BY PhiOperandsAppear DEF S
<1>5. Operands(b, i) \in Seq(S)
  BY <1>3, <1>4, Joined DEF Operands
<1>6. Operands(b, i) \in Seq(Instruction)
  <2>1. \A k \in 1 .. Len(Operands(b, i)) : Operands(b, i)[k] \in S
    BY <1>5
  <2> QED BY <1>5, <2>1, InSmallerSet DEF S
<1>7. \A k \in DOMAIN Operands(b, i) : Operands(b, i)[k] \in S
  BY <1>5
<1> QED BY <1>6, <1>7 DEF S

-----------------------------------------------------------------------------
(* The values defined in b before its i-th instruction, and those of       *)
(* earlier blocks that may be used in others.                              *)
Here(b, i) == {v \in Instruction : \E j \in DOMAIN Body(b) : j < i /\ Body(b)[j].def = v}

Earlier(b) ==
  {v \in Instruction : \E c \in Blocks : c < b /\ v \in Defs(c) /\ AdventBlocks(v) # {c}}

(* The uses of v in b still to come after k operands of the i-th           *)
(* instruction.                                                            *)
Pending(b, v, i, k) == {u \in Advents(b, v) : u[1] > i \/ (u[1] = i /\ u[2] > k)}

(* A value is defined in one block.                                        *)
LEMMA DefinedIn ==
  ASSUME WellFormed, NEW b \in Blocks, NEW j \in DOMAIN Body(b), NEW v \in Instruction,
         Body(b)[j].def = v
  PROVE  /\ v \in Defs(b) /\ DefBlock(v) = b
         /\ \A c \in Blocks : v \in Defs(c) => c = b
<1>1. v # None
  BY DepromoteAssumption
<1>2. v \in Defs(b)
  BY <1>1 DEF Defs
<1>3. ASSUME NEW c \in Blocks, v \in Defs(c) PROVE c = b
  <2>1. PICK i \in DOMAIN Body(c) : Body(c)[i].def = v
    BY <1>3 DEF Defs
  <2> QED BY <1>1, <2>1 DEF WellFormed, DefinedOnce
<1> QED BY <1>2, <1>3 DEF DefBlock

(* The values defined here are those of DefBlock, which evict asks for.    *)
LEMMA HereIsHere ==
  ASSUME WellFormed, NEW b \in Blocks, NEW i, NEW v \in Here(b, i)
  PROVE  DefBlock(v) = b
BY DefinedIn DEF Here

(* Every operand is defined before it is used.                             *)
LEMMA OperandIsKnown ==
  ASSUME WellFormed, NEW b \in Blocks, NEW i \in DOMAIN Body(b), NEW k \in DOMAIN Operands(b, i)
  PROVE  /\ Operands(b, i)[k] \in Instruction
         /\ Operands(b, i)[k] \in Here(b, i) \cup Earlier(b)
<1> DEFINE v == Operands(b, i)[k]
<1>1. v \in Instruction /\ b \in AdventBlocks(v)
  BY OperandFacts DEF WellFormed
<1>2. DefinedBefore(v, b, i)
  BY DEF WellFormed, UsedAfterDefinition
<1>5. PICK c \in Blocks :
        \E j \in DOMAIN Body(c) : Body(c)[j].def = v /\ (c < b \/ (c = b /\ j < i))
  BY <1>2 DEF DefinedBefore
<1>6. PICK j \in DOMAIN Body(c) : Body(c)[j].def = v /\ (c < b \/ (c = b /\ j < i))
  BY <1>5
<1> HIDE DEF v
<1>3. CASE c = b /\ j < i
  BY <1>1, <1>6, <1>3 DEF Here, v
<1>4. CASE c < b
  <2>1. b # c
    <3>1. b \in Nat /\ c \in Nat
      BY DEF WellFormed, TypedProgram
    <3> QED BY <1>4, <3>1
  <2>2. AdventBlocks(v) # {c}
    BY <1>1, <2>1
  <2>3. v \in Defs(c)
    BY <1>1, <1>6, DefinedIn
  <2> QED BY <1>1, <1>4, <2>2, <2>3 DEF Earlier, v
<1> QED BY <1>1, <1>6, <1>3, <1>4 DEF v

(* No value is defined twice, so that the result of the i-th instruction   *)
(* is not known before.                                                    *)
LEMMA ResultIsNew ==
  ASSUME WellFormed, NEW b \in Blocks, NEW i \in DOMAIN Body(b), Body(b)[i].def # None
  PROVE  /\ Body(b)[i].def \in Instruction
         /\ Body(b)[i].def \notin Here(b, i) \cup Earlier(b)
<1> DEFINE v == Body(b)[i].def
<1>1. v \in Instruction
  BY DEF WellFormed, TypedProgram
<1>2. b \in Nat /\ i \in Nat
  BY BodyFacts DEF WellFormed, TypedProgram
<1>3. v \notin Here(b, i)
  <2> SUFFICES ASSUME NEW j \in DOMAIN Body(b), j < i, Body(b)[j].def = v PROVE FALSE
    BY DEF Here
  <2>1. j = i
    BY DEF WellFormed, DefinedOnce
  <2> QED BY <1>2, <2>1
<1>4. v \notin Earlier(b)
  <2> SUFFICES ASSUME NEW c \in Blocks, c < b, v \in Defs(c) PROVE FALSE
    BY DEF Earlier
  <2>1. c = b
    BY <1>1, DefinedIn
  <2> QED BY <1>2, <2>1
<1> QED BY <1>1, <1>3, <1>4

-----------------------------------------------------------------------------
(* The uses to come.                                                       *)
LEMMA AdventIsTyped ==
  ASSUME NEW uses, uses \subseteq Timestep \X Nat
  PROVE  NextAdvent(uses) \in Timestep \cup {NO_MORE_ADVENT}
<1>1. CASE uses = {}
  BY <1>1 DEF NextAdvent
<1>2. CASE uses # {}
  <2> DEFINE I == {u[1] : u \in uses}
  <2>1. I \subseteq Nat /\ I # {}
    BY <1>2, AllocatorAssumption
  <2>2. PICK i \in I : \A j \in I : i <= j
    <3> HIDE DEF I
    <3> QED BY <2>1, LeastNat
  <2> DEFINE K == {u[2] : u \in {w \in uses : w[1] = i}}
  <2>3. K \subseteq Nat /\ K # {}
    BY <2>2
  <2>4. PICK k \in K : \A j \in K : k <= j
    <3> HIDE DEF K
    <3> QED BY <2>3, LeastNat
  <2>5. PICK u \in uses : u[1] = i /\ u[2] = k
    BY <2>4
  <2>6. ASSUME NEW w \in uses PROVE u[1] < w[1] \/ (u[1] = w[1] /\ u[2] <= w[2])
    <3>1. i <= w[1] /\ i \in Nat /\ w[1] \in Nat
      BY <2>1, <2>2
    <3>2. CASE i = w[1]
      <4>1. w[2] \in K
        BY <3>2
      <4> QED BY <2>4, <2>5, <3>2, <4>1
    <3> QED BY <2>5, <3>1, <3>2
  <2>7. FirstUse(uses) \in uses
    BY <2>6 DEF FirstUse
  <2> QED BY <1>2, <2>7 DEF NextAdvent
<1> QED BY <1>1, <1>2

(* A use is an operand of an instruction.                                  *)
LEMMA AdventsAre ==
  ASSUME WellFormed, NEW b \in Blocks, NEW v, NEW u
  PROVE  u \in Advents(b, v) <=>
           \E i \in DOMAIN Body(b) : \E k \in DOMAIN Operands(b, i) :
             Operands(b, i)[k] = v /\ u = <<i, k>>
BY DEF Advents

(* A use to come has a timestep and a place.                               *)
LEMMA UsesAreTyped ==
  ASSUME WellFormed, NEW b \in Blocks, NEW v, NEW i, NEW k
  PROVE  Pending(b, v, i, k) \subseteq Timestep \X Nat
<1> SUFFICES ASSUME NEW u \in Advents(b, v) PROVE u \in Timestep \X Nat
  BY DEF Pending
<1>7. PICK j \in DOMAIN Body(b) : \E l \in DOMAIN Operands(b, j) : u = <<j, l>>
  BY AdventsAre
<1>1. PICK l \in DOMAIN Operands(b, j) : u = <<j, l>>
  BY <1>7
<1>2. j \in Timestep
  BY DEF WellFormed, TypedProgram
<1>3. Operands(b, j) \in Seq(Instruction)
  BY OperandFacts DEF WellFormed
<1>4. l \in Nat
  BY <1>3
<1> QED BY <1>1, <1>2, <1>4

(* The first use to come is the operand that is translated next.           *)
LEMMA NextUse ==
  ASSUME WellFormed, NEW b \in Blocks, NEW i \in DOMAIN Body(b), NEW n \in Nat,
        NEW k, k = n + 1,
         k \in DOMAIN Operands(b, i), NEW v, v = Operands(b, i)[k]
  PROVE  /\ FirstUse(Pending(b, v, i, n)) = <<i, k>>
         /\ <<i, k>> \in Pending(b, v, i, n)
         /\ Pending(b, v, i, n) \ {<<i, k>>} = Pending(b, v, i, k)
         /\ \A w : w # v => Pending(b, w, i, n) = Pending(b, w, i, k)
<1>1. \A w, u : u \in Advents(b, w) =>
        /\ u = <<u[1], u[2]>> /\ u[1] \in DOMAIN Body(b) /\ u[1] \in Nat /\ u[2] \in Nat
        /\ u[2] \in DOMAIN Operands(b, u[1]) /\ Operands(b, u[1])[u[2]] = w
  <2> TAKE w, u
  <2> HAVE u \in Advents(b, w)
  <2>4. PICK j \in DOMAIN Body(b) :
          \E l \in DOMAIN Operands(b, j) : Operands(b, j)[l] = w /\ u = <<j, l>>
    BY AdventsAre
  <2>1. PICK l \in DOMAIN Operands(b, j) : Operands(b, j)[l] = w /\ u = <<j, l>>
    BY <2>4
  <2>2. j \in Nat
    BY BodyFacts DEF WellFormed
  <2>3. l \in Nat
    BY OperandFacts DEF WellFormed
  <2> QED BY <2>1, <2>2, <2>3
<1>2. i \in Nat
  BY BodyFacts DEF WellFormed
<1>3. <<i, k>> \in Advents(b, v)
  BY AdventsAre
<1>4. <<i, k>> \in Pending(b, v, i, n)
  BY <1>2, <1>3 DEF Pending
<1>5. \A w \in Pending(b, v, i, n) : i < w[1] \/ (i = w[1] /\ k <= w[2])
  BY <1>1, <1>2 DEF Pending
<1>6. FirstUse(Pending(b, v, i, n)) = <<i, k>>
  <2> DEFINE P == Pending(b, v, i, n)
             Least(u) == \A w \in P : u[1] < w[1] \/ (u[1] = w[1] /\ u[2] <= w[2])
  <2>1. Least(<<i, k>>)
    BY <1>5
  <2>2. ASSUME NEW u \in P, Least(u) PROVE u = <<i, k>>
    <3>1. u[1] \in Nat /\ u[2] \in Nat /\ u = <<u[1], u[2]>>
      BY <1>1 DEF Pending
    <3>2. i < u[1] \/ (i = u[1] /\ k <= u[2])
      BY <1>5
    <3>3. u[1] < i \/ (u[1] = i /\ u[2] <= k)
      BY <1>4, <2>2
    <3>4. u[1] = i /\ u[2] = k
      BY <1>2, <3>1, <3>2, <3>3
    <3> QED BY <3>1, <3>4
  <2>3. FirstUse(P) = CHOOSE u \in P : Least(u)
    BY DEF FirstUse
  <2> HIDE DEF P, Least
  <2>4. <<i, k>> \in P
    BY <1>4 DEF P
  <2>5. FirstUse(P) = <<i, k>>
    BY <2>1, <2>2, <2>3, <2>4
  <2> QED BY <2>5 DEF P
<1>7. Pending(b, v, i, n) \ {<<i, k>>} = Pending(b, v, i, k)
  <2>1. ASSUME NEW u \in Advents(b, v)
        PROVE  (u[1] > i \/ (u[1] = i /\ u[2] > n)) /\ u # <<i, k>>
                 <=> u[1] > i \/ (u[1] = i /\ u[2] > k)
    <3>1. u[1] \in Nat /\ u[2] \in Nat /\ u = <<u[1], u[2]>>
      BY <1>1
    <3>2. u = <<i, k>> <=> u[1] = i /\ u[2] = k
      BY <3>1
    <3> QED BY <1>2, <3>1, <3>2
  <2> QED BY <2>1 DEF Pending
<1>8. ASSUME NEW w, w # v PROVE Pending(b, w, i, n) = Pending(b, w, i, k)
  <2>1. ASSUME NEW u \in Advents(b, w)
        PROVE  u[1] > i \/ (u[1] = i /\ u[2] > n) <=> u[1] > i \/ (u[1] = i /\ u[2] > k)
    <3>1. u[1] \in Nat /\ u[2] \in Nat /\ Operands(b, u[1])[u[2]] = w
      BY <1>1
    <3>2. ~(u[1] = i /\ u[2] = k)
      BY <1>8, <3>1
    <3> QED BY <1>2, <3>1, <3>2
  <2> QED BY <2>1 DEF Pending
<1> QED BY <1>4, <1>6, <1>7, <1>8

(* At the first instruction of a block, all its uses are to come.          *)
LEMMA AllUsesPending ==
  ASSUME WellFormed, NEW b \in Blocks, NEW v
  PROVE  Advents(b, v) = Pending(b, v, 1, 0)
<1> SUFFICES ASSUME NEW u \in Advents(b, v) PROVE u[1] > 1 \/ (u[1] = 1 /\ u[2] > 0)
  BY DEF Pending
<1>7. PICK j \in DOMAIN Body(b) : \E l \in DOMAIN Operands(b, j) : u = <<j, l>>
  BY AdventsAre
<1>1. PICK l \in DOMAIN Operands(b, j) : u = <<j, l>>
  BY <1>7
<1>2. j \in Nat /\ j >= 1
  BY BodyFacts DEF WellFormed
<1>3. Operands(b, j) \in Seq(Instruction)
  BY OperandFacts DEF WellFormed
<1>4. l \in Nat /\ l >= 1
  BY <1>3
<1> QED BY <1>1, <1>2, <1>4

(* After the operands of an instruction come those of the next.            *)
LEMMA UsesOfNext ==
  ASSUME WellFormed, NEW b \in Blocks, NEW i \in DOMAIN Body(b), NEW v
  PROVE  Pending(b, v, i, Len(Operands(b, i))) = Pending(b, v, i + 1, 0)
<1> SUFFICES ASSUME NEW u \in Advents(b, v)
             PROVE  u[1] > i \/ (u[1] = i /\ u[2] > Len(Operands(b, i)))
                      <=> u[1] > i + 1 \/ (u[1] = i + 1 /\ u[2] > 0)
  BY DEF Pending
<1>7. PICK j \in DOMAIN Body(b) : \E l \in DOMAIN Operands(b, j) : u = <<j, l>>
  BY AdventsAre
<1>1. PICK l \in DOMAIN Operands(b, j) : u = <<j, l>>
  BY <1>7
<1>2. j \in Nat /\ i \in Nat
  BY BodyFacts DEF WellFormed
<1>3. Operands(b, j) \in Seq(Instruction)
  BY OperandFacts DEF WellFormed
<1>4. l \in Nat /\ l >= 1 /\ l <= Len(Operands(b, j)) /\ Len(Operands(b, j)) \in Nat
  BY <1>3
<1>5. j = i => ~(l > Len(Operands(b, i)))
  BY <1>4
<1>6. u[1] = j /\ u[2] = l
  BY <1>1
<1> QED BY <1>2, <1>4, <1>5, <1>6

-----------------------------------------------------------------------------
(* A step does not change the program.                                     *)
LEMMA ProgramKept ==
  ASSUME prog' = prog
  PROVE  /\ Blocks' = Blocks
         /\ \A b : Body(b)' = Body(b) /\ PhiOperands(b)' = PhiOperands(b)
         /\ \A b, i : Operands(b, i)' = Operands(b, i)
         /\ \A b, i : Here(b, i)' = Here(b, i)
         /\ \A b : Earlier(b)' = Earlier(b) /\ FinalUses(b)' = FinalUses(b)
         /\ \A b, v : Advents(b, v)' = Advents(b, v)
         /\ \A b, v, i, k : Pending(b, v, i, k)' = Pending(b, v, i, k)
         /\ \A v : AdventBlocks(v)' = AdventBlocks(v)
         /\ \A b : Defs(b)' = Defs(b)
<1>1. Blocks' = Blocks
  BY DEF Blocks
<1>2. \A b : Body(b)' = Body(b) /\ ReturnBlock(b)' = ReturnBlock(b)
  BY DEF Body, ReturnBlock
<1>3. \A b : PhiOperands(b)' = PhiOperands(b)
  BY DEF PhiOperands, FromHere
<1>4. \A b, i : Operands(b, i)' = Operands(b, i)
  BY <1>2, <1>3 DEF Operands
<1>5. \A b, i : Here(b, i)' = Here(b, i)
  BY <1>2 DEF Here
<1>6. \A b : Defs(b)' = Defs(b)
  BY <1>2 DEF Defs
<1>7. \A v : AdventBlocks(v)' = AdventBlocks(v)
  BY <1>1, <1>2, <1>6 DEF AdventBlocks
<1>8. \A b : Earlier(b)' = Earlier(b)
  BY <1>1, <1>6, <1>7 DEF Earlier
<1>9. \A b : FinalUses(b)' = FinalUses(b)
  BY <1>2, <1>7 DEF FinalUses
<1>10. \A b, v : Advents(b, v)' = Advents(b, v)
  BY <1>2, <1>4 DEF Advents
<1>11. \A b, v, i, k : Pending(b, v, i, k)' = Pending(b, v, i, k)
  BY <1>10 DEF Pending
<1> QED BY <1>1, <1>2, <1>3, <1>4, <1>5, <1>6, <1>7, <1>8, <1>9, <1>10, <1>11

(* A well-formed function stays one.                                       *)
LEMMA WellFormedKept ==
  ASSUME WellFormed, prog' = prog
  PROVE  WellFormed'
<1>1. TypedProgram'
  BY ProgramKept DEF WellFormed, TypedProgram
<1>2. PhisComplete'
  BY DEF WellFormed, PhisComplete, Blocks
<1>3. DefinedOnce'
  BY ProgramKept DEF WellFormed, DefinedOnce
<1>4. UsedAfterDefinition'
  BY ProgramKept DEF WellFormed, UsedAfterDefinition, DefinedBefore
<1>5. RefCalls'
  BY ProgramKept DEF WellFormed, RefCalls
<1> QED BY <1>1, <1>2, <1>3, <1>4, <1>5 DEF WellFormed

(* The stack pointer is never spilled: the function makes no call with     *)
(* sixteen arguments after an alloca_bytes.                                *)
NeverSpilled ==
  \A b \in Blocks : \A i \in DOMAIN Body(b) : Body(b)[i].kind # "spill_ref"

LEMMA NeverSpilledKept ==
  ASSUME prog' = prog
  PROVE  NeverSpilled' = NeverSpilled
  BY ProgramKept DEF NeverSpilled

-----------------------------------------------------------------------------
(* What a block needs of the machine while it is translated, as predicates *)
(* of the record that the operators of DepromoteRegisters work on.         *)

MachineStates ==
  [ra : State, regs : [0 .. MAX_REG_N -> Content],
   slots : [Instruction \cup {RefSP} -> Content], emit : [Instruction -> 0 .. MAX_REG_N]]

(* The reference register is the allocator's temporary one, and holds the  *)
(* stack pointer.                                                          *)
RefHeld(m) ==
  NeverSpilled /\ RefSet => RefSPId \in m.ra.TempRegisters /\ m.regs[RefSPId] = RefSP

(* What the pass believes is so: AllocatorIsRight, ReferenceKept and       *)
(* AllocationsAreOfThisBlock.  Only the last needs no NeverSpilled.        *)
Right(m) ==
  /\ m \in MachineStates
  /\ Partition(m.ra)
  /\ \A a \in m.ra.ActiveSet : /\ NeverSpilled => m.regs[a.RegId] = a.Source
                               /\ m.emit[a.Source] = a.RegId
  /\ RefHeld(m)

(* No value is lost: it is in a register or in its slot, or nobody needs   *)
(* it any more; here are the values of this block, earlier the others.     *)
Safe(m, uses, here, earlier) ==
  /\ NeverSpilled =>
       /\ \A v \in here : \/ IsActive(m.ra, v)
                          \/ m.slots[v] = v
                          \/ uses[v] = {} /\ v \in FinalUses(bb)
       /\ \A v \in earlier : m.slots[v] = v
  /\ \A a \in m.ra.ActiveSet : /\ a.Source \in here \cup earlier
                               /\ a.LastUser = NoUser \/ a.LastUser[1] = bb

(* The types of a machine that is right, one by one.                       *)
LEMMA RightTypes ==
  ASSUME NEW m, Right(m)
  PROVE  /\ m.ra \in State /\ Partition(m.ra)
         /\ m.regs \in [0 .. MAX_REG_N -> Content]
         /\ m.slots \in [Instruction \cup {RefSP} -> Content]
         /\ m.emit \in [Instruction -> 0 .. MAX_REG_N]
         /\ m = [ra |-> m.ra, regs |-> m.regs, slots |-> m.slots, emit |-> m.emit]
         /\ \A a \in m.ra.ActiveSet : a \in Allocation /\ a.Source \in Instruction
            /\ a.RegId \in Register /\ a.RegId \in 0 .. MAX_REG_N
         /\ RefHeld(m) /\ RefSPId \in 0 .. MAX_REG_N
<1>1. m \in MachineStates /\ Partition(m.ra)
  BY DEF Right
<1>2. m.ra \in State
  BY <1>1 DEF MachineStates
<1>3. \A a \in m.ra.ActiveSet : a \in Allocation
  BY <1>2 DEF State
<1>4. Register \subseteq 0 .. MAX_REG_N
  BY AllocatorAssumption DEF Register
<1>5. \A a \in m.ra.ActiveSet : a.Source \in Instruction /\ a.RegId \in Register
  BY <1>3 DEF Allocation
<1>6. RefSPId \in 0 .. MAX_REG_N
  BY AllocatorAssumption DEF RefSPId
<1> QED BY <1>1, <1>2, <1>3, <1>4, <1>5, <1>6 DEF MachineStates, Right

(* evict: the value is in its slot afterwards, unless nobody needs it.     *)
LEMMA EvictedSafe ==
  ASSUME NEW m, Right(m), NEW a \in m.ra.ActiveSet, NEW here, NEW earlier,
         \A v \in here : DefBlock(v) = bb, Safe(m, AdventMap, here, earlier)
  PROVE  /\ Right(Evicted(m, a)) /\ Safe(Evicted(m, a), AdventMap, here, earlier)
         /\ Evicted(m, a).ra = evict(m.ra, a)
         /\ Evicted(m, a).regs = m.regs /\ Evicted(m, a).emit = m.emit
<1> DEFINE n == Evicted(m, a)
           spilled == IF BaseHolds(m)
                        THEN [m.slots EXCEPT ![a.Source] = m.regs[m.emit[a.Source]]]
                        ELSE [s \in DOMAIN m.slots |-> None]
<1>1. /\ m.ra \in State /\ Partition(m.ra)
      /\ m.slots \in [Instruction \cup {RefSP} -> Content]
      /\ m.regs \in [0 .. MAX_REG_N -> Content]
      /\ m.emit \in [Instruction -> 0 .. MAX_REG_N]
      /\ m = [ra |-> m.ra, regs |-> m.regs, slots |-> m.slots, emit |-> m.emit]
      /\ a.Source \in Instruction /\ RefHeld(m)
  BY RightTypes
<1>2. (NeverSpilled => m.regs[a.RegId] = a.Source) /\ m.emit[a.Source] = a.RegId
  BY DEF Right
<1>3. /\ n.ra = evict(m.ra, a) /\ n.regs = m.regs /\ n.emit = m.emit
      /\ n.slots = IF MustSpill(a) THEN spilled ELSE m.slots
      /\ n = [ra |-> n.ra, regs |-> n.regs, slots |-> n.slots, emit |-> n.emit]
  <2> DEFINE newSlots == IF MustSpill(a) THEN spilled ELSE m.slots
  <2>1. n = [m EXCEPT !.ra = evict(m.ra, a), !.slots = newSlots]
    BY DEF Evicted
  <2> HIDE DEF n, newSlots
  <2>2. /\ n.ra = evict(m.ra, a) /\ n.regs = m.regs /\ n.emit = m.emit /\ n.slots = newSlots
        /\ n = [ra |-> n.ra, regs |-> n.regs, slots |-> n.slots, emit |-> n.emit]
    BY <1>1, <2>1
  <2> QED BY <2>2 DEF newSlots
<1> HIDE DEF n
<1>4. NeverSpilled => spilled = [m.slots EXCEPT ![a.Source] = a.Source]
  BY <1>1, <1>2 DEF BaseHolds, RefHeld
<1>5. /\ n.slots \in [Instruction \cup {RefSP} -> Content]
      /\ NeverSpilled /\ MustSpill(a) => n.slots[a.Source] = a.Source
  <2>1. spilled \in [Instruction \cup {RefSP} -> Content]
    <3>1. m.regs[m.emit[a.Source]] \in Content /\ None \in Content
      BY <1>1 DEF Content
    <3> QED BY <1>1, <3>1
  <2> HIDE DEF spilled
  <2> QED BY <1>1, <1>3, <1>4, <2>1
<1> HIDE DEF spilled
<1>6. n.ra \in State /\ Partition(n.ra)
  BY <1>1, <1>3, EvictKeeps
<1>7. n.ra.ActiveSet = m.ra.ActiveSet \ {a}
  BY <1>1, <1>3 DEF evict, State
<1>8. n \in MachineStates
  BY <1>1, <1>3, <1>5, <1>6 DEF MachineStates
<1>9. Right(n)
  <2>1. n.ra.TempRegisters = m.ra.TempRegisters
    BY <1>1, <1>3 DEF evict, State
  <2> QED BY <1>1, <1>3, <1>6, <1>7, <1>8, <2>1 DEF Right, RefHeld
<1>10. ASSUME NeverSpilled, NEW v \in here
       PROVE  IsActive(n.ra, v) \/ n.slots[v] = v \/ (AdventMap[v] = {} /\ v \in FinalUses(bb))
  <2>1. CASE v = a.Source
    <3>1. CASE MustSpill(a)
      BY <1>5, <1>10, <2>1, <3>1
    <3>2. CASE ~MustSpill(a)
      <4>1. DefBlock(a.Source) = bb
        BY <2>1
      <4>2. a.LastUser = NoUser \/ a.LastUser[1] = bb
        BY DEF Safe
      <4> QED BY <2>1, <3>2, <4>1, <4>2 DEF MustSpill
    <3> QED BY <3>1, <3>2
  <2>2. CASE v # a.Source
    <3>1. IsActive(m.ra, v) => IsActive(n.ra, v)
      BY <1>7, <2>2 DEF IsActive
    <3>2. n.slots = m.slots \/ n.slots = [m.slots EXCEPT ![a.Source] = a.Source]
      BY <1>3, <1>4, <1>10
    <3>3. m.slots[v] = v => n.slots[v] = v
      <4>1. CASE n.slots = m.slots
        BY <4>1
      <4>2. CASE n.slots = [m.slots EXCEPT ![a.Source] = a.Source]
        BY <1>1, <2>2, <4>2
      <4> QED BY <3>2, <4>1, <4>2
    <3> QED BY <1>10, <3>1, <3>3 DEF Safe
  <2> QED BY <2>1, <2>2
<1>11. ASSUME NeverSpilled, NEW v \in earlier PROVE n.slots[v] = v
  <2>1. m.slots[v] = v
    BY <1>11 DEF Safe
  <2>2. n.slots = m.slots \/ n.slots = [m.slots EXCEPT ![a.Source] = a.Source]
    BY <1>3, <1>4, <1>11
  <2>3. CASE n.slots = [m.slots EXCEPT ![a.Source] = a.Source]
    BY <1>1, <2>1, <2>3
  <2> QED BY <2>1, <2>2, <2>3
<1>12. Safe(n, AdventMap, here, earlier)
  BY <1>7, <1>10, <1>11 DEF Safe
<1> QED BY <1>3, <1>9, <1>12 DEF n

(* A register is free after WithFreeRegister, and the allocations that the *)
(* current user has taken are still there.                                 *)
LEMMA FreeRegisterSafe ==
  ASSUME NEW m, Right(m), NEW here, NEW earlier,
         \A v \in here : DefBlock(v) = bb, Safe(m, AdventMap, here, earlier),
         NEW n \in WithFreeRegister(m)
  PROVE  /\ Right(n) /\ Safe(n, AdventMap, here, earlier)
         /\ HasFree(n.ra) /\ n.regs = m.regs /\ n.emit = m.emit
         /\ n.ra.CurrentUser = m.ra.CurrentUser /\ n.ra.TempRegisters = m.ra.TempRegisters
         /\ n.ra.ActiveSet \subseteq m.ra.ActiveSet
         /\ \A a \in m.ra.ActiveSet : UsedNow(m.ra, a) => a \in n.ra.ActiveSet
<1>1. CASE HasFree(m.ra)
  BY <1>1 DEF WithFreeRegister
<1>2. CASE ~HasFree(m.ra)
  <2>1. PICK a \in Victims(m.ra) : n = Evicted(m, a)
    BY <1>2 DEF WithFreeRegister
  <2>2. a \in m.ra.ActiveSet /\ ~UsedNow(m.ra, a)
    BY DEF Victims
  <2>3. /\ Right(n) /\ Safe(n, AdventMap, here, earlier) /\ n.ra = evict(m.ra, a)
        /\ n.regs = m.regs /\ n.emit = m.emit
    BY <2>1, <2>2, EvictedSafe
  <2>4. m.ra \in State /\ a.RegId \in Register
    BY <2>2, RightTypes
  <2>5. /\ n.ra.ActiveSet = m.ra.ActiveSet \ {a}
        /\ n.ra.CurrentUser = m.ra.CurrentUser /\ n.ra.TempRegisters = m.ra.TempRegisters
        /\ n.ra.FreeRegisters = <<a.RegId>> \o m.ra.FreeRegisters
    BY <2>3, <2>4 DEF evict, State
  <2>6. n.ra.FreeRegisters # <<>>
    <3>1. m.ra.FreeRegisters \in Seq(Register) /\ <<a.RegId>> \in Seq(Register)
      BY <2>4 DEF State
    <3>2. Len(<<a.RegId>> \o m.ra.FreeRegisters) > 0
      BY <3>1
    <3> QED BY <2>5, <3>2
  <2> QED BY <2>2, <2>3, <2>5, <2>6 DEF HasFree
<1> QED BY <1>1, <1>2

-----------------------------------------------------------------------------
(* What does not touch the allocations, nor the registers they have, keeps *)
(* the machine right and safe: temporary registers and reportUser.         *)
LEMMA SameAllocations ==
  ASSUME NEW m, Right(m), NEW uses, NEW here, NEW earlier, Safe(m, uses, here, earlier),
         NEW s \in State, Partition(s), s.ActiveSet = m.ra.ActiveSet,
         NEW contents \in [0 .. MAX_REG_N -> Content],
         NeverSpilled => \A a \in m.ra.ActiveSet : contents[a.RegId] = m.regs[a.RegId],
         NeverSpilled /\ RefSet => RefSPId \in s.TempRegisters /\ contents[RefSPId] = RefSP,
         NEW n, n = [ra |-> s, regs |-> contents, slots |-> m.slots, emit |-> m.emit]
  PROVE  Right(n) /\ Safe(n, uses, here, earlier)
<1>1. /\ m.slots \in [Instruction \cup {RefSP} -> Content]
      /\ m.emit \in [Instruction -> 0 .. MAX_REG_N]
      /\ m = [ra |-> m.ra, regs |-> m.regs, slots |-> m.slots, emit |-> m.emit]
  BY RightTypes
<1>2. /\ n.ra = s /\ n.regs = contents /\ n.slots = m.slots /\ n.emit = m.emit
      /\ n = [ra |-> n.ra, regs |-> n.regs, slots |-> n.slots, emit |-> n.emit]
  BY <1>1
<1>3. n \in MachineStates
  BY <1>1, <1>2 DEF MachineStates
<1>4. Right(n)
  BY <1>2, <1>3 DEF Right, RefHeld
<1>5. Safe(n, uses, here, earlier)
  BY <1>2 DEF Safe, IsActive
<1> QED BY <1>4, <1>5

(* When a register is free, the top one is.                                *)
LEMMA TopIsFree ==
  ASSUME NEW m, Right(m), HasFree(m.ra)
  PROVE  /\ TopRegister(m) \in Register /\ TopRegister(m) \in 0 .. MAX_REG_N
         /\ TopRegister(m) # 0
         /\ TopRegister(m) \notin m.ra.TempRegisters
         /\ \A a \in m.ra.ActiveSet : a.RegId # TopRegister(m)
<1> DEFINE free == m.ra.FreeRegisters
<1>1. m.ra \in State /\ Partition(m.ra)
  BY RightTypes
<1>2. free \in Seq(Register) /\ free # <<>>
  BY <1>1 DEF State, HasFree
<1>3. 1 \in DOMAIN free /\ free[1] \in Register /\ TopRegister(m) = free[1]
  <2> HIDE DEF free
  <2>1. 1 \in DOMAIN free /\ free[1] \in Register /\ Head(free) = free[1]
    BY <1>2
  <2> QED BY <2>1 DEF TopRegister, free
<1>4. Holds(free, free[1])
  BY <1>3 DEF Holds
<1>5. free[1] \notin m.ra.TempRegisters /\ ~InUse(m.ra.ActiveSet, free[1])
  BY <1>1, <1>3, <1>4 DEF Partition, InOnePlace
<1>6. MAX_REG_N \in Nat
  BY AllocatorAssumption
<1>7. \A r \in Register : r \in 0 .. MAX_REG_N /\ r # 0
  BY <1>6 DEF Register
<1> QED BY <1>3, <1>5, <1>7 DEF InUse

(* A value whose content is right is put in a free register; it may be one *)
(* that the block has just defined.                                        *)
LEMMA PlaceSafe ==
  ASSUME NEW m, Right(m), HasFree(m.ra), NEW v \in Instruction, ~IsActive(m.ra, v),
         NEW here, NEW earlier, Safe(m, AdventMap, here, earlier),
         NEW more, more \subseteq here \cup {v}, here \subseteq more, v \in more \cup earlier,
         AdventMap[v] \subseteq Timestep \X Nat,
         NEW x \in Content, NeverSpilled => x = v,
         NEW n, n = Place(m, v, x)
  PROVE  /\ Right(n) /\ Safe(n, AdventMap, more, earlier) /\ IsActive(n.ra, v)
         /\ n.ra.CurrentUser = m.ra.CurrentUser /\ n.ra.TempRegisters = m.ra.TempRegisters
         /\ m.ra.ActiveSet \subseteq n.ra.ActiveSet
<1> DEFINE top == TopRegister(m)
           advent == NextAdvent(AdventMap[v])
           asked == request(m.ra, v)
           contents == [m.regs EXCEPT ![top] = x]
           registers == [m.emit EXCEPT ![v] = top]
           new == [Source |-> v, LastUser |-> NoUser, RegId |-> top, NextAdvent |-> advent]
<1>1. /\ m.ra \in State /\ Partition(m.ra)
      /\ m.slots \in [Instruction \cup {RefSP} -> Content]
      /\ m.regs \in [0 .. MAX_REG_N -> Content]
      /\ m.emit \in [Instruction -> 0 .. MAX_REG_N]
      /\ m = [ra |-> m.ra, regs |-> m.regs, slots |-> m.slots, emit |-> m.emit]
      /\ \A a \in m.ra.ActiveSet : a \in Allocation
      /\ RefHeld(m) /\ RefSPId \in 0 .. MAX_REG_N
  BY RightTypes
<1>2. /\ top \in 0 .. MAX_REG_N /\ top \notin m.ra.TempRegisters
      /\ \A a \in m.ra.ActiveSet : a.RegId # top
  BY TopIsFree
<1>3. advent \in Timestep \cup {NO_MORE_ADVENT}
  BY AdventIsTyped
<1>4. n = [m EXCEPT !.ra = update(asked, v, NoUser, advent), !.regs = contents,
                    !.emit = registers]
  BY <1>1 DEF Place
<1>5. asked \in State /\ Partition(asked)
  BY <1>1, AllocatorAssumption, RequestKeeps
<1>6. /\ asked.ActiveSet =
           m.ra.ActiveSet
             \cup {[Source |-> v, LastUser |-> NoUser, RegId |-> top, NextAdvent |-> 0]}
      /\ asked.CurrentUser = m.ra.CurrentUser /\ asked.TempRegisters = m.ra.TempRegisters
  BY <1>1 DEF request, State, TopRegister
<1> HIDE DEF asked, advent, top
<1>7. update(asked, v, NoUser, advent) \in State /\ Partition(update(asked, v, NoUser, advent))
  BY <1>3, <1>5, UpdateKeeps
<1>8. /\ update(asked, v, NoUser, advent).CurrentUser = asked.CurrentUser
      /\ update(asked, v, NoUser, advent).TempRegisters = asked.TempRegisters
      /\ update(asked, v, NoUser, advent).ActiveSet
           = {IF a.Source = v THEN [a EXCEPT !.LastUser = NoUser, !.NextAdvent = advent]
                                 ELSE a :
                a \in asked.ActiveSet}
  BY <1>5 DEF update, State
<1>9. \A a \in m.ra.ActiveSet : a.Source # v
  BY DEF IsActive
<1>10. update(asked, v, NoUser, advent).ActiveSet = m.ra.ActiveSet \cup {new}
  <2> DEFINE old == [Source |-> v, LastUser |-> NoUser, RegId |-> top, NextAdvent |-> 0]
             upd(a) ==
               IF a.Source = v THEN [a EXCEPT !.LastUser = NoUser, !.NextAdvent = advent] ELSE a
  <2>1. upd(old) = new
    OBVIOUS
  <2>2. \A a \in m.ra.ActiveSet : upd(a) = a
    BY <1>9
  <2>3. update(asked, v, NoUser, advent).ActiveSet = {upd(a) : a \in m.ra.ActiveSet \cup {old}}
    BY <1>6, <1>8
  <2> HIDE DEF upd, old, new
  <2> QED BY <2>1, <2>2, <2>3
<1>11. /\ n.ra = update(asked, v, NoUser, advent) /\ n.regs = contents /\ n.slots = m.slots
       /\ n.emit = registers
       /\ n = [ra |-> n.ra, regs |-> n.regs, slots |-> n.slots, emit |-> n.emit]
  <2> HIDE DEF contents, registers
  <2> QED BY <1>1, <1>4
<1>12. contents \in [0 .. MAX_REG_N -> Content]
           /\ registers \in [Instruction -> 0 .. MAX_REG_N]
  BY <1>1, <1>2
<1>13. n \in MachineStates
  BY <1>1, <1>7, <1>11, <1>12 DEF MachineStates
<1>14. new.Source = v /\ new.RegId = top /\ new.LastUser = NoUser
  OBVIOUS
<1> HIDE DEF new
<1>15. ASSUME NEW a \in n.ra.ActiveSet
       PROVE (NeverSpilled => n.regs[a.RegId] = a.Source) /\ n.emit[a.Source] = a.RegId
  <2>1. CASE a = new
    BY <1>1, <1>2, <1>11, <1>14, <2>1
  <2>2. CASE a \in m.ra.ActiveSet
    <3>1. a.Source \in Instruction /\ a.RegId \in 0 .. MAX_REG_N
      BY <2>2, RightTypes
    <3>2. (NeverSpilled => m.regs[a.RegId] = a.Source) /\ m.emit[a.Source] = a.RegId
      BY <2>2 DEF Right
    <3>3. a.Source # v /\ a.RegId # top
      BY <1>2, <1>9, <2>2
    <3> QED BY <1>1, <1>11, <3>1, <3>2, <3>3
  <2> QED BY <1>10, <1>11, <2>1, <2>2
<1>16. Right(n)
  <2>1. RefHeld(n)
    BY <1>1, <1>2, <1>6, <1>8, <1>11 DEF RefHeld
  <2> QED BY <1>7, <1>11, <1>13, <1>15, <2>1 DEF Right
<1>17. IsActive(n.ra, v) /\ \A w : IsActive(m.ra, w) => IsActive(n.ra, w)
  BY <1>10, <1>11, <1>14 DEF IsActive
<1>18. ASSUME NeverSpilled, NEW w \in more
       PROVE  \/ IsActive(n.ra, w)
              \/ n.slots[w] = w
              \/ AdventMap[w] = {} /\ w \in FinalUses(bb)
  BY <1>11, <1>17, <1>18 DEF Safe
<1>19. ASSUME NEW a \in n.ra.ActiveSet
       PROVE  a.Source \in more \cup earlier /\ (a.LastUser = NoUser \/ a.LastUser[1] = bb)
  <2>1. CASE a = new
    BY <1>14, <2>1
  <2>2. CASE a \in m.ra.ActiveSet
    BY <2>2 DEF Safe
  <2> QED BY <1>10, <1>11, <2>1, <2>2
<1>20. Safe(n, AdventMap, more, earlier)
  BY <1>11, <1>18, <1>19 DEF Safe
<1> QED BY <1>6, <1>8, <1>10, <1>11, <1>16, <1>17, <1>20

-----------------------------------------------------------------------------
(* The user takes v: its use is no longer to come, and v is protected.     *)
LEMMA UpdateSafe ==
  ASSUME NEW m, Right(m), NEW here, NEW earlier, Safe(m, AdventMap, here, earlier),
         NEW v \in Instruction, IsActive(m.ra, v), NEW user \in User, user[1] = bb,
         NEW advent \in Timestep \cup {NO_MORE_ADVENT},
         NEW uses, \A w \in here : w # v => uses[w] = AdventMap[w],
         NEW n, n = [ra |-> update(m.ra, v, user, advent), regs |-> m.regs, slots |-> m.slots,
                     emit |-> m.emit]
  PROVE  /\ Right(n) /\ Safe(n, uses, here, earlier)
         /\ n.regs = m.regs /\ n.emit = m.emit
         /\ n.ra.CurrentUser = m.ra.CurrentUser /\ n.ra.TempRegisters = m.ra.TempRegisters
         /\ \A a \in m.ra.ActiveSet : a.Source # v => a \in n.ra.ActiveSet
         /\ \E a \in n.ra.ActiveSet : a.Source = v /\ a.RegId = m.emit[v] /\ a.LastUser = user
<1> DEFINE upd(a) ==
             IF a.Source = v THEN [a EXCEPT !.LastUser = user, !.NextAdvent = advent] ELSE a
<1>1. /\ m.ra \in State /\ Partition(m.ra)
      /\ m = [ra |-> m.ra, regs |-> m.regs, slots |-> m.slots, emit |-> m.emit]
      /\ m \in MachineStates
      /\ \A a \in m.ra.ActiveSet : a \in Allocation
  BY RightTypes DEF Right
<1>2. /\ n.ra = update(m.ra, v, user, advent)
      /\ n.regs = m.regs /\ n.slots = m.slots /\ n.emit = m.emit
      /\ n = [ra |-> n.ra, regs |-> n.regs, slots |-> n.slots, emit |-> n.emit]
  BY <1>1
<1>3. n.ra \in State /\ Partition(n.ra)
  BY <1>1, <1>2, UpdateKeeps
<1>4. /\ n.ra.CurrentUser = m.ra.CurrentUser /\ n.ra.TempRegisters = m.ra.TempRegisters
      /\ n.ra.ActiveSet = {upd(a) : a \in m.ra.ActiveSet}
  BY <1>1, <1>2 DEF update, State
<1>5. \A a \in m.ra.ActiveSet :
        /\ upd(a).Source = a.Source /\ upd(a).RegId = a.RegId
        /\ a.Source = v => upd(a).LastUser = user
        /\ a.Source # v => upd(a) = a
  BY <1>1 DEF Allocation
<1> HIDE DEF upd
<1>6. n \in MachineStates
  BY <1>1, <1>2, <1>3 DEF MachineStates
<1>7. Right(n)
  BY <1>2, <1>3, <1>4, <1>5, <1>6 DEF Right, RefHeld
<1>8. \A w : IsActive(n.ra, w) <=> IsActive(m.ra, w)
  BY <1>4, <1>5 DEF IsActive
<1>9. ASSUME NeverSpilled, NEW w \in here
      PROVE  \/ IsActive(n.ra, w)
             \/ n.slots[w] = w
             \/ uses[w] = {} /\ w \in FinalUses(bb)
  BY <1>2, <1>8, <1>9 DEF Safe
<1>10. ASSUME NEW c \in n.ra.ActiveSet
       PROVE  c.Source \in here \cup earlier /\ (c.LastUser = NoUser \/ c.LastUser[1] = bb)
  <2>1. PICK a \in m.ra.ActiveSet : c = upd(a)
    BY <1>4
  <2>2. a.Source \in here \cup earlier /\ (a.LastUser = NoUser \/ a.LastUser[1] = bb)
    BY DEF Safe
  <2> QED BY <1>5, <2>1, <2>2
<1>11. Safe(n, uses, here, earlier)
  BY <1>2, <1>9, <1>10 DEF Safe
<1>12. PICK a \in m.ra.ActiveSet : a.Source = v
  BY DEF IsActive
<1>13. a.RegId = m.emit[v]
  BY <1>12 DEF Right
<1>14. upd(a) \in n.ra.ActiveSet /\ upd(a).Source = v /\ upd(a).RegId = m.emit[v]
           /\ upd(a).LastUser = user
  BY <1>4, <1>5, <1>12, <1>13
<1>15. \A c \in m.ra.ActiveSet : c.Source # v => c \in n.ra.ActiveSet
  BY <1>4, <1>5
<1> QED BY <1>2, <1>4, <1>7, <1>11, <1>14, <1>15

(* getRegister: v is in a register, loaded from its slot if need be, which *)
(* holds it because it is used now.                                        *)
LEMMA ValueSafe ==
  ASSUME NEW m, Right(m), NEW here, NEW earlier,
         \A v \in here : DefBlock(v) = bb, Safe(m, AdventMap, here, earlier),
         NEW v \in Instruction, v \in here \cup earlier, AdventMap[v] # {},
         AdventMap[v] \subseteq Timestep \X Nat,
         NEW n \in WithValue(m, v)
  PROVE  /\ Right(n) /\ Safe(n, AdventMap, here, earlier) /\ IsActive(n.ra, v)
         /\ n.ra.CurrentUser = m.ra.CurrentUser /\ n.ra.TempRegisters = m.ra.TempRegisters
         /\ \A a \in m.ra.ActiveSet : UsedNow(m.ra, a) => a \in n.ra.ActiveSet
<1>1. CASE IsActive(m.ra, v)
  BY <1>1 DEF WithValue
<1>2. CASE ~IsActive(m.ra, v)
  <2>1. PICK k \in WithFreeRegister(m) : n = Place(k, v, Filled(k, v))
    BY <1>2 DEF WithValue
  <2>2. /\ Right(k) /\ Safe(k, AdventMap, here, earlier)
        /\ HasFree(k.ra) /\ k.regs = m.regs /\ k.emit = m.emit
        /\ k.ra.CurrentUser = m.ra.CurrentUser /\ k.ra.TempRegisters = m.ra.TempRegisters
        /\ k.ra.ActiveSet \subseteq m.ra.ActiveSet
        /\ \A a \in m.ra.ActiveSet : UsedNow(m.ra, a) => a \in k.ra.ActiveSet
    BY FreeRegisterSafe
  <2>3. ~IsActive(k.ra, v)
    BY <1>2, <2>2 DEF IsActive
  <2>4. NeverSpilled => k.slots[v] = v
    BY <2>2, <2>3 DEF Safe
  <2>5. Filled(k, v) \in Content /\ (NeverSpilled => Filled(k, v) = v)
    <3>1. k.slots \in [Instruction \cup {RefSP} -> Content] /\ RefHeld(k)
      BY <2>2, RightTypes
    <3>2. k.slots[v] \in Content /\ None \in Content
      BY <3>1 DEF Content
    <3> QED BY <2>4, <3>1, <3>2 DEF Filled, BaseHolds, RefHeld
  <2>6. here \subseteq here \cup {v} /\ here \subseteq here
    OBVIOUS
  <2>7. /\ Right(n) /\ Safe(n, AdventMap, here, earlier) /\ IsActive(n.ra, v)
        /\ n.ra.CurrentUser = k.ra.CurrentUser /\ n.ra.TempRegisters = k.ra.TempRegisters
        /\ k.ra.ActiveSet \subseteq n.ra.ActiveSet
    BY <2>1, <2>2, <2>3, <2>5, <2>6, PlaceSafe
  <2> QED BY <2>2, <2>7
<1> QED BY <1>1, <1>2

(* The result of an instruction.                                           *)
LEMMA ResultSafe ==
  ASSUME NEW m, Right(m), NEW here, NEW earlier,
         \A v \in here : DefBlock(v) = bb, Safe(m, AdventMap, here, earlier),
         Now.def \in Instruction \cup {None}, Now.def \notin here \cup earlier,
         NEW more, more = here \cup ({Now.def} \ {None}),
         \A v \in Instruction : AdventMap[v] \subseteq Timestep \X Nat,
         NEW n \in WithResult(m)
  PROVE  Right(n) /\ Safe(n, AdventMap, more, earlier)
        /\ n.ra.TempRegisters = m.ra.TempRegisters
<1>1. CASE Now.def = None
  BY <1>1 DEF WithResult
<1>2. CASE Now.def # None
  <2> DEFINE v == Now.def
  <2>1. PICK k \in WithFreeRegister(m) : n = Place(k, v, v)
    BY <1>2 DEF WithResult
  <2>2. v \in Instruction /\ v \notin here \cup earlier /\ more = here \cup {v}
    BY <1>2
  <2> HIDE DEF v
  <2>3. /\ Right(k) /\ Safe(k, AdventMap, here, earlier)
        /\ HasFree(k.ra)
        /\ k.ra.TempRegisters = m.ra.TempRegisters
        /\ k.ra.ActiveSet \subseteq m.ra.ActiveSet
    BY FreeRegisterSafe
  <2>4. ~IsActive(k.ra, v)
    BY <2>2, <2>3 DEF IsActive, Safe
  <2>5. /\ here \subseteq more /\ more \subseteq here \cup {v} /\ v \in more \cup earlier
        /\ v \in Content
    BY <2>2 DEF Content
  <2>6. /\ Right(n) /\ Safe(n, AdventMap, more, earlier)
           /\ n.ra.TempRegisters = k.ra.TempRegisters
    BY <2>1, <2>2, <2>3, <2>4, <2>5, PlaceSafe
  <2> QED BY <2>3, <2>6
<1> QED BY <1>1, <1>2

(* The register of the reference stack pointer is emptied.                 *)
LEMMA RefRegisterKept ==
  ASSUME NEW m, Right(m), NEW here, NEW earlier,
         \A v \in here : DefBlock(v) = bb, Safe(m, AdventMap, here, earlier),
         NEW k \in WithRefRegister(m)
  PROVE  Right(k) /\ Safe(k, AdventMap, here, earlier) /\ IsFreeRegister(k.ra, RefSPId)
<1>1. CASE IsFreeRegister(m.ra, RefSPId)
  BY <1>1 DEF WithRefRegister
<1>2. CASE ~IsFreeRegister(m.ra, RefSPId)
  <2>1. PICK a \in m.ra.ActiveSet : a.RegId = RefSPId /\ k = Evicted(m, a)
    BY <1>2 DEF WithRefRegister
  <2>2. Right(k) /\ Safe(k, AdventMap, here, earlier) /\ k.ra = evict(m.ra, a)
    BY <2>1, EvictedSafe
  <2>3. m.ra \in State /\ a.RegId \in Register
    BY RightTypes
  <2>4. k.ra.FreeRegisters = <<a.RegId>> \o m.ra.FreeRegisters
            /\ m.ra.FreeRegisters \in Seq(Register)
    BY <2>2, <2>3 DEF evict, State
  <2>5. 1 \in DOMAIN k.ra.FreeRegisters /\ k.ra.FreeRegisters[1] = a.RegId
    BY <2>3, <2>4
  <2> QED BY <2>1, <2>2, <2>5 DEF IsFreeRegister
<1> QED BY <1>1, <1>2

(* Then it is held, with the stack pointer in it.                          *)
LEMMA RefRegisterSafe ==
  ASSUME NEW m, Right(m), NEW here, NEW earlier,
         \A v \in here : DefBlock(v) = bb, Safe(m, AdventMap, here, earlier),
         NEW k \in WithRefRegister(m), NEW contents \in [0 .. MAX_REG_N -> Content],
         \A r \in 0 .. MAX_REG_N : r # RefSPId => contents[r] = k.regs[r],
         NeverSpilled /\ RefSet => contents[RefSPId] = RefSP,
         NEW n, n = [ra |-> requestTempRegister(k.ra, RefSPId), regs |-> contents,
                     slots |-> k.slots, emit |-> k.emit]
  PROVE  /\ Right(n) /\ Safe(n, AdventMap, here, earlier)
         /\ RefSPId \in n.ra.TempRegisters /\ n.regs = contents
<1>1. Right(k) /\ Safe(k, AdventMap, here, earlier) /\ IsFreeRegister(k.ra, RefSPId)
  BY RefRegisterKept
<1>2. /\ k.ra \in State /\ Partition(k.ra)
      /\ k = [ra |-> k.ra, regs |-> k.regs, slots |-> k.slots, emit |-> k.emit]
      /\ \A a \in k.ra.ActiveSet : a.RegId \in 0 .. MAX_REG_N
  BY <1>1, RightTypes
<1>3. RefSPId \in Register /\ \A a \in k.ra.ActiveSet : a.RegId # RefSPId
  <2>1. PICK i \in DOMAIN k.ra.FreeRegisters : k.ra.FreeRegisters[i] = RefSPId
    BY <1>1 DEF IsFreeRegister
  <2>2. RefSPId \in Register
    BY <1>2, <2>1 DEF State
  <2>3. Holds(k.ra.FreeRegisters, RefSPId)
    BY <2>1 DEF Holds
  <2>4. ~InUse(k.ra.ActiveSet, RefSPId)
    BY <1>2, <2>2, <2>3 DEF Partition, InOnePlace
  <2> QED BY <2>2, <2>4 DEF InUse
<1> DEFINE s == requestTempRegister(k.ra, RefSPId)
<1>4. s \in State /\ Partition(s)
  BY <1>1, <1>2, <1>3, RequestTempRegisterKeeps
<1>5. s.ActiveSet = k.ra.ActiveSet /\ RefSPId \in s.TempRegisters
  BY <1>2 DEF requestTempRegister, State
<1>6. n = [ra |-> s, regs |-> contents, slots |-> k.slots, emit |-> k.emit]
  OBVIOUS
<1>7. \A a \in k.ra.ActiveSet : contents[a.RegId] = k.regs[a.RegId]
  BY <1>2, <1>3
<1> HIDE DEF s
<1>8. NeverSpilled /\ RefSet => RefSPId \in s.TempRegisters /\ contents[RefSPId] = RefSP
  BY <1>5
<1>9. Right(n) /\ Safe(n, AdventMap, here, earlier)
  <2>1. \A h : h = [ra |-> s, regs |-> contents, slots |-> k.slots, emit |-> k.emit]
                => Right(h) /\ Safe(h, AdventMap, here, earlier)
    BY <1>1, <1>4, <1>5, <1>7, <1>8, SameAllocations
  <2> QED BY <1>6, <2>1
<1> QED BY <1>5, <1>6, <1>9

-----------------------------------------------------------------------------
(* Temporary registers, and the report of a user.                          *)
LEMMA TempSafe ==
  ASSUME NEW m, Right(m), HasFree(m.ra), NEW here, NEW earlier,
         Safe(m, AdventMap, here, earlier), NEW x \in Content,
         NEW n, n = [ra |-> requestTemp(m.ra), regs |-> [m.regs EXCEPT ![TopRegister(m)] = x],
                     slots |-> m.slots, emit |-> m.emit]
  PROVE  /\ Right(n) /\ Safe(n, AdventMap, here, earlier)
         /\ n.ra = requestTemp(m.ra) /\ n.ra.ActiveSet = m.ra.ActiveSet
         /\ n.ra.CurrentUser = m.ra.CurrentUser
         /\ n.ra.TempRegisters = m.ra.TempRegisters \cup {TopRegister(m)}
<1> DEFINE contents == [m.regs EXCEPT ![TopRegister(m)] = x]
           s == requestTemp(m.ra)
<1>1. /\ m.ra \in State /\ Partition(m.ra)
      /\ m.regs \in [0 .. MAX_REG_N -> Content]
      /\ m = [ra |-> m.ra, regs |-> m.regs, slots |-> m.slots, emit |-> m.emit]
      /\ \A a \in m.ra.ActiveSet : a.RegId \in 0 .. MAX_REG_N
      /\ RefHeld(m) /\ RefSPId \in 0 .. MAX_REG_N
  BY RightTypes
<1>2. /\ TopRegister(m) \in 0 .. MAX_REG_N /\ TopRegister(m) \notin m.ra.TempRegisters
      /\ \A a \in m.ra.ActiveSet : a.RegId # TopRegister(m)
  BY TopIsFree
<1>3. s \in State /\ Partition(s)
  BY <1>1, RequestTempKeeps
<1>4. /\ s.ActiveSet = m.ra.ActiveSet /\ s.CurrentUser = m.ra.CurrentUser
      /\ s.TempRegisters = m.ra.TempRegisters \cup {TopRegister(m)}
  BY <1>1 DEF requestTemp, State, TopRegister
<1>5. n = [ra |-> s, regs |-> contents, slots |-> m.slots, emit |-> m.emit] /\ n.ra = s
  OBVIOUS
<1>6. /\ contents \in [0 .. MAX_REG_N -> Content]
      /\ \A a \in m.ra.ActiveSet : contents[a.RegId] = m.regs[a.RegId]
      /\ NeverSpilled /\ RefSet => RefSPId \in s.TempRegisters /\ contents[RefSPId] = RefSP
  BY <1>1, <1>2, <1>4 DEF RefHeld
<1> HIDE DEF s, contents
<1>7. \A k : k = [ra |-> s, regs |-> contents, slots |-> m.slots, emit |-> m.emit]
              => Right(k) /\ Safe(k, AdventMap, here, earlier)
  BY <1>3, <1>4, <1>6, SameAllocations
<1>8. Right(n) /\ Safe(n, AdventMap, here, earlier)
  BY <1>5, <1>7
<1> QED BY <1>4, <1>5, <1>8 DEF s

(* A temporary register is given back.                                     *)
LEMMA GiveUpSafe ==
  ASSUME NEW m, Right(m), NEW here, NEW earlier,
         Safe(m, AdventMap, here, earlier), NEW r \in m.ra.TempRegisters,
         NeverSpilled /\ RefSet => r # RefSPId,
         NEW n, n = [ra |-> giveUpTempRegister(m.ra, r), regs |-> m.regs, slots |-> m.slots,
                     emit |-> m.emit]
  PROVE  /\ Right(n) /\ Safe(n, AdventMap, here, earlier)
         /\ n.regs = m.regs /\ n.ra.ActiveSet = m.ra.ActiveSet
         /\ n.ra.CurrentUser = m.ra.CurrentUser
         /\ n.ra.TempRegisters = m.ra.TempRegisters \ {r}
<1> DEFINE s == giveUpTempRegister(m.ra, r)
<1>1. /\ m.ra \in State /\ Partition(m.ra)
      /\ m.regs \in [0 .. MAX_REG_N -> Content]
      /\ m = [ra |-> m.ra, regs |-> m.regs, slots |-> m.slots, emit |-> m.emit]
  BY RightTypes
<1>2. s \in State /\ Partition(s)
  BY <1>1, GiveUpTempRegisterKeeps
<1>3. /\ s.ActiveSet = m.ra.ActiveSet /\ s.CurrentUser = m.ra.CurrentUser
      /\ s.TempRegisters = m.ra.TempRegisters \ {r}
  BY <1>1 DEF giveUpTempRegister, State
<1>4. n = [ra |-> s, regs |-> m.regs, slots |-> m.slots, emit |-> m.emit] /\ n.ra = s
          /\ n.regs = m.regs
  OBVIOUS
<1> HIDE DEF s
<1>5. NeverSpilled /\ RefSet => RefSPId \in s.TempRegisters /\ m.regs[RefSPId] = RefSP
  BY <1>3, RightTypes DEF RefHeld
<1>6. Right(n) /\ Safe(n, AdventMap, here, earlier)
  BY <1>1, <1>2, <1>3, <1>4, <1>5, SameAllocations
<1> QED BY <1>3, <1>4, <1>6

(* The user at work is reported.                                           *)
LEMMA ReportSafe ==
  ASSUME NEW m, Right(m), NEW here, NEW earlier,
         Safe(m, AdventMap, here, earlier), NEW user \in User \cup {NoUser},
         NEW n, n = [ra |-> reportUser(m.ra, user), regs |-> m.regs, slots |-> m.slots,
                     emit |-> m.emit]
  PROVE  /\ Right(n) /\ Safe(n, AdventMap, here, earlier)
         /\ n.regs = m.regs /\ n.ra.ActiveSet = m.ra.ActiveSet
         /\ n.ra.CurrentUser = user
         /\ n.ra.TempRegisters = m.ra.TempRegisters
<1> DEFINE s == reportUser(m.ra, user)
<1>1. /\ m.ra \in State /\ Partition(m.ra)
      /\ m.regs \in [0 .. MAX_REG_N -> Content]
      /\ m = [ra |-> m.ra, regs |-> m.regs, slots |-> m.slots, emit |-> m.emit]
  BY RightTypes
<1>2. s \in State /\ Partition(s)
  BY <1>1, ReportUserKeeps
<1>3. /\ s.ActiveSet = m.ra.ActiveSet /\ s.CurrentUser = user
      /\ s.TempRegisters = m.ra.TempRegisters
  BY <1>1 DEF reportUser, State
<1>4. n = [ra |-> s, regs |-> m.regs, slots |-> m.slots, emit |-> m.emit] /\ n.ra = s
          /\ n.regs = m.regs
  OBVIOUS
<1> HIDE DEF s
<1>5. NeverSpilled /\ RefSet => RefSPId \in s.TempRegisters /\ m.regs[RefSPId] = RefSP
  BY <1>3, RightTypes DEF RefHeld
<1>6. Right(n) /\ Safe(n, AdventMap, here, earlier)
  BY <1>1, <1>2, <1>3, <1>4, <1>5, SameAllocations
<1> QED BY <1>3, <1>4, <1>6

-----------------------------------------------------------------------------
(* The invariant.                                                          *)

(* Where the pass is.                                                      *)
ControlInv ==
  /\ prog \in Programs /\ WellFormed
  /\ bb \in 1 .. Len(prog) + 1 /\ pos \in Nat /\ scaled \in Nat
  /\ RefSet \in BOOLEAN /\ RefSpilled \in BOOLEAN /\ (RefSpilled => ~NeverSpilled)
  /\ bb \in Blocks /\ pos # 0 => pos \in DOMAIN Body(bb)
  /\ bb \notin Blocks => pos = 0

(* What it has translated of the instruction at work, and what is to come. *)
OperandsInv ==
  /\ args \in Seq([val : Instruction, reg : 0 .. MAX_REG_N])
  /\ AdventMap \in [Instruction -> SUBSET (Timestep \X Nat)]
  /\ pos = 0 => args = <<>>
  /\ Working =>
       /\ Len(args) <= Len(NowOperands)
       /\ \A i \in DOMAIN args : args[i].val = NowOperands[i]
       /\ \A v \in Instruction : AdventMap[v] = Pending(bb, v, pos, Len(args))

(* The copy of the pointer of a getelementptr is in a temporary register   *)
(* of its own.                                                             *)
PointerInv ==
  /\ PtrRegId \in 0 .. MAX_REG_N
  /\ PtrRegId # 0 => /\ Working /\ IsGep(Now.kind) /\ PtrRegId \in ra.TempRegisters
                     /\ NeverSpilled /\ RefSet => PtrRegId # RefSPId

(* Where the values are.                                                   *)
ValuesInv ==
  /\ Right(Machine)
  /\ NeverSpilled => \A v \in Earlier(bb) : slots[v] = v
  /\ Working => Safe(Machine, AdventMap, Here(bb, pos), Earlier(bb))
  /\ bb \in Blocks /\ pos = 0 => ra.ActiveSet = {}

(* A block that returns is the last one.                                   *)
OneReturn == \A b \in Blocks : ReturnBlock(b) => b = Len(prog)

(* The inductive invariant.                                                *)
DepromoteInv == ControlInv /\ OneReturn /\ OperandsInv /\ PointerInv /\ ValuesInv

(* At the start nothing is in a register, and nothing was defined.         *)
LEMMA InitDepromoteInv == Init /\ OneReturn => DepromoteInv
<1> SUFFICES ASSUME Init, OneReturn PROVE DepromoteInv
  OBVIOUS
<1>1. MAX_REG_N \in Nat
  BY AllocatorAssumption
<1>2. Len(prog) \in Nat /\ Blocks = 1 .. Len(prog)
  BY DEF Init, WellFormed, TypedProgram
<1>3. ControlInv
  <2>1. bb = 1 /\ pos = 0 /\ scaled = 0 /\ RefSet = FALSE /\ RefSpilled = FALSE
            /\ prog \in Programs /\ WellFormed
    BY DEF Init
  <2>2. RefSet \in BOOLEAN /\ RefSpilled \in BOOLEAN
    BY <2>1
  <2>3. bb \in 1 .. Len(prog) + 1 /\ pos \in Nat /\ scaled \in Nat /\ ~RefSpilled
    BY <1>2, <2>1
  <2> QED BY <2>1, <2>2, <2>3 DEF ControlInv
<1>4. ~Working
  BY DEF Init, Working
<1>5. OperandsInv
  BY <1>4 DEF Init, OperandsInv
<1>6. PointerInv
  BY <1>1 DEF Init, PointerInv
<1>7. ra \in State /\ Partition(ra) /\ ra.ActiveSet = {}
  <2>1. ra.ActiveSet = {}
    BY DEF Init, AllocatorInit, NewAllocator
  <2>2. AllocatorInv
    BY InitAllocatorInv DEF Init
  <2> QED BY <2>1, <2>2 DEF AllocatorInv
<1>8. Machine \in MachineStates
  <2>1. /\ regs \in [0 .. MAX_REG_N -> Content]
        /\ slots \in [Instruction \cup {RefSP} -> Content]
        /\ SourceToEmitMap \in [Instruction -> 0 .. MAX_REG_N]
    BY <1>1 DEF Init, Content
  <2> QED BY <1>7, <2>1 DEF Machine, MachineStates
<1>9. Right(Machine)
  <2>1. Machine.ra = ra
    BY DEF Machine
  <2>2. RefHeld(Machine)
    BY DEF Init, RefHeld
  <2> QED BY <1>7, <1>8, <2>1, <2>2 DEF Right
<1>10. Earlier(bb) = {}
  <2> SUFFICES ASSUME NEW c \in Blocks, c < bb PROVE FALSE
    BY DEF Earlier
  <2> QED BY <1>2 DEF Init
<1>11. ValuesInv
  BY <1>4, <1>7, <1>9, <1>10 DEF ValuesInv
<1> QED BY <1>3, <1>5, <1>6, <1>11 DEF DepromoteInv

-----------------------------------------------------------------------------
(* What the invariant says while an instruction is translated.             *)
LEMMA AtWork ==
  ASSUME DepromoteInv, Working
  PROVE  /\ bb \in Blocks /\ bb \in Nat /\ pos \in DOMAIN Body(bb) /\ pos \in Nat /\ pos # 0
         /\ NowUser \in User /\ NowUser # NoUser /\ NowUser[1] = bb
         /\ Right(Machine) /\ Safe(Machine, AdventMap, Here(bb, pos), Earlier(bb))
         /\ \A v \in Here(bb, pos) : DefBlock(v) = bb
         /\ \A v \in Instruction : AdventMap[v] \subseteq Timestep \X Nat
         /\ Machine.ra = ra /\ Machine.regs = regs /\ Machine.slots = slots
         /\ Machine.emit = SourceToEmitMap
         /\ NowOperands \in Seq(Instruction) /\ Len(args) \in Nat /\ Len(NowOperands) \in Nat
         /\ Now.kind \in Terminators <=> pos = Len(Body(bb))
<1>1. bb \in Blocks /\ pos \in DOMAIN Body(bb) /\ pos \in Nat /\ pos # 0
  BY DEF Working, DepromoteInv, ControlInv
<1>2. WellFormed
  BY DEF DepromoteInv, ControlInv
<1>3. <<bb, pos>> \in User /\ bb \in Nat
  BY <1>1, <1>2 DEF WellFormed, TypedProgram
<1>4. NowUser \in User /\ NowUser # NoUser /\ NowUser[1] = bb
  BY <1>3, AllocatorAssumption DEF NowUser
<1>5. Right(Machine) /\ Safe(Machine, AdventMap, Here(bb, pos), Earlier(bb))
  BY DEF DepromoteInv, ValuesInv
<1>6. \A v \in Here(bb, pos) : DefBlock(v) = bb
  BY <1>1, <1>2, HereIsHere
<1>7. \A v \in Instruction : AdventMap[v] \subseteq Timestep \X Nat
  BY DEF DepromoteInv, OperandsInv
<1>8. /\ Machine.ra = ra /\ Machine.regs = regs /\ Machine.slots = slots
      /\ Machine.emit = SourceToEmitMap
  BY DEF Machine
<1>9. NowOperands \in Seq(Instruction)
          /\ args \in Seq([val : Instruction, reg : 0 .. MAX_REG_N])
  BY <1>1, <1>2, OperandFacts DEF NowOperands, WellFormed, DepromoteInv, OperandsInv
<1>10. Len(args) \in Nat /\ Len(NowOperands) \in Nat
  BY <1>9
<1>11. Now.kind \in Terminators <=> pos = Len(Body(bb))
  BY <1>1, <1>2 DEF Now, WellFormed, TypedProgram
<1> QED BY <1>1, <1>3, <1>4, <1>5, <1>6, <1>7, <1>8, <1>9, <1>10, <1>11

(* A step that leaves the machine right and safe.                          *)
LEMMA ValuesCommitted ==
  ASSUME DepromoteInv, NEW m, NEW uses, NEW here, Right(m), Safe(m, uses, here, Earlier(bb)),
         Commit(m), prog' = prog, bb' = bb, pos' # 0,
         AdventMap' = uses, Here(bb, pos)' = here,
         RefSet' = RefSet \/ (RefSPId \in m.ra.TempRegisters /\ m.regs[RefSPId] = RefSP)
  PROVE  ValuesInv'
<1>1. Machine' = m
  <2>1. m = [ra |-> m.ra, regs |-> m.regs, slots |-> m.slots, emit |-> m.emit]
    BY RightTypes
  <2>2. ra' = m.ra /\ regs' = m.regs /\ slots' = m.slots /\ SourceToEmitMap' = m.emit
    BY DEF Commit
  <2> QED BY <2>1, <2>2 DEF Machine
<1>2. NeverSpilled' = NeverSpilled /\ RefSPId' = RefSPId
  BY NeverSpilledKept DEF RefSPId
<1>3. Right(Machine)'
  BY <1>1, <1>2 DEF Right, RefHeld
<1>4. Earlier(bb)' = Earlier(bb) /\ FinalUses(bb)' = FinalUses(bb)
  BY ProgramKept
<1>5. Safe(Machine, AdventMap, Here(bb, pos), Earlier(bb))'
  BY <1>1, <1>2, <1>4 DEF Safe
<1>6. NeverSpilled' => \A v \in Earlier(bb)' : slots'[v] = v
  BY <1>2, <1>4 DEF Safe, Commit
<1> QED BY <1>3, <1>5, <1>6 DEF ValuesInv

(* A step of the same instruction.                                         *)
LEMMA SameInstruction ==
  ASSUME prog' = prog, bb' = bb, pos' = pos
  PROVE  /\ Blocks' = Blocks /\ Body(bb)' = Body(bb)
         /\ Now' = Now /\ NowUser' = NowUser /\ NowOperands' = NowOperands
         /\ Here(bb, pos)' = Here(bb, pos) /\ Earlier(bb)' = Earlier(bb)
         /\ Working' = Working /\ OneReturn' = OneReturn /\ NeverSpilled' = NeverSpilled
         /\ \A v, k : Pending(bb, v, pos, k)' = Pending(bb, v, pos, k)
<1>1. /\ Blocks' = Blocks /\ Body(bb)' = Body(bb)
      /\ Operands(bb, pos)' = Operands(bb, pos)
      /\ Here(bb, pos)' = Here(bb, pos) /\ Earlier(bb)' = Earlier(bb)
      /\ \A v, k : Pending(bb, v, pos, k)' = Pending(bb, v, pos, k)
  BY ProgramKept
<1>2. Working' = Working
  BY <1>1 DEF Working
<1>3. OneReturn' = OneReturn /\ NeverSpilled' = NeverSpilled
  BY ProgramKept, NeverSpilledKept DEF OneReturn, ReturnBlock
<1> QED BY <1>1, <1>2, <1>3 DEF Now, NowUser, NowOperands

(* An instruction is translated within its block.                          *)
LEMMA ControlKept ==
  ASSUME DepromoteInv, prog' = prog, bb' = bb, pos' = pos, scaled' \in Nat,
         UNCHANGED <<RefSet, RefSpilled>>
  PROVE  ControlInv' /\ OneReturn'
<1>1. /\ Blocks' = Blocks /\ Body(bb)' = Body(bb)
      /\ OneReturn' = OneReturn /\ NeverSpilled' = NeverSpilled
  BY SameInstruction
<1>2. WellFormed'
  BY WellFormedKept DEF DepromoteInv, ControlInv
<1>3. Len(prog)' = Len(prog)
  OBVIOUS
<1> QED BY <1>1, <1>2, <1>3 DEF DepromoteInv, ControlInv

(* A block is entered with no value in a register.                         *)
LEMMA EnterBlockStep == DepromoteInv /\ EnterBlock => DepromoteInv'
<1> SUFFICES ASSUME DepromoteInv, EnterBlock PROVE DepromoteInv'
  OBVIOUS
<1>1. bb \in Blocks /\ pos = 0 /\ pos' = 1 /\ args = <<>> /\ PtrRegId = 0
          /\ ra.ActiveSet = {} /\ WellFormed
  <2>1. bb \in Blocks /\ pos = 0 /\ pos' = 1
    BY DEF EnterBlock
  <2>2. ~Working
    BY <2>1 DEF Working
  <2> QED BY <2>1, <2>2 DEF DepromoteInv, ControlInv, OperandsInv, PointerInv, ValuesInv
<1>2. /\ prog' = prog /\ bb' = bb /\ args' = args /\ PtrRegId' = PtrRegId /\ scaled' = scaled
      /\ ra' = ra /\ slots' = slots /\ RefSet' = RefSet /\ RefSpilled' = RefSpilled
      /\ AdventMap' = [v \in Instruction |-> Advents(bb, v)]
      /\ SourceToEmitMap' = [v \in Instruction |-> 0]
      /\ regs' = [r \in 0 .. MAX_REG_N |-> IF RefSet /\ r = RefSPId THEN regs[r] ELSE None]
  BY DEF EnterBlock
<1>3. 1 \in DOMAIN Body(bb)
  BY <1>1, BodyFacts DEF WellFormed
<1>4. /\ Blocks' = Blocks /\ Body(bb)' = Body(bb) /\ Earlier(bb)' = Earlier(bb)
      /\ \A b, v : Advents(b, v)' = Advents(b, v)
      /\ \A b, v, i, k : Pending(b, v, i, k)' = Pending(b, v, i, k)
      /\ \A b, i : Here(b, i)' = Here(b, i)
      /\ OneReturn' = OneReturn /\ NeverSpilled' = NeverSpilled
  BY <1>2, ProgramKept, NeverSpilledKept DEF OneReturn, ReturnBlock
<1>5. WellFormed' /\ Len(prog)' = Len(prog)
  BY <1>1, <1>2, WellFormedKept
<1>6. ControlInv'
  BY <1>1, <1>2, <1>3, <1>4, <1>5 DEF DepromoteInv, ControlInv
<1>7. \A v : Advents(bb, v) = Pending(bb, v, 1, 0)
  BY <1>1, AllUsesPending
<1>8. OperandsInv'
  <2>1. \A v \in Instruction : AdventMap'[v] = Pending(bb, v, 1, 0)
    BY <1>2, <1>7
  <2>2. \A v : Pending(bb, v, 1, 0) \subseteq Timestep \X Nat
    BY <1>1, UsesAreTyped
  <2>3. AdventMap' \in [Instruction -> SUBSET (Timestep \X Nat)]
    BY <1>2, <1>7, <2>2
  <2>4. Len(args) = 0 /\ args' = <<>> /\ Len(args)' = 0
    BY <1>1, <1>2
  <2>5. Len(NowOperands)' >= 0
    <3>1. NowOperands' = Operands(bb, 1)
      BY <1>1, <1>2, ProgramKept DEF NowOperands
    <3>2. Operands(bb, 1) \in Seq(Instruction)
      BY <1>1, <1>3, OperandFacts DEF WellFormed
    <3> QED BY <3>1, <3>2
  <2>6. \A v : Pending(bb, v, pos, Len(args))' = Pending(bb, v, 1, 0)
    BY <1>1, <1>2, <1>4, <2>4
  <2>7. DOMAIN args' = {}
    BY <2>4
  <2>8. args' \in Seq([val : Instruction, reg : 0 .. MAX_REG_N])
    BY <2>4
  <2> QED BY <1>1, <2>1, <2>3, <2>4, <2>5, <2>6, <2>7, <2>8 DEF OperandsInv
<1>9. PointerInv'
  BY <1>1, <1>2 DEF PointerInv, DepromoteInv
<1>10. Right(Machine)'
  <2>1. /\ ra \in State /\ Partition(ra) /\ slots \in [Instruction \cup {RefSP} -> Content]
        /\ regs \in [0 .. MAX_REG_N -> Content] /\ RefHeld(Machine)
        /\ Machine.ra = ra /\ Machine.regs = regs /\ RefSPId \in 0 .. MAX_REG_N
    <3>1. Right(Machine)
      BY DEF DepromoteInv, ValuesInv
    <3>2. Machine.ra = ra /\ Machine.slots = slots /\ Machine.regs = regs
      BY DEF Machine
    <3> QED BY <3>1, <3>2, RightTypes
  <2>2. /\ regs' \in [0 .. MAX_REG_N -> Content]
        /\ SourceToEmitMap' \in [Instruction -> 0 .. MAX_REG_N]
    BY <1>2, <2>1, AllocatorAssumption DEF Content
  <2>3. Machine' \in MachineStates /\ Machine'.ra = ra /\ Machine'.regs = regs'
    BY <1>2, <2>1, <2>2 DEF Machine, MachineStates
  <2>4. RefHeld(Machine')
    BY <1>2, <2>1, <2>3 DEF RefHeld
  <2>5. Right(Machine')
    BY <1>1, <2>1, <2>3, <2>4 DEF Right
  <2> QED BY <1>2, <1>4, <2>5 DEF Right, RefHeld, RefSPId
<1>11. Here(bb, pos)' = {}
  <2>1. \A j \in DOMAIN Body(bb) : ~(j < 1)
    BY <1>1, BodyFacts DEF WellFormed
  <2>2. Here(bb, 1) = {}
    BY <2>1 DEF Here
  <2> QED BY <1>1, <1>2, <1>4, <2>2
<1>12. NeverSpilled' => \A v \in Earlier(bb)' : slots'[v] = v
  BY <1>2, <1>4 DEF DepromoteInv, ValuesInv
<1>13. Machine'.ra.ActiveSet = {} /\ Machine'.slots = slots'
  BY <1>1, <1>2 DEF Machine
<1>14. Safe(Machine, AdventMap, Here(bb, pos), Earlier(bb))'
  BY <1>11, <1>12, <1>13 DEF Safe
<1>15. ValuesInv'
  BY <1>1, <1>10, <1>12, <1>14 DEF ValuesInv
<1> QED BY <1>4, <1>6, <1>8, <1>9, <1>15 DEF DepromoteInv

-----------------------------------------------------------------------------
(* While an instruction that reports its user is translated, the value of  *)
(* each operand is in its register and cannot be evicted.  The others keep *)
(* the last one only.                                                      *)
Protected(s, i) ==
  \E a \in s.ActiveSet : a.Source = args[i].val /\ a.RegId = args[i].reg /\ a.LastUser = NowUser

HeldInv ==
  Working /\ args # <<>> =>
    IF Reports(Now.kind)
      THEN ra.CurrentUser = NowUser /\ \A i \in DOMAIN args : Protected(ra, i)
      ELSE NeverSpilled => regs[args[Len(args)].reg] = args[Len(args)].val

(* A sequence with one more element.                                       *)
LEMMA Appended ==
  ASSUME NEW S, NEW s \in Seq(S), NEW e \in S
  PROVE  /\ Append(s, e) \in Seq(S) /\ Len(Append(s, e)) = Len(s) + 1 /\ Len(s) \in Nat
         /\ DOMAIN Append(s, e) = 1 .. Len(s) + 1 /\ DOMAIN s = 1 .. Len(s)
         /\ \A i \in 1 .. Len(s) : Append(s, e)[i] = s[i]
         /\ Append(s, e)[Len(s) + 1] = e
OBVIOUS

(* reportUser, for the instructions that call it.                          *)
LEMMA ReportedSafe ==
  ASSUME DepromoteInv, Working
  PROVE  /\ Right(Reported) /\ Safe(Reported, AdventMap, Here(bb, pos), Earlier(bb))
         /\ Reported.ra.ActiveSet = ra.ActiveSet /\ Reported.regs = regs
         /\ Reported.ra.TempRegisters = ra.TempRegisters
         /\ Reports(Now.kind) => Reported.ra.CurrentUser = NowUser
<1> DEFINE m == Reported
           here == Here(bb, pos)
           earlier == Earlier(bb)
<1>1. /\ Right(Machine) /\ Safe(Machine, AdventMap, here, earlier) /\ NowUser \in User
      /\ Machine.ra = ra /\ Machine.regs = regs
  BY AtWork
<1> HIDE DEF m, here, earlier
<1>2. CASE Reports(Now.kind)
  <2>1. m = [ra |-> reportUser(Machine.ra, NowUser), regs |-> Machine.regs,
             slots |-> Machine.slots, emit |-> Machine.emit]
    BY <1>2 DEF m, Machine, Reported
  <2>2. /\ Right(m) /\ Safe(m, AdventMap, here, earlier)
        /\ m.ra.ActiveSet = Machine.ra.ActiveSet /\ m.regs = Machine.regs
        /\ m.ra.CurrentUser = NowUser
        /\ m.ra.TempRegisters = Machine.ra.TempRegisters
    BY <1>1, <2>1, ReportSafe
  <2> QED BY <1>1, <2>2 DEF m, here, earlier
<1>3. CASE ~Reports(Now.kind)
  BY <1>1, <1>3 DEF m, Reported, here, earlier
<1> QED BY <1>2, <1>3

(* getRegister and reportUse: an operand is filled and protected.          *)
LEMMA TranslateOperandStep ==
  DepromoteInv /\ TranslateOperand => DepromoteInv' /\ (HeldInv => HeldInv')
<1> SUFFICES ASSUME DepromoteInv, TranslateOperand PROVE DepromoteInv' /\ (HeldInv => HeldInv')
  OBVIOUS
<1> DEFINE v == NowOperands[Len(args) + 1]
           m == Reported
           uses == [AdventMap EXCEPT ![v] = @ \ {FirstUse(@)}]
           here == Here(bb, pos)
           earlier == Earlier(bb)
<1>1. /\ Working /\ ~Translated
      /\ prog' = prog /\ bb' = bb /\ pos' = pos /\ PtrRegId' = PtrRegId /\ scaled' = scaled
      /\ RefSet' = RefSet /\ RefSpilled' = RefSpilled /\ AdventMap' = uses
  BY DEF TranslateOperand
<1>2. PICK n \in WithValue(m, v) :
        /\ Commit([n EXCEPT !.ra = update(@, v, NowUser, NextAdvent(uses[v]))])
        /\ args' = Append(args, [val |-> v, reg |-> n.emit[v]])
  BY <1>1 DEF TranslateOperand
<1>3. /\ bb \in Blocks /\ bb \in Nat /\ pos \in DOMAIN Body(bb) /\ pos \in Nat /\ pos # 0
      /\ NowUser \in User /\ NowUser # NoUser /\ NowUser[1] = bb
      /\ Right(Machine) /\ Safe(Machine, AdventMap, here, earlier)
      /\ \A w \in here : DefBlock(w) = bb
      /\ \A w \in Instruction : AdventMap[w] \subseteq Timestep \X Nat
      /\ Machine.ra = ra /\ Machine.regs = regs
      /\ NowOperands \in Seq(Instruction) /\ Len(args) \in Nat /\ Len(NowOperands) \in Nat
  BY <1>1, AtWork
<1>4. /\ args \in Seq([val : Instruction, reg : 0 .. MAX_REG_N])
      /\ AdventMap \in [Instruction -> SUBSET (Timestep \X Nat)]
      /\ Len(args) <= Len(NowOperands)
      /\ \A i \in DOMAIN args : args[i].val = NowOperands[i]
      /\ \A w \in Instruction : AdventMap[w] = Pending(bb, w, pos, Len(args))
  BY <1>1 DEF DepromoteInv, OperandsInv
<1>5. WellFormed
  BY DEF DepromoteInv, ControlInv
<1>6. Len(args) + 1 \in DOMAIN NowOperands /\ Len(args) + 1 <= Len(NowOperands)
  BY <1>1, <1>3, <1>4 DEF Translated
<1>7. v \in Instruction /\ v \in here \cup earlier
  BY <1>3, <1>5, <1>6, OperandIsKnown DEF NowOperands
<1>8. /\ FirstUse(Pending(bb, v, pos, Len(args))) = <<pos, Len(args) + 1>>
      /\ <<pos, Len(args) + 1>> \in Pending(bb, v, pos, Len(args))
      /\ Pending(bb, v, pos, Len(args)) \ {<<pos, Len(args) + 1>>} =
           Pending(bb, v, pos, Len(args) + 1)
      /\ \A w : w # v => Pending(bb, w, pos, Len(args)) = Pending(bb, w, pos, Len(args) + 1)
  <2> DEFINE next == Len(args) + 1
  <2>1. next = Len(args) + 1 /\ next \in DOMAIN Operands(bb, pos) /\ v = Operands(bb, pos)[next]
    BY <1>6 DEF NowOperands
  <2> HIDE DEF v, next
  <2>2. /\ FirstUse(Pending(bb, v, pos, Len(args))) = <<pos, next>>
        /\ <<pos, next>> \in Pending(bb, v, pos, Len(args))
        /\ Pending(bb, v, pos, Len(args)) \ {<<pos, next>>} = Pending(bb, v, pos, next)
        /\ \A w : w # v => Pending(bb, w, pos, Len(args)) = Pending(bb, w, pos, next)
    <3> DEFINE count == Len(args)
    <3>1. bb \in Blocks /\ pos \in DOMAIN Body(bb) /\ count \in Nat /\ next = count + 1
      BY <1>3, <2>1
    <3> HIDE DEF count
    <3>2. /\ FirstUse(Pending(bb, v, pos, count)) = <<pos, next>>
          /\ <<pos, next>> \in Pending(bb, v, pos, count)
          /\ Pending(bb, v, pos, count) \ {<<pos, next>>} = Pending(bb, v, pos, next)
          /\ \A w : w # v => Pending(bb, w, pos, count) = Pending(bb, w, pos, next)
      BY <1>5, <2>1, <3>1, NextUse, SMTT(30)
    <3> QED BY <3>2 DEF count
  <2> QED BY <2>2 DEF next
<1> HIDE DEF v, m, here, earlier
<1>9. \A w \in Instruction : uses[w] = Pending(bb, w, pos, Len(args) + 1)
  BY <1>4, <1>7, <1>8
<1>10. AdventMap[v] # {} /\ uses \in [Instruction -> SUBSET (Timestep \X Nat)]
  BY <1>4, <1>7, <1>8
<1>11. \A w \in Instruction : w # v => uses[w] = AdventMap[w]
  BY <1>4
<1> HIDE DEF uses
<1>12. NextAdvent(uses[v]) \in Timestep \cup {NO_MORE_ADVENT}
  <2>1. uses[v] \subseteq Timestep \X Nat
    BY <1>7, <1>10
  <2> QED BY <2>1, AdventIsTyped
<1>13. /\ Right(m) /\ Safe(m, AdventMap, here, earlier) /\ m.ra.ActiveSet = ra.ActiveSet
       /\ m.ra.TempRegisters = ra.TempRegisters
       /\ Reports(Now.kind) => m.ra.CurrentUser = NowUser
  BY <1>1, ReportedSafe DEF m, here, earlier
<1>14. /\ Right(n) /\ Safe(n, AdventMap, here, earlier) /\ IsActive(n.ra, v)
       /\ n.ra.CurrentUser = m.ra.CurrentUser /\ n.ra.TempRegisters = m.ra.TempRegisters
       /\ \A a \in m.ra.ActiveSet : UsedNow(m.ra, a) => a \in n.ra.ActiveSet
  BY <1>2, <1>3, <1>7, <1>10, <1>13, ValueSafe
<1> DEFINE k == [n EXCEPT !.ra = update(@, v, NowUser, NextAdvent(uses[v]))]
<1>15. /\ Right(k) /\ Safe(k, uses, here, earlier)
       /\ k.regs = n.regs /\ k.emit = n.emit
       /\ k.ra.CurrentUser = n.ra.CurrentUser /\ k.ra.TempRegisters = n.ra.TempRegisters
       /\ \A a \in n.ra.ActiveSet : a.Source # v => a \in k.ra.ActiveSet
       /\ \E a \in k.ra.ActiveSet : a.Source = v /\ a.RegId = n.emit[v] /\ a.LastUser = NowUser
  <2>1. \A w \in here : w # v => uses[w] = AdventMap[w]
    BY <1>11 DEF here, Here
  <2> HIDE DEF k
  <2> DEFINE advent == NextAdvent(uses[v])
  <2>2. k = [ra |-> update(n.ra, v, NowUser, advent), regs |-> n.regs, slots |-> n.slots,
             emit |-> n.emit]
    <3>1. k = [n EXCEPT !.ra = update(@, v, NowUser, advent)]
      BY DEF k
    <3>2. n = [ra |-> n.ra, regs |-> n.regs, slots |-> n.slots, emit |-> n.emit]
      BY <1>14, RightTypes
    <3> QED BY <3>1, <3>2
  <2>3. advent \in Timestep \cup {NO_MORE_ADVENT}
    BY <1>12
  <2>4. Right(n) /\ Safe(n, AdventMap, here, earlier) /\ IsActive(n.ra, v)
    BY <1>14
  <2>5. v \in Instruction /\ NowUser \in User /\ NowUser[1] = bb
    BY <1>3, <1>7
  <2> HIDE DEF advent
  <2> QED BY <2>1, <2>2, <2>3, <2>4, <2>5, UpdateSafe
<1>16. Commit(k)
  BY <1>2
<1> HIDE DEF k
<1>17. /\ Blocks' = Blocks /\ Now' = Now /\ NowUser' = NowUser /\ NowOperands' = NowOperands
       /\ Here(bb, pos)' = here /\ Working' = Working /\ NeverSpilled' = NeverSpilled
       /\ \A w, i : Pending(bb, w, pos, i)' = Pending(bb, w, pos, i)
  BY <1>1, SameInstruction DEF here
<1>18. ControlInv' /\ OneReturn'
  <2>1. scaled' \in Nat
    BY <1>1 DEF DepromoteInv, ControlInv
  <2> QED BY <1>1, <2>1, ControlKept
<1>19. ValuesInv'
  <2>1. pos' # 0
    BY <1>1, <1>3
  <2> QED BY <1>1, <1>15, <1>16, <1>17, <2>1, ValuesCommitted DEF earlier
<1> DEFINE arg == [val |-> v, reg |-> n.emit[v]]
<1>20. arg \in [val : Instruction, reg : 0 .. MAX_REG_N]
  <2>1. n.emit \in [Instruction -> 0 .. MAX_REG_N]
    BY <1>14, RightTypes
  <2> QED BY <1>7, <2>1
<1>21. arg.val = v /\ arg.reg = n.emit[v] /\ args' = Append(args, arg)
  BY <1>2
<1> HIDE DEF arg
<1>22. /\ args' \in Seq([val : Instruction, reg : 0 .. MAX_REG_N])
       /\ Len(args') = Len(args) + 1
       /\ DOMAIN args' = 1 .. Len(args) + 1 /\ DOMAIN args = 1 .. Len(args)
       /\ \A i \in 1 .. Len(args) : args'[i] = args[i]
       /\ args'[Len(args) + 1] = arg
  BY <1>4, <1>20, <1>21, Appended
<1>23. OperandsInv'
  <2>1. \A i \in DOMAIN args' : args'[i].val = NowOperands[i]
    <3> TAKE i \in DOMAIN args'
    <3>1. CASE i \in 1 .. Len(args)
      BY <1>4, <1>22, <3>1
    <3>2. CASE i = Len(args) + 1
      BY <1>21, <1>22, <3>2 DEF v
    <3> QED BY <1>3, <1>22, <3>1, <3>2
  <2>2. Len(args)' <= Len(NowOperands)'
    BY <1>6, <1>17, <1>22
  <2>3. \A w \in Instruction : AdventMap'[w] = Pending(bb, w, pos, Len(args))'
    <3>1. Len(args)' = Len(args) + 1
      BY <1>22
    <3> QED BY <1>1, <1>9, <1>17, <3>1
  <2>4. AdventMap' \in [Instruction -> SUBSET (Timestep \X Nat)]
    BY <1>1, <1>10
  <2>5. pos' # 0
    BY <1>1, <1>3
  <2> QED BY <1>17, <1>22, <2>1, <2>2, <2>3, <2>4, <2>5 DEF OperandsInv
<1>24. ra' = k.ra /\ regs' = k.regs
  BY <1>16 DEF Commit
<1>25. PointerInv'
  BY <1>1, <1>13, <1>14, <1>15, <1>17, <1>24 DEF PointerInv, DepromoteInv, RefSPId
<1>26. ASSUME HeldInv PROVE HeldInv'
  <2>1. PICK c \in k.ra.ActiveSet : c.Source = v /\ c.RegId = n.emit[v] /\ c.LastUser = NowUser
    BY <1>15
  <2>2. CASE Reports(Now.kind)
    <3>1. ra'.CurrentUser = NowUser
      BY <1>13, <1>14, <1>15, <1>24, <2>2
    <3>2. ASSUME NEW i \in 1 .. Len(args)
          PROVE  \E a \in k.ra.ActiveSet : a.Source = args[i].val /\ a.RegId = args[i].reg
                /\ a.LastUser = NowUser
      <4>1. args # <<>> /\ i \in DOMAIN args
        BY <1>22
      <4>2. PICK a \in ra.ActiveSet : a.Source = args[i].val /\ a.RegId = args[i].reg
                /\ a.LastUser = NowUser
        BY <1>1, <1>26, <2>2, <4>1 DEF HeldInv, Protected
      <4>3. a \in n.ra.ActiveSet
        BY <1>3, <1>13, <1>14, <2>2, <4>2 DEF UsedNow
      <4>4. CASE a.Source = v
        <5>1. n.emit[v] = a.RegId
          BY <1>14, <4>3, <4>4 DEF Right
        <5> QED BY <2>1, <4>2, <4>4, <5>1
      <4>5. CASE a.Source # v
        BY <1>15, <4>2, <4>3, <4>5
      <4> QED BY <4>4, <4>5
    <3>3. ASSUME NEW i \in DOMAIN args' PROVE Protected(ra, i)'
      <4>1. CASE i \in 1 .. Len(args)
        BY <1>17, <1>22, <1>24, <3>2, <4>1 DEF Protected
      <4>2. CASE i = Len(args) + 1
        BY <1>17, <1>21, <1>22, <1>24, <2>1, <4>2 DEF Protected
      <4> QED BY <1>3, <1>22, <4>1, <4>2
    <3> QED BY <1>17, <2>2, <3>1, <3>3 DEF HeldInv
  <2>3. CASE ~Reports(Now.kind)
    <3>1. NeverSpilled => regs'[n.emit[v]] = v
      BY <1>15, <1>24, <2>1 DEF Right
    <3> QED BY <1>17, <1>21, <1>22, <2>3, <3>1 DEF HeldInv
  <2> QED BY <2>2, <2>3
<1> QED BY <1>18, <1>19, <1>23, <1>25, <1>26 DEF DepromoteInv

-----------------------------------------------------------------------------
(* A step that translates no operand changes no use.                       *)
LEMMA OperandsKept ==
  ASSUME DepromoteInv, prog' = prog, bb' = bb, pos' = pos, args' = args, AdventMap' = AdventMap
  PROVE  OperandsInv'
<1>1. /\ NowOperands' = NowOperands /\ Working' = Working
      /\ \A v, k : Pending(bb, v, pos, k)' = Pending(bb, v, pos, k)
  BY SameInstruction
<1>2. Len(args)' = Len(args) /\ Len(NowOperands)' = Len(NowOperands)
  BY <1>1
<1> QED BY <1>1, <1>2 DEF DepromoteInv, OperandsInv

(* What the user has taken is kept, be it for other values evicted.        *)
LEMMA ProtectedKept ==
  ASSUME DepromoteInv, HeldInv, Working, Reports(Now.kind),
         prog' = prog, bb' = bb, pos' = pos, args' = args,
         ra.CurrentUser = NowUser =>
           /\ ra'.CurrentUser = NowUser
           /\ \A a \in ra.ActiveSet : a.LastUser = NowUser => a \in ra'.ActiveSet
  PROVE  HeldInv'
<1>1. Now' = Now /\ NowUser' = NowUser /\ Working' = Working
  BY SameInstruction
<1>2. SUFFICES ASSUME args # <<>>
               PROVE  ra'.CurrentUser = NowUser /\ \A i \in DOMAIN args : Protected(ra, i)'
  BY <1>1 DEF HeldInv
<1>3. ra.CurrentUser = NowUser /\ \A i \in DOMAIN args : Protected(ra, i)
  BY <1>2 DEF HeldInv
<1>4. ASSUME NEW i \in DOMAIN args PROVE Protected(ra, i)'
  <2>1. PICK a \in ra.ActiveSet : a.Source = args[i].val /\ a.RegId = args[i].reg
            /\ a.LastUser = NowUser
    BY <1>3 DEF Protected
  <2>2. a \in ra'.ActiveSet
    BY <1>3, <2>1
  <2> QED BY <1>1, <2>1, <2>2 DEF Protected
<1> QED BY <1>3, <1>4

(* Two fields are changed, the others kept.                                *)
LEMMA Updated ==
  ASSUME NEW m, Right(m), NEW s, NEW contents,
         NEW n, n = [m EXCEPT !.ra = s, !.regs = contents]
  PROVE  n = [ra |-> s, regs |-> contents, slots |-> m.slots, emit |-> m.emit]
<1>1. m = [ra |-> m.ra, regs |-> m.regs, slots |-> m.slots, emit |-> m.emit]
  BY RightTypes
<1>2. /\ n.ra = s /\ n.regs = contents /\ n.slots = m.slots /\ n.emit = m.emit
      /\ n = [ra |-> n.ra, regs |-> n.regs, slots |-> n.slots, emit |-> n.emit]
  BY <1>1
<1> QED BY <1>2

(* The copy of the pointer evicts no operand.                              *)
LEMMA CopyPointerStep ==
  DepromoteInv /\ CopyPointer => DepromoteInv' /\ (HeldInv => HeldInv')
<1> SUFFICES ASSUME DepromoteInv, CopyPointer PROVE DepromoteInv' /\ (HeldInv => HeldInv')
  OBVIOUS
<1> DEFINE here == Here(bb, pos)
           earlier == Earlier(bb)
           x == Now.def
<1>1. /\ Working /\ IsGep(Now.kind)
      /\ prog' = prog /\ bb' = bb /\ pos' = pos /\ args' = args /\ scaled' = scaled
      /\ RefSet' = RefSet /\ RefSpilled' = RefSpilled /\ AdventMap' = AdventMap
  BY DEF CopyPointer
<1>2. PICK n \in WithFreeRegister(Reported) :
        /\ PtrRegId' = TopRegister(n)
        /\ Commit([n EXCEPT !.ra = requestTemp(@), !.regs[TopRegister(n)] = x])
  BY DEF CopyPointer
<1>3. /\ Right(Reported) /\ Safe(Reported, AdventMap, here, earlier)
      /\ \A w \in here : DefBlock(w) = bb
      /\ Reported.ra.ActiveSet = ra.ActiveSet /\ Reported.ra.CurrentUser = NowUser
      /\ pos # 0 /\ NowUser # NoUser
  BY <1>1, AtWork, ReportedSafe DEF Reports
<1>4. x \in Content
  <2>1. bb \in Blocks /\ pos \in DOMAIN Body(bb)
    BY <1>1, AtWork
  <2> QED BY <2>1 DEF DepromoteInv, ControlInv, WellFormed, TypedProgram, Now, Content
<1>5. /\ Now' = Now /\ Here(bb, pos)' = here /\ Working' = Working
      /\ NeverSpilled' = NeverSpilled
  BY <1>1, SameInstruction
<1> HIDE DEF here, earlier, x
<1>6. /\ Right(n) /\ Safe(n, AdventMap, here, earlier) /\ HasFree(n.ra)
      /\ n.ra.CurrentUser = NowUser
      /\ \A a \in ra.ActiveSet : a.LastUser = NowUser => a \in n.ra.ActiveSet
  BY <1>2, <1>3, FreeRegisterSafe DEF UsedNow
<1> DEFINE k == [n EXCEPT !.ra = requestTemp(@), !.regs[TopRegister(n)] = x]
<1>7. /\ Right(k) /\ Safe(k, AdventMap, here, earlier)
      /\ k.ra.ActiveSet = n.ra.ActiveSet /\ k.ra.CurrentUser = n.ra.CurrentUser
      /\ k.ra.TempRegisters = n.ra.TempRegisters \cup {TopRegister(n)}
  <2>1. k = [ra |-> requestTemp(n.ra), regs |-> [n.regs EXCEPT ![TopRegister(n)] = x],
             slots |-> n.slots, emit |-> n.emit]
    <3> DEFINE s == requestTemp(n.ra)
               contents == [n.regs EXCEPT ![TopRegister(n)] = x]
    <3>1. k = [n EXCEPT !.ra = s, !.regs = contents]
      OBVIOUS
    <3> HIDE DEF s, contents, k
    <3>2. k = [ra |-> s, regs |-> contents, slots |-> n.slots, emit |-> n.emit]
      BY <1>6, <3>1, Updated
    <3> QED BY <3>2 DEF s, contents
  <2> HIDE DEF k
  <2> QED BY <1>4, <1>6, <2>1, TempSafe
<1>8. Commit(k)
  BY <1>2
<1> HIDE DEF k
<1>9. ra' = k.ra
  BY <1>8 DEF Commit
<1>10. ControlInv' /\ OneReturn'
  <2>1. scaled' \in Nat
    BY <1>1 DEF DepromoteInv, ControlInv
  <2> QED BY <1>1, <2>1, ControlKept
<1>11. OperandsInv'
  BY <1>1, OperandsKept
<1>12. ValuesInv'
  <2>1. pos' # 0
    BY <1>1, <1>3
  <2> QED BY <1>1, <1>5, <1>7, <1>8, <2>1, ValuesCommitted DEF earlier
<1>13. PointerInv'
  <2>1. TopRegister(n) \in 0 .. MAX_REG_N /\ TopRegister(n) \notin n.ra.TempRegisters
    BY <1>6, TopIsFree
  <2>2. NeverSpilled /\ RefSet => RefSPId \in n.ra.TempRegisters
    BY <1>6, RightTypes DEF RefHeld
  <2> QED BY <1>1, <1>2, <1>5, <1>7, <1>9, <2>1, <2>2 DEF PointerInv, RefSPId
<1>14. ASSUME HeldInv PROVE HeldInv'
  <2>1. Reports(Now.kind)
    BY <1>1 DEF Reports
  <2> QED BY <1>1, <1>6, <1>7, <1>9, <1>14, <2>1, ProtectedKept
<1> QED BY <1>10, <1>11, <1>12, <1>13, <1>14 DEF DepromoteInv

(* Nor does the register an index is scaled in.                            *)
LEMMA ScaleIndexStep ==
  DepromoteInv /\ ScaleIndex => DepromoteInv' /\ (HeldInv => HeldInv')
<1> SUFFICES ASSUME DepromoteInv, ScaleIndex PROVE DepromoteInv' /\ (HeldInv => HeldInv')
  OBVIOUS
<1> DEFINE here == Here(bb, pos)
           earlier == Earlier(bb)
<1>1. /\ Working /\ IsGep(Now.kind)
      /\ prog' = prog /\ bb' = bb /\ pos' = pos /\ args' = args /\ PtrRegId' = PtrRegId
      /\ RefSet' = RefSet /\ RefSpilled' = RefSpilled /\ AdventMap' = AdventMap
      /\ scaled' = scaled + 1
  BY DEF ScaleIndex
<1>3. /\ Right(Machine) /\ Safe(Machine, AdventMap, here, earlier)
      /\ \A w \in here : DefBlock(w) = bb
      /\ Machine.ra = ra /\ pos # 0
  BY <1>1, AtWork
<1>5. /\ Now' = Now /\ Here(bb, pos)' = here /\ Working' = Working
      /\ NeverSpilled' = NeverSpilled
  BY <1>1, SameInstruction
<1> HIDE DEF here, earlier
<1>2. PICK l : /\ Right(l) /\ Safe(l, AdventMap, here, earlier) /\ Commit(l)
               /\ l.ra.CurrentUser = ra.CurrentUser /\ l.ra.TempRegisters = ra.TempRegisters
               /\ \A a \in ra.ActiveSet : UsedNow(ra, a) => a \in l.ra.ActiveSet
  <2>1. CASE Commit(Machine)
    BY <1>3, <2>1
  <2>2. ASSUME NEW n \in WithFreeRegister(Machine),
               Commit([n EXCEPT !.ra = giveUpTempRegister(requestTemp(@), TopRegister(n)),
                                !.regs[TopRegister(n)] = None])
        PROVE  \E l : /\ Right(l) /\ Safe(l, AdventMap, here, earlier) /\ Commit(l)
                      /\ l.ra.CurrentUser = ra.CurrentUser
                         /\ l.ra.TempRegisters = ra.TempRegisters
                      /\ \A a \in ra.ActiveSet : UsedNow(ra, a) => a \in l.ra.ActiveSet
    <3> DEFINE contents == [n.regs EXCEPT ![TopRegister(n)] = None]
               k == [ra |-> requestTemp(n.ra), regs |-> contents, slots |-> n.slots,
                     emit |-> n.emit]
               l == [ra |-> giveUpTempRegister(requestTemp(n.ra), TopRegister(n)),
                     regs |-> contents, slots |-> n.slots, emit |-> n.emit]
    <3>1. /\ Right(n) /\ Safe(n, AdventMap, here, earlier) /\ HasFree(n.ra)
          /\ n.ra.CurrentUser = ra.CurrentUser /\ n.ra.TempRegisters = ra.TempRegisters
          /\ \A a \in ra.ActiveSet : UsedNow(ra, a) => a \in n.ra.ActiveSet
      BY <1>3, FreeRegisterSafe
    <3>2. /\ Right(k) /\ Safe(k, AdventMap, here, earlier)
          /\ k.ra.ActiveSet = n.ra.ActiveSet /\ k.ra.CurrentUser = n.ra.CurrentUser
          /\ k.ra.TempRegisters = n.ra.TempRegisters \cup {TopRegister(n)}
      <4>1. None \in Content
        BY DEF Content
      <4> QED BY <3>1, <4>1, TempSafe
    <3>3. /\ TopRegister(n) \notin n.ra.TempRegisters
          /\ NeverSpilled /\ RefSet => TopRegister(n) # RefSPId
      BY <3>1, TopIsFree, RightTypes DEF RefHeld
    <3>4. Commit(l)
      <4>1. l = [n EXCEPT !.ra = giveUpTempRegister(requestTemp(@), TopRegister(n)),
                          !.regs[TopRegister(n)] = None]
        <5> DEFINE s == giveUpTempRegister(requestTemp(n.ra), TopRegister(n))
                   L == [n EXCEPT !.ra = giveUpTempRegister(requestTemp(@), TopRegister(n)),
                                  !.regs[TopRegister(n)] = None]
        <5>1. L = [n EXCEPT !.ra = s, !.regs = contents]
          OBVIOUS
        <5> HIDE DEF s, contents, L
        <5>2. L = [ra |-> s, regs |-> contents, slots |-> n.slots, emit |-> n.emit]
          BY <3>1, <5>1, Updated
        <5> QED BY <5>2 DEF s, L
      <4> HIDE DEF l
      <4> QED BY <2>2, <4>1
    <3>5. l = [ra |-> giveUpTempRegister(k.ra, TopRegister(n)), regs |-> k.regs,
               slots |-> k.slots, emit |-> k.emit]
      OBVIOUS
    <3>6. TopRegister(n) \in k.ra.TempRegisters
      BY <3>2
    <3> HIDE DEF k, l
    <3>7. /\ Right(l) /\ Safe(l, AdventMap, here, earlier)
          /\ l.ra.ActiveSet = k.ra.ActiveSet
          /\ l.ra.CurrentUser = k.ra.CurrentUser
          /\ l.ra.TempRegisters = k.ra.TempRegisters \ {TopRegister(n)}
      BY <3>2, <3>3, <3>5, <3>6, GiveUpSafe
    <3>8. l.ra.TempRegisters = ra.TempRegisters
      BY <3>1, <3>2, <3>3, <3>7
    <3> QED BY <3>1, <3>2, <3>4, <3>7, <3>8
  <2> QED BY <2>1, <2>2 DEF ScaleIndex
<1>9. ra' = l.ra
  BY <1>2 DEF Commit
<1>10. ControlInv' /\ OneReturn'
  <2>1. scaled' \in Nat
    BY <1>1 DEF DepromoteInv, ControlInv
  <2> QED BY <1>1, <2>1, ControlKept
<1>11. OperandsInv'
  BY <1>1, OperandsKept
<1>12. ValuesInv'
  <2>1. pos' # 0
    BY <1>1, <1>3
  <2> QED BY <1>1, <1>2, <1>5, <2>1, ValuesCommitted DEF earlier
<1>13. PointerInv'
  BY <1>1, <1>2, <1>5, <1>9 DEF PointerInv, DepromoteInv, RefSPId
<1>14. ASSUME HeldInv PROVE HeldInv'
  <2>1. Reports(Now.kind)
    BY <1>1 DEF Reports
  <2>2. NowUser # NoUser
    BY <1>1, AtWork
  <2> QED BY <1>1, <1>2, <1>9, <1>14, <2>1, <2>2, ProtectedKept DEF UsedNow
<1> QED BY <1>10, <1>11, <1>12, <1>13, <1>14 DEF DepromoteInv

-----------------------------------------------------------------------------
(* The reference register is given up before the arguments.                *)
LEMMA GiveUpRefStep ==
  DepromoteInv /\ GiveUpRef => DepromoteInv' /\ (HeldInv => HeldInv')
<1> SUFFICES ASSUME DepromoteInv, GiveUpRef PROVE DepromoteInv' /\ (HeldInv => HeldInv')
  OBVIOUS
<1> DEFINE here == Here(bb, pos)
           earlier == Earlier(bb)
           m == [ra |-> giveUpTempRegister(Machine.ra, RefSPId), regs |-> Machine.regs,
                 slots |-> Machine.slots, emit |-> Machine.emit]
<1>1. /\ Working /\ Now.kind = "call" /\ RefSPId \in ra.TempRegisters /\ RefSpilled
      /\ prog' = prog /\ bb' = bb /\ pos' = pos /\ args' = args /\ PtrRegId' = PtrRegId
      /\ RefSet' = RefSet /\ RefSpilled' = RefSpilled /\ AdventMap' = AdventMap
      /\ scaled' = scaled
      /\ ra' = giveUpTempRegister(ra, RefSPId) /\ SourceToEmitMap' = SourceToEmitMap
      /\ regs' = regs /\ slots' = slots
  BY DEF GiveUpRef, MustGiveUpRef, passVars
<1>2. /\ Right(Machine) /\ Safe(Machine, AdventMap, here, earlier)
      /\ Machine.ra = ra /\ Machine.regs = regs /\ Machine.slots = slots
      /\ Machine.emit = SourceToEmitMap /\ pos # 0
  BY <1>1, AtWork
<1>3. /\ Now' = Now /\ Here(bb, pos)' = here /\ Working' = Working
      /\ NeverSpilled' = NeverSpilled
  BY <1>1, SameInstruction
<1>4. Commit(m)
  BY <1>1, <1>2 DEF Commit
<1> HIDE DEF here, earlier
<1>5. Right(m) /\ Safe(m, AdventMap, here, earlier)
  <2>1. ~NeverSpilled
    BY <1>1 DEF DepromoteInv, ControlInv
  <2> QED BY <1>1, <1>2, <2>1, GiveUpSafe
<1> HIDE DEF m
<1>6. ControlInv' /\ OneReturn'
  <2>1. scaled' \in Nat
    BY <1>1 DEF DepromoteInv, ControlInv
  <2> QED BY <1>1, <2>1, ControlKept
<1>7. OperandsInv'
  BY <1>1, OperandsKept
<1>8. ValuesInv'
  <2>1. pos' # 0
    BY <1>1, <1>2
  <2> QED BY <1>1, <1>3, <1>4, <1>5, <2>1, ValuesCommitted DEF earlier
<1>9. PointerInv'
  BY <1>1 DEF PointerInv, DepromoteInv, IsGep
<1>10. HeldInv => HeldInv'
  <2>1. ~Reports(Now.kind)
    BY <1>1 DEF Reports, IsGep
  <2> QED BY <1>1, <1>3, <2>1 DEF HeldInv
<1> QED BY <1>6, <1>7, <1>8, <1>9, <1>10 DEF DepromoteInv

(* clearRA: each eviction keeps what the others need.                      *)
LEMMA ClearRAStep ==
  DepromoteInv /\ ClearRA => DepromoteInv' /\ (HeldInv => HeldInv')
<1> SUFFICES ASSUME DepromoteInv, ClearRA PROVE DepromoteInv' /\ (HeldInv => HeldInv')
  OBVIOUS
<1> DEFINE here == Here(bb, pos)
           earlier == Earlier(bb)
<1>1. /\ Working /\ Now.kind = "br"
      /\ prog' = prog /\ bb' = bb /\ pos' = pos /\ args' = args /\ PtrRegId' = PtrRegId
      /\ RefSet' = RefSet /\ RefSpilled' = RefSpilled /\ AdventMap' = AdventMap
      /\ scaled' = scaled
  BY DEF ClearRA, passVars
<1>2. PICK a \in Victims(ra) : Commit(Evicted(Machine, a))
  BY DEF ClearRA
<1>3. /\ Right(Machine) /\ Safe(Machine, AdventMap, here, earlier)
      /\ \A w \in here : DefBlock(w) = bb
      /\ Machine.ra = ra /\ Machine.regs = regs /\ pos # 0
  BY <1>1, AtWork
<1>4. /\ Now' = Now /\ Here(bb, pos)' = here /\ Working' = Working
      /\ NeverSpilled' = NeverSpilled
  BY <1>1, SameInstruction
<1> HIDE DEF here, earlier
<1> DEFINE m == Evicted(Machine, a)
<1>5. Right(m) /\ Safe(m, AdventMap, here, earlier) /\ m.regs = regs
  <2>1. a \in Machine.ra.ActiveSet
    BY <1>3 DEF Victims
  <2> QED BY <1>3, <2>1, EvictedSafe
<1>6. Commit(m) /\ regs' = regs
  BY <1>2, <1>5 DEF Commit
<1> HIDE DEF m
<1>7. ControlInv' /\ OneReturn'
  <2>1. scaled' \in Nat
    BY <1>1 DEF DepromoteInv, ControlInv
  <2> QED BY <1>1, <2>1, ControlKept
<1>8. OperandsInv'
  BY <1>1, OperandsKept
<1>9. ValuesInv'
  <2>1. pos' # 0
    BY <1>1, <1>3
  <2> QED BY <1>1, <1>4, <1>5, <1>6, <2>1, ValuesCommitted DEF earlier
<1>10. PointerInv'
  BY <1>1 DEF PointerInv, DepromoteInv, IsGep
<1>11. HeldInv => HeldInv'
  <2>1. ~Reports(Now.kind)
    BY <1>1 DEF Reports, IsGep
  <2> QED BY <1>1, <1>4, <1>6, <2>1 DEF HeldInv
<1> QED BY <1>7, <1>8, <1>9, <1>10, <1>11 DEF DepromoteInv

-----------------------------------------------------------------------------
(* From an instruction to the next.                                        *)
LEMMA HereNext ==
  ASSUME WellFormed, NEW b \in Blocks, NEW i \in DOMAIN Body(b)
  PROVE  Here(b, i + 1) = Here(b, i) \cup ({Body(b)[i].def} \ {None})
<1>1. \A j \in DOMAIN Body(b) : j \in Nat
  BY BodyFacts DEF WellFormed
<1>2. \A j \in DOMAIN Body(b) : j < i + 1 <=> j < i \/ j = i
  BY <1>1
<1>3. Body(b)[i].def \in Instruction \cup {None}
  BY DEF WellFormed, TypedProgram
<1> QED BY <1>2, <1>3, DepromoteAssumption DEF Here

(* From an instruction to the next: its result is a value of the block.    *)
LEMMA NextInstructionStep ==
  ASSUME DepromoteInv, Working, Now.kind \notin Terminators, Len(args) = Len(NowOperands),
         NextInstruction, RefSet' \in BOOLEAN, RefSpilled' \in BOOLEAN,
         RefSpilled' => ~NeverSpilled, NEW m, Right(m),
         RefSet' = RefSet \/ (RefSPId \in m.ra.TempRegisters /\ m.regs[RefSPId] = RefSP),
         Safe(m, AdventMap, Here(bb, pos) \cup ({Now.def} \ {None}), Earlier(bb)), Commit(m)
  PROVE  DepromoteInv' /\ HeldInv'
<1> DEFINE more == Here(bb, pos) \cup ({Now.def} \ {None})
<1>1. /\ args' = <<>> /\ PtrRegId' = 0 /\ scaled' = 0 /\ pos' = pos + 1
      /\ prog' = prog /\ bb' = bb /\ AdventMap' = AdventMap
  BY DEF NextInstruction
<1>2. /\ bb \in Blocks /\ pos \in DOMAIN Body(bb) /\ pos \in Nat /\ pos # Len(Body(bb))
      /\ WellFormed /\ bb \in 1 .. Len(prog) + 1
  BY AtWork DEF DepromoteInv, ControlInv
<1>3. pos + 1 \in DOMAIN Body(bb)
  BY <1>2, BodyFacts DEF WellFormed
<1>4. /\ Blocks' = Blocks /\ Body(bb)' = Body(bb)
      /\ \A b, i : Here(b, i)' = Here(b, i)
      /\ \A b, i : Operands(b, i)' = Operands(b, i)
      /\ \A b, v, i, k : Pending(b, v, i, k)' = Pending(b, v, i, k)
      /\ OneReturn' = OneReturn /\ NeverSpilled' = NeverSpilled
  BY <1>1, ProgramKept, NeverSpilledKept DEF OneReturn, ReturnBlock
<1>5. WellFormed' /\ Len(prog)' = Len(prog)
  BY <1>1, <1>2, WellFormedKept
<1>6. ControlInv'
  <2>1. pos' \in Nat /\ scaled' \in Nat /\ pos' \in DOMAIN Body(bb)'
    BY <1>1, <1>2, <1>3, <1>4
  <2>2. prog' \in Programs /\ bb' \in 1 .. Len(prog)' + 1 /\ bb' \in Blocks'
    BY <1>1, <1>2, <1>4, <1>5 DEF DepromoteInv, ControlInv
  <2> QED BY <1>4, <1>5, <2>1, <2>2 DEF ControlInv
<1>7. OperandsInv'
  <2>1. AdventMap \in [Instruction -> SUBSET (Timestep \X Nat)]
    BY DEF DepromoteInv, OperandsInv
  <2>2. \A v \in Instruction : AdventMap[v] = Pending(bb, v, pos + 1, 0)
    <3>1. \A v \in Instruction : AdventMap[v] = Pending(bb, v, pos, Len(Operands(bb, pos)))
      BY DEF DepromoteInv, OperandsInv, NowOperands
    <3> QED BY <1>2, <3>1, UsesOfNext
  <2>3. Len(args)' = 0 /\ DOMAIN args' = {}
            /\ args' \in Seq([val : Instruction, reg : 0 .. MAX_REG_N])
    BY <1>1
  <2>4. NowOperands' = Operands(bb, pos + 1) /\ Operands(bb, pos + 1) \in Seq(Instruction)
    BY <1>1, <1>2, <1>3, <1>4, OperandFacts DEF NowOperands, WellFormed
  <2>5. Len(args)' <= Len(NowOperands)'
    BY <2>3, <2>4
  <2>6. \A v \in Instruction : AdventMap'[v] = Pending(bb, v, pos, Len(args))'
    BY <1>1, <1>4, <2>2, <2>3
  <2> QED BY <1>1, <2>1, <2>3, <2>5, <2>6 DEF OperandsInv
<1>8. PointerInv'
  BY <1>1, AllocatorAssumption DEF PointerInv
<1>9. ValuesInv'
  <2>1. Here(bb, pos)' = more
    BY <1>1, <1>2, <1>4, HereNext DEF Now
  <2>2. pos' # 0
    BY <1>1, <1>2
  <2> HIDE DEF more
  <2>3. Safe(m, AdventMap, more, Earlier(bb))
    BY DEF more
  <2> QED BY <1>1, <2>1, <2>2, <2>3, ValuesCommitted
<1>10. HeldInv'
  BY <1>1 DEF HeldInv
<1>11. OneReturn'
  BY <1>4 DEF DepromoteInv
<1> QED BY <1>6, <1>7, <1>8, <1>9, <1>10, <1>11 DEF DepromoteInv

-----------------------------------------------------------------------------
(* The result of the instruction at work is new.                           *)
LEMMA ResultAtWork ==
  ASSUME DepromoteInv, Working
  PROVE  /\ Now.def \in Instruction \cup {None}
         /\ Now.def \notin Here(bb, pos) \cup Earlier(bb)
<1>1. WellFormed /\ bb \in Blocks /\ pos \in DOMAIN Body(bb)
  BY AtWork DEF DepromoteInv, ControlInv
<1>2. Now.def \in Instruction \cup {None}
  BY <1>1 DEF WellFormed, TypedProgram, Now
<1>3. CASE Now.def = None
  BY <1>2, <1>3, DepromoteAssumption DEF Here, Earlier
<1>4. CASE Now.def # None
  BY <1>1, <1>4, ResultIsNew DEF Now
<1> QED BY <1>2, <1>3, <1>4

(* The visitors of phis, moves, operators and getelementptr.               *)
LEMMA EmitInstructionStep == DepromoteInv /\ EmitInstruction => DepromoteInv' /\ HeldInv'
<1> SUFFICES ASSUME DepromoteInv, EmitInstruction PROVE DepromoteInv' /\ HeldInv'
  OBVIOUS
<1> DEFINE here == Here(bb, pos)
           earlier == Earlier(bb)
           more == here \cup ({Now.def} \ {None})
           m == IF Reports(Now.kind)
                  THEN [Machine EXCEPT !.ra = reportUser(@, NoUser)]
                  ELSE Machine
           n == IF IsGep(Now.kind)
                  THEN [m EXCEPT !.ra = giveUpTempRegister(@, PtrRegId)]
                  ELSE m
<1>1. /\ Working /\ Len(args) = Len(NowOperands) /\ Now.kind \notin {"br", "ret"}
      /\ GepReady /\ NextInstruction /\ RefSet' = RefSet /\ RefSpilled' = RefSpilled
  BY DEF EmitInstruction, Translated
<1>2. PICK k \in WithResult(n) : Commit(k)
  BY DEF EmitInstruction
<1>3. /\ Right(Machine) /\ Safe(Machine, AdventMap, here, earlier)
      /\ \A w \in here : DefBlock(w) = bb
      /\ \A w \in Instruction : AdventMap[w] \subseteq Timestep \X Nat
      /\ Machine.ra = ra
      /\ bb \in Blocks /\ pos \in DOMAIN Body(bb)
  BY <1>1, AtWork
<1>4. Now.def \in Instruction \cup {None} /\ Now.def \notin here \cup earlier
  BY <1>1, ResultAtWork
<1>5. Now.kind \notin Terminators
  BY <1>1 DEF Terminators
<1> HIDE DEF here, earlier, m, n
<1>6. Right(m) /\ Safe(m, AdventMap, here, earlier) /\ m.ra.TempRegisters = ra.TempRegisters
  <2>1. CASE Reports(Now.kind)
    <3>1. m = [ra |-> reportUser(Machine.ra, NoUser), regs |-> Machine.regs,
               slots |-> Machine.slots, emit |-> Machine.emit]
      BY <2>1 DEF m, Machine
    <3>2. NoUser \in User \cup {NoUser}
      OBVIOUS
    <3> QED BY <1>3, <3>1, <3>2, ReportSafe
  <2>2. CASE ~Reports(Now.kind)
    BY <1>3, <2>2 DEF m
  <2> QED BY <2>1, <2>2
<1>7. Right(n) /\ Safe(n, AdventMap, here, earlier)
  <2>1. CASE IsGep(Now.kind)
    <3>1. /\ PtrRegId \in m.ra.TempRegisters
          /\ NeverSpilled /\ RefSet => PtrRegId # RefSPId
      <4>1. NowOperands \in Seq(Instruction) /\ Len(NowOperands) \in Nat
        BY <1>1, AtWork
      <4>2. Len(args) >= PointerOperands
        <5>1. CASE Now.kind = "gep"
          <6>1. Body(bb)[pos].ops # <<>> /\ NowOperands = Body(bb)[pos].ops
            BY <1>3, <5>1 DEF DepromoteInv, ControlInv, WellFormed, TypedProgram, Now,
                              NowOperands, Operands
          <6>2. Len(NowOperands) >= 1
            BY <4>1, <6>1
          <6> QED BY <1>1, <5>1, <6>2 DEF PointerOperands
        <5>2. CASE Now.kind # "gep"
          BY <1>1, <4>1, <5>2 DEF PointerOperands
        <5> QED BY <5>1, <5>2
      <4>3. PtrRegId # 0
        BY <1>1, <2>1, <4>2 DEF GepReady
      <4> QED BY <1>6, <4>3 DEF DepromoteInv, PointerInv
    <3>2. n = [m EXCEPT !.ra = giveUpTempRegister(@, PtrRegId)]
      BY <2>1 DEF n
    <3>3. n = [ra |-> giveUpTempRegister(m.ra, PtrRegId), regs |-> m.regs, slots |-> m.slots,
               emit |-> m.emit]
      <4>1. m = [ra |-> m.ra, regs |-> m.regs, slots |-> m.slots, emit |-> m.emit]
        BY <1>6, RightTypes
      <4> QED BY <3>2, <4>1
    <3> QED BY <1>6, <3>1, <3>3, GiveUpSafe
  <2>2. CASE ~IsGep(Now.kind)
    BY <1>6, <2>2 DEF n
  <2> QED BY <2>1, <2>2
<1>8. Right(k) /\ Safe(k, AdventMap, more, earlier)
  <2>1. more = here \cup ({Now.def} \ {None})
    OBVIOUS
  <2> HIDE DEF more
  <2> QED BY <1>2, <1>3, <1>4, <1>7, <2>1, ResultSafe
<1>9. RefSet' \in BOOLEAN /\ RefSpilled' \in BOOLEAN /\ (RefSpilled' => ~NeverSpilled)
  BY <1>1 DEF DepromoteInv, ControlInv
<1>10. Safe(k, AdventMap, Here(bb, pos) \cup ({Now.def} \ {None}), Earlier(bb))
  BY <1>8 DEF here, earlier
<1> QED BY <1>1, <1>2, <1>5, <1>8, <1>9, <1>10, NextInstructionStep

(* set_ref takes the reference register.                                   *)
LEMMA EmitSetRefStep == DepromoteInv /\ EmitSetRef => DepromoteInv' /\ HeldInv'
<1> SUFFICES ASSUME DepromoteInv, EmitSetRef PROVE DepromoteInv' /\ HeldInv'
  OBVIOUS
<1> DEFINE here == Here(bb, pos)
           earlier == Earlier(bb)
<1>1. /\ Working /\ Now.kind = "set_ref" /\ NextInstruction /\ ~RefSet /\ RefSet' = TRUE
         /\ RefSpilled' = RefSpilled
  BY DEF EmitSetRef
<1>2. PICK m \in WithRefRegister(Machine) :
        Commit([HoldRefRegister(m) EXCEPT !.regs[RefSPId] = RefSP])
  BY DEF EmitSetRef
<1> DEFINE n == [HoldRefRegister(m) EXCEPT !.regs[RefSPId] = RefSP]
<1>3. /\ Right(Machine) /\ Safe(Machine, AdventMap, here, earlier)
      /\ \A w \in here : DefBlock(w) = bb
      /\ bb \in Blocks /\ pos \in DOMAIN Body(bb)
  BY <1>1, AtWork
<1>4. Now.kind \notin Terminators
  BY <1>1 DEF Terminators
<1>5. Now.def = None /\ Body(bb)[pos].ops = <<>>
  BY <1>1, <1>3 DEF DepromoteInv, ControlInv, WellFormed, TypedProgram, Now
<1>6. Len(args) = Len(NowOperands)
  <2>1. Now.kind # "br"
    BY <1>1
  <2>2. NowOperands = <<>>
    BY <1>5, <2>1 DEF NowOperands, Operands, Now
  <2>3. Len(args) <= Len(NowOperands) /\ Len(args) \in Nat
    BY <1>1, AtWork DEF DepromoteInv, OperandsInv
  <2>4. Len(NowOperands) = 0
    BY <2>2
  <2> QED BY <2>3, <2>4
<1> HIDE DEF here, earlier
<1>7. /\ Right(n) /\ Safe(n, AdventMap, here, earlier)
      /\ RefSPId \in n.ra.TempRegisters /\ n.regs[RefSPId] = RefSP
  <2> DEFINE contents == [m.regs EXCEPT ![RefSPId] = RefSP]
  <2>1. HoldRefRegister(m).regs = m.regs
    <3>1. Right(m)
      BY <1>2, <1>3, RefRegisterKept
    <3> QED BY <3>1, RightTypes DEF HoldRefRegister
  <2>2. n = [ra |-> requestTempRegister(m.ra, RefSPId), regs |-> contents,
             slots |-> m.slots, emit |-> m.emit]
    <3>1. m = [ra |-> m.ra, regs |-> m.regs, slots |-> m.slots, emit |-> m.emit]
      BY <1>2, <1>3, RefRegisterKept, RightTypes
    <3>2. HoldRefRegister(m) = [ra |-> requestTempRegister(m.ra, RefSPId), regs |-> m.regs,
                                slots |-> m.slots, emit |-> m.emit]
      BY <3>1 DEF HoldRefRegister
    <3> QED BY <3>2
  <2>3. contents \in [0 .. MAX_REG_N -> Content] /\ contents[RefSPId] = RefSP
    <3>1. m.regs \in [0 .. MAX_REG_N -> Content] /\ RefSPId \in 0 .. MAX_REG_N
      BY <1>2, <1>3, RefRegisterKept, RightTypes
    <3> QED BY <3>1 DEF Content
  <2>4. \A r \in 0 .. MAX_REG_N : r # RefSPId => contents[r] = m.regs[r]
    <3>1. m.regs \in [0 .. MAX_REG_N -> Content]
      BY <1>2, <1>3, RefRegisterKept, RightTypes
    <3> QED BY <3>1
  <2>5. m \in WithRefRegister(Machine)
    BY <1>2
  <2> HIDE DEF contents, n
  <2> QED BY <1>3, <2>2, <2>3, <2>4, <2>5, RefRegisterSafe
<1> HIDE DEF n
<1>8. Safe(n, AdventMap, Here(bb, pos) \cup ({Now.def} \ {None}), Earlier(bb))
  <2>1. Here(bb, pos) \cup ({Now.def} \ {None}) = Here(bb, pos)
    BY <1>5
  <2> QED BY <1>7, <2>1 DEF here, earlier
<1>9. RefSet' \in BOOLEAN /\ RefSpilled' \in BOOLEAN /\ (RefSpilled' => ~NeverSpilled)
  BY <1>1 DEF DepromoteInv, ControlInv
<1>10. Commit(n)
  BY <1>2 DEF n
<1> QED BY <1>1, <1>4, <1>6, <1>7, <1>8, <1>9, <1>10, NextInstructionStep

(* spill_ref saves the stack pointer, in no value's slot.                  *)
LEMMA EmitSpillRefStep == DepromoteInv /\ EmitSpillRef => DepromoteInv' /\ HeldInv'
<1> SUFFICES ASSUME DepromoteInv, EmitSpillRef PROVE DepromoteInv' /\ HeldInv'
  OBVIOUS
<1>1. /\ Working /\ Now.kind = "spill_ref" /\ NextInstruction /\ RefSet' = RefSet
         /\ RefSpilled' = TRUE
      /\ ra' = ra /\ SourceToEmitMap' = SourceToEmitMap /\ regs' = regs
      /\ slots' = [slots EXCEPT ![RefSP] = regs[RefSPId]]
  BY DEF EmitSpillRef
<1> DEFINE m == [ra |-> ra, regs |-> regs, slots |-> slots', emit |-> SourceToEmitMap]
<1>2. /\ Right(Machine) /\ Safe(Machine, AdventMap, Here(bb, pos), Earlier(bb))
      /\ bb \in Blocks /\ pos \in DOMAIN Body(bb)
      /\ Machine.ra = ra /\ Machine.regs = regs /\ Machine.slots = slots
      /\ Machine.emit = SourceToEmitMap
  BY <1>1, AtWork
<1>3. Now.kind \notin Terminators
  BY <1>1 DEF Terminators
<1>4. Now.def = None /\ Body(bb)[pos].ops = <<>>
  BY <1>1, <1>2 DEF DepromoteInv, ControlInv, WellFormed, TypedProgram, Now
<1>5. Len(args) = Len(NowOperands)
  <2>1. Now.kind # "br"
    BY <1>1
  <2>2. NowOperands = <<>>
    BY <1>4, <2>1 DEF NowOperands, Operands, Now
  <2>3. Len(args) <= Len(NowOperands) /\ Len(args) \in Nat
    BY <1>1, AtWork DEF DepromoteInv, OperandsInv
  <2>4. Len(NowOperands) = 0
    BY <2>2
  <2> QED BY <2>3, <2>4
<1>6. Commit(m)
  BY <1>1 DEF Commit
<1>7. ~NeverSpilled
  BY <1>1, <1>2 DEF NeverSpilled, Now
<1>8. Right(m)
  <2>1. slots' \in [Instruction \cup {RefSP} -> Content]
    BY <1>1, <1>2, RightTypes
  <2>2. m \in MachineStates
    BY <1>2, <2>1, RightTypes DEF MachineStates
  <2> QED BY <1>2, <1>7, <2>2 DEF Right, RefHeld
<1>9. Safe(m, AdventMap, Here(bb, pos) \cup ({Now.def} \ {None}), Earlier(bb))
  <2>1. Here(bb, pos) \cup ({Now.def} \ {None}) = Here(bb, pos)
    BY <1>4
  <2> QED BY <1>2, <1>7, <2>1 DEF Safe
<1> HIDE DEF m
<1>10. RefSet' \in BOOLEAN /\ RefSpilled' \in BOOLEAN
  BY <1>1 DEF DepromoteInv, ControlInv
<1> QED BY <1>1, <1>3, <1>5, <1>6, <1>7, <1>8, <1>9, <1>10, NextInstructionStep

(* A call defines its result, and then takes the reference register back.  *)
LEMMA EmitCallStep == DepromoteInv /\ EmitCall => DepromoteInv' /\ HeldInv'
<1> SUFFICES ASSUME DepromoteInv, EmitCall PROVE DepromoteInv' /\ HeldInv'
  OBVIOUS
<1> DEFINE here == Here(bb, pos)
           earlier == Earlier(bb)
           more == here \cup ({Now.def} \ {None})
<1>1. /\ Working /\ Now.kind = "call" /\ Len(args) = Len(NowOperands)
      /\ NextInstruction /\ RefSet' = RefSet /\ RefSpilled' = FALSE
  BY DEF EmitCall, Translated
<1>2. PICK m \in WithResult(Machine) :
        IF RefSpilled
          THEN \E n \in WithRefRegister(Reloaded(m)) : Commit(HoldRefRegister(n))
          ELSE Commit(m)
  BY DEF EmitCall
<1>3. /\ Right(Machine) /\ Safe(Machine, AdventMap, here, earlier)
      /\ \A w \in here : DefBlock(w) = bb
      /\ \A w \in Instruction : AdventMap[w] \subseteq Timestep \X Nat
      /\ bb \in Blocks /\ pos \in DOMAIN Body(bb)
  BY <1>1, AtWork
<1>4. Now.def \in Instruction \cup {None} /\ Now.def \notin here \cup earlier
  BY <1>1, ResultAtWork
<1>5. Now.kind \notin Terminators
  BY <1>1 DEF Terminators
<1>6. \A w \in more : DefBlock(w) = bb
  <2>1. WellFormed
    BY DEF DepromoteInv, ControlInv
  <2>2. more = Here(bb, pos + 1)
    BY <1>3, <2>1, HereNext DEF Now
  <2> QED BY <1>3, <2>1, <2>2, HereIsHere
<1> HIDE DEF here, earlier
<1>7. Right(m) /\ Safe(m, AdventMap, more, earlier)
  <2>1. more = here \cup ({Now.def} \ {None})
    OBVIOUS
  <2> HIDE DEF more
  <2> QED BY <1>2, <1>3, <1>4, <2>1, ResultSafe
<1> HIDE DEF more
<1>8. PICK k : Right(k) /\ Safe(k, AdventMap, more, earlier) /\ Commit(k)
  <2>1. CASE RefSpilled
    <3>1. PICK n \in WithRefRegister(Reloaded(m)) : Commit(HoldRefRegister(n))
      BY <1>2, <2>1
    <3>2. ~NeverSpilled
      BY <2>1 DEF DepromoteInv, ControlInv
    <3>3. Right(Reloaded(m)) /\ Safe(Reloaded(m), AdventMap, more, earlier)
      <4> DEFINE contents == [m.regs EXCEPT ![RefSPId] = m.slots[RefSP]]
      <4>1. /\ m = [ra |-> m.ra, regs |-> m.regs, slots |-> m.slots, emit |-> m.emit]
            /\ m.ra \in State /\ Partition(m.ra)
            /\ contents \in [0 .. MAX_REG_N -> Content]
        BY <1>7, RightTypes
      <4>2. Reloaded(m) = [ra |-> m.ra, regs |-> contents, slots |-> m.slots, emit |-> m.emit]
        <5>1. Reloaded(m) = [m EXCEPT !.regs = contents]
          BY DEF Reloaded
        <5> HIDE DEF contents
        <5> QED BY <4>1, <5>1
      <4> HIDE DEF contents
      <4> QED BY <1>7, <3>2, <4>1, <4>2, SameAllocations
    <3>4. /\ Right(n) /\ n = [ra |-> n.ra, regs |-> n.regs, slots |-> n.slots, emit |-> n.emit]
          /\ n.regs \in [0 .. MAX_REG_N -> Content]
      BY <1>6, <3>1, <3>3, RefRegisterKept, RightTypes
    <3>5. HoldRefRegister(n) = [ra |-> requestTempRegister(n.ra, RefSPId), regs |-> n.regs,
                                slots |-> n.slots, emit |-> n.emit]
      BY <3>4 DEF HoldRefRegister
    <3>6. Right(HoldRefRegister(n)) /\ Safe(HoldRefRegister(n), AdventMap, more, earlier)
      BY <1>6, <3>1, <3>2, <3>3, <3>4, <3>5, RefRegisterSafe
    <3> QED BY <3>1, <3>6
  <2>2. CASE ~RefSpilled
    BY <1>2, <1>7, <2>2
  <2> QED BY <2>1, <2>2
<1>9. RefSet' \in BOOLEAN /\ RefSpilled' \in BOOLEAN
  BY <1>1 DEF DepromoteInv, ControlInv
<1>10. Safe(k, AdventMap, Here(bb, pos) \cup ({Now.def} \ {None}), Earlier(bb))
  BY <1>8 DEF more, here, earlier
<1> QED BY <1>1, <1>5, <1>8, <1>9, <1>10, NextInstructionStep

-----------------------------------------------------------------------------
(* From a block to the next.                                               *)
LEMMA NextBlockStep ==
  ASSUME DepromoteInv, Working, Now.kind \in Terminators, NextBlock, Commit(Machine),
         NeverSpilled => \A v \in Earlier(bb + 1) : slots[v] = v,
         bb + 1 \in Blocks => ra.ActiveSet = {}
  PROVE  DepromoteInv' /\ HeldInv'
<1>1. /\ bb' = bb + 1 /\ pos' = 0 /\ args' = <<>> /\ prog' = prog /\ AdventMap' = AdventMap
      /\ PtrRegId' = PtrRegId /\ scaled' = scaled /\ RefSet' = RefSet
         /\ RefSpilled' = RefSpilled
  BY DEF NextBlock
<1>2. /\ ra' = ra /\ regs' = regs /\ slots' = slots /\ SourceToEmitMap' = SourceToEmitMap
  BY DEF Commit, Machine
<1>3. ~Working'
  BY <1>1 DEF Working
<1>4. /\ Blocks' = Blocks /\ Earlier(bb)' = Earlier(bb + 1) /\ OneReturn' = OneReturn
      /\ NeverSpilled' = NeverSpilled
  BY <1>1, ProgramKept, NeverSpilledKept DEF OneReturn, ReturnBlock
<1>5. WellFormed' /\ Len(prog)' = Len(prog)
  BY <1>1, WellFormedKept DEF DepromoteInv, ControlInv
<1>6. bb + 1 \in 1 .. Len(prog) + 1
  <2>1. bb \in Blocks /\ Blocks = 1 .. Len(prog) /\ Len(prog) \in Nat
    BY AtWork DEF DepromoteInv, ControlInv, WellFormed, TypedProgram
  <2> QED BY <2>1
<1>7. ControlInv'
  <2>1. /\ prog' \in Programs /\ scaled' \in Nat /\ RefSet' \in BOOLEAN
           /\ RefSpilled' \in BOOLEAN /\ (RefSpilled' => ~NeverSpilled)
    BY <1>1 DEF DepromoteInv, ControlInv
  <2> QED BY <1>1, <1>4, <1>5, <1>6, <2>1 DEF ControlInv
<1>8. OperandsInv'
  <2>1. args' \in Seq([val : Instruction, reg : 0 .. MAX_REG_N])
    BY <1>1
  <2> QED BY <1>1, <1>3, <2>1 DEF DepromoteInv, OperandsInv
<1>9. PointerInv'
  <2>1. PtrRegId = 0
    BY DEF DepromoteInv, PointerInv, Terminators, IsGep
  <2> QED BY <1>1, <2>1, AllocatorAssumption DEF PointerInv
<1>10. ValuesInv'
  <2>1. Right(Machine)
    BY DEF DepromoteInv, ValuesInv
  <2>2. Machine' = Machine
    BY <1>2 DEF Machine
  <2>3. Right(Machine)'
    BY <1>1, <1>4, <2>1, <2>2 DEF Right, RefHeld, RefSPId
  <2> QED BY <1>1, <1>2, <1>3, <1>4, <2>3 DEF ValuesInv
<1>11. HeldInv'
  BY <1>3 DEF HeldInv
<1> QED BY <1>4, <1>7, <1>8, <1>9, <1>10, <1>11 DEF DepromoteInv

(* A value of a later block is none of the earlier ones.                   *)
LEMMA EarlierNext ==
  ASSUME WellFormed, NEW b \in Blocks, NEW v \in Earlier(b + 1)
  PROVE  v \in Earlier(b) \/ (v \in Instruction /\ v \in Defs(b) /\ AdventBlocks(v) # {b})
<1>1. PICK c \in Blocks : c < b + 1 /\ v \in Defs(c) /\ AdventBlocks(v) # {c}
  BY DEF Earlier
<1>2. b \in Nat /\ c \in Nat
  BY DEF WellFormed, TypedProgram
<1>3. v \in Instruction
  BY DEF Earlier
<1>4. c < b \/ c = b
  BY <1>1, <1>2
<1> QED BY <1>1, <1>3, <1>4 DEF Earlier

(* The terminator's kind is that of the block.                             *)
LEMMA TerminatorIsLast ==
  ASSUME DepromoteInv, Working, Now.kind \in Terminators
  PROVE  /\ ReturnBlock(bb) <=> Now.kind = "ret"
         /\ pos = Len(Body(bb))
<1>1. bb \in Blocks /\ WellFormed /\ pos = Len(Body(bb))
  BY AtWork DEF DepromoteInv, ControlInv
<1>2. Body(bb)[Len(Body(bb))] = Last(prog[bb].code)
  BY <1>1, BodyFacts DEF WellFormed
<1> QED BY <1>1, <1>2 DEF ReturnBlock, Now

(* A branch leaves its block once the allocator is cleared.                *)
LEMMA EmitBranchStep == DepromoteInv /\ EmitBranch => DepromoteInv' /\ HeldInv'
<1> SUFFICES ASSUME DepromoteInv, EmitBranch PROVE DepromoteInv' /\ HeldInv'
  OBVIOUS
<1>1. /\ Working /\ Now.kind = "br" /\ ra.ActiveSet = {} /\ Commit(Machine) /\ NextBlock
  BY DEF EmitBranch, Cleared
<1>2. Now.kind \in Terminators /\ Now.kind # "ret"
  BY <1>1 DEF Terminators
<1>3. ~ReturnBlock(bb) /\ pos = Len(Body(bb))
  BY <1>1, <1>2, TerminatorIsLast
<1>4. /\ WellFormed /\ bb \in Blocks /\ pos \in DOMAIN Body(bb)
      /\ Safe(Machine, AdventMap, Here(bb, pos), Earlier(bb))
      /\ Machine.ra = ra /\ Machine.slots = slots
  BY <1>1, AtWork DEF DepromoteInv, ControlInv
<1>5. ASSUME NeverSpilled, NEW v \in Earlier(bb + 1) PROVE slots[v] = v
  <2>1. CASE v \in Earlier(bb)
    BY <1>4, <1>5, <2>1 DEF Safe
  <2>2. CASE v \in Instruction /\ v \in Defs(bb) /\ AdventBlocks(v) # {bb}
    <3>1. PICK j \in DOMAIN Body(bb) : Body(bb)[j].def = v
      BY <2>2 DEF Defs
    <3>2. v # None
      BY <2>2, DepromoteAssumption
    <3>3. Body(bb)[pos].def = None
      BY <1>1, <1>2, <1>4 DEF WellFormed, TypedProgram, Now
    <3>4. j < pos
      <4>1. DOMAIN Body(bb) = 1 .. Len(Body(bb)) /\ Len(Body(bb)) \in Nat
        BY <1>4, BodyFacts DEF WellFormed
      <4> QED BY <1>3, <3>1, <3>2, <3>3, <4>1
    <3>5. v \in Here(bb, pos)
      BY <2>2, <3>1, <3>4 DEF Here
    <3>6. v \notin FinalUses(bb)
      BY <1>3, <2>2 DEF FinalUses
    <3>7. ~IsActive(Machine.ra, v)
      BY <1>1, <1>4 DEF IsActive
    <3> QED BY <1>4, <1>5, <3>5, <3>6, <3>7 DEF Safe
  <2> QED BY <1>4, <2>1, <2>2, EarlierNext
<1> QED BY <1>1, <1>2, <1>5, NextBlockStep

(* A return leaves the last block, with values still in registers.         *)
LEMMA EmitReturnStep == DepromoteInv /\ EmitReturn => DepromoteInv' /\ HeldInv'
<1> SUFFICES ASSUME DepromoteInv, EmitReturn PROVE DepromoteInv' /\ HeldInv'
  OBVIOUS
<1>1. /\ Working /\ Now.kind = "ret" /\ Commit(Machine) /\ NextBlock
  BY DEF EmitReturn
<1>2. Now.kind \in Terminators
  BY <1>1 DEF Terminators
<1>3. ReturnBlock(bb)
  BY <1>1, <1>2, TerminatorIsLast
<1>4. /\ WellFormed /\ bb \in Blocks
      /\ Safe(Machine, AdventMap, Here(bb, pos), Earlier(bb))
      /\ Machine.slots = slots
  BY <1>1, AtWork DEF DepromoteInv, ControlInv
<1>5. bb = Len(prog) /\ Len(prog) \in Nat /\ Blocks = 1 .. Len(prog)
  BY <1>3, <1>4 DEF DepromoteInv, OneReturn, WellFormed, TypedProgram
<1>6. bb + 1 \notin Blocks
  BY <1>5
<1>7. ASSUME NEW v \in Instruction, v \in Defs(bb) PROVE AdventBlocks(v) = {bb}
  <2>1. bb \in AdventBlocks(v)
    BY <1>4, <1>7 DEF AdventBlocks
  <2>2. ASSUME NEW c \in AdventBlocks(v) PROVE c = bb
    <3>1. c \in Blocks
      BY DEF AdventBlocks
    <3>2. PICK b \in Blocks : b <= c /\ v \in Defs(b)
      BY <1>4, <1>7 DEF WellFormed, UsedAfterDefinition
    <3>3. PICK j \in DOMAIN Body(bb) : Body(bb)[j].def = v
      BY <1>7 DEF Defs
    <3>4. b = bb
      BY <1>4, <1>7, <3>2, <3>3, DefinedIn
    <3> QED BY <1>5, <3>1, <3>2, <3>4
  <2> QED BY <2>1, <2>2
<1>8. NeverSpilled => \A v \in Earlier(bb + 1) : slots[v] = v
  BY <1>4, <1>7, EarlierNext DEF Safe
<1> QED BY <1>1, <1>2, <1>6, <1>8, NextBlockStep

(* The invariant is about the variables only.                              *)
LEMMA UnchangedStep ==
  DepromoteInv /\ UNCHANGED vars => DepromoteInv' /\ (HeldInv => HeldInv')
<1> SUFFICES ASSUME DepromoteInv, UNCHANGED vars PROVE DepromoteInv' /\ (HeldInv => HeldInv')
  OBVIOUS
<1>1. /\ prog' = prog /\ bb' = bb /\ pos' = pos /\ args' = args /\ PtrRegId' = PtrRegId
      /\ RefSet' = RefSet /\ RefSpilled' = RefSpilled /\ AdventMap' = AdventMap
      /\ scaled' = scaled
      /\ ra' = ra /\ SourceToEmitMap' = SourceToEmitMap /\ regs' = regs /\ slots' = slots
  BY DEF vars, passVars
<1>2. /\ Now' = Now /\ NowUser' = NowUser /\ Working' = Working /\ Blocks' = Blocks
      /\ Here(bb, pos)' = Here(bb, pos) /\ Earlier(bb)' = Earlier(bb)
      /\ FinalUses(bb)' = FinalUses(bb) /\ NeverSpilled' = NeverSpilled
  BY <1>1, SameInstruction, ProgramKept
<1>3. ControlInv' /\ OneReturn'
  <2>1. scaled' \in Nat
    BY <1>1 DEF DepromoteInv, ControlInv
  <2> QED BY <1>1, <2>1, ControlKept
<1>4. OperandsInv'
  BY <1>1, OperandsKept
<1>5. PointerInv'
  BY <1>1, <1>2 DEF DepromoteInv, PointerInv, RefSPId
<1>6. Machine' = Machine
  BY <1>1 DEF Machine
<1>7. ValuesInv'
  <2>1. Right(Machine) => Right(Machine)'
    BY <1>1, <1>2, <1>6 DEF Right, RefHeld, RefSPId
  <2>2. Safe(Machine, AdventMap, Here(bb, pos), Earlier(bb))
            => Safe(Machine, AdventMap, Here(bb, pos), Earlier(bb))'
    BY <1>1, <1>2, <1>6 DEF Safe
  <2> QED BY <1>1, <1>2, <2>1, <2>2 DEF DepromoteInv, ValuesInv
<1>8. HeldInv => HeldInv'
  BY <1>1, <1>2 DEF HeldInv, Protected
<1> QED BY <1>3, <1>4, <1>5, <1>7, <1>8 DEF DepromoteInv

(* Every step keeps the invariant.                                         *)
LEMMA NextDepromoteInv ==
  DepromoteInv /\ [Next]_vars => DepromoteInv' /\ (HeldInv => HeldInv')
<1> SUFFICES ASSUME DepromoteInv, [Next]_vars PROVE DepromoteInv' /\ (HeldInv => HeldInv')
  OBVIOUS
<1>1. EnterBlock => HeldInv'
  <2>1. EnterBlock => args' = <<>>
    <3>1. EnterBlock => args = <<>> /\ args' = args
      BY DEF EnterBlock, DepromoteInv, OperandsInv
    <3> QED BY <3>1
  <2> QED BY <2>1 DEF HeldInv
<1>2. Next \/ UNCHANGED vars
  OBVIOUS
<1> QED BY <1>1, <1>2, EnterBlockStep, TranslateOperandStep, CopyPointerStep, ScaleIndexStep,
           EmitInstructionStep, EmitSetRefStep, EmitSpillRefStep, GiveUpRefStep, EmitCallStep,
           ClearRAStep, EmitBranchStep, EmitReturnStep, UnchangedStep DEF Next, Done

-----------------------------------------------------------------------------
(* What the invariant says of the properties.                              *)
LEMMA DepromoteTypes == DepromoteInv => TypeOK
<1> SUFFICES ASSUME DepromoteInv PROVE TypeOK
  OBVIOUS
<1>1. /\ ra \in State /\ regs \in [0 .. MAX_REG_N -> Content]
      /\ slots \in [Instruction \cup {RefSP} -> Content]
      /\ SourceToEmitMap \in [Instruction -> 0 .. MAX_REG_N]
  <2>1. Right(Machine)
    BY DEF DepromoteInv, ValuesInv
  <2>2. Machine.ra = ra /\ Machine.regs = regs /\ Machine.slots = slots
            /\ Machine.emit = SourceToEmitMap
    BY DEF Machine
  <2> QED BY <2>1, <2>2, RightTypes
<1>2. AllocatorTypeOK
  BY <1>1 DEF AllocatorTypeOK, State
<1> QED BY <1>1, <1>2 DEF DepromoteInv, ControlInv, OperandsInv, PointerInv, TypeOK

(* The allocator keeps its own invariant.                                  *)
LEMMA DepromotePartition == DepromoteInv => RegistersPartitioned
<1> SUFFICES ASSUME DepromoteInv PROVE RegistersPartitioned
  OBVIOUS
<1>1. Partition(ra)
  <2>1. Right(Machine) /\ Machine.ra = ra
    BY DEF DepromoteInv, ValuesInv, Machine
  <2> QED BY <2>1, RightTypes
<1>2. AllocatorTypeOK
  BY DepromoteTypes DEF TypeOK
<1> QED BY <1>1, <1>2, PartitionMeaning

(* What it has recorded is so.                                             *)
LEMMA DepromoteRight ==
  ASSUME DepromoteInv
  PROVE  /\ AllocationsAreOfThisBlock
         /\ NeverSpilled => AllocatorIsRight /\ ReferenceKept
<1>1. Right(Machine)
  BY DEF DepromoteInv, ValuesInv
<1>2. Machine.ra = ra /\ Machine.regs = regs /\ Machine.emit = SourceToEmitMap
  BY DEF Machine
<1> QED BY <1>1, <1>2 DEF Right, RefHeld, AllocatorIsRight, AllocationsAreOfThisBlock,
                          ReferenceKept

(* What another block uses is in its slot.                                 *)
LEMMA DepromoteSpilled == DepromoteInv /\ NeverSpilled => SpilledForOtherBlocks
<1> SUFFICES ASSUME DepromoteInv, NeverSpilled, NEW b \in 1 .. bb - 1, NEW v \in Defs(b),
        AdventBlocks(v) # {b}
             PROVE  slots[v] = v
  BY DEF SpilledForOtherBlocks
<1>1. WellFormed /\ bb \in 1 .. Len(prog) + 1 /\ Len(prog) \in Nat /\ Blocks = 1 .. Len(prog)
  BY DEF DepromoteInv, ControlInv, WellFormed, TypedProgram
<1>2. b \in Blocks /\ b < bb
  BY <1>1
<1>3. v \in Instruction
  BY <1>1, <1>2 DEF Defs, WellFormed, TypedProgram
<1>4. v \in Earlier(bb)
  BY <1>2, <1>3 DEF Earlier
<1> QED BY <1>4 DEF DepromoteInv, ValuesInv

(* A call has at most one argument that is in a register.                  *)
OneArgument ==
  \A b \in Blocks : \A i \in DOMAIN Body(b) :
    Body(b)[i].kind = "call" => Len(Body(b)[i].ops) <= 1

(* No step changes the function.                                           *)
LEMMA FunctionKept ==
  [Next]_vars => (NeverSpilled => NeverSpilled') /\ (OneArgument => OneArgument')
<1> SUFFICES ASSUME [Next]_vars
             PROVE  (NeverSpilled => NeverSpilled') /\ (OneArgument => OneArgument')
  OBVIOUS
<1>1. prog' = prog
  BY DEF Next, EnterBlock, TranslateOperand, CopyPointer, ScaleIndex, EmitInstruction,
         EmitSetRef, EmitSpillRef, GiveUpRef, EmitCall, ClearRA, EmitBranch, EmitReturn, Done,
         NextInstruction, NextBlock, vars
<1> QED BY <1>1, ProgramKept, NeverSpilledKept DEF OneArgument

(* The operands of the instruction at work are in their registers.         *)
LEMMA DepromoteHolds == DepromoteInv /\ HeldInv /\ OneArgument /\ NeverSpilled => OperandsHold
<1> SUFFICES ASSUME DepromoteInv, HeldInv, OneArgument, NeverSpilled, Working,
        NEW i \in DOMAIN args, ~Stored(i)
             PROVE  regs[args[i].reg] = args[i].val
  BY DEF OperandsHold
<1>1. /\ bb \in Blocks /\ pos \in DOMAIN Body(bb)
      /\ NowOperands \in Seq(Instruction) /\ Len(args) \in Nat /\ WellFormed
  BY AtWork DEF DepromoteInv, ControlInv
<1>2. Len(args) <= Len(NowOperands) /\ args \in Seq([val : Instruction, reg : 0 .. MAX_REG_N])
  BY DEF DepromoteInv, OperandsInv
<1>3. i \in Nat /\ i >= 1 /\ i <= Len(args) /\ args # <<>>
  BY <1>2
<1>4. CASE Reports(Now.kind)
  <2>1. PICK a \in ra.ActiveSet : a.Source = args[i].val /\ a.RegId = args[i].reg
    BY <1>3, <1>4 DEF HeldInv, Protected
  <2> QED BY <2>1, DepromoteRight DEF AllocatorIsRight
<1>5. CASE ~Reports(Now.kind)
  <2>1. Len(Now.ops) <= 1 /\ Now.ops \in Seq(Instruction)
    BY <1>1, <1>5 DEF WellFormed, TypedProgram, Now, Reports, IsGep, OneArgument
  <2>2. Len(Now.ops) \in Nat
    BY <2>1
  <2>3. i = Len(args)
    <3>1. CASE Now.kind = "br"
      <4>1. PhiOperands(bb) \in Seq({v \in Instruction : bb \in AdventBlocks(v)})
        BY <1>1, PhiOperandsAppear DEF WellFormed
      <4>2. PhiOperands(bb) \in Seq(Instruction)
        <5>1. \A j \in 1 .. Len(PhiOperands(bb)) : PhiOperands(bb)[j] \in Instruction
          BY <4>1
        <5> QED BY <4>1, <5>1, InSmallerSet
      <4>3. NowOperands = PhiOperands(bb) \o Now.ops
        BY <3>1 DEF NowOperands, Operands, Now
      <4>4. Len(NowOperands) = Len(PhiOperands(bb)) + Len(Now.ops)
                /\ Len(PhiOperands(bb)) \in Nat
        BY <2>1, <4>2, <4>3, Joined
      <4>5. ~(i <= Len(PhiOperands(bb)) /\ i < Len(args))
        BY <3>1 DEF Stored
      <4> QED BY <1>1, <1>2, <1>3, <2>1, <2>2, <4>4, <4>5
    <3>2. CASE Now.kind # "br"
      <4>1. NowOperands = Now.ops
        BY <3>2 DEF NowOperands, Operands, Now
      <4> QED BY <1>1, <1>2, <1>3, <2>1, <2>2, <4>1
    <3> QED BY <3>1, <3>2
  <2> QED BY <1>3, <1>5, <2>3 DEF HeldInv
<1> QED BY <1>4, <1>5

(* Every register, slot and allocation that the pass writes is one it has. *)
THEOREM DepromoteTypeTheorem == Spec /\ OneReturn => []TypeOK
<1>1. DepromoteInv /\ [Next]_vars => DepromoteInv'
  BY NextDepromoteInv
<1> QED BY <1>1, InitDepromoteInv, DepromoteTypes, PTL DEF Spec

(* The pass calls the allocator so that no register is lost or given to    *)
(* two values.                                                             *)
THEOREM DepromotePartitionTheorem == Spec /\ OneReturn => []RegistersPartitioned
<1>1. DepromoteInv /\ [Next]_vars => DepromoteInv'
  BY NextDepromoteInv
<1> QED BY <1>1, InitDepromoteInv, DepromotePartition, PTL DEF Spec

(* No allocation outlives the block it was made in.                        *)
THEOREM AllocationsTheorem == Spec /\ OneReturn => []AllocationsAreOfThisBlock
<1>1. DepromoteInv /\ [Next]_vars => DepromoteInv'
  BY NextDepromoteInv
<1>2. DepromoteInv => AllocationsAreOfThisBlock
  BY DepromoteRight
<1> QED BY <1>1, <1>2, InitDepromoteInv, PTL DEF Spec

(* Backend.cpp:129-163: the register of an allocation holds its value,     *)
(* unless the stack pointer is spilled for a call.                         *)
THEOREM AllocatorIsRightTheorem == Spec /\ OneReturn /\ NeverSpilled => []AllocatorIsRight
<1>1. DepromoteInv /\ [Next]_vars => DepromoteInv'
  BY NextDepromoteInv
<1>2. DepromoteInv /\ NeverSpilled => AllocatorIsRight
  BY DepromoteRight
<1>3. NeverSpilled /\ [Next]_vars => NeverSpilled'
  BY FunctionKept
<1> QED BY <1>1, <1>2, <1>3, InitDepromoteInv, PTL DEF Spec

(* Backend.cpp:614-618: once set_ref has copied the stack pointer, no value *)
(* and no temporary register takes its register.                           *)
THEOREM ReferenceKeptTheorem == Spec /\ OneReturn /\ NeverSpilled => []ReferenceKept
<1>1. DepromoteInv /\ [Next]_vars => DepromoteInv'
  BY NextDepromoteInv
<1>2. DepromoteInv /\ NeverSpilled => ReferenceKept
  BY DepromoteRight
<1>3. NeverSpilled /\ [Next]_vars => NeverSpilled'
  BY FunctionKept
<1> QED BY <1>1, <1>2, <1>3, InitDepromoteInv, PTL DEF Spec

(* evict (Backend.cpp:129-136) never drops a value that another block      *)
(* needs, and stores it where the blocks after look for it.                *)
THEOREM SpilledTheorem == Spec /\ OneReturn /\ NeverSpilled => []SpilledForOtherBlocks
<1>1. DepromoteInv /\ [Next]_vars => DepromoteInv'
  BY NextDepromoteInv
<1>2. NeverSpilled /\ [Next]_vars => NeverSpilled'
  BY FunctionKept
<1> QED BY <1>1, <1>2, InitDepromoteInv, DepromoteSpilled, PTL DEF Spec

(* RegisterAllocator.cpp:178: the registers used now are not evicted.      *)
THEOREM OperandsHoldTheorem ==
  Spec /\ OneReturn /\ OneArgument /\ NeverSpilled => []OperandsHold
<1>1. DepromoteInv /\ HeldInv /\ [Next]_vars => DepromoteInv' /\ HeldInv'
  BY NextDepromoteInv
<1>2. Init => HeldInv
  BY DEF Init, HeldInv
<1>3. /\ NeverSpilled /\ [Next]_vars => NeverSpilled'
      /\ OneArgument /\ [Next]_vars => OneArgument'
  BY FunctionKept
<1> QED BY <1>1, <1>2, <1>3, InitDepromoteInv, DepromoteHolds, PTL DEF Spec

=============================================================================
