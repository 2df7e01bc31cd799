------------------------------ MODULE Storage ------------------------------
(***************************************************************************)
(* The storage of a compiled program while it runs: its globals, the       *)
(* frames of its functions, the references to the stack that calls spill,  *)
(* and the blocks it gets from malloc, which MemUseOptimization.cpp may    *)
(* have moved from the heap to the frame of main.                          *)
(*                                                                         *)
(* The pass replaces a malloc of main that is on no loop by alloca_bytes   *)
(* when STACK_DANGEROUS_REGION bytes of stack stay free, and a free of     *)
(* main by one that leaves addresses below STACK_BOUNDARY alone.  It does  *)
(* nothing to a module with a free elsewhere.                              *)
(*                                                                         *)
(* The program is any one that frees only blocks it has, asks malloc for   *)
(* whole words and does not call main; the machine is that of Memory and   *)
(* Machine.  A call that takes the stack pointer below 0 ends the model:   *)
(* the program then meets addresses that are not its own.                  *)
(***************************************************************************)
EXTENDS GlobalLayout

CONSTANTS
  STACK_DANGEROUS_REGION,   \* stack a converted malloc may not take (5120)
  STACK_BOUNDARY,           \* least address a converted free frees (10240)
  MallocSizes,              \* the sizes the program asks for
  MaxFrames,                \* bound: how deep calls nest
  MaxOwned                  \* bound: how many blocks the program has

ASSUME StorageAssumption ==
  /\ STACK_DANGEROUS_REGION \in Nat
  /\ STACK_BOUNDARY = STACK_MAX
  /\ AddrSpace % 2 = 0 /\ 2 * STACK_MAX <= AddrSpace
  /\ \A size \in MallocSizes : /\ size \in Nat /\ size > 0 /\ size % WORD = 0
                               /\ size < AddrSpace

(* Where a call of malloc or free stands: in main on no loop, in main on a *)
(* loop, or in another function.                                           *)
Places == {"main", "loop", "callee"}

VARIABLES
  mallocPlaces, \* where the program has a call of malloc
  freePlaces,   \* where it has a call of free
  converted,    \* the pass has replaced the mallocs and frees of main
  sp,           \* the stack pointer
  frames,       \* the calls in progress, main first: [fun, base, spilled]
  owned         \* the blocks the program has from malloc

programVars == <<mallocPlaces, freePlaces>>
runVars == <<sp, frames, owned>>
storageVars == <<stage, layoutVars, heapVars, programVars, converted, runVars>>

-----------------------------------------------------------------------------
(* The compiler.                                                           *)

(* Mutant of Convert: a free in another function does not stop the pass.   *)
ConvertDespiteCallees ==
  /\ stage = "memuse"
  /\ converted' = ("main" \in mallocPlaces /\ "loop" \notin freePlaces)
  /\ stage' = "layout"
  /\ UNCHANGED <<layoutVars, heapVars, programVars, runVars>>

(* MemUseOptimization::run gives up when it meets a call of FreeFn in a    *)
(* loop of main or in another function.  In a module without a free FreeFn *)
(* and FreeTy are not initialised.  FreeFn may then be no function that is *)
(* called, and the pass goes on; one called in a loop or by a callee, and  *)
(* the pass gives up; one that main calls, and the pass makes these calls  *)
(* conditional or crashes on FreeTy (148).  Which calls the program makes  *)
(* is open anyway: one dropped here leaves its storage alone.              *)
Convert ==
  /\ stage = "memuse"
  /\ \/ /\ converted' = ("main" \in mallocPlaces /\ freePlaces \subseteq {"main"})
        /\ stage' = "layout"
     \/ freePlaces = {} /\ converted' = FALSE /\ stage' \in {"layout", "rejected"}
  /\ UNCHANGED <<layoutVars, heapVars, programVars, runVars>>

Compile ==
  \/ Convert
  \/ /\ PlaceGlobal \/ \E f \in Functions : EmitFunction(f)
     /\ UNCHANGED <<heapVars, programVars, converted, runVars>>

-----------------------------------------------------------------------------
(* The heap as the program meets it.                                       *)

(* malloc: the program gets the block, or the machine stops it.            *)
HeapMalloc(size) ==
  \/ \E b \in freed : /\ FirstFit(b, size)
                      /\ TakeFrom(b, size)
                      /\ owned' = owned \cup {block_t(b.first, b.first + size)}
                      /\ UNCHANGED stage
  \/ /\ NoFit(size)
     /\ stage' = "out of memory"
     /\ UNCHANGED <<heapVars, owned>>

(* free of an address at which no allocated block begins stops the program.*)
HeapFree(addr) ==
  LET there == {a \in alloced : a.first = addr}
  IN /\ IF there = {} THEN UNCHANGED heapVars ELSE \E a \in there : GiveBack(a)
     /\ stage' = IF there = {} THEN "invalid free" ELSE stage

-----------------------------------------------------------------------------
(* The running program.                                                    *)

InMain == Len(frames) = 1

(* The places the running function has code at.                            *)
Here == IF InMain THEN {"main", "loop"} ELSE {"callee"}

(* The prologue of main and, if there are globals in the heap, the malloc  *)
(* of the block they are in.                                               *)
Start ==
  /\ stage = "compiled"
  /\ sp' = STACK_MAX - FrameSize("main")
  /\ frames' = <<[fun |-> "main", base |-> sp', spilled |-> FALSE]>>
  /\ \/ HeapSize = 0 /\ stage' = "running" /\ UNCHANGED heapVars
     \/ /\ HeapSize > 0
        /\ \E b \in freed : FirstFit(b, HeapSize) /\ TakeFrom(b, HeapSize)
        /\ stage' = "running"
     \/ HeapSize > 0 /\ NoFit(HeapSize) /\ stage' = "out of memory" /\ UNCHANGED heapVars
  /\ UNCHANGED <<layoutVars, programVars, converted, owned>>

(* sp less size bytes, in the 64 bits of the machine.                      *)
SpLess(size) == (sp - size) % AddrSpace

(* The comparison of a converted malloc: the difference wraps, and is then *)
(* taken as signed.                                                        *)
IsSafeSp(size) ==
  /\ SpLess(size) < AddrSpace \div 2
  /\ SpLess(size) >= STACK_DANGEROUS_REGION

(* Mutant of AllocaBytes: sp is moved by what the program asked for, the   *)
(* block begins where sp was.                                              *)
AllocaBytesAtOldSp(size) ==
  /\ sp' = SpLess(size)
  /\ owned' = owned \cup {block_t(sp, sp + size)}
  /\ UNCHANGED <<heapVars, stage>>

(* alloca_bytes: sp goes down and is the address of the block.             *)
AllocaBytes(size) ==
  /\ sp' = SpLess(size)
  /\ owned' = owned \cup {block_t(sp', sp' + size)}
  /\ UNCHANGED <<heapVars, stage>>

(* A call of malloc.                                                       *)
Malloc(size, place) ==
  /\ stage = "running" /\ place \in Here \cap mallocPlaces
  /\ Cardinality(owned) < MaxOwned
  /\ IF converted /\ place = "main" /\ IsSafeSp(size)
       THEN AllocaBytes(size)
       ELSE HeapMalloc(size) /\ UNCHANGED sp
  /\ UNCHANGED <<layoutVars, programVars, converted, frames>>

(* Mutant of InHeap: the boundary is the one of the heap, and excluded.    *)
InHeapAbove(addr) == addr > HEAP_MIN

(* The comparison of a converted free.                                     *)
InHeap(addr) == addr >= STACK_BOUNDARY

(* A call of free.                                                         *)
Free(b, place) ==
  /\ stage = "running" /\ place \in Here \cap freePlaces
  /\ b \in owned
  /\ IF converted /\ place = "main" /\ ~InHeap(b.first)
       THEN UNCHANGED <<heapVars, stage>>
       ELSE HeapFree(b.first)
  /\ owned' = owned \ {b}
  /\ UNCHANGED <<layoutVars, programVars, converted, sp, frames>>

(* Mutant of Call: sp is not below the reference to the stack when the     *)
(* function is called.                                                     *)
CallNoStep2(f, spill) ==
  /\ stage = "running" /\ Len(frames) < MaxFrames
  /\ spill => converted /\ InMain
  /\ LET base == sp - FrameSize(f)
     IN /\ sp' = base
        /\ frames' = Append(frames, [fun |-> f, base |-> base, spilled |-> spill])
        /\ stage' = IF base < 0 THEN "overflow" ELSE "running"
  /\ UNCHANGED <<heapVars, layoutVars, programVars, converted, owned>>

(* A call and the prologue of the callee f.  A call that needs all the     *)
(* registers spills the reference to the stack, which main has after an    *)
(* alloca_bytes, below sp (spill ref sp, step 1 and 2).  Between the steps *)
(* are only the accesses to slots of main that fill the arguments: the     *)
(* back end puts spill_ref directly before the call (Backend.cpp:836).     *)
Call(f, spill) ==
  /\ stage = "running" /\ Len(frames) < MaxFrames
  /\ spill => converted /\ InMain
  /\ LET base == (IF spill THEN sp - WORD ELSE sp) - FrameSize(f)
     IN /\ sp' = base
        /\ frames' = Append(frames, [fun |-> f, base |-> base, spilled |-> spill])
        /\ stage' = IF base < 0 THEN "overflow" ELSE "running"
  /\ UNCHANGED <<heapVars, layoutVars, programVars, converted, owned>>

(* Mutant of SpAtCall: step 3 comes after every call.                      *)
SpAtCallStep3(r) == r.base + FrameSize(r.fun) + WORD

(* sp where the frame r was called: the machine restores the registers the *)
(* caller had, and step 3 drops the spilled reference.                     *)
SpAtCall(r) == r.base + FrameSize(r.fun) + (IF r.spilled THEN WORD ELSE 0)

(* ret of a function other than main.                                      *)
Return ==
  /\ stage = "running" /\ Len(frames) > 1
  /\ sp' = SpAtCall(frames[Len(frames)])
  /\ frames' = SubSeq(frames, 1, Len(frames) - 1)
  /\ UNCHANGED <<stage, heapVars, layoutVars, programVars, converted, owned>>

(* ret of main: the program is over.                                       *)
Finish ==
  /\ stage = "running" /\ InMain
  /\ stage' = "finished"
  /\ UNCHANGED <<heapVars, layoutVars, programVars, converted, runVars>>

Run ==
  \/ Start
  \/ \E size \in MallocSizes, place \in Places : Malloc(size, place)
  \/ \E b \in owned, place \in Places : Free(b, place)
  \/ \E f \in Callees, spill \in BOOLEAN : Call(f, spill)
  \/ Return
  \/ Finish

Next == Compile \/ Run

Init ==
  /\ stage = "memuse"
  /\ LayoutInit
  /\ HeapInit
  /\ mallocPlaces \in SUBSET Places
  /\ freePlaces \in SUBSET Places
  /\ converted = FALSE
  /\ sp = STACK_MAX
  /\ frames = <<>>
  /\ owned = {}

Spec == Init /\ [][Next]_storageVars

-----------------------------------------------------------------------------
(* What the program may rely on.                                           *)

StorageTypeOK ==
  /\ stage \in {"memuse", "layout", "rejected", "compiled", "running", "finished",
                "out of memory", "invalid free", "overflow"}
  /\ HeapTypeOK
  /\ GVStackOffset \in 0 .. AddrSpace - 1
  /\ {GVHeapOffset, StackSize, HeapSize, TotalStackUsage} \subseteq Nat
  /\ GVLocs \subseteq [at : Nat, inHeap : BOOLEAN, size : Nat]
  /\ unemitted \subseteq Functions
  /\ used \in [Functions -> Nat]
  /\ mallocPlaces \subseteq Places /\ freePlaces \subseteq Places
  /\ converted \in BOOLEAN
  /\ sp <= STACK_MAX /\ (stage # "overflow" => sp >= 0)
  /\ frames \in Seq([fun : Functions, base : Int, spilled : BOOLEAN])
  /\ owned \subseteq Block

Started == stage \in {"running", "finished"}

(* The areas of the stack that belong to the i-th call in progress: its    *)
(* allocas, and the reference to the stack its caller has spilled.         *)
AreasOf(i) ==
  LET r == frames[i]
      end == r.base + FrameSize(r.fun)
  IN {block_t(r.base, r.base + used[r.fun])}
       \cup (IF r.spilled THEN {block_t(end, end + WORD)} ELSE {})

(* Globals, frames, spilled references and blocks never share a byte: the  *)
(* prologue of AssemblyEmitter.cpp:568, alloca_bytes and step 2 of a spill *)
(* take room from the same stack pointer, and what lies below it when a    *)
(* function is called belongs to the callee.                               *)
AreasDisjoint ==
  Started =>
    /\ \A b, c \in owned : b # c => Apart(b, c)
    /\ \A b \in owned, g \in GVLocs : Apart(b, GlobalBlock(g))
    /\ \A i \in DOMAIN frames : \A a \in AreasOf(i) :
         /\ \A b \in owned : Apart(a, b)
         /\ \A g \in GVLocs : Apart(a, GlobalBlock(g))
         /\ \A j \in DOMAIN frames : \A c \in AreasOf(j) : a # c \/ i # j => Apart(a, c)

(* A block the program has is really there as long as the program has it:  *)
(* it is an allocated block of the heap, or lies in the part of the stack  *)
(* that main took and above everything that later calls use.               *)
OwnedIsThere ==
  Started =>
    \A b \in owned :
      \/ b \in alloced
      \/ /\ b.second <= frames[1].base
         /\ b.first >= IF InMain THEN sp ELSE SpAtCall(frames[2])

(* The pass does not make the heap leak: whatever the program has given    *)
(* back is freed; what stays allocated is what the program still has and   *)
(* the block of the globals (MemUseOptimization.cpp:128-154 decides by the *)
(* address alone whether a free is dropped).                               *)
NothingLeaks ==
  Started =>
    alloced = {b \in owned : b.first >= HEAP_MIN}
                \cup (IF HeapSize > 0 THEN {block_t(HEAP_MIN, HEAP_MIN + HeapSize)} ELSE {})

(* A program that frees only what it has never gets "freeing non-allocated *)
(* address": no block in the stack reaches a free that was not converted.  *)
FreesAreValid == stage # "invalid free"

(* The emitter's check of TotalStackUsage is enough, to the last word: a   *)
(* program without recursion runs off the stack only if a converted malloc *)
(* has taken some of it.  The word of a spilled reference is not counted   *)
(* and still fits.                                                         *)
StackSuffices ==
  stage = "overflow" =>
    \/ \E i, j \in DOMAIN frames : i # j /\ frames[i].fun = frames[j].fun
    \/ SpAtCall(frames[2]) < frames[1].base

=============================================================================
