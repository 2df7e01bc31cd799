--------------------------- MODULE Storage_proofs ---------------------------
(***************************************************************************)
(* Proofs about the storage of a compiled program, for every size of the   *)
(* stack, the heap, the globals and the frames, for every depth of calls   *)
(* and every sequence of mallocs and frees.  What is said of the running   *)
(* program is for mallocs of at most half the address space (SignedSizes): *)
(* the pass takes larger ones for negative, and lets sp go up.             *)
(*                                                                         *)
(* LayoutInv is about the compiler: as long as the globals on the stack    *)
(* have not used more than the stack, the offset has not wrapped; and a    *)
(* module that is compiled has used less.  StackInv is about the program   *)
(* that runs: the frames lie below one another and below what main has     *)
(* taken with alloca_bytes.                                                *)
(*                                                                         *)
(* The stack suffices by counting bytes.  BudgetInv: TotalStackUsage is    *)
(* the number of the bytes of all emitted frames, and all are whole words. *)
(* ChainInv: in a program that has overflowed only a call of main spills,  *)
(* and the frames lie one below the other.  Without recursion each byte of *)
(* the stack would be one of a frame, and another one for each: more than  *)
(* TotalStackUsage, which is less than the stack.                          *)
(***************************************************************************)
EXTENDS Storage, HeapAllocator_proofs, Induction, SequenceTheorems, TLAPS

LEMMA Constants ==
  /\ STACK_MAX \in Nat /\ STACK_SAFE_REGION \in Nat /\ STACK_DANGEROUS_REGION \in Nat
  /\ STACK_BOUNDARY = STACK_MAX
  /\ WORD \in Nat /\ WORD > 0 /\ AddrSpace \in Nat
  /\ HEAP_MIN \in Nat /\ HEAP_MAX \in Int
  /\ STACK_MAX < HEAP_MIN /\ HEAP_MIN < HEAP_MAX /\ HEAP_MAX < AddrSpace
  /\ "main" \in Functions /\ "main" \notin Callees /\ Callees \subseteq Functions
BY HeapAssumption, LayoutAssumption, StorageAssumption DEF HEAP_MAX, Functions

(* What is smaller than the modulus stays as it is.                        *)
LEMMA RestOfSmall ==
  ASSUME NEW n \in Nat, NEW x \in Nat, x < n
  PROVE  x % n = x
BY Z3

LEMMA InRange ==
  ASSUME NEW m \in Nat
  PROVE  /\ m > 0 /\ m # 1 => 2 \in 1 .. m
         /\ m > 1 /\ m # 2 => m \in 3 .. m
OBVIOUS

LEMMA RoundUpNat == ASSUME NEW size \in Nat PROVE RoundUp(size) \in Nat
<1>1. size + WORD - 1 \in Nat
  BY Constants
<1>2. (size + WORD - 1) \div WORD \in Nat
  BY <1>1, Constants, Z3
<1> QED BY <1>2, Constants DEF RoundUp

-----------------------------------------------------------------------------
(* The layout of the globals.                                              *)

Global == [at : Int, inHeap : BOOLEAN, size : Nat]

LayoutTypes ==
  /\ sizes \in Seq(Nat)
  /\ used \in [Functions -> Nat]
  /\ StackSize \in Nat /\ HeapSize \in Nat /\ TotalStackUsage \in Nat
  /\ GVStackOffset \in Int
  /\ GVLocs \subseteq Global

(* While the globals fit in the stack they lie above GVStackOffset, which  *)
(* is what it should be.                                                   *)
StackGlobals ==
  StackSize <= STACK_MAX =>
    /\ GVStackOffset = STACK_MAX - StackSize
    /\ \A g \in GVLocs : ~g.inHeap => GVStackOffset <= g.at /\ g.at + g.size <= STACK_MAX
    /\ \A g, h \in GVLocs : g # h => Apart(GlobalBlock(g), GlobalBlock(h))

HeapGlobals ==
  /\ GVHeapOffset = HEAP_MIN + HeapSize
  /\ \A g \in GVLocs : g.inHeap => HEAP_MIN <= g.at /\ g.at + g.size <= GVHeapOffset

(* The frame of main is counted once the globals are all placed.           *)
Emitted ==
  /\ unemitted \subseteq Functions
  /\ unemitted # Functions => sizes = <<>>
  /\ "main" \notin unemitted => FrameSize("main") <= TotalStackUsage
  /\ stage \notin {"memuse", "layout", "rejected"} =>
       "main" \notin unemitted /\ TotalStackUsage < STACK_MAX

LayoutInv == LayoutTypes /\ StackGlobals /\ HeapGlobals /\ Emitted

LEMMA LayoutInvInit == Init => LayoutInv
<1> SUFFICES ASSUME Init PROVE LayoutInv
  OBVIOUS
<1> USE Constants DEF Init, LayoutInit
<1>1. LayoutTypes
  <2>1. sizes \in Seq(Nat)
    BY LayoutAssumption
  <2>2. used \in [Functions -> Nat]
    BY LayoutAssumption
  <2>3. GVLocs \subseteq Global
    OBVIOUS
  <2> QED BY <2>1, <2>2, <2>3 DEF LayoutTypes
<1>2. StackGlobals
  BY DEF StackGlobals
<1>3. HeapGlobals
  BY DEF HeapGlobals
<1>4. Emitted
  BY DEF Emitted
<1> QED BY <1>1, <1>2, <1>3, <1>4 DEF LayoutInv

LEMMA PlaceGlobalLayoutInv ==
  ASSUME LayoutInv, PlaceGlobal
  PROVE  LayoutInv'
<1> DEFINE sz == RoundUp(Head(sizes))
           at == StackPlace(sz)
           new == [at |-> at, inHeap |-> FALSE, size |-> sz]
           newH == [at |-> GVHeapOffset, inHeap |-> TRUE, size |-> sz]
<1>1. /\ sizes \in Seq(Nat) /\ sizes # <<>> /\ sizes' = Tail(sizes)
      /\ UNCHANGED <<stage, used, unemitted, TotalStackUsage>>
      /\ stage = "layout"
  BY DEF PlaceGlobal, LayoutInv, LayoutTypes
<1>2. sz \in Nat /\ sizes' \in Seq(Nat)
  BY <1>1, RoundUpNat, HeadTailProperties
<1>3. at \in Int
  BY <1>2, Constants, Z3 DEF StackPlace, LayoutInv, LayoutTypes
<1>4. StackSize + sz <= STACK_MAX => StackSize <= STACK_MAX /\ at = GVStackOffset - sz
  <2> SUFFICES ASSUME StackSize + sz <= STACK_MAX
               PROVE  StackSize <= STACK_MAX /\ at = GVStackOffset - sz
    OBVIOUS
  <2>1. StackSize <= STACK_MAX /\ GVStackOffset = STACK_MAX - StackSize
    BY <1>2, Constants DEF LayoutInv, LayoutTypes, StackGlobals
  <2>2. GVStackOffset - sz \in Nat /\ GVStackOffset - sz < AddrSpace
    BY <1>2, <2>1, Constants DEF LayoutInv, LayoutTypes
  <2> QED BY <2>1, <2>2, Constants, RestOfSmall DEF StackPlace
<1>5. Emitted'
  <2>1. unemitted = Functions
    BY <1>1 DEF LayoutInv, Emitted
  <2> QED BY <1>1, <2>1, Constants DEF LayoutInv, Emitted
<1>6. CASE at >= STACK_SAFE_REGION
  <2>1. /\ GVStackOffset' = at
        /\ GVLocs' = GVLocs \cup {new}
        /\ StackSize' = StackSize + sz
        /\ UNCHANGED <<GVHeapOffset, HeapSize>>
    BY <1>6 DEF PlaceGlobal
  <2>2. new \in Global /\ new.at = at /\ new.size = sz /\ ~new.inHeap
    BY <1>2, <1>3 DEF Global
  <2> HIDE DEF new, sz, at
  <2>3. LayoutTypes'
    BY <1>1, <1>2, <1>3, <2>1, <2>2 DEF LayoutInv, LayoutTypes
  <2>4. HeapGlobals'
    BY <2>1, <2>2 DEF LayoutInv, HeapGlobals
  <2>5. StackGlobals'
    <3> SUFFICES ASSUME StackSize + sz <= STACK_MAX
                 PROVE  /\ at = STACK_MAX - (StackSize + sz)
                        /\ \A g \in GVLocs \cup {new} :
                             ~g.inHeap => at <= g.at /\ g.at + g.size <= STACK_MAX
                        /\ \A g, h \in GVLocs \cup {new} :
                             g # h => Apart(GlobalBlock(g), GlobalBlock(h))
      BY <2>1 DEF StackGlobals, GlobalBlock
    <3>1. /\ StackSize <= STACK_MAX /\ at = GVStackOffset - sz
          /\ GVStackOffset = STACK_MAX - StackSize
          /\ \A g \in GVLocs : ~g.inHeap => GVStackOffset <= g.at /\ g.at + g.size <= STACK_MAX
          /\ \A g, h \in GVLocs : g # h => Apart(GlobalBlock(g), GlobalBlock(h))
      BY <1>4 DEF LayoutInv, StackGlobals
    <3>2. /\ StackSize \in Nat /\ GVStackOffset \in Int /\ GVHeapOffset \in Int
          /\ \A g \in GVLocs : g.at \in Int /\ g.size \in Nat
      BY Constants DEF LayoutInv, LayoutTypes, Global, HeapGlobals
    <3>3. \A g \in GVLocs : GVStackOffset <= g.at
      BY <3>1, <3>2, Constants DEF LayoutInv, HeapGlobals
    <3>4. \A g \in GVLocs : /\ Apart(GlobalBlock(g), GlobalBlock(new))
                           /\ Apart(GlobalBlock(new), GlobalBlock(g))
      BY <1>2, <1>3, <2>2, <3>1, <3>2, <3>3 DEF GlobalBlock, Apart, block_t
    <3>5. \A g \in GVLocs \cup {new} :
            ~g.inHeap => at <= g.at /\ g.at + g.size <= STACK_MAX
      BY <1>2, <1>3, <2>2, <3>1, <3>2, Constants
    <3>6. \A g, h \in GVLocs \cup {new} : g # h => Apart(GlobalBlock(g), GlobalBlock(h))
      BY <3>1, <3>4
    <3> QED BY <1>2, <3>1, <3>2, <3>5, <3>6, Constants
  <2> QED BY <1>5, <2>3, <2>4, <2>5 DEF LayoutInv
<1>7. CASE ~(at >= STACK_SAFE_REGION)
  <2>1. /\ GVHeapOffset' = GVHeapOffset + sz
        /\ GVLocs' = GVLocs \cup {newH}
        /\ HeapSize' = HeapSize + sz
        /\ UNCHANGED <<GVStackOffset, StackSize>>
    BY <1>7 DEF PlaceGlobal
  <2>2. GVHeapOffset \in Int /\ GVHeapOffset = HEAP_MIN + HeapSize /\ HeapSize \in Nat
    BY Constants DEF LayoutInv, LayoutTypes, HeapGlobals
  <2>3. newH \in Global /\ newH.at = GVHeapOffset /\ newH.size = sz /\ newH.inHeap
    BY <1>2, <2>2 DEF Global
  <2> HIDE DEF newH, sz, at
  <2>4. LayoutTypes'
    BY <1>1, <1>2, <2>1, <2>2, <2>3 DEF LayoutInv, LayoutTypes
  <2>5. \A g \in GVLocs : g.at \in Int /\ g.size \in Nat
    BY DEF LayoutInv, LayoutTypes, Global
  <2>6. HeapGlobals'
    BY <1>2, <2>1, <2>2, <2>3, <2>5, Constants DEF LayoutInv, HeapGlobals
  <2>7. StackGlobals'
    <3> SUFFICES ASSUME StackSize <= STACK_MAX
                 PROVE  StackGlobals'
      BY <2>1 DEF StackGlobals
    <3>1. \A g \in GVLocs : /\ Apart(GlobalBlock(g), GlobalBlock(newH))
                           /\ Apart(GlobalBlock(newH), GlobalBlock(g))
      BY <1>2, <2>2, <2>3, <2>5, Constants
         DEF LayoutInv, HeapGlobals, StackGlobals, GlobalBlock, Apart, block_t
    <3> QED BY <2>1, <2>3, <3>1 DEF LayoutInv, StackGlobals, GlobalBlock
  <2> QED BY <1>5, <2>4, <2>6, <2>7 DEF LayoutInv
<1> QED BY <1>6, <1>7

LEMMA EmitFunctionLayoutInv ==
  ASSUME LayoutInv, NEW f \in Functions, EmitFunction(f)
  PROVE  LayoutInv'
<1>1. /\ sizes = <<>> /\ f \in unemitted
      /\ TotalStackUsage' = TotalStackUsage + FrameSize(f)
      /\ unemitted' = unemitted \ {f}
      /\ UNCHANGED <<sizes, GVStackOffset, GVHeapOffset, GVLocs, StackSize, HeapSize, used>>
  BY DEF EmitFunction
<1>2. /\ FrameSize(f) \in Nat /\ FrameSize("main") \in Nat
      /\ TotalStackUsage \in Nat
  BY Constants DEF LayoutInv, LayoutTypes, FrameSize
<1>3. /\ LayoutTypes' /\ StackGlobals' /\ HeapGlobals'
  BY <1>1, <1>2 DEF LayoutInv, LayoutTypes, StackGlobals, HeapGlobals, GlobalBlock
<1>4. FrameSize("main")' = FrameSize("main")
  BY <1>1 DEF FrameSize
<1>5. "main" \notin unemitted' => FrameSize("main") <= TotalStackUsage'
  BY <1>1, <1>2 DEF LayoutInv, Emitted
<1>6. stage' \notin {"memuse", "layout", "rejected"} =>
        unemitted' = {} /\ TotalStackUsage' < STACK_MAX
  BY DEF EmitFunction
<1> QED BY <1>1, <1>3, <1>4, <1>5, <1>6 DEF LayoutInv, Emitted

(* Every other step leaves what the compiler has laid out as it is.        *)
LEMMA RunLayoutInv ==
  ASSUME LayoutInv, UNCHANGED layoutVars,
         stage \in {"memuse", "layout", "rejected"} => stage' \in {stage, "layout", "rejected"}
  PROVE  LayoutInv'
BY DEF layoutVars, LayoutInv, LayoutTypes, StackGlobals, HeapGlobals, Emitted, FrameSize,
       GlobalBlock

LEMMA LayoutInvNext == LayoutInv /\ [Next]_storageVars => LayoutInv'
<1> SUFFICES ASSUME LayoutInv, [Next]_storageVars PROVE LayoutInv'
  OBVIOUS
<1>1. CASE PlaceGlobal
  BY <1>1, PlaceGlobalLayoutInv
<1>2. CASE \E f \in Functions : EmitFunction(f)
  BY <1>2, EmitFunctionLayoutInv
<1>3. CASE Convert \/ UNCHANGED storageVars
  BY <1>3, RunLayoutInv DEF Convert, storageVars
<1>4. CASE Run
  BY <1>4, RunLayoutInv DEF Run, Start, Malloc, Free, Call, Return, Finish
<1> QED BY <1>1, <1>2, <1>3, <1>4 DEF Next, Compile

(* As long as the globals of the stack fit in it, the offset is what they  *)
(* leave of it, and they lie above it (Backend.cpp:210-273).               *)
THEOREM LayoutInvariant == Spec => []LayoutInv
<1> QED BY LayoutInvInit, LayoutInvNext, PTL DEF Spec

(* A compiled program finds every global where the compiler has put it:    *)
(* whatever the sizes, none overlaps another one, those on the stack are   *)
(* above what main's frame leaves them, those in the heap are in the block *)
(* main begins with, and no address has wrapped.                           *)
THEOREM GlobalsPlacedTheorem == Spec => []GlobalsPlaced
<1>1. LayoutInv => GlobalsPlaced
  <2> SUFFICES ASSUME LayoutInv, stage \notin {"memuse", "layout", "rejected"}
               PROVE  /\ \A g, h \in GVLocs : g # h => Apart(GlobalBlock(g), GlobalBlock(h))
                      /\ \A g \in GVLocs :
                           IF g.inHeap
                             THEN HEAP_MIN <= g.at /\ g.at + g.size <= HEAP_MIN + HeapSize
                             ELSE STACK_MAX - StackSize <= g.at /\ g.at + g.size <= STACK_MAX
    BY DEF GlobalsPlaced
  <2>1. StackSize <= STACK_MAX
    BY Constants DEF LayoutInv, LayoutTypes, Emitted, FrameSize
  <2> QED BY <2>1 DEF LayoutInv, StackGlobals, HeapGlobals
<1> QED BY <1>1, LayoutInvariant, PTL

-----------------------------------------------------------------------------
(* The running program.                                                    *)

Frame == [fun : Functions, base : Int, spilled : BOOLEAN]
GlobalsBlock == block_t(HEAP_MIN, HEAP_MIN + HeapSize)

(* The lowest address main has taken with its frame and alloca_bytes.      *)
Low == IF InMain THEN sp ELSE SpAtCall(frames[2])

(* Every frame lies below where it was called, main's at the end of the    *)
(* stack, and sp is where the running function left it.                    *)
FramesInv ==
  /\ frames \in Seq(Frame) /\ Len(frames) >= 1
  /\ frames[1].fun = "main" /\ frames[1].base = STACK_MAX - FrameSize("main")
  /\ ~frames[1].spilled
  /\ \A i \in 2 .. Len(frames) : frames[i].fun \in Callees
  /\ \A i, j \in 1 .. Len(frames) : i < j => SpAtCall(frames[j]) <= frames[i].base
  /\ \A i \in 3 .. Len(frames) : SpAtCall(frames[i]) = frames[i - 1].base
  /\ sp \in Int
  /\ InMain => sp <= frames[1].base
  /\ ~InMain => sp = frames[Len(frames)].base

(* A block of the program is in the heap, or main has it on the stack.     *)
OwnedInv ==
  /\ owned \subseteq Block
  /\ \A b \in owned : b.first < b.second
  /\ \A b \in owned : \/ b \in alloced
                      \/ converted /\ Low <= b.first /\ b.second <= frames[1].base
  /\ \A b, c \in owned : b # c => Apart(b, c)
  /\ alloced = {b \in owned : b.first >= HEAP_MIN}
                 \cup (IF HeapSize > 0 THEN {GlobalsBlock} ELSE {})
  /\ HeapSize > 0 => GlobalsBlock \notin owned

Compiling == stage \in {"memuse", "layout", "rejected", "compiled"}

StackInv ==
  /\ HeapInv
  /\ Compiling => HeapInit /\ owned = {}
  /\ stage = "memuse" => ~converted
  /\ converted => freePlaces \subseteq {"main"}
  /\ Started => FramesInv /\ OwnedInv
  /\ stage # "invalid free"

(* The types of everything but the heap and what LayoutInv says already.   *)
Stages == {"memuse", "layout", "rejected", "compiled", "running", "finished",
           "out of memory", "invalid free", "overflow"}

CompilerTypes ==
  /\ GVStackOffset \in 0 .. AddrSpace - 1
  /\ GVLocs \subseteq [at : Nat, inHeap : BOOLEAN, size : Nat]
  /\ mallocPlaces \subseteq Places /\ freePlaces \subseteq Places
  /\ converted \in BOOLEAN

RunTypes ==
  /\ sp \in Int /\ sp <= STACK_MAX /\ (stage # "overflow" => sp >= 0)
  /\ frames \in Seq(Frame)
  /\ owned \subseteq Block

TypesInv == stage \in Stages /\ CompilerTypes /\ RunTypes

LEMMA FrameSizeNat == LayoutInv => \A f \in Functions : FrameSize(f) \in Nat
BY DEF LayoutInv, LayoutTypes, FrameSize

LEMMA HeapBlocks ==
  ASSUME HeapInv
  PROVE  /\ \A b \in alloced : /\ b \in Block /\ b.first \in Int /\ b.second \in Int
                               /\ HEAP_MIN <= b.first /\ b.first < b.second
         /\ \A b, c \in alloced : b # c => Apart(b, c)
         /\ \A b \in freed : b \in Block /\ b.first \in Int /\ b.second \in Int
                             /\ HEAP_MIN <= b.first /\ b.first <= b.second
         /\ \A b \in alloced, c \in freed : Apart(b, c)
BY DEF HeapInv, HeapTypeOK, BlocksInHeap, BlocksDisjoint, Block

LEMMA HeapUnchanged == HeapInv /\ UNCHANGED heapVars => HeapInv'
BY DEF heapVars, HeapInv, HeapTypeOK, BlocksInHeap, BlocksDisjoint, NoByteLost, FullyCoalesced

LEMMA FrameTypes ==
  ASSUME FramesInv
  PROVE  /\ Len(frames) \in Nat /\ Len(frames) >= 1 /\ DOMAIN frames = 1 .. Len(frames)
         /\ \A i \in 1 .. Len(frames) : /\ frames[i] \in Frame
                                       /\ frames[i].fun \in Functions
                                       /\ frames[i].base \in Int
                                       /\ frames[i].spilled \in BOOLEAN
<1>1. frames \in Seq(Frame) /\ Len(frames) >= 1
  BY DEF FramesInv
<1>2. /\ Len(frames) \in Nat /\ DOMAIN frames = 1 .. Len(frames)
      /\ \A i \in 1 .. Len(frames) : frames[i] \in Frame
  BY <1>1, ElementOfSeq, LenProperties
<1> QED BY <1>1, <1>2 DEF Frame

(* Nothing of FramesInv changes when frames and the layout do not and main *)
(* is not running or sp goes down.                                         *)
LEMMA SameFrames ==
  ASSUME FramesInv, UNCHANGED <<layoutVars, frames>>, sp' \in Int,
         sp' = sp \/ (InMain /\ sp' <= sp)
  PROVE  FramesInv'
<1>1. /\ frames' = frames /\ used' = used /\ StackSize' = StackSize
      /\ frames[1].base \in Int
  <2>1. frames' = frames /\ used' = used /\ StackSize' = StackSize
    BY DEF layoutVars
  <2> QED BY <2>1, FrameTypes
<1>2. \A i, j \in 1 .. Len(frames) : i < j => SpAtCall(frames[j])' <= frames'[i].base
  BY <1>1 DEF FramesInv, SpAtCall, FrameSize
<1>3. \A i \in 3 .. Len(frames) : SpAtCall(frames[i])' = frames'[i - 1].base
  BY <1>1 DEF FramesInv, SpAtCall, FrameSize
<1>4. /\ frames'[1].base = STACK_MAX - FrameSize("main")'
  BY <1>1 DEF FramesInv, FrameSize
<1>5. /\ InMain' <=> InMain
      /\ InMain' => sp' <= frames'[1].base
      /\ ~InMain' => sp' = frames'[Len(frames')].base
  BY <1>1 DEF FramesInv, InMain
<1> QED BY <1>1, <1>2, <1>3, <1>4, <1>5 DEF FramesInv

(* The prologue of main; the malloc of the globals takes the first block   *)
(* of an untouched heap, which begins at HEAP_MIN.                         *)
LEMMA StartStackInv ==
  ASSUME LayoutInv, StackInv, Start
  PROVE  StackInv'
<1>1. /\ stage = "compiled" /\ HeapInit /\ owned = {} /\ HeapInv
      /\ stage' \in {"running", "out of memory"}
      /\ owned' = owned /\ HeapSize' = HeapSize /\ used' = used /\ StackSize' = StackSize
  BY DEF Start, StackInv, Compiling, layoutVars
<1>2. converted' => freePlaces' \subseteq {"main"}
  BY DEF Start, StackInv, programVars
<1>0. /\ sp' = STACK_MAX - FrameSize("main")
      /\ frames' = <<[fun |-> "main", base |-> sp', spilled |-> FALSE]>>
  BY DEF Start
<1>3. HeapSize \in Nat /\ FrameSize("main") \in Nat /\ FrameSize("main")' = FrameSize("main")
  BY <1>1, FrameSizeNat, Constants DEF LayoutInv, LayoutTypes, FrameSize
<1>4. FramesInv'
  <2>1. sp' \in Int /\ "main" \in Functions
    BY <1>0, <1>3, Constants
  <2> DEFINE r == [fun |-> "main", base |-> sp', spilled |-> FALSE]
  <2>2. r \in Frame /\ r.fun = "main" /\ r.base = sp' /\ ~r.spilled
    BY <2>1 DEF Frame
  <2> HIDE DEF r
  <2>3. frames' = <<r>>
    BY <1>0 DEF r
  <2>4. frames' \in Seq(Frame) /\ Len(frames') = 1 /\ frames'[1] = r
    BY <2>2, <2>3
  <2>5. /\ \A i \in 2 .. Len(frames') : FALSE
        /\ \A i \in 3 .. Len(frames') : FALSE
        /\ \A i, j \in 1 .. Len(frames') : ~(i < j)
    BY <2>4
  <2>6. frames'[1].base = STACK_MAX - FrameSize("main")' /\ sp' <= frames'[1].base
    BY <1>0, <1>3, <2>1, <2>2, <2>4
  <2> QED BY <2>1, <2>2, <2>4, <2>5, <2>6 DEF FramesInv, InMain
<1>5. CASE HeapSize > 0 /\ stage' = "running"
  <2>1. PICK b \in freed : FirstFit(b, HeapSize) /\ TakeFrom(b, HeapSize)
    BY <1>1, <1>5 DEF Start
  <2>2. b.first = HEAP_MIN
    <3>1. b = block_t(HEAP_MIN, HEAP_MAX)
      BY <1>1 DEF HeapInit
    <3> QED BY <3>1 DEF block_t
  <2>3. alloced' = {GlobalsBlock}
    BY <1>1, <2>1, <2>2 DEF TakeFrom, HeapInit, GlobalsBlock
  <2>4. HeapInv'
    BY <1>1, <1>3, <1>5, <2>1, MallocHeapInv
  <2>5. OwnedInv'
    BY <1>1, <1>2, <1>5, <2>3 DEF OwnedInv, GlobalsBlock
  <2> QED BY <1>1, <1>2, <1>4, <1>5, <2>4, <2>5 DEF StackInv, Compiling
<1>6. CASE HeapSize = 0 /\ stage' = "running"
  <2>1. UNCHANGED heapVars
    BY <1>3, <1>6 DEF Start
  <2>2. alloced' = {}
    BY <1>1, <2>1 DEF heapVars, HeapInit
  <2>3. OwnedInv'
    BY <1>1, <1>2, <1>6, <2>2 DEF OwnedInv
  <2> QED BY <1>1, <1>2, <1>4, <1>6, <2>1, <2>3, HeapUnchanged DEF StackInv, Compiling
<1>7. CASE stage' = "out of memory"
  <2>1. UNCHANGED heapVars
    BY <1>7 DEF Start
  <2> QED BY <1>1, <1>2, <1>7, <2>1, HeapUnchanged DEF StackInv, Compiling, Started
<1>8. HeapSize = 0 \/ HeapSize > 0
  BY <1>3
<1> QED BY <1>1, <1>5, <1>6, <1>7, <1>8

(* The sizes that are not negative when they are taken as signed, and the  *)
(* least one that is.                                                      *)
SignedSizes == \A size \in MallocSizes : size <= AddrSpace \div 2

(* For these the comparison of a converted malloc is what it stands for.   *)
LEMMA SafeSp ==
  ASSUME SignedSizes, NEW size \in MallocSizes, sp \in Int, sp >= 0, sp <= STACK_MAX,
         IsSafeSp(size)
  PROVE  SpLess(size) = sp - size /\ sp - size >= STACK_DANGEROUS_REGION
<1>1. /\ size \in Nat /\ size > 0 /\ size <= AddrSpace \div 2 /\ size < AddrSpace
      /\ AddrSpace \in Nat /\ AddrSpace > 0
      /\ AddrSpace % 2 = 0 /\ 2 * STACK_MAX <= AddrSpace
      /\ STACK_MAX \in Nat /\ STACK_DANGEROUS_REGION \in Nat
  BY StorageAssumption, Constants DEF SignedSizes
<1>2. AddrSpace \div 2 \in Nat /\ AddrSpace = 2 * (AddrSpace \div 2)
  BY <1>1
<1>3. CASE sp - size >= 0
  <2>1. sp - size \in Nat /\ sp - size < AddrSpace
    BY <1>1, <1>2, <1>3
  <2>2. SpLess(size) = sp - size
    BY <1>1, <2>1, RestOfSmall DEF SpLess
  <2> QED BY <2>2 DEF IsSafeSp
<1>4. CASE sp - size < 0
  <2>1. /\ sp - size + AddrSpace \in Nat /\ sp - size + AddrSpace < AddrSpace
        /\ AddrSpace \div 2 <= sp - size + AddrSpace
    BY <1>1, <1>2, <1>4
  <2>2. (sp - size) % AddrSpace = sp - size + AddrSpace
    BY <1>1, <2>1, DivUnique
  <2> QED BY <1>2, <2>1, <2>2 DEF IsSafeSp, SpLess
<1> QED BY <1>1, <1>3, <1>4

(* A malloc of main on the stack: the block lies below everything main has *)
(* and above the region the pass leaves alone.                             *)
LEMMA AllocaBytesStackInv ==
  ASSUME LayoutInv, StackInv, stage = "running", InMain, converted,
         NEW size \in MallocSizes, SpLess(size) = sp - size, AllocaBytes(size),
         UNCHANGED <<layoutVars, programVars, converted, frames>>
  PROVE  StackInv'
<1> DEFINE new == block_t(sp - size, sp)
<1>1. /\ FramesInv /\ OwnedInv /\ HeapInv
      /\ UNCHANGED <<heapVars, stage, layoutVars, programVars, converted, frames>>
      /\ sp' = sp - size /\ owned' = owned \cup {new}
  <2>1. FramesInv /\ OwnedInv /\ HeapInv
    BY DEF StackInv, Started
  <2>2. sp - size + size = sp
    BY <2>1, StorageAssumption DEF FramesInv
  <2> QED BY <2>1, <2>2 DEF AllocaBytes
<1>2. /\ HeapSize' = HeapSize /\ alloced' = alloced /\ stage' = stage
      /\ converted' = converted /\ freePlaces' = freePlaces /\ frames' = frames
  BY <1>1 DEF layoutVars, heapVars, programVars
<1>3. /\ size \in Nat /\ size > 0 /\ sp \in Int /\ sp <= frames[1].base
      /\ frames[1].base = STACK_MAX - FrameSize("main")
      /\ FrameSize("main") \in Nat
  BY <1>1, FrameSizeNat, StorageAssumption, Constants DEF FramesInv
<1>4. /\ new \in Block /\ new.first = sp - size /\ new.second = sp
      /\ new.first < new.second /\ new.second <= frames[1].base
      /\ new.first < HEAP_MIN /\ new.second <= HEAP_MIN
  BY <1>3, Constants DEF block_t, Block
<1> HIDE DEF new
<1>5. FramesInv'
  BY <1>1, <1>3, SameFrames
<1>6. Low = sp /\ Low' = sp - size
  BY <1>1, <1>2 DEF Low, InMain
<1>7. \A b \in owned : b.first \in Int /\ b.second \in Int
  BY <1>1 DEF OwnedInv, Block
<1>8. \A b \in owned : sp <= b.first
  BY <1>1, <1>3, <1>6, <1>7, Constants, HeapBlocks DEF OwnedInv
<1>9. \A b \in owned : Apart(new, b) /\ Apart(b, new)
  BY <1>4, <1>7, <1>8 DEF Apart
<1>10. OwnedInv'
  <2>1. /\ owned' \subseteq Block
        /\ \A b \in owned' : b.first < b.second
        /\ \A b, c \in owned' : b # c => Apart(b, c)
    BY <1>1, <1>4, <1>9 DEF OwnedInv
  <2>2. \A b \in owned' : \/ b \in alloced'
                          \/ converted' /\ Low' <= b.first /\ b.second <= frames'[1].base
    BY <1>1, <1>2, <1>3, <1>4, <1>6, <1>7 DEF OwnedInv
  <2>3. GlobalsBlock' = GlobalsBlock /\ GlobalsBlock.first = HEAP_MIN
    BY <1>2 DEF GlobalsBlock, block_t
  <2>4. {b \in owned' : b.first >= HEAP_MIN} = {b \in owned : b.first >= HEAP_MIN}
    BY <1>1, <1>4, Constants
  <2>5. HeapSize' > 0 => GlobalsBlock \notin owned'
    BY <1>1, <1>2, <1>4, <2>3, Constants DEF OwnedInv
  <2> QED BY <1>1, <1>2, <2>1, <2>2, <2>3, <2>4, <2>5 DEF OwnedInv
<1>11. HeapInv'
  BY <1>1, HeapUnchanged
<1> QED BY <1>2, <1>5, <1>10, <1>11 DEF StackInv, Compiling

(* A malloc in the heap: what it takes lies in a freed block, apart from   *)
(* every allocated one and above the stack.                                *)
LEMMA HeapMallocStackInv ==
  ASSUME LayoutInv, StackInv, stage = "running",
         NEW size \in MallocSizes, HeapMalloc(size),
         UNCHANGED <<layoutVars, programVars, converted, sp, frames>>
  PROVE  StackInv'
<1>1. /\ FramesInv /\ OwnedInv /\ HeapInv
      /\ HeapSize' = HeapSize /\ frames' = frames /\ sp' = sp
  BY DEF StackInv, Started, layoutVars
<1>2. (converted' <=> converted) /\ (converted' => freePlaces' \subseteq {"main"})
  BY DEF StackInv, programVars
<1>3. /\ size \in Nat /\ size > 0
      /\ sp \in Int /\ frames[1].base \in Int /\ frames[1].base <= STACK_MAX
  BY <1>1, FrameSizeNat, StorageAssumption, Constants DEF FramesInv
<1>4. CASE /\ NoFit(size)
           /\ stage' = "out of memory"
           /\ UNCHANGED <<heapVars, owned>>
  BY <1>1, <1>2, <1>4, HeapUnchanged DEF StackInv, Compiling, Started
<1>5. ASSUME NEW b \in freed, FirstFit(b, size), TakeFrom(b, size),
             owned' = owned \cup {block_t(b.first, b.first + size)}, stage' = stage
      PROVE  StackInv'
  <2> DEFINE new == block_t(b.first, b.first + size)
  <2>1. alloced' = alloced \cup {new} /\ owned' = owned \cup {new}
    BY <1>5 DEF TakeFrom
  <2>2. /\ b.first \in Int /\ b.second \in Int /\ HEAP_MIN <= b.first
        /\ b.first + size <= b.second
    BY <1>1, <1>3, <1>5, HeapBlocks DEF FirstFit, Fits
  <2>3. /\ new \in Block /\ new.first = b.first /\ new.second = b.first + size
        /\ new.first < new.second /\ HEAP_MIN <= new.first
    BY <1>3, <2>2 DEF block_t, Block
  <2> HIDE DEF new
  <2>4. \A c \in alloced : Apart(new, c) /\ Apart(c, new) /\ c # new
    <3> SUFFICES ASSUME NEW c \in alloced
                 PROVE  Apart(new, c) /\ Apart(c, new) /\ c # new
      OBVIOUS
    <3>1. /\ c.first \in Int /\ c.second \in Int /\ c.first < c.second
          /\ c.second <= b.first \/ b.second <= c.first
      BY <1>1, HeapBlocks DEF Apart
    <3> QED BY <1>3, <2>2, <2>3, <3>1 DEF Apart
  <2>5. \A c \in owned : c.first \in Int /\ c.second \in Int
    BY <1>1 DEF OwnedInv, Block
  <2>6. \A c \in owned : Apart(new, c) /\ Apart(c, new)
    <3> SUFFICES ASSUME NEW c \in owned, c \notin alloced
                 PROVE  Apart(new, c) /\ Apart(c, new)
      BY <2>4
    <3>1. c.second <= frames[1].base
      BY <1>1 DEF OwnedInv
    <3> QED BY <1>3, <2>2, <2>3, <2>5, <3>1, Constants DEF Apart
  <2>7. /\ owned' \subseteq Block
        /\ \A c \in owned' : c.first < c.second
        /\ \A c, d \in owned' : c # d => Apart(c, d)
    BY <1>1, <2>1, <2>3, <2>6 DEF OwnedInv
  <2>8. Low' = Low
    BY <1>1 DEF Low, InMain, SpAtCall, FrameSize, layoutVars
  <2>9. \A c \in owned' : \/ c \in alloced'
                          \/ converted' /\ Low' <= c.first /\ c.second <= frames'[1].base
    BY <1>1, <1>2, <2>1, <2>8 DEF OwnedInv
  <2>10. GlobalsBlock' = GlobalsBlock
    BY <1>1 DEF GlobalsBlock
  <2>11. HeapSize > 0 => GlobalsBlock \in alloced
    BY <1>1 DEF OwnedInv
  <2>12. HeapSize' > 0 => GlobalsBlock' \notin owned'
    BY <1>1, <2>1, <2>4, <2>10, <2>11 DEF OwnedInv
  <2>13. {c \in owned' : c.first >= HEAP_MIN} = {c \in owned : c.first >= HEAP_MIN} \cup {new}
    BY <2>1, <2>2, <2>3, Constants
  <2>14. alloced' = {c \in owned' : c.first >= HEAP_MIN}
                     \cup (IF HeapSize' > 0 THEN {GlobalsBlock'} ELSE {})
    BY <1>1, <2>1, <2>10, <2>13 DEF OwnedInv
  <2>15. OwnedInv'
    BY <2>7, <2>9, <2>12, <2>14 DEF OwnedInv
  <2>16. HeapInv'
    BY <1>1, <1>3, <1>5, MallocHeapInv
  <2>17. FramesInv'
    BY <1>1, <1>3, SameFrames
  <2> QED BY <1>2, <1>5, <2>15, <2>16, <2>17 DEF StackInv, Compiling
<1> QED BY <1>4, <1>5 DEF HeapMalloc

(* A free: when it reaches the heap, the block is one of the heap's.  A    *)
(* block of the stack is only there when all the frees are converted.      *)
LEMMA FreeStackInv ==
  ASSUME LayoutInv, StackInv, NEW b \in owned, NEW place \in Places, Free(b, place)
  PROVE  StackInv'
<1>1. /\ FramesInv /\ OwnedInv /\ HeapInv /\ stage = "running"
      /\ HeapSize' = HeapSize /\ frames' = frames /\ sp' = sp
      /\ owned' = owned \ {b} /\ place \in freePlaces
  BY DEF StackInv, Started, layoutVars, Free
<1>2. /\ (converted' <=> converted) /\ (converted' => freePlaces' \subseteq {"main"})
      /\ converted => freePlaces \subseteq {"main"}
  BY DEF StackInv, programVars, Free
<1>3. /\ frames[1].base \in Int /\ frames[1].base <= STACK_MAX
      /\ b.first \in Int /\ b.second \in Int /\ b.first < b.second
      /\ \A c \in owned : c.first \in Int /\ c.second \in Int
  BY <1>1, FrameSizeNat, Constants DEF FramesInv, OwnedInv, Block
<1>4. FramesInv'
  BY <1>1, SameFrames DEF Free, FramesInv
<1>5. Low' = Low /\ GlobalsBlock' = GlobalsBlock
  BY <1>1 DEF Low, InMain, SpAtCall, FrameSize, layoutVars, GlobalsBlock, Free
<1>6. /\ owned' \subseteq Block
      /\ \A c \in owned' : c.first < c.second
      /\ \A c, d \in owned' : c # d => Apart(c, d)
      /\ HeapSize' > 0 => GlobalsBlock' \notin owned'
  BY <1>1, <1>5 DEF OwnedInv
<1>7. CASE b \notin alloced
  <2>1. converted /\ b.second <= frames[1].base
    BY <1>1, <1>7 DEF OwnedInv
  <2>2. place = "main"
    BY <1>1, <1>2, <2>1
  <2>3. b.first < HEAP_MIN /\ ~InHeap(b.first)
    BY <1>3, <2>1, Constants DEF InHeap
  <2>4. UNCHANGED <<heapVars, stage>>
    BY <2>1, <2>2, <2>3 DEF Free
  <2>5. alloced' = alloced /\ stage' = stage
    BY <2>4 DEF heapVars
  <2>6. {c \in owned' : c.first >= HEAP_MIN} = {c \in owned : c.first >= HEAP_MIN}
    BY <1>1, <1>3, <2>3, Constants
  <2>7. \A c \in owned' : \/ c \in alloced'
                          \/ converted' /\ Low' <= c.first /\ c.second <= frames'[1].base
    BY <1>1, <1>2, <1>5, <2>5 DEF OwnedInv
  <2>8. OwnedInv'
    BY <1>1, <1>5, <1>6, <2>5, <2>6, <2>7 DEF OwnedInv
  <2>9. HeapInv'
    BY <1>1, <2>4, HeapUnchanged
  <2> QED BY <1>1, <1>2, <1>4, <2>5, <2>8, <2>9 DEF StackInv, Compiling
<1>8. CASE b \in alloced
  <2>1. HEAP_MIN <= b.first /\ InHeap(b.first)
    BY <1>1, <1>3, <1>8, HeapBlocks, Constants DEF InHeap
  <2>2. HeapFree(b.first)
    BY <2>1 DEF Free
  <2>3. \A a \in alloced : a.first = b.first => a = b
    <3> SUFFICES ASSUME NEW a \in alloced, a.first = b.first, a # b PROVE FALSE
      OBVIOUS
    <3>1. /\ a.second \in Int /\ a.first < a.second
          /\ a.second <= b.first \/ b.second <= a.first
      BY <1>1, <1>8, HeapBlocks DEF Apart
    <3> QED BY <1>3, <3>1
  <2>4. GiveBack(b) /\ stage' = stage
    BY <1>8, <2>2, <2>3 DEF HeapFree
  <2>5. alloced' = alloced \ {b}
    BY <2>4 DEF GiveBack
  <2>6. b # GlobalsBlock \/ ~(HeapSize > 0)
    BY <1>1 DEF OwnedInv
  <2>7. {c \in owned' : c.first >= HEAP_MIN} = {c \in owned : c.first >= HEAP_MIN} \ {b}
    BY <1>1
  <2>8. alloced' = {c \in owned' : c.first >= HEAP_MIN}
                    \cup (IF HeapSize' > 0 THEN {GlobalsBlock'} ELSE {})
    BY <1>1, <1>5, <2>5, <2>6, <2>7 DEF OwnedInv
  <2>9. \A c \in owned' : \/ c \in alloced'
                          \/ converted' /\ Low' <= c.first /\ c.second <= frames'[1].base
    BY <1>1, <1>2, <1>5, <2>5 DEF OwnedInv
  <2>10. OwnedInv'
    BY <1>6, <2>8, <2>9 DEF OwnedInv
  <2>11. HeapInv'
    BY <1>1, <1>8, <2>4, FreeHeapInv
  <2> QED BY <1>1, <1>2, <1>4, <2>4, <2>10, <2>11 DEF StackInv, Compiling
<1> QED BY <1>7, <1>8

(* A call: the callee's frame lies below sp, which is where main's frame   *)
(* and what it took with alloca_bytes end, or the caller's frame.          *)
LEMMA CallStackInv ==
  ASSUME LayoutInv, StackInv, NEW f \in Callees, NEW spill \in BOOLEAN, Call(f, spill)
  PROVE  StackInv' /\ FramesInv'
<1> DEFINE n == Len(frames)
           base == (IF spill THEN sp - WORD ELSE sp) - FrameSize(f)
           r == [fun |-> f, base |-> base, spilled |-> spill]
<1>1. /\ FramesInv /\ OwnedInv /\ HeapInv /\ stage = "running"
      /\ HeapSize' = HeapSize /\ used' = used /\ StackSize' = StackSize
      /\ frames' = Append(frames, r) /\ sp' = base /\ owned' = owned
      /\ UNCHANGED heapVars
      /\ stage' \in {"running", "overflow"}
  BY DEF StackInv, Started, layoutVars, Call
<1>2. (converted' <=> converted) /\ (converted' => freePlaces' \subseteq {"main"})
  BY DEF StackInv, programVars, Call
<1>3. /\ f \in Functions /\ FrameSize(f) \in Nat /\ sp \in Int /\ base \in Int
      /\ \A g \in Functions : FrameSize(g)' = FrameSize(g) /\ FrameSize(g) \in Nat
  BY <1>1, FrameSizeNat, Constants DEF FramesInv, FrameSize
<1>4. /\ r \in Frame /\ r.fun = f /\ r.base = base /\ (r.spilled <=> spill)
  BY <1>3 DEF Frame
<1>5. base + FrameSize(f) + (IF spill THEN WORD ELSE 0) = sp
  BY <1>3, Constants
<1>6. SpAtCall(r) = sp
  BY <1>4, <1>5 DEF SpAtCall
<1> HIDE DEF r, base
<1>7. /\ n \in Nat /\ n >= 1 /\ Len(frames') = n + 1 /\ frames' \in Seq(Frame)
      /\ frames'[n + 1] = r
      /\ \A i \in 1 .. n : frames'[i] = frames[i]
  BY <1>1, <1>4, FrameTypes, AppendProperties DEF FramesInv
<1>8. \A i \in 1 .. n : sp <= frames[i].base
  <2> SUFFICES ASSUME NEW i \in 1 .. n PROVE sp <= frames[i].base
    OBVIOUS
  <2>1. CASE n = 1
    BY <1>1, <2>1 DEF FramesInv, InMain
  <2>2. CASE n # 1
    <3>1. sp = frames[n].base
      BY <1>1, <2>2 DEF FramesInv, InMain
    <3>2. CASE i = n
      BY <1>3, <3>1, <3>2
    <3>3. CASE i < n
      <4>1. SpAtCall(frames[n]) <= frames[i].base
        BY <1>1, <1>7, <3>3 DEF FramesInv
      <4>2. frames[n].base <= SpAtCall(frames[n]) /\ SpAtCall(frames[n]) \in Int
        BY <1>1, <1>3, <1>7, FrameTypes, Constants DEF SpAtCall
      <4> QED BY <1>1, <1>3, <1>7, <3>1, <4>1, <4>2, FrameTypes
    <3> QED BY <1>7, <3>2, <3>3
  <2> QED BY <2>1, <2>2
<1>9. /\ \A j \in 1 .. n : SpAtCall(frames[j])' = SpAtCall(frames[j])
      /\ \A j \in {n + 1} : SpAtCall(frames[j])' = sp
  <2>1. \A j \in 1 .. n : SpAtCall(frames[j])' = SpAtCall(frames[j])
    BY <1>1, <1>7 DEF SpAtCall, FrameSize
  <2>2. ASSUME NEW j \in {n + 1} PROVE SpAtCall(frames[j])' = SpAtCall(r)
    <3>1. frames'[j] = r
      BY <1>7
    <3> QED BY <1>1, <3>1 DEF SpAtCall, FrameSize
  <2> QED BY <1>6, <2>1, <2>2
<1>10. \A i, j \in 1 .. n + 1 : i < j => SpAtCall(frames[j])' <= frames'[i].base
  <2> SUFFICES ASSUME NEW i \in 1 .. n + 1, NEW j \in 1 .. n + 1, i < j
               PROVE  SpAtCall(frames[j])' <= frames'[i].base
    OBVIOUS
  <2>1. i \in 1 .. n /\ frames'[i] = frames[i]
    BY <1>7
  <2>2. CASE j = n + 1
    <3>1. SpAtCall(frames[j])' = sp
      BY <1>9, <2>2
    <3> QED BY <1>8, <2>1, <3>1
  <2>3. CASE j # n + 1
    <3>1. j \in 1 .. n
      BY <1>7, <2>3
    <3> QED BY <1>1, <1>9, <2>1, <3>1 DEF FramesInv
  <2> QED BY <2>2, <2>3
<1>11. \A i \in 3 .. n + 1 : SpAtCall(frames[i])' = frames'[i - 1].base
  <2> SUFFICES ASSUME NEW i \in 3 .. n + 1
               PROVE  SpAtCall(frames[i])' = frames'[i - 1].base
    OBVIOUS
  <2>1. i - 1 \in 1 .. n /\ frames'[i - 1] = frames[i - 1]
    BY <1>7
  <2>2. CASE i = n + 1
    <3>1. sp = frames[n].base
      BY <1>1, <1>7, <2>2 DEF FramesInv, InMain
    <3>2. SpAtCall(frames[i])' = sp /\ i - 1 = n
      BY <1>7, <1>9, <2>2
    <3> QED BY <2>1, <3>1, <3>2
  <2>3. CASE i # n + 1
    <3>1. i \in 3 .. n /\ i \in 1 .. n
      BY <1>7, <2>3
    <3> QED BY <1>1, <1>9, <2>1, <3>1 DEF FramesInv
  <2> QED BY <2>2, <2>3
<1>12. FramesInv'
  <2>1. \A i \in 2 .. n + 1 : frames'[i].fun \in Callees
    BY <1>1, <1>4, <1>7 DEF FramesInv
  <2>2. /\ frames'[1].fun = "main" /\ frames'[1].base = STACK_MAX - FrameSize("main")'
        /\ ~frames'[1].spilled
    BY <1>1, <1>3, <1>7, Constants DEF FramesInv
  <2>3. ~InMain' /\ sp' = frames'[Len(frames')].base /\ sp' \in Int
    BY <1>1, <1>3, <1>4, <1>7 DEF InMain
  <2> QED BY <1>7, <1>10, <1>11, <2>1, <2>2, <2>3 DEF FramesInv
<1>13. Low' = Low
  <2>1. Low' = SpAtCall(frames[2])'
    BY <1>7 DEF Low, InMain
  <2>2. CASE n = 1
    <3>1. SpAtCall(frames[2])' = sp
      BY <1>9, <2>2
    <3> QED BY <2>1, <2>2, <3>1 DEF Low, InMain
  <2>3. CASE n # 1
    <3>0. n \in Nat /\ n > 0
      BY <1>7
    <3>1. 2 \in 1 .. n
      BY <2>3, <3>0, InRange
    <3>2. SpAtCall(frames[2])' = SpAtCall(frames[2])
      BY <1>9, <3>1
    <3> QED BY <2>1, <2>3, <3>2 DEF Low, InMain
  <2> QED BY <2>2, <2>3
<1>14. OwnedInv'
  <2>1. /\ alloced' = alloced /\ GlobalsBlock' = GlobalsBlock
        /\ frames'[1].base = frames[1].base
    BY <1>1, <1>7 DEF heapVars, GlobalsBlock
  <2>2. \A c \in owned' : \/ c \in alloced'
                          \/ converted' /\ Low' <= c.first /\ c.second <= frames'[1].base
    BY <1>1, <1>2, <1>13, <2>1 DEF OwnedInv
  <2> QED BY <1>1, <2>1, <2>2 DEF OwnedInv
<1>15. HeapInv'
  BY <1>1, HeapUnchanged
<1> QED BY <1>1, <1>2, <1>12, <1>14, <1>15 DEF StackInv, Compiling

(* A return: sp is back where the function was called, which is where the  *)
(* caller had left it.                                                     *)
LEMMA ReturnStackInv ==
  ASSUME LayoutInv, StackInv, Return
  PROVE  StackInv'
<1> DEFINE n == Len(frames)
<1>1. /\ FramesInv /\ OwnedInv /\ HeapInv /\ stage = "running" /\ stage' = stage
      /\ HeapSize' = HeapSize /\ used' = used /\ StackSize' = StackSize
      /\ n > 1 /\ frames' = SubSeq(frames, 1, n - 1) /\ owned' = owned
      /\ sp' = SpAtCall(frames[n])
      /\ UNCHANGED heapVars
  BY DEF StackInv, Started, layoutVars, Return
<1>2. (converted' <=> converted) /\ (converted' => freePlaces' \subseteq {"main"})
  BY DEF StackInv, programVars, Return
<1>3. /\ \A g \in Functions : FrameSize(g)' = FrameSize(g) /\ FrameSize(g) \in Nat
      /\ "main" \in Functions
  BY <1>1, FrameSizeNat, Constants DEF FrameSize
<1>4. n \in Nat /\ frames \in Seq(Frame) /\ n - 1 \in 1 .. n
  BY <1>1, FrameTypes DEF FramesInv
<1>5. /\ frames' \in Seq(Frame) /\ Len(frames') = n - 1
      /\ \A i \in 1 .. n - 1 : frames'[i] = frames[i]
  <2>1. \A i \in 1 .. n - 1 : frames[i] \in Frame
    BY <1>1, <1>4, FrameTypes
  <2>2. 1 \in Int /\ n - 1 \in Int /\ 1 .. n - 1 \subseteq 1 .. Len(frames)
    BY <1>4
  <2> QED BY <1>1, <1>4, <2>1, <2>2, SubSeqProperties
<1>6. sp' \in Int
  BY <1>1, <1>3, <1>4, FrameTypes, Constants DEF SpAtCall
<1>7. \A j \in 1 .. n - 1 : SpAtCall(frames[j])' = SpAtCall(frames[j])
  BY <1>1, <1>5 DEF SpAtCall, FrameSize
<1>8. Low' = Low
  <2>1. CASE n = 2
    BY <1>1, <1>5, <2>1 DEF Low, InMain
  <2>2. CASE n # 2
    BY <1>1, <1>4, <1>5, <1>7, <2>2 DEF Low, InMain
  <2> QED BY <2>1, <2>2
<1>9. FramesInv'
  <2>1. \A i \in 2 .. n - 1 : frames'[i].fun \in Callees
    BY <1>1, <1>4, <1>5 DEF FramesInv
  <2>2. /\ frames'[1].fun = "main" /\ frames'[1].base = STACK_MAX - FrameSize("main")'
        /\ ~frames'[1].spilled
    BY <1>1, <1>3, <1>4, <1>5 DEF FramesInv
  <2>3. \A i, j \in 1 .. n - 1 : i < j => SpAtCall(frames[j])' <= frames'[i].base
    BY <1>1, <1>4, <1>5, <1>7 DEF FramesInv
  <2>4. \A i \in 3 .. n - 1 : SpAtCall(frames[i])' = frames'[i - 1].base
    BY <1>1, <1>4, <1>5, <1>7 DEF FramesInv
  <2>5. InMain' => sp' <= frames'[1].base
    BY <1>1, <1>4, <1>5 DEF FramesInv, InMain
  <2>6. ~InMain' => sp' = frames'[Len(frames')].base
    <3>1. CASE n = 2
      BY <1>5, <3>1 DEF InMain
    <3>2. CASE n # 2
      <4>1. n \in 3 .. n
        BY <1>1, <1>4, <3>2, InRange
      <4>2. sp' = frames[n - 1].base
        BY <1>1, <4>1 DEF FramesInv
      <4>3. n - 1 \in 1 .. n - 1
        BY <1>1, <1>4
      <4>4. frames'[n - 1] = frames[n - 1]
        BY <1>5, <4>3
      <4> QED BY <1>5, <4>2, <4>4
    <3> QED BY <3>1, <3>2
  <2> QED BY <1>1, <1>4, <1>5, <1>6, <2>1, <2>2, <2>3, <2>4, <2>5, <2>6 DEF FramesInv
<1>10. OwnedInv'
  <2>1. /\ alloced' = alloced /\ GlobalsBlock' = GlobalsBlock
        /\ frames'[1].base = frames[1].base
    BY <1>1, <1>4, <1>5 DEF heapVars, GlobalsBlock
  <2>2. \A c \in owned' : \/ c \in alloced'
                          \/ converted' /\ Low' <= c.first /\ c.second <= frames'[1].base
    BY <1>1, <1>2, <1>8, <2>1 DEF OwnedInv
  <2> QED BY <1>1, <2>1, <2>2 DEF OwnedInv
<1>11. HeapInv'
  BY <1>1, HeapUnchanged
<1> QED BY <1>1, <1>2, <1>9, <1>10, <1>11 DEF StackInv, Compiling

-----------------------------------------------------------------------------
(* The invariant of the running program.                                   *)

LEMMA StackInvInit == Init => StackInv
<1> SUFFICES ASSUME Init PROVE StackInv
  OBVIOUS
<1>1. /\ HeapInit /\ owned = {} /\ stage = "memuse" /\ converted = FALSE
  BY DEF Init
<1>2. HeapInv
  BY <1>1, InitHeapInv
<1> QED BY <1>1, <1>2 DEF StackInv, Started, Compiling

(* A step of the compiler leaves the heap untouched.                       *)
LEMMA CompileStackInv ==
  ASSUME StackInv, Compile
  PROVE  StackInv'
<1>1. /\ Compiling /\ Compiling' /\ stage' # "memuse"
      /\ UNCHANGED <<heapVars, owned, freePlaces>>
  BY DEF Compile, Convert, PlaceGlobal, EmitFunction, Compiling, programVars, runVars
<1>2. HeapInit' /\ owned' = {}
  BY <1>1 DEF StackInv, heapVars, HeapInit
<1>3. HeapInv'
  BY <1>1, HeapUnchanged DEF StackInv
<1>4. converted' => freePlaces' \subseteq {"main"}
  BY <1>1 DEF Compile, Convert, StackInv
<1> QED BY <1>1, <1>2, <1>3, <1>4 DEF StackInv, Started, Compiling

(* The end of main changes nothing here.                                   *)
LEMMA SameStackInv ==
  ASSUME StackInv, stage' = stage \/ (stage = "running" /\ stage' = "finished"),
         UNCHANGED <<heapVars, layoutVars, programVars, converted, runVars>>
  PROVE  StackInv'
<1>1. /\ UNCHANGED <<heapVars, freePlaces, owned, frames, sp, converted>>
      /\ UNCHANGED <<alloced, freed, HeapSize, StackSize, used>>
  BY DEF heapVars, layoutVars, programVars, runVars
<1>2. HeapInv'
  BY <1>1, HeapUnchanged DEF StackInv
<1>3. Compiling' => Compiling
  BY DEF Compiling
<1>4. HeapInit => HeapInit'
  BY <1>1 DEF HeapInit, heapVars
<1>5. Started' => Started
  BY DEF Started
<1>6. FramesInv => FramesInv'
  BY <1>1 DEF FramesInv, InMain, SpAtCall, FrameSize
<1>7. OwnedInv => OwnedInv'
  BY <1>1 DEF OwnedInv, Low, InMain, SpAtCall, FrameSize, GlobalsBlock
<1>8. /\ stage' = "memuse" => stage = "memuse"
      /\ stage' # "invalid free"
  BY DEF StackInv
<1>9. /\ stage' = "memuse" => ~converted'
      /\ converted' => freePlaces' \subseteq {"main"}
  <2>1. converted' = converted /\ freePlaces' = freePlaces
    BY <1>1
  <2>2. /\ stage = "memuse" => ~converted
        /\ converted => freePlaces \subseteq {"main"}
    BY DEF StackInv
  <2>3. converted' => freePlaces' \subseteq {"main"}
    BY <2>1, <2>2
  <2>4. ASSUME stage' = "memuse" PROVE ~converted'
    BY <1>8, <2>1, <2>2, <2>4
  <2> QED BY <2>3, <2>4
<1>10. Compiling' => HeapInit' /\ owned' = {}
  BY <1>1, <1>3, <1>4 DEF StackInv
<1>11. Started' => FramesInv' /\ OwnedInv'
  BY <1>5, <1>6, <1>7 DEF StackInv
<1> QED BY <1>2, <1>8, <1>9, <1>10, <1>11 DEF StackInv

LEMMA MallocStackInv ==
  ASSUME SignedSizes, LayoutInv, StackInv, RunTypes, NEW size \in MallocSizes, NEW place \in Places,
         Malloc(size, place)
  PROVE  StackInv'
<1>1. stage = "running" /\ UNCHANGED <<layoutVars, programVars, converted, frames>>
  BY DEF Malloc
<1>2. CASE converted /\ place = "main" /\ IsSafeSp(size)
  <2>1. AllocaBytes(size)
    BY <1>2 DEF Malloc
  <2>2. InMain
    BY <1>2 DEF Malloc, Here
  <2>3. sp \in Int /\ sp >= 0 /\ sp <= STACK_MAX
    BY <1>1 DEF RunTypes
  <2>4. SpLess(size) = sp - size
    BY <1>2, <2>3, SafeSp
  <2> QED BY <1>1, <1>2, <2>1, <2>2, <2>4, AllocaBytesStackInv
<1>3. CASE ~(converted /\ place = "main" /\ IsSafeSp(size))
  <2>1. HeapMalloc(size) /\ UNCHANGED sp
    BY <1>3 DEF Malloc
  <2> QED BY <1>1, <2>1, HeapMallocStackInv
<1> QED BY <1>2, <1>3

LEMMA StackInvNext ==
  SignedSizes /\ LayoutInv /\ StackInv /\ RunTypes /\ [Next]_storageVars => StackInv'
<1> SUFFICES ASSUME SignedSizes, LayoutInv, StackInv, RunTypes, [Next]_storageVars
             PROVE  StackInv'
  OBVIOUS
<1>1. CASE Compile
  BY <1>1, CompileStackInv
<1>2. CASE Start
  BY <1>2, StartStackInv
<1>3. CASE \E size \in MallocSizes, place \in Places : Malloc(size, place)
  BY <1>3, MallocStackInv
<1>4. CASE \E b \in owned, place \in Places : Free(b, place)
  BY <1>4, FreeStackInv
<1>5. CASE \E f \in Callees, spill \in BOOLEAN : Call(f, spill)
  BY <1>5, CallStackInv
<1>6. CASE Return
  BY <1>6, ReturnStackInv
<1>7. CASE Finish
  BY <1>7, SameStackInv DEF Finish
<1>8. CASE UNCHANGED storageVars
  BY <1>8, SameStackInv DEF storageVars
<1> QED BY <1>1, <1>2, <1>3, <1>4, <1>5, <1>6, <1>7, <1>8 DEF Next, Run

-----------------------------------------------------------------------------
(* The types hold.                                                         *)

LEMMA TypesAreTypeOK == LayoutInv /\ StackInv /\ TypesInv => StorageTypeOK
<1> SUFFICES ASSUME LayoutInv, StackInv, TypesInv PROVE StorageTypeOK
  OBVIOUS
<1>1. GVHeapOffset \in Nat
  BY Constants DEF LayoutInv, LayoutTypes, HeapGlobals
<1>2. HeapTypeOK
  BY DEF StackInv, HeapInv
<1> QED BY <1>1, <1>2 DEF TypesInv, LayoutInv, LayoutTypes, Emitted, CompilerTypes, RunTypes,
                         StorageTypeOK, Stages, Frame

LEMMA TypesInit == Init => TypesInv
<1> SUFFICES ASSUME Init PROVE TypesInv
  OBVIOUS
<1>1. stage \in Stages
  BY DEF Init, Stages
<1>2. STACK_MAX \in 0 .. AddrSpace - 1
  BY Constants
<1>3. CompilerTypes
  BY <1>2 DEF Init, LayoutInit, CompilerTypes
<1>4. RunTypes
  BY Constants DEF Init, RunTypes
<1> QED BY <1>1, <1>3, <1>4 DEF TypesInv

LEMMA CompileTypes ==
  ASSUME LayoutInv, CompilerTypes, RunTypes, Compile
  PROVE  stage' \in Stages /\ CompilerTypes' /\ RunTypes'
<1>1. /\ stage' \in {"layout", "rejected", "compiled"} /\ stage # "overflow"
      /\ UNCHANGED <<mallocPlaces, freePlaces, sp, frames, owned>>
  BY DEF Compile, Convert, PlaceGlobal, EmitFunction, programVars, runVars
<1>2. stage' \in Stages
  BY <1>1 DEF Stages
<1>3. stage' # "overflow"
  BY <1>1
<1>4. RunTypes'
  BY <1>1, <1>3 DEF RunTypes
<1>5. CASE Convert
  <2>1. converted' \in BOOLEAN
    BY <1>5 DEF Convert
  <2>2. UNCHANGED <<GVStackOffset, GVLocs>>
    BY <1>5 DEF Convert, layoutVars
  <2> QED BY <1>1, <1>2, <1>4, <2>1, <2>2 DEF CompilerTypes
<1>6. CASE PlaceGlobal
  <2> DEFINE sz == RoundUp(Head(sizes))
             at == StackPlace(sz)
  <2>1. converted' = converted
    BY <1>6 DEF Compile, PlaceGlobal, Convert
  <2>2. sz \in Nat
    <3>1. Head(sizes) \in Nat
      BY <1>6 DEF PlaceGlobal, LayoutInv, LayoutTypes
    <3> QED BY <3>1, RoundUpNat
  <2>3. at \in 0 .. AddrSpace - 1
    <3>1. GVStackOffset - sz \in Int /\ AddrSpace \in Nat /\ AddrSpace > 0
      BY <2>2, Constants DEF CompilerTypes
    <3> QED BY <3>1, Z3 DEF StackPlace
  <2>4. GVHeapOffset \in Nat
    BY Constants DEF LayoutInv, LayoutTypes, HeapGlobals
  <2>5. /\ GVStackOffset' \in {GVStackOffset, at}
        /\ \/ GVLocs' = GVLocs \cup {[at |-> at, inHeap |-> FALSE, size |-> sz]}
           \/ GVLocs' = GVLocs \cup {[at |-> GVHeapOffset, inHeap |-> TRUE, size |-> sz]}
    BY <1>6 DEF PlaceGlobal
  <2> HIDE DEF sz, at
  <2>6. at \in Nat
    BY <2>3
  <2>7. /\ [at |-> at, inHeap |-> FALSE, size |-> sz] \in [at : Nat, inHeap : BOOLEAN, size : Nat]
        /\ [at |-> GVHeapOffset, inHeap |-> TRUE, size |-> sz]
             \in [at : Nat, inHeap : BOOLEAN, size : Nat]
    BY <2>2, <2>4, <2>6
  <2>8. GVLocs' \subseteq [at : Nat, inHeap : BOOLEAN, size : Nat]
    BY <2>5, <2>7 DEF CompilerTypes
  <2>9. GVStackOffset' \in 0 .. AddrSpace - 1
    BY <2>3, <2>5 DEF CompilerTypes
  <2> QED BY <1>1, <1>2, <1>4, <2>1, <2>8, <2>9 DEF CompilerTypes
<1>7. CASE \E f \in Functions : EmitFunction(f)
  <2>1. UNCHANGED <<GVStackOffset, GVLocs, converted>>
    BY <1>7 DEF Compile, EmitFunction, Convert
  <2> QED BY <1>1, <1>2, <1>4, <2>1 DEF CompilerTypes
<1> QED BY <1>5, <1>6, <1>7 DEF Compile

LEMMA CallTypes ==
  ASSUME LayoutInv, StackInv, RunTypes, NEW f \in Callees, NEW spill \in BOOLEAN, Call(f, spill)
  PROVE  stage' \in Stages /\ RunTypes'
<1>1. FramesInv'
  BY CallStackInv
<1>2. PICK base : /\ base = (IF spill THEN sp - WORD ELSE sp) - FrameSize(f)
                  /\ sp' = base /\ owned' = owned
                  /\ stage' = IF base < 0 THEN "overflow" ELSE "running"
  BY DEF Call
<1>3. FrameSize(f) \in Nat /\ sp \in Int /\ sp <= STACK_MAX
  BY FrameSizeNat, Constants DEF RunTypes
<1>4. base \in Int /\ base <= STACK_MAX
  BY <1>2, <1>3, Constants
<1>5. stage' # "overflow" => sp' >= 0
  BY <1>2, <1>4
<1>6. stage' \in Stages
  BY <1>2 DEF Stages
<1> QED BY <1>1, <1>2, <1>4, <1>5, <1>6 DEF RunTypes, FramesInv

LEMMA ReturnTypes ==
  ASSUME LayoutInv, StackInv, RunTypes, Return
  PROVE  stage' \in Stages /\ RunTypes'
<1> DEFINE n == Len(frames)
<1>1. FramesInv /\ FramesInv'
  BY ReturnStackInv DEF StackInv, Started, Return
<1>2. /\ stage = "running" /\ stage' = stage /\ n > 1 /\ owned' = owned
      /\ sp' = SpAtCall(frames[n])
  BY DEF Return
<1>3. /\ n \in Nat /\ 1 \in 1 .. n /\ n \in 1 .. n
      /\ frames[n].base \in Int /\ frames[1].base \in Int
      /\ FrameSize(frames[n].fun) \in Nat /\ FrameSize("main") \in Nat
  BY <1>1, <1>2, FrameTypes, FrameSizeNat, Constants
<1>4. SpAtCall(frames[n]) \in Int /\ SpAtCall(frames[n]) >= frames[n].base
  BY <1>3, Constants DEF SpAtCall
<1>5. SpAtCall(frames[n]) <= frames[1].base /\ frames[1].base <= STACK_MAX
  BY <1>1, <1>2, <1>3, Constants DEF FramesInv
<1>6. sp = frames[n].base /\ sp >= 0
  BY <1>1, <1>2 DEF FramesInv, InMain, RunTypes
<1>7. sp' \in Int /\ sp' <= STACK_MAX /\ sp' >= 0
  BY <1>2, <1>3, <1>4, <1>5, <1>6, Constants
<1>8. stage' \in Stages
  BY <1>2 DEF Stages
<1> QED BY <1>1, <1>2, <1>7, <1>8 DEF RunTypes, FramesInv

LEMMA StartTypes ==
  ASSUME LayoutInv, RunTypes, Start
  PROVE  stage' \in Stages /\ RunTypes'
<1>1. stage = "compiled" /\ stage' \in {"running", "out of memory"} /\ owned' = owned
  BY DEF Start
<1>2. FrameSize("main") \in Nat /\ FrameSize("main") <= STACK_MAX
  <2>1. FrameSize("main") <= TotalStackUsage /\ TotalStackUsage < STACK_MAX
    BY <1>1 DEF LayoutInv, Emitted
  <2> QED BY <2>1, FrameSizeNat, Constants DEF LayoutInv, LayoutTypes
<1>3. sp' \in Int /\ sp' <= STACK_MAX /\ sp' >= 0
  <2>1. sp' = STACK_MAX - FrameSize("main")
    BY DEF Start
  <2> QED BY <1>2, <2>1, Constants
<1>5. frames' \in Seq(Frame)
  <2> DEFINE r == [fun |-> "main", base |-> sp', spilled |-> FALSE]
  <2>1. frames' = <<r>>
    BY DEF Start
  <2>2. r \in Frame
    BY <1>3, Constants DEF Frame
  <2> HIDE DEF r
  <2> QED BY <2>1, <2>2
<1>6. stage' \in Stages
  BY <1>1 DEF Stages
<1>7. owned' \subseteq Block
  BY <1>1 DEF RunTypes
<1> QED BY <1>3, <1>5, <1>6, <1>7 DEF RunTypes

LEMMA MallocTypes ==
  ASSUME SignedSizes, StackInv, RunTypes, NEW size \in MallocSizes, NEW place \in Places, Malloc(size, place)
  PROVE  stage' \in Stages /\ RunTypes'
<1>1. stage = "running" /\ frames' = frames /\ sp \in Int /\ sp >= 0 /\ size \in Nat
  BY StorageAssumption DEF Malloc, RunTypes
<1>2. CASE IsSafeSp(size) /\ AllocaBytes(size)
  <2>1. /\ stage' = stage /\ sp' = sp - size /\ sp - size >= STACK_DANGEROUS_REGION
        /\ owned' = owned \cup {block_t(sp - size, sp)}
    <3>1. SpLess(size) = sp - size /\ sp - size >= STACK_DANGEROUS_REGION
      BY <1>1, <1>2, SafeSp DEF RunTypes
    <3>2. sp - size + size = sp
      BY <1>1
    <3> QED BY <1>2, <3>1, <3>2 DEF AllocaBytes
  <2>2. sp' \in Int /\ sp' <= STACK_MAX /\ sp' >= 0
    BY <1>1, <2>1, Constants DEF RunTypes
  <2>3. block_t(sp - size, sp) \in Block
    BY <1>1 DEF block_t, Block
  <2>4. owned' \subseteq Block
    BY <2>1, <2>3 DEF RunTypes
  <2> QED BY <1>1, <2>1, <2>2, <2>4 DEF RunTypes, Stages
<1>3. CASE HeapMalloc(size) /\ UNCHANGED sp
  <2>1. stage' \in {"running", "out of memory"}
    BY <1>1, <1>3 DEF HeapMalloc
  <2>2. owned' \subseteq Block
    <3>1. CASE UNCHANGED owned
      BY <3>1 DEF RunTypes
    <3>2. ASSUME NEW b \in freed, owned' = owned \cup {block_t(b.first, b.first + size)}
          PROVE  owned' \subseteq Block
      <4>1. b.first \in Int /\ b.first + size \in Int
        BY <1>1 DEF StackInv, HeapInv, HeapTypeOK, Block
      <4>2. block_t(b.first, b.first + size) \in Block
        BY <4>1 DEF block_t, Block
      <4> QED BY <3>2, <4>2 DEF RunTypes
    <3> QED BY <1>3, <3>1, <3>2 DEF HeapMalloc
  <2>3. stage' \in Stages /\ stage' # "overflow"
    BY <2>1 DEF Stages
  <2> QED BY <1>1, <1>3, <2>2, <2>3 DEF RunTypes
<1> QED BY <1>2, <1>3 DEF Malloc

LEMMA TypesNext ==
  SignedSizes /\ LayoutInv /\ StackInv /\ TypesInv /\ [Next]_storageVars => TypesInv'
<1> SUFFICES ASSUME SignedSizes, LayoutInv, StackInv, stage \in Stages, CompilerTypes, RunTypes,
                    [Next]_storageVars
             PROVE  stage' \in Stages /\ CompilerTypes' /\ RunTypes'
  BY DEF TypesInv
<1>1. CASE Compile
  BY <1>1, CompileTypes
<1>2. Run => CompilerTypes'
  <2> SUFFICES ASSUME Run PROVE CompilerTypes'
    OBVIOUS
  <2>1. UNCHANGED <<layoutVars, programVars, converted>>
    BY DEF Run, Start, Malloc, Free, Call, Return, Finish
  <2> QED BY <2>1 DEF CompilerTypes, layoutVars, programVars
<1>3. CASE Start
  BY <1>2, <1>3, StartTypes DEF Run
<1>4. CASE \E size \in MallocSizes, place \in Places : Malloc(size, place)
  BY <1>2, <1>4, MallocTypes DEF Run
<1>5. CASE \E b \in owned, place \in Places : Free(b, place)
  <2>1. PICK b \in owned, place \in Places : Free(b, place)
    BY <1>5
  <2>2. /\ stage' \in {"running", "invalid free"} /\ stage = "running"
        /\ owned' = owned \ {b} /\ UNCHANGED <<sp, frames>>
    BY <2>1 DEF Free, HeapFree
  <2>3. stage' \in Stages /\ stage' # "overflow" /\ stage # "overflow"
    BY <2>2 DEF Stages
  <2>4. RunTypes'
    BY <2>2, <2>3 DEF RunTypes
  <2> QED BY <1>2, <1>5, <2>3, <2>4 DEF Run
<1>6. CASE \E f \in Callees, spill \in BOOLEAN : Call(f, spill)
  BY <1>2, <1>6, CallTypes DEF Run
<1>7. CASE Return
  BY <1>2, <1>7, ReturnTypes DEF Run
<1>8. CASE Finish
  <2>1. stage' = "finished" /\ stage = "running" /\ UNCHANGED <<sp, frames, owned>>
    BY <1>8 DEF Finish, runVars
  <2> QED BY <1>2, <1>8, <2>1 DEF Run, RunTypes, Stages
<1>9. CASE UNCHANGED storageVars
  BY <1>9 DEF storageVars, layoutVars, programVars, runVars, CompilerTypes, RunTypes
<1> QED BY <1>1, <1>3, <1>4, <1>5, <1>6, <1>7, <1>8, <1>9 DEF Next, Run

-----------------------------------------------------------------------------
(* The invariant of the running program.                                   *)

(* Where the frames, the stack pointer and the blocks of the program stand *)
(* while it runs.                                                          *)
THEOREM StackInvariant == SignedSizes => (Spec => [](LayoutInv /\ StackInv /\ TypesInv))
<1> SUFFICES ASSUME SignedSizes PROVE Spec => [](LayoutInv /\ StackInv /\ TypesInv)
  OBVIOUS
<1>1. LayoutInv /\ StackInv /\ TypesInv /\ [Next]_storageVars => StackInv' /\ TypesInv'
  BY StackInvNext, TypesNext DEF TypesInv
<1> QED BY <1>1, LayoutInvInit, LayoutInvNext, StackInvInit, TypesInit, PTL DEF Spec

(* However deep the calls nest and whatever the program mallocs and frees, *)
(* a block it has stays allocated, or stays above everything that later    *)
(* calls use.                                                              *)
THEOREM OwnedIsThereTheorem == SignedSizes => (Spec => []OwnedIsThere)
<1>1. StackInv => OwnedIsThere
  BY DEF StackInv, OwnedInv, OwnedIsThere, Low
<1> QED BY <1>1, StackInvariant, PTL

(* A converted free drops exactly the blocks that are not in the heap.     *)
THEOREM NothingLeaksTheorem == SignedSizes => (Spec => []NothingLeaks)
<1>1. StackInv => NothingLeaks
  BY DEF StackInv, OwnedInv, NothingLeaks, GlobalsBlock
<1> QED BY <1>1, StackInvariant, PTL

(* No free of a block the program has stops the program.                   *)
THEOREM FreesAreValidTheorem == SignedSizes => (Spec => []FreesAreValid)
<1>1. StackInv => FreesAreValid
  BY DEF StackInv, FreesAreValid
<1> QED BY <1>1, StackInvariant, PTL

-----------------------------------------------------------------------------
(* The areas of the stack and the heap.                                    *)

LEMMA SpAtCallAbove ==
  ASSUME LayoutInv, FramesInv, NEW i \in 1 .. Len(frames)
  PROVE  /\ frames[i].base \in Int /\ SpAtCall(frames[i]) \in Int
         /\ used[frames[i].fun] \in Nat
         /\ frames[i].base + used[frames[i].fun] <= frames[i].base + FrameSize(frames[i].fun)
         /\ frames[i].base + FrameSize(frames[i].fun) <= SpAtCall(frames[i])
<1>1. frames[i].base \in Int /\ frames[i].fun \in Functions
  BY FrameTypes
<1>2. used[frames[i].fun] \in Nat /\ StackSize \in Nat
  BY <1>1 DEF LayoutInv, LayoutTypes
<1>3. /\ FrameSize(frames[i].fun) \in Nat
      /\ used[frames[i].fun] <= FrameSize(frames[i].fun)
  BY <1>2 DEF FrameSize
<1>4. (IF frames[i].spilled THEN WORD ELSE 0) \in Nat
  BY Constants
<1> QED BY <1>1, <1>2, <1>3, <1>4 DEF SpAtCall

(* What belongs to a call lies between its base and where it was called,   *)
(* below the globals.                                                      *)
LEMMA AreaBounds ==
  ASSUME LayoutInv, FramesInv, NEW i \in 1 .. Len(frames), NEW a \in AreasOf(i)
  PROVE  /\ a.first \in Int /\ a.second \in Int
         /\ frames[i].base <= a.first /\ a.second <= SpAtCall(frames[i])
         /\ a.second <= STACK_MAX - StackSize
<1> DEFINE f == frames[i].fun
           end == frames[i].base + FrameSize(f)
<1>1. /\ frames[i].base \in Int /\ SpAtCall(frames[i]) \in Int /\ used[f] \in Nat
      /\ frames[i].base + used[f] <= end /\ end <= SpAtCall(frames[i])
  BY SpAtCallAbove
<1>2. FrameSize(f) \in Nat /\ StackSize \in Nat
  BY FrameTypes, FrameSizeNat DEF LayoutInv, LayoutTypes
<1>3. \/ a = block_t(frames[i].base, frames[i].base + used[f])
      \/ frames[i].spilled /\ a = block_t(end, end + WORD)
  BY DEF AreasOf
<1>4. /\ a.first \in Int /\ a.second \in Int
      /\ frames[i].base <= a.first /\ a.second <= SpAtCall(frames[i])
  <2>1. CASE a = block_t(frames[i].base, frames[i].base + used[f])
    BY <1>1, <1>2, <2>1 DEF block_t
  <2>2. CASE frames[i].spilled /\ a = block_t(end, end + WORD)
    <3>1. SpAtCall(frames[i]) = end + WORD
      BY <2>2 DEF SpAtCall
    <3> QED BY <1>1, <1>2, <2>2, <3>1, Constants DEF block_t
  <2> QED BY <1>3, <2>1, <2>2
<1>5. a.second <= STACK_MAX - StackSize
  <2>1. /\ frames[1].base = STACK_MAX - FrameSize("main")
        /\ frames[1].fun = "main" /\ ~frames[1].spilled
        /\ 1 \in 1 .. Len(frames)
    BY FrameTypes DEF FramesInv
  <2>2. FrameSize("main") = used["main"] + StackSize /\ used["main"] \in Nat
    BY Constants DEF FrameSize, LayoutInv, LayoutTypes
  <2>3. CASE i = 1
    <3>1. a = block_t(frames[1].base, frames[1].base + used["main"])
      BY <1>3, <2>1, <2>3
    <3> QED BY <1>2, <2>1, <2>2, <3>1, Constants DEF block_t
  <2>4. CASE i # 1
    <3>1. SpAtCall(frames[i]) <= frames[1].base
      BY <2>1, <2>4 DEF FramesInv
    <3>2. frames[1].base <= STACK_MAX - StackSize /\ frames[1].base \in Int
      BY <1>2, <2>1, <2>2, Constants
    <3> QED BY <1>1, <1>2, <1>4, <3>1, <3>2, Constants
  <2> QED BY <2>3, <2>4
<1> QED BY <1>4, <1>5

LEMMA GlobalBounds ==
  ASSUME LayoutInv, Started, NEW g \in GVLocs
  PROVE  /\ g.at \in Int /\ g.size \in Nat
         /\ GlobalBlock(g).first = g.at /\ GlobalBlock(g).second = g.at + g.size
         /\ ~g.inHeap => STACK_MAX - StackSize <= g.at /\ g.at + g.size <= STACK_MAX
         /\ g.inHeap => HEAP_MIN <= g.at /\ g.at + g.size <= HEAP_MIN + HeapSize
         /\ STACK_MAX - StackSize <= g.at
<1>1. g.at \in Int /\ g.size \in Nat /\ StackSize \in Nat /\ HeapSize \in Nat
  BY DEF LayoutInv, LayoutTypes, Global
<1>2. StackSize <= STACK_MAX
  BY Constants DEF LayoutInv, LayoutTypes, Emitted, FrameSize, Started
<1>3. /\ ~g.inHeap => STACK_MAX - StackSize <= g.at /\ g.at + g.size <= STACK_MAX
      /\ g.inHeap => HEAP_MIN <= g.at /\ g.at + g.size <= HEAP_MIN + HeapSize
  BY <1>2 DEF LayoutInv, StackGlobals, HeapGlobals
<1>4. STACK_MAX - StackSize <= g.at
  BY <1>1, <1>3, Constants
<1>5. GlobalBlock(g).first = g.at /\ GlobalBlock(g).second = g.at + g.size
  BY DEF GlobalBlock, block_t
<1> QED BY <1>1, <1>3, <1>4, <1>5

(* A block of the program does not overlap a global.                       *)
LEMMA OwnedApartFromGlobals ==
  ASSUME LayoutInv, StackInv, Started, NEW b \in owned, NEW g \in GVLocs
  PROVE  Apart(b, GlobalBlock(g))
<1>1. FramesInv /\ OwnedInv /\ HeapInv
  BY DEF StackInv
<1>2. /\ b.first \in Int /\ b.second \in Int /\ b.first < b.second
      /\ HeapSize \in Nat /\ StackSize \in Nat
  BY <1>1 DEF OwnedInv, Block, LayoutInv, LayoutTypes
<1>3. CASE b \notin alloced
  <2>1. b.second <= frames[1].base
    BY <1>1, <1>3 DEF OwnedInv
  <2>2. frames[1].base = STACK_MAX - FrameSize("main")
    BY <1>1 DEF FramesInv
  <2>3. FrameSize("main") = used["main"] + StackSize /\ used["main"] \in Nat
    BY Constants DEF FrameSize, LayoutInv, LayoutTypes
  <2>4. b.second <= STACK_MAX - StackSize
    BY <1>2, <2>1, <2>2, <2>3, Constants
  <2> QED BY <1>2, <2>4, GlobalBounds, Constants DEF Apart
<1>4. CASE b \in alloced /\ ~g.inHeap
  <2>1. HEAP_MIN <= b.first
    BY <1>1, <1>4, HeapBlocks
  <2>2. /\ GlobalBlock(g).second <= STACK_MAX /\ GlobalBlock(g).second \in Int
    BY <1>4, GlobalBounds
  <2> QED BY <1>2, <2>1, <2>2, Constants DEF Apart
<1>5. CASE b \in alloced /\ g.inHeap
  <2>1. HEAP_MIN <= b.first
    BY <1>1, <1>5, HeapBlocks
  <2>2. /\ HEAP_MIN <= GlobalBlock(g).first
        /\ GlobalBlock(g).second <= HEAP_MIN + HeapSize
        /\ GlobalBlock(g).first \in Int /\ GlobalBlock(g).second \in Int
    BY <1>5, GlobalBounds
  <2>3. CASE HeapSize = 0
    BY <1>2, <2>1, <2>2, <2>3, Constants DEF Apart
  <2>4. CASE HeapSize # 0
    <3>1. GlobalsBlock \in alloced /\ b # GlobalsBlock
      BY <1>1, <1>2, <2>4 DEF OwnedInv
    <3>2. Apart(b, GlobalsBlock)
      BY <1>1, <1>5, <3>1, HeapBlocks
    <3>3. GlobalsBlock.first = HEAP_MIN /\ GlobalsBlock.second = HEAP_MIN + HeapSize
      BY DEF GlobalsBlock, block_t
    <3> QED BY <1>2, <2>2, <3>2, <3>3, Constants DEF Apart
  <2> QED BY <2>3, <2>4
<1> QED BY <1>3, <1>4, <1>5

(* An area of the stack does not overlap a block of the program.           *)
LEMMA AreaApartFromOwned ==
  ASSUME LayoutInv, StackInv, Started,
         NEW i \in 1 .. Len(frames), NEW a \in AreasOf(i), NEW b \in owned
  PROVE  Apart(a, b)
<1>1. FramesInv /\ OwnedInv /\ HeapInv
  BY DEF StackInv
<1>2. /\ b.first \in Int /\ b.second \in Int /\ b.first < b.second
      /\ StackSize \in Nat
  BY <1>1 DEF OwnedInv, Block, LayoutInv, LayoutTypes
<1>3. /\ a.first \in Int /\ a.second \in Int
      /\ frames[i].base <= a.first /\ a.second <= SpAtCall(frames[i])
      /\ a.second <= STACK_MAX - StackSize
      /\ frames[i].base \in Int /\ SpAtCall(frames[i]) \in Int
  BY <1>1, AreaBounds, SpAtCallAbove
<1>4. CASE b \in alloced
  <2>1. HEAP_MIN <= b.first
    BY <1>1, <1>4, HeapBlocks
  <2> QED BY <1>2, <1>3, <2>1, Constants DEF Apart
<1>5. CASE b \notin alloced
  <2>1. Low <= b.first /\ b.second <= frames[1].base
    BY <1>1, <1>5 DEF OwnedInv
  <2>2. CASE i = 1
    BY <1>2, <1>3, <2>1, <2>2 DEF Apart
  <2>3. CASE i # 1
    <3>1. i > 1 /\ i \in Int /\ Len(frames) \in Nat /\ Len(frames) # 1
      BY <2>3, <1>1, FrameTypes
    <3>2. Low = SpAtCall(frames[2]) /\ 2 \in 1 .. Len(frames)
      BY <3>1 DEF Low, InMain
    <3>3. /\ frames[2].base \in Int /\ SpAtCall(frames[2]) \in Int
          /\ frames[2].base <= SpAtCall(frames[2])
      <4>1. FrameSize(frames[2].fun) \in Nat
        BY <1>1, <3>2, FrameTypes, FrameSizeNat
      <4> QED BY <1>1, <3>2, <4>1, SpAtCallAbove
    <3>4. SpAtCall(frames[i]) <= SpAtCall(frames[2])
      <4>1. CASE i = 2
        BY <3>3, <4>1
      <4>2. CASE i # 2
        <5>1. 2 < i
          BY <3>1, <4>2
        <5>2. SpAtCall(frames[i]) <= frames[2].base
          BY <1>1, <3>2, <5>1 DEF FramesInv
        <5> QED BY <1>3, <3>3, <5>2
      <4> QED BY <4>1, <4>2
    <3>5. a.second <= b.first
      BY <1>2, <1>3, <2>1, <3>2, <3>3, <3>4
    <3> QED BY <3>5 DEF Apart
  <2> QED BY <2>2, <2>3
<1> QED BY <1>4, <1>5

(* Two areas of the stack do not overlap.                                  *)
LEMMA AreasApart ==
  ASSUME LayoutInv, FramesInv,
         NEW i \in 1 .. Len(frames), NEW a \in AreasOf(i),
         NEW j \in 1 .. Len(frames), NEW c \in AreasOf(j),
         a # c \/ i # j
  PROVE  Apart(a, c)
<1>1. /\ a.first \in Int /\ a.second \in Int /\ c.first \in Int /\ c.second \in Int
      /\ frames[i].base <= a.first /\ a.second <= SpAtCall(frames[i])
      /\ frames[j].base <= c.first /\ c.second <= SpAtCall(frames[j])
      /\ frames[i].base \in Int /\ SpAtCall(frames[i]) \in Int
      /\ frames[j].base \in Int /\ SpAtCall(frames[j]) \in Int
      /\ i \in Int /\ j \in Int
  <2>1. i \in Int /\ j \in Int
    BY FrameTypes
  <2> QED BY <2>1, AreaBounds, SpAtCallAbove
<1>2. CASE i < j
  <2>1. SpAtCall(frames[j]) <= frames[i].base
    BY <1>2 DEF FramesInv
  <2> QED BY <1>1, <2>1 DEF Apart
<1>3. CASE j < i
  <2>1. SpAtCall(frames[i]) <= frames[j].base
    BY <1>3 DEF FramesInv
  <2> QED BY <1>1, <2>1 DEF Apart
<1>4. CASE i = j
  <2> DEFINE bottom == block_t(frames[i].base, frames[i].base + used[frames[i].fun])
             end == frames[i].base + FrameSize(frames[i].fun)
             ref == block_t(end, end + WORD)
  <2>1. a \in {bottom, ref} /\ c \in {bottom, ref} /\ a # c
    BY <1>4 DEF AreasOf
  <2>2. bottom.second <= ref.first
    BY SpAtCallAbove DEF block_t
  <2> QED BY <2>1, <2>2 DEF Apart
<1> QED BY <1>1, <1>2, <1>3, <1>4

(* Globals, frames, spilled references and blocks never share a byte,      *)
(* whatever the depth of the calls and the order of the mallocs.           *)
THEOREM AreasDisjointTheorem == SignedSizes => (Spec => []AreasDisjoint)
<1>1. LayoutInv /\ StackInv => AreasDisjoint
  <2> SUFFICES ASSUME LayoutInv, StackInv, Started
               PROVE  /\ \A b, c \in owned : b # c => Apart(b, c)
                      /\ \A b \in owned, g \in GVLocs : Apart(b, GlobalBlock(g))
                      /\ \A i \in DOMAIN frames : \A a \in AreasOf(i) :
                           /\ \A b \in owned : Apart(a, b)
                           /\ \A g \in GVLocs : Apart(a, GlobalBlock(g))
                           /\ \A j \in DOMAIN frames : \A c \in AreasOf(j) :
                                a # c \/ i # j => Apart(a, c)
    BY DEF AreasDisjoint
  <2>1. FramesInv /\ OwnedInv
    BY DEF StackInv
  <2>2. DOMAIN frames = 1 .. Len(frames)
    BY <2>1, FrameTypes
  <2>3. \A b, c \in owned : b # c => Apart(b, c)
    BY <2>1 DEF OwnedInv
  <2>4. \A i \in 1 .. Len(frames) : \A a \in AreasOf(i) : \A g \in GVLocs :
          Apart(a, GlobalBlock(g))
    <3> SUFFICES ASSUME NEW i \in 1 .. Len(frames), NEW a \in AreasOf(i), NEW g \in GVLocs
                 PROVE  Apart(a, GlobalBlock(g))
      OBVIOUS
    <3>1. a.second \in Int /\ a.second <= STACK_MAX - StackSize /\ StackSize \in Nat
      BY <2>1, AreaBounds DEF LayoutInv, LayoutTypes
    <3>2. /\ GlobalBlock(g).first \in Int
          /\ STACK_MAX - StackSize <= GlobalBlock(g).first
      BY GlobalBounds
    <3>3. a.second <= GlobalBlock(g).first
      BY <3>1, <3>2, Constants
    <3> QED BY <3>3 DEF Apart
  <2> QED BY <2>1, <2>2, <2>3, <2>4, OwnedApartFromGlobals, AreaApartFromOwned, AreasApart
<1> QED BY <1>1, StackInvariant, PTL

-----------------------------------------------------------------------------
(* Whole words.                                                            *)
LEMMA WordsOf ==
  ASSUME NEW a \in Nat, a % WORD = 0
  PROVE  \E k \in Nat : a = k * WORD
<1>1. WORD \in Nat /\ WORD > 0
  BY Constants
<1>2. a = (a \div WORD) * WORD /\ a \div WORD \in Nat
  BY <1>1, Z3
<1> QED BY <1>2

LEMMA WordsAdd ==
  ASSUME NEW a \in Nat, NEW b \in Nat, a % WORD = 0, b % WORD = 0
  PROVE  (a + b) % WORD = 0
<1>1. WORD \in Nat /\ WORD > 0
  BY Constants
<1>2. PICK k \in Nat : a = k * WORD
  BY WordsOf
<1>3. PICK l \in Nat : b = l * WORD
  BY WordsOf
<1>4. a + b = (k + l) * WORD /\ k + l \in Nat
  BY <1>1, <1>2, <1>3, Z3
<1>5. \A q \in Nat : (q * WORD) % WORD = 0
  BY <1>1, Z3
<1> QED BY <1>4, <1>5

LEMMA WordsApart ==
  ASSUME NEW a \in Nat, NEW b \in Nat, a % WORD = 0, b % WORD = 0, a < b
  PROVE  a + WORD <= b
<1>1. WORD \in Nat /\ WORD > 0
  BY Constants
<1>2. PICK k \in Nat : a = k * WORD
  BY WordsOf
<1>3. PICK l \in Nat : b = l * WORD
  BY WordsOf
<1>4. k < l
  BY <1>1, <1>2, <1>3, Z3
<1>5. (k + 1) * WORD <= l * WORD
  BY <1>1, <1>4, Z3
<1> QED BY <1>1, <1>2, <1>3, <1>5, Z3

LEMMA RoundUpWords == ASSUME NEW size \in Nat PROVE RoundUp(size) % WORD = 0
<1>1. WORD \in Nat /\ WORD > 0
  BY Constants
<1>2. (size + WORD - 1) \div WORD \in Nat
  BY <1>1, Z3
<1>3. \A q \in Nat : (q * WORD) % WORD = 0
  BY <1>1, Z3
<1> QED BY <1>2, <1>3 DEF RoundUp

-----------------------------------------------------------------------------
(* The bytes of the frames of some functions, one frame for each.          *)
FrameBytes(F) == UNION {{f} \X (1 .. FrameSize(f)) : f \in F}

EmittedFunctions == Functions \ unemitted

LEMMA OneFrame ==
  ASSUME NEW f, NEW n \in Nat
  PROVE  IsFiniteSet({f} \X (1 .. n)) /\ Cardinality({f} \X (1 .. n)) = n
<1>1. PICK S, T : S = {f} /\ T = 1 .. n
  OBVIOUS
<1>2. IsFiniteSet(S) /\ Cardinality(S) = 1
  BY <1>1, FS_Singleton
<1>3. IsFiniteSet(T) /\ Cardinality(T) = n
  BY <1>1, FS_Interval
<1>4. IsFiniteSet(S \X T) /\ Cardinality(S \X T) = Cardinality(S) * Cardinality(T)
  BY <1>2, <1>3, FS_Product
<1>5. Cardinality(S \X T) = n
  BY <1>2, <1>3, <1>4
<1> QED BY <1>1, <1>4, <1>5

(* TotalStackUsage is the sum of the frames of the functions emitted.      *)
BudgetInv ==
  /\ StackSize % WORD = 0 /\ \A f \in Functions : used[f] % WORD = 0
  /\ TotalStackUsage % WORD = 0
  /\ IsFiniteSet(FrameBytes(EmittedFunctions))
  /\ Cardinality(FrameBytes(EmittedFunctions)) = TotalStackUsage
  /\ stage \notin {"memuse", "layout", "rejected"} => unemitted = {}

LEMMA BudgetInvInit == Init => BudgetInv
<1> SUFFICES ASSUME Init PROVE BudgetInv
  OBVIOUS
<1>1. /\ stage = "memuse" /\ StackSize = 0 /\ TotalStackUsage = 0 /\ EmittedFunctions = {}
      /\ used \in [Functions -> FrameSizes]
  BY DEF Init, LayoutInit, EmittedFunctions
<1>2. FrameBytes(EmittedFunctions) = {}
  BY <1>1 DEF FrameBytes
<1>3. 0 % WORD = 0
  BY Constants, Z3
<1>4. \A f \in Functions : used[f] % WORD = 0
  BY <1>1, LayoutAssumption
<1> QED BY <1>1, <1>2, <1>3, <1>4, FS_EmptySet DEF BudgetInv

LEMMA EmitFunctionBudgetInv ==
  ASSUME LayoutInv, BudgetInv, NEW f \in Functions, EmitFunction(f)
  PROVE  BudgetInv'
<1> DEFINE old == FrameBytes(EmittedFunctions)
           new == {f} \X (1 .. FrameSize(f))
<1>1. /\ f \in unemitted /\ unemitted' = unemitted \ {f}
      /\ TotalStackUsage' = TotalStackUsage + FrameSize(f)
      /\ used' = used /\ StackSize' = StackSize
      /\ stage' \notin {"memuse", "layout", "rejected"} => unemitted' = {}
  BY DEF EmitFunction
<1>2. FrameSize(f) \in Nat /\ TotalStackUsage \in Nat /\ used[f] \in Nat /\ StackSize \in Nat
  BY FrameSizeNat DEF LayoutInv, LayoutTypes
<1>3. IsFiniteSet(new) /\ Cardinality(new) = FrameSize(f)
  BY <1>2, OneFrame
<1>4. FrameBytes(EmittedFunctions)' = old \cup new
  <2>1. EmittedFunctions' = EmittedFunctions \cup {f}
    BY <1>1 DEF EmittedFunctions, Functions
  <2>2. \A g : FrameSize(g)' = FrameSize(g)
    BY <1>1 DEF FrameSize
  <2> QED BY <2>1, <2>2 DEF FrameBytes
<1>5. old \cap new = {}
  BY <1>1 DEF FrameBytes, EmittedFunctions
<1> HIDE DEF old, new
<1>6. IsFiniteSet(old) /\ Cardinality(old) = TotalStackUsage
  BY DEF BudgetInv, old
<1>7. /\ IsFiniteSet(old \cup new)
      /\ Cardinality(old \cup new) = TotalStackUsage'
  BY <1>1, <1>3, <1>5, <1>6, BytesAdd, FS_Union
<1>8. TotalStackUsage' % WORD = 0
  <2>1. FrameSize(f) % WORD = 0
    <3>1. used[f] % WORD = 0 /\ StackSize % WORD = 0 /\ used[f] + 0 = used[f]
      BY <1>2 DEF BudgetInv
    <3>2. (used[f] + StackSize) % WORD = 0
      BY <1>2, <3>1, WordsAdd
    <3> QED BY <3>1, <3>2 DEF FrameSize
  <2> QED BY <1>1, <1>2, <2>1, WordsAdd DEF BudgetInv
<1>9. StackSize' % WORD = 0 /\ \A g \in Functions : used'[g] % WORD = 0
  BY <1>1 DEF BudgetInv
<1> QED BY <1>1, <1>4, <1>7, <1>8, <1>9 DEF BudgetInv, Functions

LEMMA PlaceGlobalBudgetInv ==
  ASSUME LayoutInv, BudgetInv, PlaceGlobal
  PROVE  BudgetInv'
<1>1. /\ sizes # <<>> /\ stage = "layout" /\ stage' = stage
      /\ UNCHANGED <<used, unemitted, TotalStackUsage>>
      /\ StackSize' \in {StackSize, StackSize + RoundUp(Head(sizes))}
  BY DEF PlaceGlobal
<1>2. unemitted = Functions
  BY <1>1 DEF LayoutInv, Emitted
<1>3. FrameBytes(EmittedFunctions) = {} /\ FrameBytes(EmittedFunctions)' = {}
  BY <1>1, <1>2 DEF FrameBytes, EmittedFunctions, Functions
<1>4. StackSize' % WORD = 0
  <2>1. Head(sizes) \in Nat /\ StackSize \in Nat
    BY <1>1 DEF LayoutInv, LayoutTypes
  <2>2. RoundUp(Head(sizes)) \in Nat /\ RoundUp(Head(sizes)) % WORD = 0
    BY <2>1, RoundUpNat, RoundUpWords
  <2> QED BY <1>1, <2>1, <2>2, WordsAdd DEF BudgetInv
<1> QED BY <1>1, <1>3, <1>4 DEF BudgetInv, Functions

LEMMA SameBudgetInv ==
  ASSUME BudgetInv, UNCHANGED layoutVars,
         stage \in {"memuse", "layout", "rejected"} => stage' \in {"memuse", "layout", "rejected"}
  PROVE  BudgetInv'
<1>1. UNCHANGED <<used, StackSize, unemitted, TotalStackUsage>>
  BY DEF layoutVars
<1>2. FrameBytes(EmittedFunctions)' = FrameBytes(EmittedFunctions)
  BY <1>1 DEF FrameBytes, EmittedFunctions, Functions, FrameSize
<1> QED BY <1>1, <1>2 DEF BudgetInv, Functions

LEMMA BudgetInvNext == LayoutInv /\ BudgetInv /\ [Next]_storageVars => BudgetInv'
<1> SUFFICES ASSUME LayoutInv, BudgetInv, [Next]_storageVars PROVE BudgetInv'
  OBVIOUS
<1>1. CASE PlaceGlobal
  BY <1>1, PlaceGlobalBudgetInv
<1>2. CASE \E f \in Functions : EmitFunction(f)
  BY <1>2, EmitFunctionBudgetInv
<1>3. CASE Convert \/ UNCHANGED storageVars
  BY <1>3, SameBudgetInv DEF Convert, storageVars
<1>4. CASE Run
  BY <1>4, SameBudgetInv DEF Run, Start, Malloc, Free, Call, Return, Finish
<1> QED BY <1>1, <1>2, <1>3, <1>4 DEF Next, Compile

-----------------------------------------------------------------------------
(* The frames of a program that has run off the stack, as of one that      *)
(* still runs: only main spills the reference to the stack, when it calls. *)
ChainInv ==
  /\ stage = "overflow" => FramesInv /\ Len(frames) > 1 /\ sp < 0
  /\ Started \/ stage = "overflow" => \A i \in 3 .. Len(frames) : ~frames[i].spilled

LEMMA CallChainInv ==
  ASSUME LayoutInv, StackInv, ChainInv, NEW f \in Callees, NEW spill \in BOOLEAN, Call(f, spill)
  PROVE  ChainInv'
<1> DEFINE n == Len(frames)
<1>1. FramesInv' /\ FramesInv /\ Started
  BY CallStackInv DEF StackInv, Started, Call
<1>2. PICK r : /\ frames' = Append(frames, r) /\ (r.spilled => spill)
               /\ sp' = r.base /\ stage' = IF r.base < 0 THEN "overflow" ELSE "running"
  BY DEF Call
<1>3. /\ n \in Nat /\ n >= 1 /\ Len(frames') = n + 1 /\ frames'[n + 1] = r
      /\ \A i \in 1 .. n : frames'[i] = frames[i]
  BY <1>1, <1>2, FrameTypes, AppendProperties DEF FramesInv
<1>4. ASSUME NEW i \in 3 .. n + 1 PROVE ~frames'[i].spilled
  <2>1. CASE i = n + 1
    <3>1. n # 1
      BY <1>3, <2>1
    <3>2. ~spill
      BY <3>1 DEF Call, InMain
    <3> QED BY <1>2, <1>3, <2>1, <3>2
  <2>2. CASE i # n + 1
    <3>1. i \in 3 .. n /\ i \in 1 .. n
      BY <1>3, <2>2
    <3> QED BY <1>1, <1>3, <3>1 DEF ChainInv
  <2> QED BY <2>1, <2>2
<1>5. stage' = "overflow" => Len(frames') > 1 /\ sp' < 0
  BY <1>2, <1>3
<1> QED BY <1>1, <1>3, <1>4, <1>5 DEF ChainInv

LEMMA ReturnChainInv ==
  ASSUME StackInv, ChainInv, Return
  PROVE  ChainInv'
<1> DEFINE n == Len(frames)
<1>1. FramesInv /\ Started /\ stage' = "running" /\ n > 1 /\ frames' = SubSeq(frames, 1, n - 1)
  BY DEF StackInv, Started, Return
<1>2. n \in Nat /\ frames \in Seq(Frame)
  BY <1>1, FrameTypes DEF FramesInv
<1>3. Len(frames') = n - 1 /\ \A i \in 1 .. n - 1 : frames'[i] = frames[i]
  BY <1>1, <1>2
<1>4. \A i \in 3 .. n - 1 : i \in 3 .. n /\ i \in 1 .. n - 1
  BY <1>2
<1> QED BY <1>1, <1>3, <1>4 DEF ChainInv

LEMMA SameChainInv ==
  ASSUME ChainInv, UNCHANGED frames, stage' # "overflow", Started' => Started
  PROVE  ChainInv'
BY DEF ChainInv

LEMMA ChainInvInit == Init => ChainInv
BY DEF Init, ChainInv, Started

LEMMA ChainInvNext == LayoutInv /\ StackInv /\ ChainInv /\ [Next]_storageVars => ChainInv'
<1> SUFFICES ASSUME LayoutInv, StackInv, ChainInv, [Next]_storageVars PROVE ChainInv'
  OBVIOUS
<1>1. CASE Compile
  <2>1. stage' \in {"layout", "rejected", "compiled"}
    BY <1>1 DEF Compile, Convert, PlaceGlobal, EmitFunction
  <2>2. stage' # "overflow" /\ ~Started'
    BY <2>1 DEF Started
  <2> QED BY <2>2 DEF ChainInv
<1>2. CASE Start
  <2>1. stage' \in {"running", "out of memory"} /\ Len(frames') = 1
    BY <1>2 DEF Start
  <2>2. stage' # "overflow"
    BY <2>1
  <2>3. Len(frames') = 1
    BY <2>1
  <2>4. 3 .. Len(frames') = {}
    BY <2>3
  <2> QED BY <2>2, <2>4 DEF ChainInv
<1>3. CASE \E size \in MallocSizes, place \in Places : Malloc(size, place)
  <2>1. UNCHANGED frames /\ Started /\ stage' \in {"running", "out of memory"}
    BY <1>3 DEF Malloc, AllocaBytes, HeapMalloc, Started
  <2> QED BY <2>1, SameChainInv
<1>4. CASE \E b \in owned, place \in Places : Free(b, place)
  <2>1. UNCHANGED frames /\ Started /\ stage' \in {"running", "invalid free"}
    BY <1>4 DEF Free, HeapFree, Started
  <2> QED BY <2>1, SameChainInv
<1>5. CASE \E f \in Callees, spill \in BOOLEAN : Call(f, spill)
  BY <1>5, CallChainInv
<1>6. CASE Return
  BY <1>6, ReturnChainInv
<1>7. CASE Finish
  <2>1. UNCHANGED frames /\ Started /\ stage' = "finished"
    BY <1>7 DEF Finish, Started, runVars
  <2> QED BY <2>1, SameChainInv
<1>8. CASE UNCHANGED storageVars
  <2>1. UNCHANGED <<frames, stage, sp, used, StackSize>>
    BY <1>8 DEF storageVars, layoutVars, runVars
  <2>2. FramesInv => FramesInv'
    BY <2>1 DEF FramesInv, InMain, SpAtCall, FrameSize
  <2> QED BY <2>1, <2>2 DEF ChainInv, Started
<1> QED BY <1>1, <1>2, <1>3, <1>4, <1>5, <1>6, <1>7, <1>8 DEF Next, Run

-----------------------------------------------------------------------------
(* Where the frames would begin if the reference were not spilled: there   *)
(* is nothing between them.                                                *)
Spill == IF frames[2].spilled THEN WORD ELSE 0
FrameAt(i) == frames[i].base + (IF i = 1 THEN 0 ELSE Spill)

LEMMA FramesTile ==
  ASSUME LayoutInv, FramesInv, ChainInv, stage = "overflow",
         ~(SpAtCall(frames[2]) < frames[1].base)
  PROVE  /\ Spill \in Nat /\ (Spill = 0 \/ Spill = WORD)
         /\ \A i \in DOMAIN frames : FrameAt(i) \in Int /\ FrameSize(frames[i].fun) \in Nat
         /\ FrameAt(1) + FrameSize(frames[1].fun) = STACK_MAX
         /\ \A i \in DOMAIN frames \ {1} :
              i - 1 \in DOMAIN frames /\ FrameAt(i) + FrameSize(frames[i].fun) = FrameAt(i - 1)
<1>1. Spill \in Nat /\ (Spill = 0 \/ Spill = WORD)
  BY Constants DEF Spill
<1>2. /\ Len(frames) \in Nat /\ Len(frames) > 1 /\ DOMAIN frames = 1 .. Len(frames)
  BY FrameTypes DEF ChainInv
<1>3. \A i \in DOMAIN frames : /\ frames[i].base \in Int
                               /\ FrameSize(frames[i].fun) \in Nat
  BY FrameTypes, FrameSizeNat
<1>4. \A i \in DOMAIN frames : FrameAt(i) \in Int
  BY <1>1, <1>3 DEF FrameAt
<1>5. FrameAt(1) + FrameSize(frames[1].fun) = STACK_MAX
  BY <1>2, <1>3, Constants DEF FramesInv, FrameAt
<1>6. ASSUME NEW i \in DOMAIN frames \ {1}
      PROVE  i - 1 \in DOMAIN frames /\ FrameAt(i) + FrameSize(frames[i].fun) = FrameAt(i - 1)
  <2>1. i \in 2 .. Len(frames) /\ i - 1 \in DOMAIN frames
    BY <1>2
  <2>2. CASE i = 2
    <3>1. SpAtCall(frames[2]) <= frames[1].base
      BY <1>2 DEF FramesInv
    <3>2. SpAtCall(frames[2]) = frames[2].base + FrameSize(frames[2].fun) + Spill
      BY DEF SpAtCall, Spill
    <3>3. frames[1].base = frames[2].base + FrameSize(frames[2].fun) + Spill
      BY <1>1, <1>2, <1>3, <3>1, <3>2
    <3>4. FrameAt(1) = frames[1].base /\ FrameAt(2) = frames[2].base + Spill
      BY <1>2, <1>3 DEF FrameAt
    <3> QED BY <1>1, <1>2, <1>3, <2>1, <2>2, <3>3, <3>4
  <2>3. CASE i # 2
    <3>1. i \in 3 .. Len(frames)
      BY <1>2, <2>1, <2>3
    <3>2. SpAtCall(frames[i]) = frames[i - 1].base /\ ~frames[i].spilled
      BY <3>1 DEF FramesInv, ChainInv
    <3>3. frames[i].base + FrameSize(frames[i].fun) = frames[i - 1].base
      BY <1>3, <2>1, <3>2 DEF SpAtCall
    <3>4. FrameAt(i) = frames[i].base + Spill /\ FrameAt(i - 1) = frames[i - 1].base + Spill
      BY <2>1, <3>1 DEF FrameAt
    <3> QED BY <1>1, <1>3, <2>1, <3>3, <3>4
  <2> QED BY <2>1, <2>2, <2>3
<1> QED BY <1>1, <1>3, <1>4, <1>5, <1>6

(* Every byte from the last frame to the end of the stack is in a frame.   *)
LEMMA FramesCover ==
  ASSUME NEW n \in Nat, n >= 1, NEW at, NEW size, NEW end \in Int,
         \A i \in 1 .. n : at[i] \in Int /\ size[i] \in Nat,
         at[1] + size[1] = end,
         \A i \in 2 .. n : at[i] + size[i] = at[i - 1],
         NEW a \in at[n] .. end - 1
  PROVE  \E i \in 1 .. n : a - at[i] + 1 \in 1 .. size[i]
<1> DEFINE Starts == {i \in 1 .. n : at[i] <= a}
<1>1. n \in Starts /\ Starts \subseteq Nat
  BY DEF Starts
<1>2. PICK i \in Starts : \A k \in Starts : i <= k
  BY <1>1, LeastNat
<1>3. i \in 1 .. n /\ at[i] <= a /\ at[i] \in Int /\ size[i] \in Nat /\ a \in Int
  BY <1>2
<1>4. a < at[i] + size[i]
  <2>1. CASE i = 1
    BY <1>3, <2>1
  <2>2. CASE i # 1
    <3>1. i \in 2 .. n /\ i - 1 \in 1 .. n /\ ~(i <= i - 1)
      BY <1>3, <2>2
    <3>2. i - 1 \notin Starts
      BY <1>2, <3>1
    <3>3. ~(at[i - 1] <= a) /\ at[i - 1] \in Int
      BY <3>1, <3>2
    <3> QED BY <1>3, <3>1, <3>3
  <2> QED BY <2>1, <2>2
<1>5. a - at[i] + 1 \in 1 .. size[i]
  BY <1>3, <1>4
<1> QED BY <1>3, <1>5

LEMMA EnoughStack ==
  ASSUME LayoutInv, BudgetInv, ChainInv, stage = "overflow",
         ~(SpAtCall(frames[2]) < frames[1].base),
         \A i, j \in DOMAIN frames : i # j => frames[i].fun # frames[j].fun
  PROVE  FALSE
<1>1. FramesInv /\ sp < 0 /\ sp \in Int
  BY DEF ChainInv, FramesInv
<1>2. PICK n, at, size : /\ n = Len(frames)
                         /\ at = [i \in 1 .. n |-> FrameAt(i)]
                         /\ size = [i \in 1 .. n |-> FrameSize(frames[i].fun)]
  OBVIOUS
<1>3. n \in Nat /\ n > 1 /\ DOMAIN frames = 1 .. n
  BY <1>1, <1>2, FrameTypes DEF ChainInv
<1>4. /\ \A i \in 1 .. n : at[i] \in Int /\ size[i] \in Nat
      /\ at[1] + size[1] = STACK_MAX
      /\ \A i \in 2 .. n : at[i] + size[i] = at[i - 1]
      /\ Spill \in Nat /\ (Spill = 0 \/ Spill = WORD)
  <2>1. \A i \in 1 .. n : at[i] \in Int /\ size[i] \in Nat
    BY <1>1, <1>2, <1>3, FramesTile
  <2>2. at[1] + size[1] = STACK_MAX
    BY <1>1, <1>2, <1>3, FramesTile
  <2>3. ASSUME NEW i \in 2 .. n PROVE at[i] + size[i] = at[i - 1]
    <3>1. i \in DOMAIN frames \ {1}
      BY <1>3
    <3>2. i - 1 \in DOMAIN frames /\ FrameAt(i) + FrameSize(frames[i].fun) = FrameAt(i - 1)
      BY <1>1, <3>1, FramesTile
    <3> QED BY <1>2, <1>3, <3>1, <3>2
  <2>4. Spill \in Nat /\ (Spill = 0 \/ Spill = WORD)
    BY <1>1, FramesTile
  <2> QED BY <2>1, <2>2, <2>3, <2>4
<1>5. at[n] = sp + Spill
  BY <1>1, <1>2, <1>3 DEF FramesInv, InMain, FrameAt
<1>6. PICK T, S : T = FrameBytes(Functions) /\ S = at[n] .. STACK_MAX - 1
  OBVIOUS
<1>7. /\ IsFiniteSet(T) /\ Cardinality(T) = TotalStackUsage /\ TotalStackUsage < STACK_MAX
      /\ TotalStackUsage \in Nat /\ TotalStackUsage % WORD = 0
  <2>1. unemitted = {}
    BY DEF BudgetInv
  <2>2. EmittedFunctions = Functions
    BY <2>1 DEF EmittedFunctions
  <2> QED BY <1>6, <2>2 DEF BudgetInv, LayoutInv, LayoutTypes, Emitted
<1>8. \A a \in S : \E i \in 1 .. n : a - at[i] + 1 \in 1 .. size[i]
  <2>1. n >= 1 /\ STACK_MAX \in Int
    BY <1>3, Constants
  <2>2. \A a \in at[n] .. STACK_MAX - 1 :
          \E i \in 1 .. n : a - at[i] + 1 \in 1 .. size[i]
    BY <1>3, <1>4, <2>1, FramesCover
  <2> QED BY <1>6, <2>2
<1> DEFINE in(a) == CHOOSE i \in 1 .. n : a - at[i] + 1 \in 1 .. size[i]
           h == [a \in S |-> <<frames[in(a)].fun, a - at[in(a)] + 1>>]
<1>9. ASSUME NEW a \in S
      PROVE  /\ in(a) \in 1 .. n /\ a - at[in(a)] + 1 \in 1 .. size[in(a)]
             /\ at[in(a)] \in Int /\ a \in Int
  <2>1. a \in Int
    BY <1>3, <1>4, <1>6, Constants
  <2>2. in(a) \in 1 .. n /\ a - at[in(a)] + 1 \in 1 .. size[in(a)]
    BY <1>8
  <2> QED BY <1>4, <2>1, <2>2
<1> HIDE DEF in
<1>10. h \in Injection(S, T)
  <2>1. ASSUME NEW a \in S PROVE h[a] \in T
    <3>1. /\ frames[in(a)].fun \in Functions
          /\ a - at[in(a)] + 1 \in 1 .. FrameSize(frames[in(a)].fun)
      BY <1>1, <1>2, <1>3, <1>9, FrameTypes
    <3> QED BY <1>6, <3>1 DEF FrameBytes
  <2>2. ASSUME NEW a \in S, NEW b \in S, h[a] = h[b] PROVE a = b
    <3>1. frames[in(a)].fun = frames[in(b)].fun /\ a - at[in(a)] + 1 = b - at[in(b)] + 1
      BY <2>2
    <3>2. in(a) = in(b)
      BY <1>3, <1>9, <3>1
    <3> QED BY <1>9, <3>1, <3>2
  <2>3. h \in [S -> T]
    BY <2>1
  <2> HIDE DEF h
  <2> QED BY <2>2, <2>3 DEF Injection, IsInjective
<1>11. Cardinality(S) <= TotalStackUsage
  BY <1>7, <1>10, FS_Injection
<1>12. Cardinality(S) = IF at[n] > STACK_MAX - 1 THEN 0 ELSE STACK_MAX - 1 - at[n] + 1
  <2>1. at[n] \in Int /\ STACK_MAX - 1 \in Int
    BY <1>3, <1>4, Constants
  <2> QED BY <1>6, <2>1, FS_Interval
<1>13. at[n] \in Int /\ STACK_MAX \in Nat /\ WORD \in Nat
  BY <1>3, <1>4, Constants
<1>14. STACK_MAX - at[n] <= TotalStackUsage
  BY <1>7, <1>11, <1>12, <1>13
<1>15. TotalStackUsage + WORD <= STACK_MAX
  BY <1>7, <1>13, WordsApart, LayoutAssumption
<1> QED BY <1>1, <1>4, <1>5, <1>7, <1>13, <1>14, <1>15

(* A program that runs off the stack calls a function again that has not   *)
(* returned, or has had main take stack for a converted malloc: the check  *)
(* of AssemblyEmitter.cpp:566 covers every other one, spilled references   *)
(* included, although they are not counted.                                *)
THEOREM StackSufficesTheorem == SignedSizes => (Spec => []StackSuffices)
<1>1. LayoutInv /\ BudgetInv /\ ChainInv => StackSuffices
  BY EnoughStack DEF StackSuffices
<1> QED BY <1>1, StackInvariant, BudgetInvInit, BudgetInvNext, ChainInvInit, ChainInvNext,
           PTL DEF Spec

-----------------------------------------------------------------------------
(* Offsets, addresses and the stack pointer stay in their ranges: sp is    *)
(* never above the stack, and below it only when the program overflows.    *)
THEOREM StorageTypeTheorem == SignedSizes => (Spec => []StorageTypeOK)
<1> QED BY StackInvariant, TypesAreTypeOK, PTL

=============================================================================
