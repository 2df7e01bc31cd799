---------------------------- MODULE GlobalLayout ----------------------------
(***************************************************************************)
(* Where the back end puts the global variables and how much stack the     *)
(* functions of a module may use: visitModule and the entry of main in     *)
(* Backend.cpp, and the loop over the functions in AssemblyEmitter::run.   *)
(*                                                                         *)
(* The globals are laid out one after the other, downwards from STACK_MAX  *)
(* while STACK_SAFE_REGION bytes of stack are left, the others upwards     *)
(* from HEAP_MIN.  The two sides are then made true at run time: main's    *)
(* frame is enlarged by the size of the globals on the stack, and main     *)
(* begins with one malloc of the size of the globals in the heap.          *)
(*                                                                         *)
(* The sizes are bytes; the sum of the sizes of the globals is taken to be *)
(* below 2^32, where the counters of type unsigned would wrap.             *)
(***************************************************************************)
EXTENDS HeapAllocator, Sequences

CONSTANTS
  STACK_MAX,           \* end of the stack (10240)
  STACK_SAFE_REGION,   \* stack the globals may not take (5120)
  Callees,             \* the functions of the module other than main
  GlobalSizes,         \* the modules: sequences of the sizes of their globals
  FrameSizes           \* what the allocas of a function may take, in bytes:
                       \* each takes whole words (AssemblyEmitter.cpp:152)

ASSUME LayoutAssumption ==
  /\ STACK_MAX \in Nat
  /\ STACK_SAFE_REGION \in Nat
  /\ STACK_MAX < HEAP_MIN /\ STACK_MAX % WORD = 0
  /\ "main" \notin Callees
  /\ GlobalSizes \subseteq Seq(Nat)
  /\ FrameSizes \subseteq Nat /\ \A n \in FrameSizes : n % WORD = 0

Functions == Callees \cup {"main"}

VARIABLES
  stage,           \* what the compiler or the machine is doing
  sizes,           \* the sizes of the globals not yet placed
  GVStackOffset,   \* the last address given to a global on the stack
  GVHeapOffset,    \* the next address for a global in the heap
  GVLocs,          \* where the globals are: [at, inHeap, size]
  StackSize,       \* bytes of globals on the stack
  HeapSize,        \* bytes of globals in the heap
  used,            \* the bytes of the allocas of each function
  unemitted,       \* the functions not yet emitted
  TotalStackUsage  \* bytes of the frames of the emitted functions

layoutVars == <<sizes, GVStackOffset, GVHeapOffset, GVLocs, StackSize, HeapSize,
                used, unemitted, TotalStackUsage>>

LayoutInit ==
  /\ sizes \in GlobalSizes
  /\ used \in [Functions -> FrameSizes]
  /\ GVStackOffset = STACK_MAX
  /\ GVHeapOffset = HEAP_MIN
  /\ GVLocs = {}
  /\ StackSize = 0
  /\ HeapSize = 0
  /\ unemitted = Functions
  /\ TotalStackUsage = 0

(* The size of a variable in whole words.                                  *)
RoundUp(size) == ((size + WORD - 1) \div WORD) * WORD

(* The room for a global of sz bytes is an unsigned difference: it wraps   *)
(* when the global is larger than what is left, and is then large.         *)
StackPlace(sz) == (GVStackOffset - sz) % AddrSpace

(* Mutant of PlaceGlobal: the offset of the heap is not advanced.          *)
PlaceGlobalHeapStuck ==
  /\ stage = "layout" /\ sizes # <<>>
  /\ LET sz == RoundUp(Head(sizes))
         at == StackPlace(sz)
     IN IF at >= STACK_SAFE_REGION
          THEN /\ GVStackOffset' = at
               /\ GVLocs' = GVLocs \cup {[at |-> at, inHeap |-> FALSE, size |-> sz]}
               /\ StackSize' = StackSize + sz
               /\ UNCHANGED <<GVHeapOffset, HeapSize>>
          ELSE /\ GVLocs' = GVLocs \cup {[at |-> GVHeapOffset, inHeap |-> TRUE, size |-> sz]}
               /\ HeapSize' = HeapSize + sz
               /\ UNCHANGED <<GVHeapOffset, GVStackOffset, StackSize>>
  /\ sizes' = Tail(sizes)
  /\ UNCHANGED <<stage, used, unemitted, TotalStackUsage>>

(* visitModule places the next global variable.  StackSize and HeapSize    *)
(* are the sums that the entry of main takes over GVLocs.                  *)
PlaceGlobal ==
  /\ stage = "layout" /\ sizes # <<>>
  /\ LET sz == RoundUp(Head(sizes))
         at == StackPlace(sz)
     IN IF at >= STACK_SAFE_REGION
          THEN /\ GVStackOffset' = at
               /\ GVLocs' = GVLocs \cup {[at |-> at, inHeap |-> FALSE, size |-> sz]}
               /\ StackSize' = StackSize + sz
               /\ UNCHANGED <<GVHeapOffset, HeapSize>>
          ELSE /\ GVHeapOffset' = GVHeapOffset + sz
               /\ GVLocs' = GVLocs \cup {[at |-> GVHeapOffset, inHeap |-> TRUE, size |-> sz]}
               /\ HeapSize' = HeapSize + sz
               /\ UNCHANGED <<GVStackOffset, StackSize>>
  /\ sizes' = Tail(sizes)
  /\ UNCHANGED <<stage, used, unemitted, TotalStackUsage>>

(* UsedStackSize, what the prologue of f subtracts from sp.                *)
FrameSize(f) == used[f] + (IF f = "main" THEN StackSize ELSE 0)

(* Mutant of EmitFunction: only the frame of one function is compared with *)
(* the size of the stack.                                                  *)
EmitFunctionNoTotal(f) ==
  /\ stage = "layout" /\ sizes = <<>> /\ f \in unemitted
  /\ TotalStackUsage' = TotalStackUsage + FrameSize(f)
  /\ unemitted' = unemitted \ {f}
  /\ stage' = CASE FrameSize(f) >= STACK_MAX -> "rejected"
                [] unemitted' = {}          -> "compiled"
                [] OTHER                    -> stage
  /\ UNCHANGED <<sizes, GVStackOffset, GVHeapOffset, GVLocs, StackSize, HeapSize, used>>

(* AssemblyEmitter::run emits the function f, or gives up: the frames of   *)
(* all the functions together must be smaller than the stack.              *)
EmitFunction(f) ==
  /\ stage = "layout" /\ sizes = <<>> /\ f \in unemitted
  /\ TotalStackUsage' = TotalStackUsage + FrameSize(f)
  /\ unemitted' = unemitted \ {f}
  /\ stage' = CASE TotalStackUsage' >= STACK_MAX -> "rejected"
                [] TotalStackUsage' < STACK_MAX /\ unemitted' = {} -> "compiled"
                [] OTHER -> stage
  /\ UNCHANGED <<sizes, GVStackOffset, GVHeapOffset, GVLocs, StackSize, HeapSize, used>>

GlobalBlock(g) == block_t(g.at, g.at + g.size)

(* A global does not share a byte with another one, lies either in the     *)
(* stack above the part main's frame leaves for it or in the block main    *)
(* begins with, and is never at an address the unsigned difference of      *)
(* Backend.cpp:254 has wrapped to: whenever that happens the emitter       *)
(* finds main's frame too large.                                           *)
GlobalsPlaced ==
  stage \notin {"memuse", "layout", "rejected"} =>
    /\ \A g, h \in GVLocs : g # h => Apart(GlobalBlock(g), GlobalBlock(h))
    /\ \A g \in GVLocs :
         IF g.inHeap
           THEN HEAP_MIN <= g.at /\ g.at + g.size <= HEAP_MIN + HeapSize
           ELSE STACK_MAX - StackSize <= g.at /\ g.at + g.size <= STACK_MAX

=============================================================================
