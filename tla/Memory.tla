------------------------------- MODULE Memory -------------------------------
(***************************************************************************)
(* The memory of the machine (class Memory, interpreter/src/memory.cpp): a *)
(* stack, a heap and the head of the memory device.                        *)
(*                                                                         *)
(*        0 .. STACK_MAX-1          the stack                              *)
(*        STACK_MAX .. HEAP_MIN-1   nothing                                *)
(*        HEAP_MIN .. HEAP_MAX-1    the heap, in blocks                    *)
(*                                                                         *)
(* Each allocated block has a buffer of its own in the interpreter         *)
(* (calloc), so that an access that left its block would not even reach    *)
(* the next one.  A program calls the operations in any order, with any    *)
(* arguments; invoke_runtime_error ends the run.                           *)
(***************************************************************************)
EXTENDS HeapAllocator

CONSTANTS
  STACK_MAX,   \* size of the stack (10240)
  Sizes,       \* sizes of an access in bytes ({1, 2, 4, 8})
  BYTE,        \* number of values of a byte (256)
  MaxMalloc,   \* bound of the model: largest size a program asks malloc for
  Values       \* bound of the model: the values a program stores

ASSUME MemoryAssumption ==
  /\ STACK_MAX \in Nat
  /\ STACK_MAX % WORD = 0
  /\ STACK_MAX < HEAP_MIN
  /\ Sizes \subseteq 1 .. WORD
  /\ \A size \in Sizes : WORD % size = 0
  /\ BYTE \in Nat \ {0}
  /\ MaxMalloc \in Nat
  /\ Values \subseteq Nat

VARIABLES
  buffer,   \* the bytes of each allocated block, by offset
  stack,    \* the bytes of the stack
  head,     \* the place the next access is charged from
  result,   \* what the last operation returned
  status    \* "running", or why the program stopped

vars == <<heapVars, buffer, stack, head, result, status>>

Addr == 0 .. AddrSpace - 1
StackAddr == 0 .. STACK_MAX - 1
NoHead == AddrSpace - 1          \* (uint64_t) -1

Init ==
  /\ HeapInit
  /\ buffer = [b \in {} |-> <<>>]
  /\ stack = [a \in StackAddr |-> 0]
  /\ head = NoHead
  /\ result = 0
  /\ status = "running"

(* invoke_runtime_error: print and exit.                                   *)
StopWith(why) ==
  /\ status' = why
  /\ UNCHANGED <<heapVars, buffer, stack, head, result>>

-----------------------------------------------------------------------------
(* malloc and free.                                                        *)

Malloc(size) ==
  /\ status = "running"
  /\ ValidSize(size)
  /\ \E b \in freed :
       /\ FirstFit(b, size)
       /\ TakeFrom(b, size)
       /\ LET new == block_t(b.first, b.first + size)
          IN buffer' = [c \in alloced \cup {new} |->
                          IF c = new THEN [i \in 0 .. size - 1 |-> 0]
                                     ELSE buffer[c]]
       /\ result' = b.first
  /\ UNCHANGED <<stack, head, status>>

MallocInvalid(size) ==
  /\ status = "running"
  /\ ~ValidSize(size)
  /\ StopWith("rejected")

MallocOutOfMemory(size) ==
  /\ status = "running"
  /\ ValidSize(size)
  /\ NoFit(size)
  /\ StopWith("out of memory")

(* calloc returns null: the host has no memory for the buffer.             *)
HostOutOfMemory(size) ==
  /\ status = "running"
  /\ ValidSize(size)
  /\ ~NoFit(size)
  /\ StopWith("host out of memory")

Free(addr) ==
  /\ status = "running"
  /\ \E b \in alloced :
       /\ b.first = addr
       /\ GiveBack(b)
       /\ buffer' = [c \in alloced \ {b} |-> buffer[c]]
  /\ result' = 0
  /\ UNCHANGED <<stack, head, status>>

FreeInvalid(addr) ==
  /\ status = "running"
  /\ \A b \in alloced : b.first # addr
  /\ StopWith("rejected")

-----------------------------------------------------------------------------
(* load and store.                                                         *)

IsAligned(size, addr) == addr % size = 0

(* addr + size is a uint64_t: it wraps at the end of the address space.    *)
IsStack(size, addr) == (addr + size) % AddrSpace <= STACK_MAX
IsHeap(size, addr) == HEAP_MIN <= addr /\ (addr + size) % AddrSpace <= HEAP_MAX

(* find_block: the last allocated block that starts at addr or before it,  *)
(* when it ends after addr.  How far the access reaches is not looked at.  *)
FindBlock(addr) ==
  {b \in alloced : /\ b.first <= addr
                   /\ \A c \in alloced : c.first <= addr => c.first <= b.first
                   /\ addr < b.second}

(* What is left of val after each shift by one byte.                       *)
Shifts(val) ==
  LET rest[i \in 0 .. WORD] == IF i = 0 THEN val ELSE rest[i - 1] \div BYTE
  IN rest

(* Mutant of ByteAt: the mask 0xFF is forgotten.                           *)
ByteAtUnmasked(val, i) == Shifts(val)[i]

ByteAt(val, i) == Shifts(val)[i] % BYTE

(* load_little_endian: from the last byte to the first.                    *)
Sums(size, bytes, ofs) ==
  LET sum[i \in 0 .. size] ==
        IF i = 0 THEN 0 ELSE sum[i - 1] * BYTE + bytes[ofs + size - i]
  IN sum

LoadLittleEndian(size, bytes, ofs) == Sums(size, bytes, ofs)[size]

(* Mutant of StoreLittleEndian: the high byte first.                       *)
StoreBigEndian(size, bytes, ofs, val) ==
  [i \in DOMAIN bytes |->
     IF i \in ofs .. ofs + size - 1 THEN ByteAt(val, ofs + size - 1 - i) ELSE bytes[i]]

(* store_little_endian: from the first byte to the last.                   *)
StoreLittleEndian(size, bytes, ofs, val) ==
  [i \in DOMAIN bytes |->
     IF i \in ofs .. ofs + size - 1 THEN ByteAt(val, i - ofs) ELSE bytes[i]]

LoadStack(size, addr) ==
  /\ status = "running"
  /\ IsAligned(size, addr)
  /\ IsStack(size, addr)
  /\ addr \in StackAddr
  /\ result' = LoadLittleEndian(size, stack, addr)
  /\ head' = addr
  /\ UNCHANGED <<heapVars, buffer, stack, status>>

LoadHeap(size, addr) ==
  /\ status = "running"
  /\ IsAligned(size, addr)
  /\ ~IsStack(size, addr)
  /\ IsHeap(size, addr)
  /\ \E b \in FindBlock(addr) :
       result' = LoadLittleEndian(size, buffer[b], addr - b.first)
  /\ head' = addr
  /\ UNCHANGED <<heapVars, buffer, stack, status>>

StoreStack(size, addr, val) ==
  /\ status = "running"
  /\ IsAligned(size, addr)
  /\ IsStack(size, addr)
  /\ addr \in StackAddr
  /\ stack' = StoreLittleEndian(size, stack, addr, val)
  /\ head' = addr
  /\ result' = 0
  /\ UNCHANGED <<heapVars, buffer, status>>

StoreHeap(size, addr, val) ==
  /\ status = "running"
  /\ IsAligned(size, addr)
  /\ ~IsStack(size, addr)
  /\ IsHeap(size, addr)
  /\ \E b \in FindBlock(addr) :
       buffer' = [buffer EXCEPT ![b] =
                    StoreLittleEndian(size, @, addr - b.first, val)]
  /\ head' = addr
  /\ result' = 0
  /\ UNCHANGED <<heapVars, stack, status>>

(* The access is not aligned, lies between the stack and the heap, or is   *)
(* to an address of the heap that is not allocated.                        *)
AccessRejected(size, addr) ==
  /\ status = "running"
  /\ \/ ~IsAligned(size, addr)
     \/ /\ ~IsStack(size, addr)
        /\ ~IsHeap(size, addr) \/ FindBlock(addr) = {}
  /\ StopWith("rejected")

(* At the very end of the address space addr + size wraps to 0: is_stack   *)
(* takes the access for one to the stack and indexes the array stack far   *)
(* out of its bounds.  Where that lands is the build's business; nothing   *)
(* is promised of the run from there on, and the model stops.              *)
AccessWraps(size, addr) ==
  /\ status = "running"
  /\ IsAligned(size, addr)
  /\ IsStack(size, addr)
  /\ addr \notin StackAddr
  /\ StopWith("undefined")

-----------------------------------------------------------------------------
(* reset stack and reset heap.                                             *)

ResetTo(place) ==
  /\ status = "running"
  /\ head' = place
  /\ result' = 0
  /\ UNCHANGED <<heapVars, buffer, stack, status>>

ResetStack == ResetTo(STACK_MAX)
ResetHeap == ResetTo(HEAP_MIN)

-----------------------------------------------------------------------------
MallocSizes == 0 .. MaxMalloc

Next ==
  \/ \E size \in MallocSizes :
       \/ Malloc(size)
       \/ MallocInvalid(size)
       \/ MallocOutOfMemory(size)
       \/ HostOutOfMemory(size)
  \/ \E addr \in Addr : Free(addr) \/ FreeInvalid(addr)
  \/ \E size \in Sizes, addr \in Addr :
       \/ LoadStack(size, addr)
       \/ LoadHeap(size, addr)
       \/ AccessRejected(size, addr)
       \/ AccessWraps(size, addr)
       \/ \E val \in Values : \/ StoreStack(size, addr, val)
                              \/ StoreHeap(size, addr, val)
  \/ ResetStack
  \/ ResetHeap

Spec == Init /\ [][Next]_vars

-----------------------------------------------------------------------------
(* What the memory promises.                                               *)

TypeOK ==
  /\ HeapTypeOK
  /\ DOMAIN buffer = alloced
  /\ \A b \in alloced : buffer[b] \in [0 .. b.second - b.first - 1 -> 0 .. BYTE - 1]
  /\ stack \in [StackAddr -> 0 .. BYTE - 1]
  /\ head \in Addr
  /\ result \in Nat
  /\ status \in {"running", "rejected", "out of memory", "host out of memory",
                 "undefined"}

(* The addresses a program may access.                                     *)
Mapped == StackAddr \cup UNION {Bytes(b) : b \in alloced}

Span(addr, size) == addr .. addr + size - 1

(* find_block (memory.cpp:16-29) and exec_load and exec_store check where  *)
(* an access starts, never where it ends in its block; with the alignment  *)
(* check and the sizes malloc accepts that is right: an access that does   *)
(* not wrap is served exactly when every byte of it is in the stack or in  *)
(* ONE allocated block.                                                    *)
AccessesChecked ==
  \A size \in Sizes, addr \in Addr :
    addr + size < AddrSpace /\ IsAligned(size, addr) =>
      /\ IsStack(size, addr) <=> Span(addr, size) \subseteq StackAddr
      /\ ~IsStack(size, addr) =>
           ((IsHeap(size, addr) /\ FindBlock(addr) # {}) <=>
              \E b \in alloced : Span(addr, size) \subseteq Bytes(b))

(* The bytes a program sees, wherever the interpreter keeps them; none     *)
(* once the interpreter has exited.                                        *)
ByteSeen(a) ==
  IF a \in StackAddr
    THEN stack[a]
    ELSE LET b == CHOOSE c \in alloced : a \in Bytes(c)
         IN buffer[b][a - b.first]

FlatView == IF status = "running" THEN [a \in Mapped |-> ByteSeen(a)] ELSE <<>>

Flat == INSTANCE FlatMemory WITH live <- alloced, mem <- FlatView

(* The memory implements a flat map of bytes with first-fit allocation:    *)
(* malloc (memory.cpp:153-183) fails only when there is no room anywhere   *)
(* and else returns the lowest address with room, zeroed; blocks keep      *)
(* their bytes while others come and go; a load returns the bytes stored.  *)
ImplementsFlatMemory == Flat!Spec

=============================================================================
