----------------------------- MODULE FlatMemory -----------------------------
(***************************************************************************)
(* What a program of the machine may assume of its memory: one flat map    *)
(* from addresses to bytes.  The stack is always there; a block of the     *)
(* heap is there from the malloc that returned it, all zero, at the LOWEST *)
(* address with room for it, until it is freed; a malloc fails only when   *)
(* there is no room, or when the host has none.  Everything else a program *)
(* does stops it.                                                          *)
(***************************************************************************)
EXTENDS Integers, Functions

CONSTANTS WORD, STACK_MAX, HEAP_MIN, HEAP_MAX, Sizes, BYTE, MaxMalloc, Values

VARIABLES
  live,     \* the allocated blocks
  mem,      \* the bytes a program may access
  result,   \* what the last operation returned
  status    \* "running", or why the program stopped

flatVars == <<live, mem, result, status>>

Span(lo, n) == lo .. lo + n - 1

(* The addresses a program may access.                                     *)
Mapped == Span(0, STACK_MAX) \cup UNION {b.first .. b.second - 1 : b \in live}

Init ==
  /\ live = {}
  /\ mem = [a \in Span(0, STACK_MAX) |-> 0]
  /\ result = 0
  /\ status = "running"

(* size bytes from lo on are in the heap and not in use.                   *)
Room(lo, size) ==
  /\ Span(lo, size) \subseteq HEAP_MIN .. HEAP_MAX - 1
  /\ Span(lo, size) \cap Mapped = {}

Malloc(size, lo) ==
  /\ UNCHANGED status
  /\ live' = live \cup {[first |-> lo, second |-> lo + size]}
  /\ result' = lo
  /\ Room(lo, size)
  /\ \A l \in HEAP_MIN .. lo - 1 : ~Room(l, size)
  /\ mem' = [a \in Mapped \cup Span(lo, size) |-> IF a \in Mapped THEN mem[a] ELSE 0]

MallocFails(size) ==
  /\ status' = "out of memory"
  /\ \A lo \in HEAP_MIN .. HEAP_MAX - 1 : ~Room(lo, size)
  /\ mem' = <<>>
  /\ UNCHANGED <<live, result>>

Free(b) ==
  /\ UNCHANGED status
  /\ live' = live \ {b}
  /\ mem' = Restrict(mem, Mapped \ Span(b.first, b.second - b.first))
  /\ result' = 0

(* The bytes of a value, the low one first: what its first bytes leave of  *)
(* it, and the one that comes next.                                        *)
After(val) ==
  LET rest[i \in 0 .. WORD] == IF i = 0 THEN val ELSE rest[i - 1] \div BYTE
  IN rest

ByteOf(val, i) == After(val)[i] % BYTE

Store(size, addr, val) ==
  /\ UNCHANGED <<live, status>>
  /\ result' = 0
  /\ mem' = [a \in Mapped |-> IF a \in Span(addr, size) THEN ByteOf(val, a - addr) ELSE mem[a]]

(* A load returns the one value of size bytes that are those in memory.    *)
Load(size, addr) ==
  /\ result' \in Nat
  /\ After(result')[size] = 0
  /\ Restrict(mem, Span(addr, size)) =
       [a \in Span(addr, size) |-> ByteOf(result', a - addr)]
  /\ UNCHANGED <<live, mem, status>>

Reset == result' = 0 /\ UNCHANGED <<live, mem, status>>

(* The memory goes with the program.                                       *)
Stop ==
  /\ status' \in {"rejected", "host out of memory", "undefined"}
  /\ mem' = <<>>
  /\ UNCHANGED <<live, result>>

MallocSizes == {size \in 1 .. MaxMalloc : size % WORD = 0}

(* An access that is aligned to its size and stays in the mapped bytes.    *)
Accessible(size, addr) ==
  addr % size = 0 /\ Span(addr, size) \subseteq Mapped

Next ==
  /\ status = "running"
  /\ \/ Stop
     \/ UNCHANGED mem /\ Reset
     \/ UNCHANGED mem /\ \E size \in Sizes, addr \in Mapped :
                           Accessible(size, addr) /\ Load(size, addr)
     \/ \E size \in Sizes, addr \in Mapped, val \in Values :
          Accessible(size, addr) /\ Store(size, addr, val)
     \/ \E size \in MallocSizes : \/ MallocFails(size)
                                  \/ \E lo \in HEAP_MIN .. HEAP_MAX - 1 : Malloc(size, lo)
     \/ \E b \in live : Free(b)

Spec == Init /\ [][Next]_flatVars

=============================================================================
