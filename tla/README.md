# A formal model of the swpp202001-team7 compiler back end and its machine

The repository holds an LLVM-IR compiler for a small register machine
(`src/src`) and the interpreter that defines the machine (`src/interpreter`).
This directory models the two: what the machine does with memory, and what the
back end must get right when it maps an unbounded number of IR values onto
sixteen registers and a stack. Paths below are relative to the repository root
(`src/`, so `core/Backend.cpp` is `src/src/core/Backend.cpp`).

## 1. Inventory

| component | state | operations | hard behaviours |
|---|---|---|---|
| **Machine memory** `interpreter/src/memory.cpp` | `alloced`, `freed` (ordered sets of blocks), the buffers of the blocks, `stack`, `head`, two counters | `exec_malloc`, `exec_free`, `exec_load`, `exec_store`, `exec_reset_stack`, `exec_reset_heap` | long sequences of mallocs and frees (empty remainders, merging); accesses checked at their start only; 64-bit wrap |
| **Machine execution** `state.cpp`, `regfile.cpp`, `function.cpp`, `program.cpp`, `stmt.cpp` | register file, current statement, call stack (the C++ stack), cost | one per statement; call saves and restores the whole register file | nesting of calls, wrong arity, undefined targets |
| **Machine arithmetic** `stmt.cpp` | none | `get_op1`, `get_op2`, `compute`, `get_result` | sizes 1 to 64, sign extension, shift amounts, division edges |
| **Assembly parser** `parser.cpp` | parser state, current function and block | one transition per line | duplicate names, order of lines |
| **Register allocator** `core/RegisterAllocator.cpp` | stack of free registers, set of temporary registers, active allocations, current user | `request`, `update`, `evict`, `requestTempRegister` (any, given), `giveUpTempRegister`, `reportUser` | eviction while an instruction is half translated; temporaries returned in any order |
| **Depromotion** `core/Backend.cpp` (`DepromoteRegisters`, `RAHelper`) | per block: uses still to come, register given to each value; per function: kept stack pointer | one visitor per instruction kind, `clearRA` at branches | spill decisions from a whole-function analysis; operands evicted between translation and use; layout order against control flow |
| **Global layout** `Backend.cpp:210-273` | two offsets | one step per global | unsigned wrap |
| **Assembly emitter** `core/AssemblyEmitter.cpp` | stack frame, current stack pointer | `set_ref`, `spill_ref`, `alloca_bytes`, call | the kept stack pointer around calls |
| **ReorderMemAccess** `passes/` | per block: dependences, emitted instructions | alternate heap and stack accesses | dependences the pass does not see |
| **ResetPointer** | last access of a block | insert resets | profitability of a reset, last access on unknown paths |
| **MemUseOptimization** | lists of mallocs and frees of `main` | rewrite to stack allocations | frees of either kind at run time |
| **WeirdArithmetic**, **PackRegisters** (disabled) | none | local rewrites | width edges |
| **RemoveUnsupportedOps**, **CheckConstExpr** | none | local rewrites | none |
| **Driver** `core/main.cpp` | list of excepted passes, temporary files | split, `runBuiltinOpt` | compilers run side by side |
| **Test harness** `test/` | files | scripts | none |

How they interact. The driver runs the passes in a fixed order and then the
back end. `DepromoteRegisters` calls the allocator for each operand and result;
the allocator calls nothing back but RETURNS the allocation it evicted, and the
caller decides whether to store the value. The emitter walks the module that
depromotion produced and knows registers by name only. The emitted text is read
by the interpreter's parser and executed; its loads, stores, mallocs and frees
go to the machine memory, which ends the process at the first invalid one.
Nothing runs concurrently, except several compilers started side by side by the
test scripts, and nothing is persisted.

What makes each part correct, in one line each: memory is one flat array with
first-fit allocation; a call changes nothing of its caller but the result; a
register has one owner; an operand is in its register when it is read and in
its slot when another block needs it; a global has memory of its own; the kept
stack pointer survives every call; reordering preserves dependences; a reset
never costs more than it saves; a rewritten free still frees what was
malloc'ed; a rewritten operation has the same value.

## 2. Modules

Four groups, each with an instance for TLC (the `MC...` modules):

| module | models | builds on |
|---|---|---|
| `HeapAllocator` | blocks, `malloc`, `free` | |
| `Memory` | class `Memory`: heap, buffers, stack, accesses, resets | `HeapAllocator` |
| `FlatMemory` | abstract: what a program may assume of memory | |
| `HeapAllocator_proofs`, `Memory_proofs` | theorems about the three | |
| `Arithmetic` | the operations of `StmtBop`, `StmtIcmp`, select | |
| `Program` | functions, blocks and statements as the interpreter keeps them | |
| `Parser` | `Parser::run`, line by line | `Program` |
| `Machine` | `State::exec_function` and every statement | `Memory`, `Arithmetic`, `Program` |
| `Interpreter` | `main` of the interpreter: parse, then run | `Parser`, `Machine` |
| `Interpreter_proofs` | theorems about the five | `Memory_proofs` |
| `RegisterAllocator` | class `RegisterAllocator`, and any client of it | |
| `DepromoteRegisters` | the back end's translation of a function | `RegisterAllocator` |
| `DepromoteRegisters_proofs` | theorems about the two | |
| `PackRegisters` | packing and unpacking of arguments | `Arithmetic` |
| `IntegerLowering` | `WeirdArithmetic`, the casts, packed calls, beside the source's arithmetic | `PackRegisters` |
| `IntegerLowering_proofs` | theorems about the three | |
| `ReorderMemAccess` | the pass | |
| `ResetPointer` | the pass, with the head of the machine | |
| `MemoryAccessPasses` | the two in the compiler's order | both |
| `MemoryAccess_proofs` | theorems about the three | |
| `GlobalLayout` | addresses of globals, sizes of frames, the emitter's check | `HeapAllocator` |
| `Storage` | `MemUseOptimization` and the storage of the program that runs | `GlobalLayout` |
| `Storage_proofs` | theorems about both | `HeapAllocator_proofs` |
| `Induction` | induction over the natural numbers, division and powers of two, for the proofs | |

### Memory

`alloced`, `freed`, `alloced_size` and `max_alloced_size` are the members of
the class; a block is a record `[first, second]`. `buffer` gives each allocated
block the bytes of its `calloc`. The ordered-set searches of the code are
written as what they find: `FirstFit` is the block at which the loop over
`freed` stops, `MergePrev` and `MergeNext` are the neighbours found through
`lower_bound`, `FindBlock` is the block before the upper bound of an address.
One action per way out of each operation: success, each early return that ends
the process (`status` says why), and the host's out-of-memory. A malloc takes
the lowest freed block that fits and puts the remainder back even when it is
empty, as the code does. When `addr + size` wraps, the code's `is_stack`
accepts the access and indexes its array out of bounds: the action
`AccessWraps` ends in `"undefined"`. The cost of an access is left out here,
`head` is kept; its value after a rejected access does not matter, for the
process is gone.

`FlatMemory` is the abstract specification: one function from addresses to
bytes. A malloc returns the lowest address with room anywhere in the heap, and
fails only when there is none. `Memory!ImplementsFlatMemory` is its
specification under the mapping of `ByteSeen`, which looks for an address in
the stack or in the buffer of its block. The mapping hides buffers, freed
blocks, counters and head.

### Interpreter

A file is a sequence of lines, a line the form the regular expressions see in
it: nothing, start or end of a function, a label, a statement with its
operands, something else. The parser's checks of operands (which registers may
be written, literals below 2^64, sizes, number of arguments) are conditions on
the statement. `functions`, `code` and `next` are `function_map`, the
statements and their `next` pointers; a statement is the number of its line and
0 is the null pointer. The parser's variables are the members and locals of
`Parser::run`; each line takes one step, and the first error ends everything.

`exec_function` is recursive; `frames` is the stack of its activations, each
with the function, the current statement and `old`, the local copy of the
register file. Every statement is an action: a statement of memory is the
operation of `Memory` conjoined with its effect on the registers, so that all
errors of the memory are errors of the machine. `read` and `write` are calls
the interpreter answers itself.

`Arithmetic` follows `stmt.cpp` operation by operation: operands are cut to the
size (sign extended for a signed operation), the operation is the one of C++ on
64-bit words, the result is cut again. Division by zero ends the run with the
interpreter's error; the smallest value by -1 has no result in C++ and stops
the process at the host's division instruction. Powers of two are a recursive
function `Pow2`; the bits of a word are the set `OneBits`, and `and`, `or` and
`xor` are operations on these sets, turned into a word again by `FromBits`.

### Register allocator and depromotion

The state is one record and each method is a function from states to states,
because one call of the back end uses several in a row. `ActiveSet` is a binary
heap in the code; the model has a set and leaves open which of several
allocations with the same next advent is on top, since that depends on the
layout of the heap. A failed assertion is an action that is not enabled.
`AllocatorNext` is any client: any method in any order, within the assertions.

A function is a sequence of blocks in layout order; a block has phis, code and
successors; an instruction has a kind, the operands that are themselves
instructions, and the value it defines. `kind` keeps what the visitors differ
in:

| kind | visitors | what they do with the allocator |
|---|---|---|
| `phi`, `move` | phi, alloca, load, casts | translate at most one operand, request a register |
| `op` | store, binary, icmp, select | report the user, translate, stop reporting, request |
| `gep` | getelementptr | report the user, copy the pointer to a temporary register, scale each index in another |
| `gep_const` | getelementptr of a global, an argument or a constant | the same; the pointer is in no register, so it is copied before any operand |
| `call` | any other call | translate all arguments WITHOUT reporting, request |
| `set_ref`, `spill_ref` | calls of the two markers | keep register 16 (`RefSPId`) for the stack pointer; release it around the next call |
| `br` | branch, switch | store the phis of the successors, the condition, clear the allocator |
| `ret` | return | translate, clear nothing |

Constants, arguments and globals take no register and are left out. `regs` and
`slots` are ghosts: the values that the emitted code leaves in each register
and slot. They change with every emitted load, store, copy and definition, in
the order of the code, and make "the operand is where the pass believes it is"
a statement about the emitted program. After `set_ref` the emitter addresses
every slot through register 16, so the ghosts follow it as well: its content is
then `RefSP`, the word below `sp` that `spill_ref` saves it in is `slots[RefSP]`,
a fill while it has another content gives nothing known, and a spill may go to
any slot (`BaseHolds`, `Filled`, `Evicted`). After the call the emitter loads it
(`Reloaded`), before the pass evicts what it has put there. `RefCalls` says where
`AllocaBytesHandler` puts the two markers. `FinalUses` and `AdventBlocks` are the
analysis `RAHelper`, translated as definitions over the program.

`AdventMap` gives each value the uses that are still to come in the block, a set
of pairs of a timestep and the place of the operand; the code's queue is that
set in order, and `FirstUse` is its front. `clearRA` is a loop: `ClearRA` evicts
one value, and `EmitBranch` follows when there is none (`Cleared`).

`WellFormed` says which functions are translated: what LLVM's verifier has
checked (a block ends with its terminator and has no other, a value is defined
once, a phi has a value for each block that branches to its own), and that a
value is defined before its uses in layout order. The verifier asks for
dominance, not for this order: a function laid out against it is outside the
model, whose ghosts describe one execution of each block in the order of the
layout. That a block finds its inputs in their slots on EVERY path is
`SpilledForOtherBlocks`: the block that defines a value leaves it in its slot,
and a definition dominates its uses.

### Integers of the source on the machine

`IntegerLowering` runs the source and the machine side by side. `value` is what
LLVM defines a variable to be, at its type; `reg` is the word of its register.
A step is one instruction of the source: `value` changes by LLVM's definition,
`reg` by the statements that come out of `WeirdArithmetic` and the back end,
executed by `Arithmetic!compute`. `shifted` is what `WeirdArithmetic` looks at
when it meets an `and` of a shift. Steps the source leaves undefined (division
by zero, shift by the width) are not taken. `InstCombined` is external: it says
what LLVM's InstCombine leaves of an `and` with a constant, which the pass
relies on (`WeirdArithmetic.cpp:36-37`). Calls go through `PackRegisters`,
although the driver has the pass commented out at present: `PackedTo` is the
last argument that travels with the first of a range, `PackRegistersFromCaller`
and `PackRegistersFromCallee` are the two sequences of statements.

### Order of memory accesses

`ReorderMemAccess` has the members and locals of the pass: the area of each
instruction, the instructions that wait for each one, the new order, the round.
`Push`, `Rescan` and `ChangeBlocking` are the steps of the loop over the block.
`Touches` and `Conflict` are the definition the result is compared with: which
accesses may meet in memory, from where their pointers come.

`ResetPointer` walks any code: the pass sees the kind of an access, the machine
its address, in one step. `callers` are the calls that have not returned (each
function is scanned by itself). `saved` sums, in units of the cost of a byte,
what the way of the head would have cost less the price of the reset.

### Storage

`GlobalLayout` follows `visitModule` (one action per global, `StackPlace` in
wrapping arithmetic), the entry of main and the loop over the functions in
`AssemblyEmitter::run`, which refuses a module whose frames together are not
smaller than the stack. `Storage` starts before it, with `MemUseOptimization`
(`Convert`), and goes on to the program that runs: prologue, malloc of the
globals' block, mallocs and frees in main, in a loop of main or in a callee,
calls with or without a spilled reference, returns. `stage` says where the
compiler or the machine is. The heap is `HeapAllocator`'s.

The program is any that frees only blocks it has, asks for whole words, and
does not call main. A call that takes `sp` below 0 ends the model
(`"overflow"`). The comparison of a converted malloc (`IsSafeSp`) and
`alloca_bytes` are in the wrapping arithmetic of the machine (`SpLess`). The
spill of a reference, the move of `sp` and the call are one action: `spill_ref`
is put directly before the call (`Backend.cpp:836`), and only accesses to slots
of main come between.

## 3. Runs

All runs are exhaustive for their bounds.

| run | what it asks | bounds |
|---|---|---|
| `heap` | do blocks stay apart; is any byte or room lost; do the counters agree; do empty remainders pile up; is checking the start of an access enough | heap of 6 words of 2, mallocs up to 3 words, one-valued bytes |
| `memory` | is it a flat memory with first-fit allocation | heap of 3 words of 2 bytes, stack of one word, bits for bytes, mallocs up to 2 words |
| `allocator` | can any client lose or share a register | 3 registers, 4 values, 2 users |
| `depromote` | operands in their registers, values in their slots, allocations of this block only, the stack pointer kept in its register, no failed assertion (no deadlock) | 4 registers, 7 values, about 130 functions: loops with a phi, diamonds, a block with more values than registers, pointers in no register, a kept stack pointer, spilled for a call with at most one argument in a register and no result |
| `callargs` | expected violation: see Findings | two calls' worth of functions |
| `earlyreturn` | expected violation: see Findings | functions with an early return |
| `lowering` | is every register the value of its variable, after any chain of instructions; is a division by zero ever added | words of 4 bits, types of 1, 2 and 4 bits, 2 variables, calls of up to 4 arguments; sign extension to the full width only |
| `signextend` | expected violation: see Findings | the same with sign extension to every type |
| `interpreter` | can an accepted program leave its blocks or follow a null statement; do calls keep registers, argument counts and the stack pointer | 2 general and 2 argument registers of 4 bits, about twenty thousand files, 3 activations |
| `access` | is the new order a legal permutation that keeps the known conflicts, does the loop end, is it worth it; does the reset pass know the area of the head, does a reset pay | about fifty thousand blocks of up to five instructions; 4 bytes of stack, 7 of heap, `MaxSaved` 24, calls two deep |
| `reorder` | expected violation: see Findings | the same blocks |
| `storage` | do globals, frames, spilled references and blocks ever overlap; is each block there; does the heap leak; is a free invalid; does the stack suffice | words of 2 bytes, a stack of 10 words, a heap of 11, up to 3 globals, 2 callees, mallocs of 1 and 3 words and of half the address space, `MaxFrames` 3, `MaxOwned` 2 |

Why these bounds are enough. Heap: six words hold three live blocks with free
ones of different sizes between them, so a free meets every combination of a
free, empty or live neighbour on each side, and a malloc has several blocks to
choose from; the mutant that forgets the empty remainders needs sequences
longer than a dozen calls and is found. Memory: two bytes to a word tell the
byte order, two sizes tell the alignment; the two values stored are not each
other's mirror image, so a swapped order shows. Depromotion: with four
registers a getelementptr uses all of them, and every function in the set
evicts; a three-operand select needs all operands protected at once. Lowering:
every pair of operands and every constant of each type, in chains of any
length; a type of one bit, one between, and one of the word. Interpreter: main
with two arbitrary statements and any terminator, main with a call before or
after a statement and a callee with any, and a good file with one line changed,
inserted or removed, so every error of the parser and of the machine occurs.
Access: three instructions of every kind with operands of every origin, and
five that depend on each other in every way; the pass looks at pairs only.
Storage: the globals include one that fits the safe part, one that does not,
one for which the unsigned difference wraps, one of an odd size, and some the
heap has no room for; a malloc of half the address space is at the boundary of
the signed comparison; three frames are needed to tell the caller's base from
main's. The callees are interchangeable (SYMMETRY; no liveness is checked in
that run). The address spaces are small multiples of the word, with the same
relations as in the code (`STACK_MAX < HEAP_MIN < HEAP_MAX = AddrSpace - WORD`).

The deadlock check is off where the system stops: the interpreter at the end of
main or at the first error (`heap`, `memory`, `interpreter`, `signextend`,
`storage`), and a pass when it is done (`reorder`; `access` also where the bound
on `saved` ends the walk). `allocator`, `lowering` and the runs on functions
keep it on.

Liveness and fairness. `Terminates` says the loop of `ReorderMemAccess` ends
for every block (`while (lft)`, line 157: it goes on until every instruction
has been pushed, and nothing in it makes that obvious). The fairness is
`WF_accessVars(ReorderStep)`: the compiler is one thread and the pass runs
until it returns. Nothing else in the system waits: the other operations are
calls that return, the translation of a function ends because `bb` and `pos`
only grow, and whether a program ends is the program's own affair.

## 4. Findings

* **A call's arguments may overwrite each other** (`callargs`, `OperandsHold`).
  `visitCallInst` (`core/Backend.cpp:610-643`) translates the arguments without
  `RA->reportUser`, the only visitor with several operands that does not.
  `RegisterAllocator.cpp:178`: "report the current user to prevent evicting the
  registers currently used." In the trace three registers hold values that are
  used again after the call; the first argument takes the fourth, has no
  further use, and is the victim when the second argument is filled: both
  arguments are read from register 2. With sixteen registers this takes fifteen
  such values.
* **A return block leaves its allocations behind** (`earlyreturn`,
  `AllocationsAreOfThisBlock`). `visitReturnInst` (`core/Backend.cpp:646-653`)
  has no `clearRA`, which branches and switches have ("Block-level RA",
  `Backend.cpp:668`). When a return block is not the last in the layout, the
  next block finds values in registers that it never loaded, and
  `SourceToEmitMap`, cleared at line 344, has no value for them.
* **Sign extension to a narrow type does not stay in the type** (`signextend`,
  `ZeroExtended`). `visitSExtInst` (`Backend.cpp:572`) extends to 64 bits
  whatever the type of the result; `Backend.cpp:71` says "All integer registers
  are zero-extended to 64 bit registers" and `visitZExtInst` relies on it. The
  trace is a comparison whose one-bit result is 1 and its sext to two bits: the
  variable is 3, all bits of its register are set. With sign extension to 64
  bits only, as run `lowering` has it, the convention holds after every chain of
  instructions.
* **Reordering does not keep the behaviour of every program** (`reorder`,
  `ConflictsKept`). A load or store through a loaded pointer counts as one of
  the heap, although the pointer may be to the stack, and `free` counts as no
  access (`ReorderMemAccess.cpp:107-119`); the pass's documentation says
  "without changing the program's behavior". `KnownConflictsKept` in run
  `access` says which conflicts are kept.

Not findings, because no document says otherwise: a converted malloc takes
stack that the emitter's check of the frames does not count, so that callees
may run off the stack in a program that did not without the pass; a wrapped
access to the last word indexes the interpreter's stack out of bounds.

Three more violations stay outside of the functions and sizes of the passing
runs. TLC shows each with the cfg of the run named, one constant replaced and the
one property:

* **An argument may take the base of the others' slots** (run `depromote` with
  `Programs <- SpilledArgPrograms`, `OperandsHold`). For a call whose stack
  pointer is spilled, `visitCallInst` gives register 16 up (`Backend.cpp:625`)
  and then translates the arguments.
  The register is on top of the free ones and the first argument that has to be
  filled takes it, while the emitter goes on addressing every slot through it
  (`AssemblyEmitter.cpp:304`, `:314`, `:419`). `C._Progress_Report(SP2).md:92`
  says that `spill_ref` frees the register, and "Then all 16 arguments can be
  ready". In the trace two values are in their slots; the first is loaded over
  the stack pointer, and the second from the address that the first one is. A
  single argument to fill does no harm, since its load reads the base first.
* **A result may be overwritten by the stack pointer** (the same with
  `Programs <- SpilledResultPrograms`, `SpilledForOtherBlocks`). The result of
  such a call may be given register 16 as well (`Backend.cpp:633`). The emitter reloads the register directly after
  the call (`AssemblyEmitter.cpp:487-492`); the store with which the pass then
  evicts the result (`Backend.cpp:640`) comes later. In the trace the slot of a
  value that the next block returns gets the stack pointer.
* **A huge malloc passes for a small one** (run `storage` with
  `MallocSizes = {2, 62}`, `AreasDisjoint`). The room left on the stack is a 64-bit difference compared as signed
  (`MemUseOptimization.cpp:95-97`). For a size above 2^63 + sp it wraps to a
  positive number: `alloca_bytes` then moves `sp` UP, into main's frame or
  above, where the machine without the pass has no room for the block and stops
  the program. `A._Requirement_and_Specification(Final).md:133` says "The
  conversion from `malloc` to `alloca` would be safe if there is enough space on
  the stack"; the theorems about storage exclude such sizes by name
  (`SignedSizes`).

## 5. Proofs

The theorems hold for every value of the constants that satisfies the named
assumptions of the modules; each `ASSUME` is evaluated by the runs. The
assumptions are properties of the code's constants (word, stack and heap of
`interpreter/src/memory.h`, costs of `opcode.h`) and of the programs given.
Three were added for proofs. In `LayoutAssumption` the stack and every frame
are whole words, because `StackFrame::addAlloca` rounds each alloca up
(`AssemblyEmitter.cpp:152`). In `MachineAssumption` a register holds `WORD`
bytes (8 bytes of 8 bits, 64 bits). In `InterpreterAssumption` a line has a size
and an operation that the machine has (`SizesTaken`), because the regular
expressions of the parser let no other through (`parser.cpp:23-24, 37-39`); a
line with another one is of the form `other`.

**Memory** (`HeapAllocator_proofs`, `Memory_proofs`), for every size of word,
byte, heap, stack and address space:

* `HeapInvariant`: the inductive invariant `HeapInv`. None of the properties
  below is inductive by itself. The argument: (1) blocks lie in the heap,
  allocated ones are not empty; (2) allocated and freed blocks are pairwise
  apart; (3) two freed blocks never TOUCH, empty ones included; (4) every
  address is in some block. (3) is what makes the one-neighbour search of free
  right: of the freed blocks that end where the returned block starts there can
  only be one (`MergePrevIsAll`, `MergeNextIsAll`), and it is the one
  `lower_bound` finds. The steps are lemmas about `TakeFrom` and `GiveBack`, so
  that `Storage_proofs` uses them too.
* `DisjointTheorem`, `NoByteLostTheorem`, `CoalescedTheorem` follow.
* `NoLostRoomTheorem`: a stretch that meets no allocated block is covered by
  freed blocks by (4), and by ONE of them by (3).
* `AccessesCheckedTheorem`: an access aligned to a size that divides the word,
  in a block that starts and ends at multiples of the word, cannot leave the
  block (`AlignedStaysInside`); needs `NextAligned`, an invariant of its own.
* `AccountingTheorem`, from `CountInv`: the counter is the cardinality of the
  union of the blocks, which changes by the size of one block because that one
  is apart from the others; the two sets of blocks are finite.
* `FewFragmentsTheorem`: a freed block that is not the last of the heap ends
  where an allocated one begins, by (3) and (4), and two do not end at one
  place: an injection into the allocated blocks and one more.
* `TypeTheorem`: every allocated block has a buffer of its length, of bytes.
* `FlatMemoryTheorem`: the memory implements `FlatMemory` under the mapping of
  `ByteSeen`. Initial states map to initial states; each action maps to the
  flat action of its name, or to a stutter (one lemma each, `LoadsFlat`,
  `StoreStackFlat`, `StoreHeapFlat`, `MallocFlat`, `FreeFlat`, `StopsFlat`, ...). First fit of `freed`
  is the lowest room in the heap because of `NoLostRoom`. A load takes its
  value apart and puts it together with recursive functions: that they exist
  and can be unfolded is proved by induction (`ShiftsUnfold`, `SumsUnfold`),
  and that the bytes read are those of the flat map is `LoadReadsBytes`.

**Interpreter** (`Interpreter_proofs`), for every file, every width and any
depth of calls. `InterpreterInv` has two parts. `ParserInv` says what the
parser has checked so far: a statement that was accepted is a good one
(`CodeOK`), the blocks of a function begin at statements (`FunctionsOK`), a
statement without a successor is a terminator or the last one read (`Links`), the first block of a finished function is there
(`FirstBlocks`), and an accepted file has a main without arguments. `FramesOK`
and `NargsOK` say that each activation stands at a statement of its function,
that each but the last one waits at a call with the registers saved, and that
`nargs` is the number the running function declares. From it:

* `BlocksEndTheorem`, `NeverNullTheorem`: the machine follows `next` without a
  test; it is the parser's automaton that makes this safe.
* `ArgumentsTheorem`: also after a return `nargs` is that of the function.
* `CallsKeepRegistersTheorem`, `ArgumentsMissSpTheorem`: action properties. A
  return puts back the whole register file that its call saved, and arguments
  are copied after the parser has compared their number.
* `InterpreterTypeTheorem`, from a second invariant, `WordsInv`, on top of
  `InterpreterInv`: registers and saved registers hold words, the statements
  the parser made have operands that are registers or words (`CodeWords`), and
  the memory is sound while the program runs. The three need each other. An
  address or a stored value is a word because it comes from a register or a
  literal; so each statement is a step of the memory (`AnyStep` of
  `Memory_proofs`: `Memory!Next` without the bounds of its model, which the
  lemmas about the memory are stated for); so a load finds bytes, and no more
  of them than a register has (`FewBytesAreWord`), and malloc returns an
  address of the heap. `ComputeIsWord` goes through the operations: none
  divides by 0 or shifts by more than a word, and the result is cut.
* `MemoryOfProgramTheorem`: what `Memory_proofs` shows of a bounded client
  holds of every program that the interpreter runs.

**Register allocator** (`DepromoteRegisters_proofs`, first part), for any number of
registers, values, users and timesteps, and any client:

* `AllocatorTypeTheorem`, `PartitionTheorem`. Three lemmas say what pushing,
  popping and taking out do to the set of registers on the stack (`Push`,
  `Pop`, `TakeOut`); one lemma per method (`RequestKeeps`, `EvictKeeps`, ...)
  then needs no sequences. The lemmas are about any state of the right type, so
  they apply to the back end's compositions as well.

**Depromotion** (`DepromoteRegisters_proofs`), for any number of registers and
every function of `Programs`, of any number of blocks and instructions:

* The invariant `DepromoteInv` sets what the pass believes beside what its
  output does. `Right`: the register of each allocation holds its value, and
  is the one the value was last given. `Safe`: each value defined so far in the
  block is in a register, or in its slot, or has no use to come and is used in
  no other block; each value of an earlier block that another block uses is in
  its slot; every allocation is of one of these and was last used in this block.
  `SpilledForOtherBlocks` is not inductive without `Safe`: in the middle of a
  block a value is in a register only, and it is the condition of `evict` that
  takes it to its slot in time. `Safe` is that condition turned around, for which
  the last user of an allocation must be known to be of this block, so that
  `FinalUses` is asked about the right one. The uses to come are tied to the
  place in the block by `Pending`: the front of the queue is the operand that is
  translated next (`NextUse`).
* One call of the pass evicts, spills, fills and defines in a row. `Right` and
  `Safe` are therefore predicates of the record those operators work on, and
  there is a lemma for each operator (`EvictedSafe`, `FreeRegisterSafe`,
  `PlaceSafe`, `ValueSafe`, `ResultSafe`, `RefRegisterSafe`, `TempSafe`, ...) on
  top of those about the allocator.
* `AllocationsTheorem`, `DepromotePartitionTheorem` and `DepromoteTypeTheorem`
  follow, under the hypothesis `OneReturn`: a block that returns is the last of
  the layout. `visitReturnInst` clears nothing, and the finding of run
  `earlyreturn` is what becomes of the next block.
* `SpilledTheorem`, `AllocatorIsRightTheorem` and `ReferenceKeptTheorem` are
  about the values and need a second hypothesis, `NeverSpilled`: no `spill_ref`
  in the function. Then the register of the stack pointer, once it is held, is a
  temporary one with the stack pointer in it (`RefHeld`, a part of `Right`), so
  that no value is placed in it and every fill and spill has the right base.
  What happens to the values otherwise is in section 4 (`SpilledArgPrograms`,
  `SpilledResultPrograms`); the clauses of `Right` and `Safe` about them are therefore
  conditional on `NeverSpilled`, and those about the allocator are not.
* `OperandsHoldTheorem` needs `HeldInv` beside it: while an instruction that
  reports its user is translated, each of its operands is in an allocation last
  used by the current user, which `UsedNow` protects from `evict`; the other
  kinds keep the last operand only, which is enough when they have one. Calls
  with more than one argument in a register are excluded by the hypothesis
  `OneArgument`; the finding of run `callargs` is what becomes of them. It
  assumes `NeverSpilled` too.

Every function of run `depromote` satisfies `OneReturn` and `OneArgument`, and
TLC has checked `DepromoteInv` and `HeldInv` on all of them. Those with a
`spill_ref` do not satisfy `NeverSpilled`: that the values are right in them is
model-checked only, for calls that have no result and at most one argument in a
register. All three hypotheses are about the function translated, none about
what the pass does.

**Integers** (`IntegerLowering_proofs`), for words and types of any width, any
number of variables and calls with any number of arguments:

* `ZeroExtendedTheorem`, `NoTrapAddedTheorem` and `LoweringTypeOK`, under the
  hypothesis `OnlyToWord`: integers are sign extended to words. The finding of
  run `signextend` is what becomes of the others.
* The invariant `LoweringInv` has one clause more than the properties: a
  variable marked as shifted has no bit below the shift. `WeirdArithmetic`
  counts these bits as part of the mask of an `and`, so without the clause its
  `urem` is not the `and` of the source.
* The arithmetic starts from powers of two and division (`Pow2Sum`, `CutTwice`:
  cutting to a word before cutting to the size loses nothing), goes on with
  two's complement (`SignedOfWord`), and with the bits of a number: the set of
  its bits determines it (`FromBitsFacts`, `SumOfBits`). `OneOperation` then
  says that each statement of the machine computes what LLVM defines.
* An `and` becomes a `urem` when the mask shares no bit with its successor. Such
  a mask is all ones (`MaskIsOnes`: of a mask and its successor below the next
  power of two both have the highest bit), and its successor is no larger than
  the type because InstCombine leaves no mask that keeps everything; the
  divisor therefore is not cut to zero.
* A call: what is merged fits in the bits of the arguments merged so far
  (`MergedFits`), so `mul` cuts nothing and `xor` is addition (`XorOfParts`);
  `udiv` and `urem` take the sum apart again (`SplitStep`), which gives
  `PassedUnchanged`.

**Passes over memory accesses** (`MemoryAccess_proofs`):

* `PermutedTheorem`, `LegalTheorem`, `KnownConflictsKeptTheorem`, for blocks of any length, from `ReorderInv`: what
  waits is not in the new order yet, and the counts of what an instruction
  waits for are right (`CountsAreRight`), so what is pushed has all it depends
  on before it (`InOrder`), and the phis come first (`PhisFirst`).
* `EveryChangeReleasesTheorem`: after the blocked area has changed something
  can be pushed, unless all is: the least instruction not yet pushed waits for
  none. This is the step on which the end of the loop rests; the liveness
  itself, `Terminates`, is checked by TLC.
* `FewSwitchesTheorem`: the order the pass leaves changes area at most once more
  often than the one it found. Each instruction of the old order is in a phase
  (`Phases`), the number of changes up to it. `InPhase(k)`: when the loop is in
  its k-th round everything of the phases before k is placed, and the new order
  has had at most k - 1 changes. A round that ends has placed its phase, since
  the least instruction of it that is left would wait for nothing; so there are
  no more rounds than phases and the one the choice of the first area may cost.
* `StateAlwaysRight` and `ResetsAlwaysPay`, for every
  stack and heap with the gap between them at least the price of a reset: what
  the pass takes for the area of the last access is the area of the head, for
  any walk through blocks, calls and returns; so the head stands across the gap
  when a reset is inserted, and the way it is spared is longer than the reset
  costs.

**Storage** (`Storage_proofs`), for every size of the stack, the heap, the
globals and the frames, any depth of calls and any sequence of mallocs and
frees. All but `GlobalsPlacedTheorem` are under the hypothesis `SignedSizes`: no
malloc asks for more than half the address space. Section 4 says what
becomes of the others. `SafeSp` shows that for these sizes
the wrapped signed comparison is the one the code's comment states.

* `GlobalsPlacedTheorem`, from `LayoutInv`. The subtraction in `StackPlace` may
  wrap, and the state in which it has is not excluded while the compiler runs.
  The invariant is therefore conditional: AS LONG AS the globals on the stack
  take no more than the stack, the offset is the stack's end minus their size,
  and the globals lie above it, apart. The emitter's check supplies the
  condition: main's frame contains the globals, and the frames of a module that
  is compiled are smaller than the stack.
* `StackInvariant`: `FramesInv` (each frame lies below where it was called;
  from the third on, where it was called IS the base of its caller; `sp` is the
  base of the running function, or below main's after an `alloca_bytes`) and
  `OwnedInv` (a block of the program is allocated, or lies between main's base
  and the lowest address main has taken; the allocated blocks are exactly those
  and the globals' block). A return gives the caller back the `sp` it had
  because of the second clause of `FramesInv`. A block moved to the stack is
  freed only where the free is converted, because then all frees are in main on
  no loop.
* `AreasDisjointTheorem`, `OwnedIsThereTheorem`, `NothingLeaksTheorem`,
  `FreesAreValidTheorem` follow from the two invariants together.
* `StackSufficesTheorem`. The sum of the frames is treated as a set:
  `BudgetInv` says that `TotalStackUsage` is the cardinality of the pairs of an
  emitted function and a byte of its frame. `ChainInv` extends `FramesInv` to a
  program that has overflowed, and says that only main spills. Were no function
  in progress twice and nothing taken by main, each byte of the stack and of
  the overflow, but those of the one spilled word, would be a different byte of
  a frame (`FramesTile`, `FramesCover`): more than `TotalStackUsage` allows,
  which is at least a word less than the stack because both are whole words.
* `StorageTypeTheorem`: from `LayoutInv`, `StackInv` and `TypesInv`, the rest of
  the types, which `StackInv` itself needs: `sp` is not negative when the room
  left is computed.

**Induction.** The library's induction theorems take a predicate as a parameter,
which the provers cannot instantiate. `Induction` therefore states induction
over SETS of numbers, from the library's theorem that a well-founded order has
minimal elements (`LeastNat`, `NatIsInductive`, `UpTo`), and uses it once and
for all to show that functions defined by recursion exist (`IterateExists`,
`FollowsExists`, `ReachedExists`): only then may a proof unfold them. It also
has what the arithmetic of both machines needs: quotient and rest, and powers of
two.

**Only model-checked**: that no assertion of the pass fails (a run of
`depromote` without deadlock: ENABLED is out of the prover's reach);
`Terminates` is liveness, which this prover does not handle under fairness.

## 6. Plan

All of the plan is done. What could come next: which calls with a spilled
reference are translated correctly, as a condition on the function weaker than
`NeverSpilled` to prove the theorems of the depromotion from (calls without a
result and with one argument to fill are, in the run); the phi copies'
temporaries; the address that a getelementptr computes.

## 7. Not modelled

* `RemoveUnsupportedOps` and `CheckConstExpr`: one local rewrite each, no state.
* The driver (`core/main.cpp`): options and calls of `opt`. The order of its
  passes is built into `MemoryAccessPasses` and `Storage`; two compilers that
  share temporary files are a hazard without a property, and so is the option
  that leaves out InstCombine but not the pass that relies on it.
* The text of the assembly, the regular expressions of the parser's lines, the
  logs and costs of the interpreter other than those of the head.
* `free_bytes`: no pass asks for it (`MemUseOptimization.cpp:107` passes 0).
* The expansion of getelementptr into an address, and the temporaries of phi
  copies.
* What a program computes when `MemUseOptimization` drops one of its calls:
  `FreeFn` is not initialised in a module without a free and may happen to be a
  function that main calls. `Convert` has the outcomes that touch storage: the
  pass goes on, gives up, or the compiler crashes on the equally indeterminate
  `FreeTy`. A call that is dropped leaves storage alone, and which calls the
  program makes is open in `Storage`.
* The stack of the host, on which `exec_function` recurses: `MaxDepth` bounds
  it.
* The test scripts and `plot.py` (I/O), LLVM's own passes run through `opt`
  (external), `test/SimpleBackend.cpp` (the earlier back end, not on the
  compiler's path).
