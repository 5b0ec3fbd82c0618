# m68k-emu: TLA+ specification, model checking and proofs

m68k-emu is a Motorola 68000 emulator as a C++ library. A host program creates a
memory and a `CPU`, loads a program, and calls `CPU::step()` again and again. This
directory specifies what one step does to registers and memory, how the opcode
table is built, how a program is loaded and listed, and what must hold over many
steps; TLC checks it on small machines, and TLAPS proves every safety property that holds,
for machines of every size.

## 1. Inventory

| Component | State | Operations | Talks to |
|---|---|---|---|
| `BaseMemory` (`memory.cpp`) | bytes, size | `get`, `set` of a byte, word or long; throw on an odd address or past the end | everything that touches memory |
| `SimpleMemory`, `AlignedMemory` | the buffer | allocation with a memory test, release | `BaseMemory`, `CPU`, the full test's `TestCpu` |
| `Registers` (`registers.cpp`) | D0-D7, A0-A6, USP, SSP, PC, status register | sized `get`/`set`, flag `get`/`set`; A7 is SSP in supervisor mode | `CPUState`, every instruction |
| `helpers.hpp`, `defines.hpp` | none | masks, flag predicates, mode classes | instructions |
| `CPUState` (`cpu_state.cpp`) | a memory pointer and a memory reference, registers | construction, copy, `operator=`; `stackPush/Pop`, `getControlAddress`, `getData`, `getDataSilent`, `setData`, `checkCondition` | memory, registers |
| 40 instruction classes (`src/instructions`) | fields filled from the opcode | constructor, `execute`, `disassembly` | `CPUState` |
| `InstructionDecoder` | table of 65536 instructions | table generation, `Decode` | instruction constructors |
| `CPU` (`cpu.cpp`) | `CPUState`, decoder | `step` | all of the above |
| `load_elf` (`cpu.cpp`) | none | copies sections to memory, sets SP and PC | ELFIO (vendored), memory |
| `Disassembler` | none | text of an operand, moving the PC past it | `CPUState` |

There are no threads, messages or timers: the emulator is a sequential program
that one host thread drives. What is hard about it is different:

* **Exceptions in the middle of a step.** A memory access throws on an odd
  address or past the end. An instruction makes up to four accesses, and no code
  rolls anything back: what the host finds after catching the exception is
  whatever had been written by then, and it may call `step()` again.
* **Two computations of one operand.** Read-modify-write instructions read with
  `getDataSilent`, which moves nothing, and write with `setData`, which moves the
  address register and the program counter. The two are separate 100-line
  switches that must agree in 9 modes and 3 sizes.
* **The program counter is threaded through operand accesses.** Each access
  consumes its own extension words; the length of an instruction is nowhere
  written down, it is the sum of what its accesses happened to consume.
* **The stack pointer** is two registers, must stay even under byte accesses,
  and carries return addresses and frames across arbitrary program sequences.
* **A first-match table** of 62 overlapping rows decides about 65536 opcodes.
* **Width**: 8, 16 and 32 bits, casts, lost carries and undefined behaviour.
* **Effects over two instructions.** Flags are written by one instruction and read by
  the next (`add` then `addx`, `cmp` then `scc` or `bcc`); an address is computed by a
  store in one function and by a load in another.
* **Listing against running.** `disassembly()` walks the extension words with code of
  its own, moves the same program counter, and can throw half-way.
* **Loading.** `load_elf` stores byte by byte in two nested loops, and any store can
  throw out of both; afterwards the host may load again, or run what is there.
* **Binding.** A `CPUState` holds its memory as a pointer, which `operator=` copies, and
  as a reference, which it cannot rebind.

What makes the components correct: values stay inside their types; a failed step
leaves memory, data registers and flags alone; the two operand computations
agree; the program counter ends behind the instruction; the stack pointers are
kept apart and even; calls and frames nest; every opcode decodes to a
well-formed instruction made for it; flags mean to the next instruction what the last
one computed; a listing shows what execution does; a load does all of its stores or
stops at the first one that fails; a CPU works on its own memory. `PROJECT.json` lists the hazards line by
line, with the properties for each.

## 2. Modules

| Module | Models |
|---|---|
| `Defines` | enumerations, mode classes, and what a decoded instruction is (`InstructionsWith`) |
| `Helpers` | the value domain (`Byte`, `Word`, `Long`), masks, sign extension, flag predicates |
| `Registers` | the machine record; register `get`/`set` with the A7 bank; flags |
| `Memory` | `MemGet`, `MemSet`: masks, exceptions, big-endian bytes |
| `CPUState` | the stack and operand accesses, condition codes |
| `Instructions` | `execute()` of the 40 classes, one operator each |
| `CPU` | `step()`: one action per class, a faulting fetch, the host's mode switch; the properties |
| `Calls` | `CPU` with a history of the values calls and `link` have saved |
| `Programs` | `CPU` with the machine a program started in and the instructions it executed |
| `Disassembly` | `disassembly()` of the 40 classes and `effectiveAddress`; a host that lists a program, then runs it |
| `ElfFile` | what `load_elf` takes from a file: header tests, entry, sections |
| `LoadPromise` | abstract: the three outcomes of a load, each as one step |
| `Loader` | `load_elf` as it runs: the loops over sections and bytes, with the throw; implements `LoadPromise` |
| `Decoder` | the 40 constructors, the mask table, the loop that builds the opcode table |
| `Binding` | which memory a `CPUState` works on: construction, failed allocation, copy, assignment, destruction |
| `MCBase`, `MCCPU`, `MCCalls`, `MCPrograms`, `MCListing`, `MCLoader`, `MCBinding` | instances for TLC |
| `StateProofs` | lemmas on values, registers, memory and operand accesses (`Quiet`, `Safe`) |
| `CPUProofs` | one lemma per group of `execute()`s; types, failure atomicity, stack banks |
| `OperandProofs` | modular arithmetic; program counter, stack alignment, write-back |
| `ProgramProofs` | calls and frames, two-limb arithmetic, comparisons, division, store and load |
| `LoaderProofs` | `Loader` implements `LoadPromise`; what is loaded can run |
| `DisassemblyProofs` | listing is quiet; execution follows the listing |
| `DecoderProofs` | the opcode table: well-formed entries, each for its own opcode, none shadowed |
| `BindingProofs` | memory binding |

The proof modules form the chain `StateProofs <- CPUProofs <- OperandProofs`, and
`ProgramProofs`, `LoaderProofs` and `DisassemblyProofs` extend it with the host they are
about. `DecoderProofs` extends `Decoder`, `BindingProofs` extends `Binding`.

`Defines <- Helpers <- Registers <- Memory <- CPUState <- Instructions <- CPU` is the
chain of EXTENDS; `Calls`, `Programs`, `Disassembly` and `ElfFile` extend `CPU`, each with
its own host; `Decoder` extends `Defines`; `Binding` stands alone. The interface between
the two halves is `InstructionsWith`: `CPU` assumes that its table holds such
records (`OpcodeTableAssumption`), and `TableWellFormed` proves that the real table does
(`EntriesWellFormed`; the run `decoder` visits all 65536 opcodes).

### State

A machine is one record: `reg` (18 registers; `REG_USP` and `REG_A7` are the same
number, as in the code), `mem` (a function on `0 .. MemSize - 1`), `ccr` (the five
flags), `sup` (supervisor bit) and `exc`. `exc` is the outcome of the last `step()`:
`"none"`, the name of the exception it threw, or `"fatal"` when the process ended.
An operator of `CPUState` or `Instructions` is the C++ function: it takes a machine
and gives a machine, or a record of a machine and a value. After a throw
(`Ok(s)` false) every later access is the identity, which is how C++ unwinding
skips the rest of a function.

Each `step()` is one atomic action: nobody can observe the machine inside it
except through an exception, and those are modelled at the access that throws.

### Abstractions

* **Byte width.** The machine is parameterised by `Bits`, the bits of a byte. A
  word is two bytes, a long four, an address three, exactly as in the code, whose
  instance is `Bits = 8`. `Pow2`, `LogicTable` and `IndexField` are the arithmetic
  that depends on the width (powers of two; bitwise and/or/eor of two bytes; the
  register and size fields of an index extension word).
* **Opcodes.** `CPU` takes the table as a constant: an opcode word is an index,
  the instruction is a record. What bits make which record is `Decoder`'s subject.
* **Undefined behaviour.** A shift count outside 0 .. 63, a product that overflows
  `int` and a zero divisor are choices over what the machine can observe (`u` in
  `BitShiftExecute`, `MulExecute`, `DivExecute`); a division by zero may also end the
  process (`"fatal"`).
* **Status register.** Trace and interrupt mask are left out: no instruction reads
  or writes them.
* **Oddities kept as they are.** The shifts compute flags but store no result;
  their memory form consumes no extension word. `btst` writes its operand back.
  The long carry is lost in 32-bit arithmetic. `getData` zero-extends an absolute
  word address, `getDataSilent` and `setData` sign-extend it.

`HostMode` is external: no code of the library sets the supervisor bit, but the
register interface is public and the bank switch in `Registers` exists for it. The
hosts of `Programs` (steps until the first exception, as the test programs do) and of
`Disassembly` (lists up to the first exception, sets the program counter back, runs)
are external as well, and so is ELFIO: a file is the record of what `load_elf` asks for.

In `Disassembly` a text is the number an operand shows and the index register it
names; mnemonics and punctuation are left out. Two operands are evaluated in one chain
of `<<`, and the build sets C++14, which does not order the two calls: `Orders` is the
choice of the compiler, taken anew for every line.

In `Loader` one iteration of a loop is one step, because a throw ends `load_elf` between
two of them. Nobody else sees the machine meanwhile: `seen` is the machine as the
caller last saw it, and the refinement maps `LoadPromise`'s `cpu` to it. In `Binding` one
value stands for all bytes of a memory, and `"wild"` is an access outside any memory,
after which nothing is claimed.

## 3. Runs

| Run | Instance | States | Shows |
|---|---|---|---|
| `cpu_operands` | 63 instructions with operands: arithmetic, compare, logic, bit, shift, move, multiply, divide | ~67,000 | the properties of `CPU` |
| `cpu_flow` | 23 jumps, calls, branches, frames, effective addresses | ~106,000 | the same, over programs |
| `calls` | all programs of 4 words over 9 instructions | ~68,000 | calls and frames nest |
| `programs` | 62 instructions in pairs: limbs, compare and set, divide and multiply, store and load | ~42,000 | what two instructions compute |
| `listing` | 50 instructions, listed and then run | ~60,000 | listing and execution agree |
| `loader` | 7 files, loaded in any order, programs run in between | ~35,000 | `load_elf` keeps its promise |
| `binding` | a CPU, a TestCpu, a copy, a state without memory | ~300,000 | a CPU works on its own memory |
| `decoder` | all 65536 opcodes | 65,537 | the opcode table |
| `bsr_wide`, `ext_long`, `decoder_shift`, `compare_signed` | as above | | findings (section 6) |

Properties of the CPU runs:

* `TypeOK`: every register, byte and flag stays in its C++ type.
* `FailedStepIsQuiet`: a step that throws changed no memory, data register, flag
  or mode. Address registers, stack pointer and program counter may have moved:
  in this code they do (`stackPush` decrements first).
* `StackBanksSeparate`: the banked-out stack pointer never changes; only the host
  changes the mode, and that moves nothing else.
* `StackStaysAligned`: an even active stack pointer stays even through everything
  but an instruction that loads A7, failed steps included.
* `PcPassesInstruction`: an instruction that neither branches nor throws ends right
  behind its last extension word. `Length` adds up an instruction's words on its
  own, from its class and modes, not from what the accesses consumed.
* `WriteBackHitsOperand`: if the silent read of a read-modify-write operand
  succeeds, so does the write, and it hits the bytes that were read.

Properties of `calls`: `RtsResumesCaller` and `UnlkRestoresFrame` relate a step to the
call or `link` that happened any number of steps before, as long as nothing has
overwritten the saved bytes. Programs overwrite themselves with what they push;
those runs are included. `Link` and `Unlk` on A7 itself are, too.

Properties of `programs`: `WideArithmetic` (`add` then `addx`, `sub` then `subx`, on two
bytes or two words: result, carry, zero and sign are those of the number of twice the
width), `UnsignedOrder` (after `cmp`, the conditions hi, ls, cc, cs, ne, eq are the
unsigned order of the operands), `QuotientTimesDivisor` (after `div` and `mul` by the same
register, signed or unsigned, the product is the dividend but for a rest smaller than the
divisor and of the dividend's sign: `mul` finds the quotient where `div` put it, beside the
remainder, as a word of its kind) and `LoadFindsStore` (what a `move` stores through an
addressing mode, a `move` through the same mode and extension words loads; a push is
matched with a pop, upwards or downwards; the run has seven pairs of modes).
`StoreAndLoad` compares the extension words as they stand in memory when each
instruction reads them, so that a store that overwrites the load behind it is included.

Properties of `listing`: `ListingMovesOnlyPC` (listing changes nothing but the program
counter, an exception half-way included) and `ExecutionFollowsListing` (an instruction that
executes goes on at the next line, or at the target its text shows; `jsr` saves the next
line; `lea` and `pea` give the address the text shows; what executes can be listed, unless
the text of the second operand comes first and the instruction wraps around the last
address, `Wraps`). A line is dropped when one of its bytes changes; `BytesOf` counts them
along wrapped addresses.

Properties of `loader`: `KeepsPromise` is the refinement: a refused file changes nothing; a
load that throws leaves the registers and exactly the bytes before the offending one;
a completed load has, at each address, the byte of the last section to claim it.
`LoadReturns`: every call returns or throws. `ReadyToRun`: after `true` the next step fetches
the word at the entry, and a push works, in either mode and after any failed load.

Property of `binding`: `WorksOnOwnMemory`, through every sequence of construction, copy and
assignment of `CPUState`s, and construction and destruction of whole CPUs. A whole CPU is
neither copied nor moved in the model: its decoder holds `unique_ptr`s, so it cannot be
copied, and no code of the repository moves one (`CPU cpu = CPU();` in the tests constructs
one object, every compiler in use elides the move). An assigned `CPUState` goes on with the memory it
was constructed on, whatever `memoryPtr` says; this is what keeps two CPUs apart.

Properties of `decoder`: `EntriesWellFormed`, `EntryIsForItsOpcode` (no instruction
left over in the local pointer), `NoShadowedEncoding` (the `break` after the first
match loses no encoding) and `TableCompleted`.

### Bounds

* `Bits = 3`: a byte has 8 values, a word 64, a long 4096, an address 512. Three
  bits are the fewest that have a sign, a carry and values in between; a word still
  addresses memory with room outside it, on both ends of the signed range.
* `MemSize` 16 (24 in `calls`): room for an instruction with two long extensions,
  its operands and a stack; small enough that accesses straddle the end.
* Boot sets (`BootWith`): each instruction of a table at address 0, with three pairs of
  extension words (in `cpu_operands` a fourth, odd one, with a stack pointer near the
  end of memory), an even and an odd A0, both values of X and C; three values of D0
  (zero, negative, positive) in `cpu_operands`. `calls` starts with A0 = 4, inside the
  program. Execution is followed from there without a step bound: what follows the
  instruction in memory (extension words and data) is executed as well.
* `programs`: each pair of instructions at address 0, the four data registers over the
  values around zero, the change of sign and the wrap (`Edge`), for bytes and words;
  comparisons over all bytes; extension words that are small, odd and in the upper half.
  Division: dividends over all words, some in a long with more above them, divisors around
  zero, the change of sign and the wrap.
* `listing`: each of 50 instructions, four pairs of extension words, and one of six
  instructions behind them; the run after the listing is not bounded. The memory is
  smaller than the address space, so that no line wraps; the proof covers that case.
* `loader`: `Bits = 2`, `MemSize = 12`, so that a section can end outside the memory, wrap in
  the address space (64) and in 32 bits (256). The files (`MCFiles`): unreadable, not
  executable, overlapping sections with a note and a .bss between, a section across
  the end of memory, one outside it, one that wraps, none. In a memory
  smaller than the address space a section that wraps stops at its first bad byte; that a
  section goes on at address 0, in a memory that fills the address space as the default
  one does, is covered by the proofs (`PromiseKept`, `LoadedProgramRuns`), not by the run.
* `AddressSlack = 4` (CONSTRAINT of `cpu_flow`, `calls`, `bsr_wide`, `listing`, `loader`): a machine whose
  address registers have left memory by more than that is not followed further:
  every access through such a register throws, and more distance shows nothing new.
* `ProgramLength = 4`: two calls, a frame and a return fit; loops arise from
  backward jumps and returns.
* `FirstOpcode`, `LastOpcode`: the whole range in `decoder`; `decoder_shift` starts at
  0xE000, the first shift row.

Deadlock is checked except in `cpu_operands`, where the process ends at a division by
zero, in `programs` and `compare_signed`, whose host stops at an exception, in `listing`,
whose host has nothing to run when nothing could be listed, and in `binding`, where a
wild access ends the process.

### Fairness

Two specifications have fairness. The decoder's, `WF_opcode(Advance)`: the constructor runs
its loop on one thread and blocks on nothing, so an enabled iteration is eventually
taken. The loader's, `WF_loaderVars(Loop)`: `load_elf` runs on the host's thread and waits
for nothing, so that a call that has begun goes on. `CPU` promises no progress (the host decides whether to call
`step()`), and no liveness is claimed of it.

## 4. Proofs

All theorems hold for every `Bits`, `MemSize`, opcode table, boot set and set of files
that satisfy the assumptions: `Bits` is a positive natural and `Pow2` its powers of two;
memory has between 1 and `AddrSpace` bytes; `LogicTable` maps bytes to bytes and
`IndexField` names registers; the table maps every word to a well-formed instruction (which
`TableWellFormed` proves of the real table); boot machines are machines; files are files.
The decoder's loop runs over any range of opcodes within 0 .. 65535.
TLC evaluates each of them on the instances.

| Theorem | Statement | Module |
|---|---|---|
| `TypeCorrect` | `Spec => []TypeOK` | `CPUProofs` |
| `FailureAtomic` | `Spec => FailedStepIsQuiet` | `CPUProofs` |
| `BanksSeparate` | `Spec => StackBanksSeparate` | `CPUProofs` |
| `CounterPasses` | `Spec => PcPassesInstruction` | `OperandProofs` |
| `StackAligned` | `Spec => StackStaysAligned` | `OperandProofs` |
| `WriteBack` | `Spec => []WriteBackHitsOperand` | `OperandProofs` |
| `CallReturns` | `NarrowBsr` implies `CallsSpec => RtsResumesCaller` | `ProgramProofs` |
| `FrameRestored` | `CallsSpec => UnlkRestoresFrame` | `ProgramProofs` |
| `WideArithmeticExact` | `ProgramsSpec => []WideArithmetic` | `ProgramProofs` |
| `ComparisonsOrder` | `ProgramsSpec => []UnsignedOrder` | `ProgramProofs` |
| `DivisionsMultiplyBack` | `ProgramsSpec => []QuotientTimesDivisor` | `ProgramProofs` |
| `LoadsFindStores` | `ProgramsSpec => []LoadFindsStore` | `ProgramProofs` |
| `PromiseKept` | `LoaderSpec => KeepsPromise` (the refinement) | `LoaderProofs` |
| `LoadedProgramRuns` | `LoaderSpec => []ReadyToRun` | `LoaderProofs` |
| `ListingIsQuiet` | `ListSpec => ListingMovesOnlyPC` | `DisassemblyProofs` |
| `ExecutionFollows` | `ListSpec => ExecutionFollowsListing` | `DisassemblyProofs` |
| `TableWellFormed` | `Spec => []EntriesWellFormed` | `DecoderProofs` |
| `EntriesOwnOpcode` | `Spec => []EntryIsForItsOpcode` | `DecoderProofs` |
| `NothingShadowed` | `Spec => []NoShadowedEncoding` | `DecoderProofs` |
| `OwnMemory` | `Spec => []WorksOnOwnMemory` | `BindingProofs` |

### The arguments

**Types, failure, banks.** `TypeOK` is inductive as it stands: a machine record holds all of
the state, so the work is in the 40 instructions. It rests on two relations between
machines, defined in `StateProofs`:

* `Quiet(s, t)`: `t` is a machine with the memory, flags, mode, data registers and
  banked-out stack pointer of `s`. Fetches, operand reads, register moves of
  addressing modes and every access that throws are quiet.
* `Safe(s, t)`: `t` is a machine, the mode and the banked-out stack pointer are kept,
  and if `t` has failed then `Quiet(s, t)`.

Quiet steps compose, and a quiet step followed by a safe one is safe (`QuietSafe`).
`StateProofs` shows the reads quiet and the writes safe, access by access.
`CPUProofs` has one lemma per group of `execute()`s that cuts it at its single
committing write: everything before is quiet, the write is safe, and what comes
after (the flags) happens only if the write went through. `StepSafe` collects the 40
actions and the faulting fetch. This is also the reason the code is failure-atomic: no
`execute()` makes an access that can throw after its first write of memory, data register
or flag.

**Program counter and stack pointer.** `Passes(s, t, n, a)` says that the way from `s` to `t`,
unless it failed, moved the program counter by `n`, and that, if `a`, an even stack
pointer is still even. Passing composes (`PassesTrans`, modulo the width of a long), every
operand access passes the size of its extension (`PassesRead`, `PassesStore`), and every
`execute()` that does not branch passes `Length`: the two sums, one over what the accesses
consumed and one over the modes of the instruction, agree class by class (`LengthCases`).
The stack pointer stays even because its strides are even and `Long` is.

**Write-back.** `ReadBack` is the lemma on bytes: what `write_real_mem` splits, `read_real_mem`
joins, in all three sizes (`BytesJoin`, from the uniqueness of quotient and remainder).
`StoreHits` shows that `setData` stores at the address at which `getDataSilent` read.

**Calls and frames.** The invariant `CallsInv` is stronger than the properties: every value in
the history is still in memory, at its slot (`Held`), as long as its bytes have not been
written. A call or `link` establishes it (`JsrSaves`, `BsrSaves`, `LinkSaves`: the push stores at
the slot the history names), any step keeps it because the history forgets a slot the
step changed (`IntactHeld`), and `rts` and `unlk` read it back. `CallReturns` has the hypothesis
`NarrowBsr`: no entry of the table is a `bsr` with a displacement word or long. Without it
the statement is false of the code, as the run `bsr_wide` shows.

**Two instructions.** `ProgramsInv` says that the history explains the machine: `cpu` is what
`start` becomes when the instructions of `trace` execute (`Traced`, `Executed`), for up to two
of them. The four properties are then facts about two `execute()`s. For limbs, a sum or
difference leaves the range of its size at most once, the carry predicate sees it because
two narrow operands fit a long (`LimbSum`, `LimbDifference`), and `k1` wraps of the low limb
enter the high limb as the extend flag (`WideExact`, `WideNumber`). A comparison is such a
difference without the store. For division, `Truncated` is the law of quotient and rest,
`QuotientFits` says that a signed quotient is a word unless the smallest one is divided by
-1, and `SignedFinds` that the cast in `mul` undoes the cast in `div`. For store and load, `StoreLands` gives the bytes and registers
after a store that went through, `BackAddress` shows that the load's address is the store's
although a register and the counter moved, and `ReadBack` does the rest.

**Loading.** `LoaderInv` relates the loops to what the caller saw: the machine is `seen` with
the bytes stored so far, in order, the last store to an address winning. `LoadPromise` is
instantiated with `seen` for its `cpu`, so that its operators are copies of the model's with
another variable; the `Same` lemmas identify them. A return of the loops is one step of the
promise and every iteration before it a stutter. `LoadedProgramRuns` adds to the invariant
that after a load that returned true program counter and stack pointer are those it set.

**Listing.** `Walks(s, t, n)`: only the program counter, which moved by `n`, and the
exception differ. Each `disassembly()` is a composition of walks, in either order of its
operands.

`ExecutionFollows` needs more: the listing was made steps ago. `LinesHold` says that every
line still shows what memory holds now (`Shows`): where it ends and the operand its text
names are functions of the bytes at its address. A line is added so (`LinesStart`,
`LinesStay`), and it stays because it is dropped when one of its bytes changes. The first
half of the property is then a fact about one step, `LineFollows`: classes that do not
branch move by `Length` (`StepPasses`), which is what their text consumed (`TextLength`);
a jump goes to, a call saves, `lea` and `pea` compute what the text names (`ControlNamed`);
a branch goes to the address its text shows or to the next line. The second half,
`ExecutedIsListed`, goes backwards: an exception never goes away (`ThrownStays`), so a step
that ended well read all of its extension words, and the text reads the same ones
(`OperandReadable`). With the operands in the other order the text reads extensions
of the same sizes at swapped places: two reads that are in memory one after the other are in memory in the other
order too, if they do not wrap (`SwapReadable`).

**Decoder.** `LoopInv` says that between two passes of the loop the local pointer is
empty, and that what was pushed last is one valid entry, made for its opcode and well formed.
There is one lemma per group of constructors (`Proper`: what it makes, if valid, is a
well-formed instruction), and `CreateProper` collects them.
For `NothingShadowed` the masks are compared nibble by nibble: each fixes the
top nibble (`LineOf`), and among the rows of one line `RowPairs` leaves three cases for two rows
that match one opcode: they make the same class, the first never rejects (`AlwaysValid`), or
they are one of four pairs (`Overlaps`: addx and add, subx and sub, scc and addq, scc and
subq), where the size bits on which the first rejects are those the second rejects too.

**Binding.** The inductive invariant adds only the type of the states; the reason is that no
operation changes a bound reference (`AssignedFacts`) and an owner is destroyed after the
copies of its state.

TLC checked the inductive invariants (`LoaderInv`, `CallsInv`, `LinesHold`) on the instances of their runs
before they were proved.

### Only model-checked

`TableCompleted` and `LoadReturns` are liveness under fairness, which is out of the prover's
reach. Every invariant and every action property of a passing run is proved; the properties
of the four runs that expect a violation are false of the code, and section 6 says why.

## 5. Not modelled

`debugPrint` and all text output, the mnemonics, register names and suffixes of the
disassembler included; ELFIO, beyond what `load_elf` asks of it; the section table that
`load_elf` prints; the Python
script that printed the mask table (offline; its output is in `Decoder`); the tests and
their helpers, which served as documentation.

## 6. Findings

* `bsr_wide`: `bsr` with a displacement word or long pushes the program counter it read
  before the displacement was consumed (`bcc.cpp:51`), so `rts` executes the
  displacement. `test_in_jsr_rts.cpp:34` expects `rts` behind the call.
* `ext_long`: `ext.l` sign-extends the low byte of the word (`ext.cpp:29`); the test's
  operand -10 fits a byte and does not show it.
* `decoder_shift`: `bit_shift.cpp:43` has the two bit positions of the shift type
  exchanged between memory and register form; an opcode of the row "Lsd" decodes as
  another shift.
* `compare_signed`: `cmp` computes its overflow flag with the predicate of an addition
  (`cmp.cpp:51`), so the signed conditions ge, lt, gt, le are wrong where the sum or the
  difference of the operands leaves the range. `test_bubblesort.cpp:23` expects sorted
  data, and its program (`bubblesort.c:37`) compares signed numbers, small ones.

Deviations the models keep, which the passing properties name and leave out:

* the sum and difference of longs are computed in 32 bits (`add.cpp:61`): the carry into
  a second long limb is lost (`WideArithmetic` is about bytes and words);
* an absolute word address of the upper half is zero-extended by `getData`
  (`cpu_state.cpp:186`) and sign-extended by `setData` (`LoadFindsStore` leaves it out);
* a shift of a memory operand does not move past its extension word
  (`bit_shift.cpp:82`), its listing does (`ExecutionFollowsListing` leaves it out);
* the shifts store no result;
* `div` takes the low word of its dividend, not the long, and the quotient of the smallest word
  by -1 wraps to the smallest word in the cast (`div.cpp:35`; `QuotientTimesDivisor` leaves this
  quotient out); a zero divisor is undefined;
* the operands of one listing are evaluated in an order C++14 leaves open
  (`move.cpp:92`): evaluated from the right, the texts of two operands that both have
  an extension word are exchanged, where `test_disassembler.cpp:86` expects them in
  order. Boundaries and targets do not depend on it;
* `CPUState()` binds its reference to a null pointer (`cpu_state.hpp:9`); the tests
  construct such states and write to their memory (`test_disassembler.cpp:76`);
* an `AlignedMemory` whose allocation failed is written to by the memory test of
  `BaseMemory` (`memory.cpp:58`);
* the immediate bit instructions on a data register read a long bit number
  (`bit_manip.cpp:48`), in execution and in listing alike;
* the default memory fills the 24-bit address space (`defines.hpp:58`), so that an
  instruction at its end goes on at address 0 and executes. If the compiler takes the text
  of the second operand first, `disassembly()` may look for a long extension across the
  last address and throw (`disassembler.cpp:129`; `ExecutionFollowsListing` leaves it out).

## 7. Plan

Done: values, registers, memory, operand accesses, all instructions, `step()`, calls, the
decoder, two-instruction programs, listing, loading with its abstract specification,
memory binding; every safety property of these proved, and the refinement.

Left open are the hazards without a property, each with its reason in `PROJECT.json`. For some
nothing in the repository says what is right: the flag of a shift by zero, the sign of a
product that overflows `int`, the long bit number of the immediate bit instructions, the
contents of .bss after a second load. The memory test on a null buffer ends the process. For the
others the property one would state is false of the code, section 6 lists them among the
deviations, and the property next to them leaves the case out: the carry of a long, the absolute
word address of the upper half, the extension word of a memory shift, and the text read from the
right across the last address.

## 8. Running

    tlc -workers 2 -config cpu_operands.cfg MCCPU
    tlc -workers 2 -config cpu_flow.cfg MCCPU
    tlc -workers 2 -config calls.cfg MCCalls
    tlc -workers 2 -config decoder.cfg Decoder
    tlc -workers 2 -config programs.cfg MCPrograms
    tlc -workers 2 -config listing.cfg MCListing
    tlc -workers 2 -config loader.cfg MCLoader
    tlc -workers 2 -config binding.cfg MCBinding
    for m in State CPU Operand Program Loader Disassembly Decoder Binding
    do tlapm ${m}Proofs.tla; done
