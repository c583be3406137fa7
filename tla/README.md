# MicroComp in TLA+

MicroComp is an eight-bit computer built from TTL chips and microcode ROMs. The
repository holds a clock-level emulator of it in C, the microcode and the
microassembler that makes its ROM images, an assembler and sample programs, and
a hardware debugger: a microcontroller that runs Duck-Lisp bytecode sent to it
over a serial line in the virtual machine DuckVM.

This directory models the emulated computer with its microcode, the
microassembler, DuckVM as the debugger runs it, the debugger's serial protocol,
and the programming of the microcode memories over its pins. TLC checks each on
small instances, and TLAPS proves facts about the computer, DuckVM's heap, stacks and
arithmetic, the protocol, the microassembler and the pins for every value of their
parameters. That the computer implements its instruction set is among them. Paths and
line numbers below are relative to `src/`.

- [1 Inventory](#1-inventory)
- [2 Plan](#2-plan)
- [3 The computer](#3-the-computer)
- [4 DuckVM](#4-duckvm)
- [5 Uploads](#5-uploads)
- [6 The microcode memories](#6-the-microcode-memories)
- [7 The microassembler](#7-the-microassembler)
- [8 The runs](#8-the-runs)
- [9 What is proved](#9-what-is-proved)
- [10 Where code and text disagree](#10-where-code-and-text-disagree)
- [11 What is not modelled](#11-what-is-not-modelled)

## 1 Inventory

| component | state it keeps | operations |
|---|---|---|
| emulator (`Emulator/`) | registers A, B, C, F, instruction register, PC, microprogram counter, microcode register, two memories, output port | `clock`, `step`, `reset`, main's loop of 2000 steps |
| microcode v1.1.3 (`microcode/v1.1.3/`) | none: 64 microprograms of up to sixteen 22-bit words | read by every clock |
| instruction set (`MicroComp Reference v1.1.3.txt`, the microcode's own words) | the registers and memories a programmer sees | 64 opcodes |
| assembler (`assembler/assembler.hna`) | labels and the image being emitted | one macro per instruction, `assemble:` |
| sample programs (`software/`) | data memory, the port | branch test, multiplication, Cylon and others |
| microassembler (`microcode/microasm/`) | the source as lines, constants, signals, the ROM words | prepare lines, parse, `generateRoms` |
| debugger firmware (`debugger/microcomp-debugger/src/microcomp-debugger.c`) | the bytecode buffer, the pins | receive, execute, reset, collect; 14 callbacks |
| DuckVM (`.../duckVM.c`) | heap and free list, value stack, upvalue stack, call stacks, globals, user types, error list | `init`, `linkCFunction`, `execute` with about 60 instructions, `softReset`, `garbageCollect` |
| board support (`debugger/lpc_*`) | peripheral registers | vendored NXP libraries |
| Duck-Lisp for MicroComp (`software/lisp/`) | none yet | an unfinished sketch |

How they interact. The microassembler turns the `.uasm` file into ROM images and
the assembler turns a program into a memory image; the emulator reads both
from files and then shares nothing with anyone: it is one sequential loop. The
debugger replaces the microcode of the real board: a host sends a length and a
program over the UART, main calls `duckVM_execute`, the program calls back into
C functions that main has linked as globals, these pop and push DuckVM's stack
and drive pins, and when the program ends, main resets the stacks and collects
the heap before it waits for the next length.

No two threads run anywhere in the repository. But the debugger is one of
several actors: the operator sends programs ahead, a UART with a FIFO of sixteen
bytes receives while a program runs, and memories follow the debugger's pins
while it moves them one by one, and keep their content when it is reset. What
is hard beside that is of other kinds:

- *Ordering within a clock.* Buses, latches, the branch test, the counters and
  the ROM look-up of one clock read partly old and partly new state; an
  instruction is correct only as a sequence of four to eight such clocks.
- *Power-on state.* `microcomp_emulator_reset` runs the clock twice with a
  microcode register that nobody has set.
- *Allocation as a hidden collection.* Any allocation in the middle of a DuckVM
  instruction may collect. What the instruction has made by then must be
  visible to a collector that looks at some types on the stack and not others.
- *Two stacks in step.* Values and the upvalues that capture them are on parallel
  stacks that instructions push and pop in separate calls that may each fail.
- *Lifetimes across programs.* Values stored under symbols survive a program,
  and functions among them keep its code, while main reuses its buffer.
- *Stopping anywhere.* A DuckVM program ends with an error in any call depth,
  and leaves the debugger's pins as they are.
- *Nothing to synchronise on.* A byte lost from an upload shifts the border of
  every later one.
- *Lines moved in place.* The microassembler removes comments and empty lines from
  an array of lines while it reads them, over a text format with few checks.

What makes each component correct, and hence what is stated of it:

- *Emulator with microcode*: every clock is a whole instruction or nothing (refinement of
  the instruction set, as far as manual and code agree on it); the sequencer starts up from
  any garbage and never strays; one driver per bus; program memory changes in STP only.
- *ALU*: overflow is signed overflow; equality can be tested; shifts lose no bit.
- *Sample programs*: the test prints its sequence; the product is right; both end.
- *DuckVM heap*: nothing that is referred to is freed, everything else is.
- *DuckVM stacks and calls*: the stacks stay in step; a captured variable keeps
  its value through every change of place; code that will be returned to stays.
- *Debugger*: after every program the machine is as before but for the globals.
- *Uploads*: what the operator sends runs, as it was sent, in order and once;
  after a fault, again from the next reset on.
- *Microcode memories*: no line has two drivers; no cell is hit on the way from one
  address to the next; afterwards they hold the microcode.
- *Microassembler*: the ROM images say what the source says; a comment or blank
  line changes nothing; every format brings the images to their readers.

`PROJECT.json` lists the hazards behind these, each at its line.

## 2 Plan

Order of work, the most important behaviour first; all of it is done.

1. **Computer**: `Bytes`, `Alu`, `Memory`, `Microcode`, `Emulator`; the
   abstract `Isa` and the refinement in `Retire`; `Assembly` with two
   programs, and `Software` with what they compute.
   Runs `emulator_isa`, `emulator_garbage`, `alu`, `programs`; proofs in
   `AluLemmas`, `AluProofs`, `EmulatorProofs`.
2. **DuckVM**: `DuckHeap`, `DuckNumbers`, `DuckData`, `DuckVectors`, `DuckCalls`,
   composed in `DuckVM`. Runs `numbers`, `duckvm`; proofs in `NumbersProofs`,
   `DuckProofs`.
3. **Uploads**: `Upload`, the abstract `UploadContract`; run `uploads`; proofs in
   `UploadProofs`.
4. **Microassembler**: `Microassembler`, its reference definition `UasmContract`,
   the text formats in `RomFiles`, the v1.1.3 sources and the emulator's signals in
   `MicrocodeRoms`; run `microassembler`; proofs in
   `MicroassemblerProofs`.
5. **Microcode memories**: `Pins`, `Sram`, `SramProgrammer`; run
   `microcode_sram`; proofs in `SramProofs`.

What would come next: a run for heaps in which an allocation fails part of the way
through `push-closure` or `vector`, once someone says what the reset must still achieve
then.

The number of runs is kept small: one per question, with several kinds of
programs, sources or machines in one run where the question is the same.

## 3 The computer

`Emulator.tla` has one action per call of `microcomp_emulator_clock`
(`Emulator/microcomp_emulator.c`), by where the call is made:
`ResetFirstClock` and `ResetSecondClock` from `microcomp_emulator_reset`, and
`Clock` from the loop in `microcomp_emulator_step`, which returns when the
microprogram counter is zero. `steps` counts those returns up to `StepCalls`
(main's 2000), and then the machine stops.

| code | model |
|---|---|
| registers and `pc`, `upc`, `mcr` of `microcomp_t` | variables of the same names; `mcr` is the set of signals asserted, so polarity disappears |
| `progmem`, `datamem` | `prog`, `data`: functions on the addresses ever written (erased bytes read 255, zeroed 0) |
| `printf` on a store to the port | `out`, the sequence of bytes |
| the bus expressions with `&` of all drivers | `DataBus`, `ProgramData`, `ProgramAddress`, with `Driven` |
| generate/propagate or-ed in 16 bits, the carry chain, function bits | `Alu.tla`, line by line, on numbers instead of bits |
| N, E, V, Z, C, S of `f` and the selected condition | `AluFlags`, `FlagSelected`, `BranchTaken` |
| the microcode images | `Microcode.tla`, `Uops(opcode)` and the fill word of the source the images are made from |
| opcode or-ed with the counter's high bits | `MicrocodeAt` |

`Init` allows any content of `PowerOn` in the registers, because main declares
the structure on its stack and sets `pc`, `upc` and the memories only.

`Isa.tla` is the abstract machine: one action per whole instruction on
registers, flags, memories, PC and port, without any of the circuits of the emulator's
arithmetic unit. Its meanings are those of `MicroComp Reference v1.1.3.txt` wherever
the code does the same. Where the code is known to do otherwise, `Isa` says nothing
(section 10): the flags C, N, H and E after an operation, all flags but S and T after SHR, and
what is in A and B after SWP may be anything. V and Z are those of the manual, by
arithmetic on signed numbers (`SetsOverflow`, `SetsNotZero`). Where the manual is silent
(the carry into a sum, the bit that SHR shifts in), the meaning is the emulator's. `Retire.tla`
adds a history variable with the state the last completed instruction left;
`ImplementsIsa` says that every clock is one instruction of `Isa` or leaves that
state alone.

`Assembly.tla` holds the encodings of the instructions that two programs use, and
the programs: `software/tests/branch.hna` and `software/multiply/multiply8.hna`,
the latter with its operands as parameters. `Software.tla` puts them into the emulator
and says what they are for: the branch test prints 0, 1, 2, 3 and then only 4; the
multiplication ends with the product modulo 256 printed and stored.

Fairness: `WF_vars(Next)`. The program is one thread without blocking calls, so a
clock that can be taken is taken. It is used by `ProgramsEnd` only.

## 4 DuckVM

The machine is one record (see the head of `DuckHeap.tla`) because an
instruction allocates several times and each allocation may collect; an
instruction is an operator from machine to machine, composed of the same calls
in the same order as in C: `PushObject` for `duckVM_gclist_pushObject`, `Push`
and `Pop` for `stack_push` and `stack_pop_multiple`, `PushUntracked` and
`PushTracked` where C pushes one stack alone. A step after a failed one does
nothing, as `if (e) break;` does.

| module | code |
|---|---|
| `DuckHeap` | `gclist_*`, marking and collecting, stacks, globals, `init`, `softReset` |
| `DuckNumbers` | the arithmetic of integers (with a width), Booleans (unsigned bytes) and floats (with a rounding) |
| `DuckData` | literals, variables, lists, comparison, symbols, strings' parts, user types, instances |
| `DuckVectors` | vectors, strings made, joined and cut |
| `DuckCalls` | upvalues, closures, `funcall`, `apply`, `call`, `ccall`, returns, what callbacks do to the stacks |
| `DuckVM` | one action per instruction, `Execute` (`duckVM_execute` up to its loop), `Finish` (its end, the soft reset and the collection in main), and the properties |

A program is **any** sequence of the instructions of its kind, chosen step by
step, under guards that state what the compiler, which is not in the
repository, guarantees: operands are slots of the running function; the callee
and its arguments are temporaries; a captured variable is released, once,
before its slot is popped or its function returns; upvalue numbers exist. A kind says
with `recaptures` and `foreign` whether its programs also do what the code gets wrong
(section 10): capture the variable on top of the stack again, and make closures in
functions of earlier programs. Its `captures` say whether closures capture what the
running function has captured itself, which a compiler writes as a negative operand
and the firmware refuses (`Capture`).
`\E` over slots and operands ranges over all that these guards allow.

Abstractions: text is its length and one letter; a float is a fraction, and every
operation that makes one rounds its exact result by the constant `Rounded`, of which the
modules assume no more than they say (infinities and NaN are left out); a
freed cell is blanked, since `NoDangling` says it is not looked at; `malloc`
succeeds, so only the heap of cells runs out; the instruction pointer is the
code cell it lies in. Undefined behaviour of the C code ends in phase
`faulted`, from which there is no step: this, and `StepCalls` for the emulator,
is why some runs say `CHECK_DEADLOCK FALSE`. The target is the LPC1769 of the firmware: a
`long` (`dl_ptrdiff_t`, `core.h:22`) has 32 bits.

No fairness is assumed of DuckVM: programs are arbitrary and need not end.

## 5 Uploads

`Upload.tla` is main's loop (`microcomp-debugger.c:829-859`) with the line it
reads from. The operator sends a length of four bytes, lowest first, and the
code; the loop reads both with `Chip_UART_ReadBlocking`, which takes a byte
whenever the FIFO has one, and executes.

| code | model |
|---|---|
| the two calls of `Chip_UART_ReadBlocking` | `ReadLength`, `ReadPayload`: one byte at a time |
| the test against `BYTECODE_BUFFER_SIZE` | `Fits`, in `Accept` and `Refuse` |
| `duckVM_execute` with the size of the buffer, the reset and the collection | `Execute`: what comes before the first end in the whole buffer, `Finish` |
| "Bytecode too long" on the operator's screen | `warned`; then `Reset`, as `debugger/instructions.txt:11` says |
| the serial line, the receiver | `line`, `fifo`, `Transmit`, `Overrun`, `Disturb`; external |

`UploadContract.tla` knows of programs only: they run in the order in which they
were sent, until something breaks; then anything may run, until a reset.
`ImplementsContract` is the refinement. A length that is refused breaks it too,
because the firmware leaves the code on the line and takes it for lengths.

Assumed: in its reading loops the firmware keeps up with 9600 baud, so that a
byte is lost only while a program runs or prints; every byte that faults show is
in `Litter`; a program ends itself.

Fairness: the line moves (`Receives`), the polling loop runs (`Reads`), programs
end (`Finish`), and the operator resets after a warning (`Reset`). There is none on
`Submit` or `Disturb`. `UploadsRun` does not promise that a lost byte is
noticed: a length that came out too long but fits waits for ever.

## 6 The microcode memories

On the real board the microcode is in RAM that the debugger writes, over 10
address pins, 24 data pins and 5 strobes. The firmware only offers callbacks; the
order of calls is in a program the operator uploads. That program is not in the
repository as source, but two logs hold its bytecode (`debugger/sram-sucessful-program-1.txt:1`):
callbacks 18, 19, 21, 20 and 22 put the strobes at rest; 15 and 12 make outputs of the data
and address pins; for every word 17, 14, 21 (low), 13, 16, 21 (high); 15 makes
inputs of the data pins, 20 enables the memories' outputs; for every word 14, 13, 16, 16;
and 20 again.

| code | model |
|---|---|
| `microcodeAddressMapTable`, `microcodeDataMapTable`, the ports and bits in the strobes' callbacks | `Pins`: the same tables, a pin being 32 times its port plus its bit |
| the registers DIR and SET/CLR behind `Chip_GPIO_*` | `dir`, `latch`: the pins that are outputs, and high |
| `gpio_init` | `GpioInit`, one strobe at a time, in its order |
| the loops over bits in the callbacks | `Turn` with `SetDataDirection`, `WriteAddress`, `ReadData` and so on: **one pin per step**, since the memories see every one |
| the bytecode's order of calls | the phases of `SramProgrammer` |
| a program that ends with an error, and the next upload | `Fail`: the pins stay as they are |
| a reset of the microcontroller | `Reset`: pins are inputs again, memories keep their content |
| RAM, pull-ups, state register | `Sram`; external |

What `Sram` assumes of the circuit, which the repository does not hold: strobes
are active low and pulled up where nobody drives them (the program puts them high
before anything else, and pulses them low); while write enable is low the
selected cell follows the data lines, and with unknown address or data lines
any cell may become unknown; data come out while output enable is low and write
enable is not; state-output enable puts the computer's state on the address
lines. A read of the CLR register gives zero, so that `CLR |= bit` clears one pin.

`gpio_init` makes outputs of the strobes and sets none: they are low, so that a
reset writes undriven lines into the memories until the program's first
callbacks. That is why `Follow` makes cells `Unknown`, and why `Programmed` is about
whole reruns.

Fairness: `WF_vars(Work)`: the firmware does not pause, and the operator uploads
until the program is through. `MaxFaults` bounds failures and resets.

## 7 The microassembler

`Microassembler.tla` has one action per turn of each loop in `microasm.c`
(`:412-993`): comments removed, empty lines filled from below, lines counted, the
first pass for sizes, allocation, the second pass, the images. A line is a
sequence of tokens: marks of comments, numerals, names.

| code | model |
|---|---|
| `lines`, the flag `blockComment` | `lines`, `inComment` |
| `romsNumber`, `width`, `depth`, `asmNumber` | `sizes` |
| `roms`, `asmSection` and the fill | `roms`, `asm` |
| mode, current ROM, opcode and word | `cursor` |
| the text of an image | `images`: sets of high bits; the text formats are in `RomFiles` |
| positions of signals, kept in `char` (`microasm.c:30`) | `Kept`, `Char`: from 128 on they are negative, and reading such a place may stop the program |
| memory behind a table, or never set | any value, or the program stops |

`UasmContract.tla` reads the same source in one go: `Code` is what a file without its
comments is, `Meaning` the images that it stands for. `RomFiles` has the formats HEX and BIN
with their readers (`hex2mem.c`, `intel_hex_generator.cpp`, the emulator's `.mem` reader),
and `MicrocodeRoms` the v1.1.3 source as a listing, with the positions and polarities that
the emulator gives its signals (`MicrocodeArrives` compares the two). `WellFormed` leaves
out what the code does not survive or takes for something else, and one case more, a
`VERSION` behind `ROMS`: `README.txt:28` allows it and the parser survives it, but its
number is read as a bit of a ROM. `ImagesArrive` says that both readers find every byte
again. Of a device it says so under `FitsRecords` only, for the generator writes a line into
one record, whose length has one byte, and an address into two: lines of 256 words or more,
or more than 65536 words, do not survive it.

Fairness: `WF_vars(Next)`, one sequential program. `Assembles` uses it.

## 8 The runs

| run | asks | expected |
|---|---|---|
| `emulator_isa` | does the emulator implement the instruction set, and start the program at address 0? (`ImplementsIsa`, `ExecutesNext`) | pass |
| `emulator_garbage` | does the reset work for every kind of garbage? is one driver on each bus? (`TypeOK`, `Sequenced`, `BusesDriven`, `ProgramStoredBySTP`) | pass |
| `alu` | overflow, equality test, shift (`OverflowIsSigned`, `CompareEqual`, `ShiftKeepsBits`) | pass |
| `programs` | do the branch test and the multiplication do what they are written for, and end? (`PrintsInOrder`, `MultipliesModulo256`, `ProgramsEnd`) | pass |
| `numbers` | do subtraction and order agree for every mix of types, floats rounded, and does division undo multiplication of integers and Booleans? (`DifferenceOrders`, `QuotientUndoesProduct`) | pass |
| `duckvm` | lists, vectors, texts, instances, closures, calls, functions kept between programs: is the heap sound, are the stacks in step, do captured variables and code stay, is all returned? (`TypeOK`, `NoDangling`, `StacksAligned`, `NothingLeaks`, `CodeStays`, `OpenUpvaluesAreReleased`, `WithinBounds`, `CapturedVariablesStay`) | pass |
| `uploads` | does what is sent run, in order and once, and after a fault again from a reset on? (`TypeOK`, `ImplementsContract`, `UploadsRun`) | pass |
| `microassembler` | do images say what the source says, in every format, with comments as in C wherever they stand and keywords in the orders that the code takes? (`TypeOK`, `LinesAreCode`, `ImagesMeanSource`, `ImagesArrive`, `MicrocodeArrives`, `Assembles`) | pass |
| `microcode_sram` | do the memories hold the microcode afterwards, with no fight on a line and no stray write, through failures and resets? (`TypeOK`, `NothingFights`, `OnlyMeantWrites`, `Programmed`, `Finishes`) | pass |
| `vector_elements_are_kept` | does a vector keep its elements while it is filled? | violated |
| `foreign_closures` | does code stay when a function of an earlier program makes a closure? | violated |
| `nested_captures` | can a function make a closure over what it has captured itself? (`ClosuresAreMade`) | violated |

Bounds and why they suffice:

- `emulator_isa`: the first instruction is each of the 256 bytes; the second is
  one of seven that observe A, B, F, C, the address and the condition left
  behind; three power-on states, one of them all zero. An instruction has no
  state beyond `Architecture`, so that pairs reach every hand-over from one to
  the next; the operands in the three machines include sign and carry
  boundaries. Six step calls are three instructions.
- `emulator_garbage`: ten microcode words that differ in what the reset's clocks
  could do (reset the counter or not, read or not, step the PC, store to either
  memory, all signals, none), with two values of B so that a store hits the
  program's code or misses it.
- `alu`: bytes around 0, 16, 32, 64, 128, 192, 240 and 256 and alternating bits: the ALU
  works in nibbles and a sign. The proofs cover the rest.
- `programs`: 700 step calls are enough for the longest multiplication (operand
  255: eight turns with an addition each) to reach its end loop. Operands 0, 1, 128 and 255 take
  none, one and eight turns, with and without additions; 16 times 15 are the
  operands in the source.
- `numbers`: nine-bit integers around zero and the limits stand for 32-bit ones:
  the C code wraps in the same places, at the width. Floats have three bits and a
  sign, and four exponents, so that most results are rounded.
- DuckVM: heaps of 4 to 7 cells, where an instruction takes up to 4, so that the heap fills
  within a few instructions and collections fall between any two allocations; stacks of 2 to
  4 values and 1 or 2 frames, enough for a variable below a closure, a callee with an
  argument, and a closure made in a closure (which captures its function's own variables);
  computed numbers and text up to 2. `cuts` shares vectors and cuts them. Programs repeat
  without limit, in one heap. `closures` captures variables below the top of the stack;
  `tops` the topmost variable, alone and behind another one, where `push-closure` takes
  another branch. `memory` says what happens when cells run out: in "scarce" kinds
  everything, failures included; in "enough" kinds collections but no failed allocation,
  because a failure inside `push-closure`, `vector` or `make-vector` leaves the stacks out
  of step (section 10); in "ample" kinds, the instances, no collection either (an
  instruction starts only when `Spare` cells, the most that one takes, are free), because
  instances are not marked at all.

- `uploads`: a FIFO shorter than an upload, a program of exactly the buffer's size, which
  is too long, and garbage that makes longer ones, bytes that may
  be taken for a length as well as for code, two programs ahead, one fault of
  each kind at every moment. The proofs cover all sizes.
- `microassembler`: every way to put ten kinds of commented lines into three, and six kinds into
  four; a small computer with its keywords at every place; the same with one
  line missing, doubled or wrong; the microprogram of v1.1.3, four opcodes at a time, so
  that every opcode and every signal occurs.
- `microcode_sram`: all the pins, on five words of the real microcode, from each of
  which to the next one to three address lines change; three faults, so that a
  reset may follow a failure that follows a reset. The proofs cover 1024 words and any
  number of faults.

Each property of a passing run has a mutant in `PROJECT.json`: a variant of one
definition with a plausible mistake, next to the original in its module, for
which TLC finds the property violated.

## 9 What is proved

TLAPS proves, each for every value of the constants:

| module | theorem | statement |
|---|---|---|
| `AluProofs` | `OverflowIsSignedAlways` | V is the overflow of the signed sum or difference |
| | `CompareEqualAlways` | subtracting with the carry clear gives 255 exactly for equal operands |
| | `ShiftKeepsBitsAlways` | the shifted value and the new S are A and the old S |
| `EmulatorProofs` | `TypesAlways` | the emulator's types |
| | `SequencedAlways` | the sequencer runs whole microprograms from any garbage |
| | `ProgramStoresAlways` | only STP changes program memory, at the address in C and B |
| | `BusesDrivenAlways` | no bus has two drivers, and none is read without one |
| | `ImplementsIsaAlways` | every clock is one instruction of `Isa` or changes nothing that a program sees |
| | `SwapClearsAlways` | SWP, written as the manual has it, clears A and B |
| | `ExecutesNextAlways` | the instruction executed is the one the PC named |
| | `PrintsInOrderAlways` | the branch test never prints that a branch went wrong |
| | `MultipliesAlways` | the multiplication multiplies, for all operands |
| `NumbersProofs` | `DifferenceOrdersAlways` | a difference that does not wrap has the sign that the comparisons say, however floats are rounded |
| | `QuotientUndoesProductAlways` | division gives a factor back from a product of integers and Booleans that fits |
| `DuckProofs` | `MarkedFacts` | marking comes to the least set that holds the roots and what its cells lead to |
| | `TypesAlways` | values are on the stack, and references lead to cells of the right types |
| | `NoDanglingAlways` | nothing that is referred to is on the free list |
| | `CodeStaysAlways` | code that runs or will be returned to is not freed |
| | `StacksAlignedAlways` | values and upvalues are in step |
| | `WithinBoundsAlways` | strings and vectors stay within what they share |
| | `NothingLeaksAlways` | between programs only what symbols lead to is in use |
| | `NestedCapturesFail` | no closure can be made over what the running function has captured |
| | `OpenUpvaluesAreReleasedAlways` | every open upvalue is the one that its slot will release |
| | `CapturedVariablesStayAlways` | only an assignment changes what is seen through a captured variable |
| `UploadProofs` | `UploadTypesAlways` | nothing on the line writes outside the buffer |
| | `ImplementsContractAlways` | the firmware with its line implements `UploadContract` |
| `MicroassemblerProofs` | `LinesAreCodeAlways` | the first loops leave the code of every source with comments as in C, in order, and nothing else |
| | `ImagesMeanSourceAlways` | the images of every well-formed source of up to 128 ROMs of 128 bits hold what it says, bit for bit |
| | `ImagesArriveAlways` | every image of eight-bit words is read back as it was, by the emulator and in a device |
| `SramProofs` | `SramTypesAlways` | pins, cells and loops stay within their tables |
| | `NothingFightsAlways` | no line has two drivers |
| | `OnlyMeantWritesAlways` | a cell changes only to the word it shall hold |
| | `ProgrammedAlways` | the memories hold the microcode when read back, and when the program is done |

They rest on the named assumptions of the modules only: operands, flags and power-on
registers are bytes, the microcode register is a set of signals, programs are memories;
uploaded programs are sequences of bytes with one end, sizes are positive, the operator is
one or two programs ahead; a kind of programs has a heap of at least one cell, literals that
are numbers or Booleans, and no callback linked twice; sources are sequences of lines of
names, none of which is both a keyword and a number; the microcode has 1 to 1024 words of 24
bits; DuckVM's integers have more values than its unsigned bytes, and no difference of its
numbers is rounded to zero or across it, as gradual underflow guarantees of doubles
(`RoundingAssumption`). Bounds such as `StepCalls` and `MaxFaults` are any natural numbers.

*The ALU.* The carry chain is or-ed generate and propagate terms over bits.
`AluLemmas` bounds what `BitAnd`, `BitOr` and `BitXor` make of bytes and shows that
the flag byte is a sum of disjoint bits, each of which is found again where it
was put (`FlagBits`). With that, each theorem is arithmetic on one flag: the
comparison because only minus one wraps around to 255 (`WrapsToTop`), the
overflow by cases on the function and the two signs.

*The sequencer.* `TypeOK` is not inductive alone: the next microcode word is found at the
opcode or-ed with the counter's high bits, which is only an address of a word when the
counter is at most the length of a microprogram. `Sequenced` says so and needs the types in
turn, so that the inductive invariant is `IInv == TypeOK /\ Sequenced`. `UopsWellFormed`
says of every microprogram that it has two to eight words, starts by reading, and asserts
`upcrst` in its last word only. `NextIInv` then has one case per action, the clock of the
run split by whether the counter is zero and whether this word resets it (`ClockSequenced`).
`ProgramStoredBySTP` follows from `IInv`: only the last words of the two STP microprograms
assert `wrp` (`WrpWords`), and in those C and B are on the address bus and F or A on the
program bus (`StoreBuses`).

*The buses.* A word of a microprogram drives no bus twice and takes nothing from a bus
that it does not drive (`Clean`), which is looked up for each group of microprograms.
At counter zero the instruction register takes the program bus as well, so that
the word then must read, whether an instruction, a fill word or the reset came before
(`Reading`). `IInv` says that after the reset the microcode register holds a word of
a microprogram, whatever it held at power on, and `BusesDriven` follows.

*The instruction set.* The history variable `retired` agrees with the
registers between two instructions only. The inductive invariant
`RetireInv == IInv /\ InStep` says what the clocks of the instruction under way have
done of it (`Between`): the instruction register holds the opcode at the old PC;
memories, port, C and the flags are untouched; the PC has passed the bytes read so
far; A and B are untouched, but in the two longer microprograms, which latch
results on the way (`First`, `Second`). In the reset, whose clocks may run a word
of garbage, `Clobbered` says what of the memories and the port may have changed. Which
words follow which is looked up once (`FirstWords`, `ThirdWord`, `LastWords`,
`LongerWords`). A clock inside of an instruction keeps `InStep` and leaves
`retired` alone (`WithinInstruction`); the clock of its last word takes one action
of `Isa`, with one lemma for each (`EndFour` and the lemmas before it), put together in
`InstructionEnds`. `ExecutesNext` follows from `Between`.

After SWP, `Isa` leaves A and B open, because the manual's exchange is not what happens; what
does is a theorem of its own: `SwapClearsAlways`, from the value that the lemma about the last
word of SWP (`EndSwap`) gives each register, with the function that 0xF8 selects.

These theorems are of behaviours that begin with `upcrst` asserted. This is the
case of a machine whose structure is zeroed; without it, the reset leaves the sequencer at a
second word and the byte after the first instruction is skipped (section 10), so
that the theorems would be false. `TypesAlways`, `SequencedAlways`,
`ProgramStoresAlways` and `BusesDrivenAlways` have no such hypothesis.

*The two programs.* With `InstructionEnds`, an invariant of a program is one over its
instructions: `BranchInv` and `MultiplyInv` say for every address between two of them
what the registers hold (`BranchLoaded`, `MultiplyLoaded`), and how far the program has come.
For the branch test this is how much it has printed (`BranchCount`). For the multiplication
it is `Owed`: the accumulator and the product of what is left of the operands make up the
product, modulo 256. Adding takes one operand from what is owed and may lose a multiple of
256 (`OwedAfterAdding`); halving one operand and doubling the other changes nothing, though
the second wraps around (`OwedAfterHalving`, `OwedAfterDoubling`). There is a lemma for
each instruction that the programs use (`LdiRuns` to `NopRuns`, from the actions of `Isa`),
and `BranchStep` and `MultiplyStep` have one case for each of these. TLC has checked
`BranchInv` and `MultiplyInv` with 17 programs before the proof was begun.

Both theorems are of the programs in `SamplePrograms`, the branch test and the multiplication of
any two bytes, on machines that are switched on `Harmless`: `upcrst` is asserted, and the
word of garbage that the reset's first clock executes prints nothing and writes to program memory
no byte but the one that it reads. A zeroed structure is such a machine
(`ZeroedHarmless`): its word does write, the program's first byte to itself and a byte
of data memory that the programs set before they read it. `ProgramsEnd` remains with TLC.

*Arithmetic.* The operands are integers of any width, unsigned bytes and fractions, and
an instruction's result has the wider type. `OperandTypes` splits the mixes,
`WrapInRange` says that wrapping leaves a number that fits alone, and C's division,
which truncates, is unique (`DivisionUnique`), so that it undoes a product of integers or
Booleans exactly (`QuotientOfProduct`). Of floats this is false, as it is of every rounded
arithmetic, and nothing is claimed. The sign of a float is that of its numerator, which
`RoundingAssumption` keeps from the exact difference.

*DuckVM.* The theorems of `DuckProofs` except `MarkedFacts` have the form `Spec =>
[](Careful => P)`, or `Spec /\ Careful => P` for the one about steps, for heaps, stacks and
programs of every size; the kind of the programs never changes. `Careful` says what a kind
of programs does not do, and every one of its conjuncts leaves out what the code gets wrong
(section 10): functions of earlier programs that make closures, which are tied to the wrong
code; a variable on top of the stack that is captured again, whose upvalue is replaced; a
variable that the running function has captured itself, whose capture fails and leaves the
stacks of different lengths (`NestedCapturesFail`); `vector`, whose elements may be
collected while it is filled; instances, which are not marked; `apply`, which passes cells
that are not values; `make-vector`, and the capturing of variables, where memory runs out in
the middle of it, which leaves the stacks of different lengths; `set-cdr` on vectors that
are shared; and storing values in programs that capture variables, because what is stored
may be a closure whose variable is still on the stack when the program ends. The kinds
`lists`, `texts`, `closures`, `tops`, `calls` and `statics` of the runs are careful; what
the others add is checked by TLC.

The inductive invariant is `Inv`: the machine is `Firm`, its stacks are `Aligned`, a running
program has its code, and between programs nothing is in use but what can be reached
(`Resting`). `TypeOK` and `NoDangling` are far from inductive, because an instruction
allocates several times and each time the heap may be collected. `SoundHeap` says of every
cell in use that its references lead to cells in use of the right types and sizes, and that
all vectors but the one that is being filled are initialized; `SoundRoots` says the same of
the stack and the globals; and `SoundCalls` that each frame's closure is still on the stack
where its base says, which is what keeps the code it came from and its upvalues alive, and
that its slot is no captured variable's. `SoundUpvalues` is about captured variables: an
upvalue that is open names a slot of the stack of upvalues that names it; upvalues that
stand for others, of which the firmware makes none, would come to an end (`Ranked`), so that
`Resolved` finds it (`ChainEnds`); and no upvalue shares the cell of a function that main
has linked, so that assigning to it leaves the functions alone. `MarkedFacts` is proved by
showing that the recursion ends from every set (`StepGrows`: a set of subsets of a finite
set that the step always enlarges is empty). From it, `CollectedSound`: a collection keeps a
sound machine sound, since what a cell that is marked refers to is marked. `PushObjectSound`
is the lemma that every instruction needs: after an allocation the machine is sound and
**what was marked is unchanged**; so that an instruction is right if whatever it goes on
using was reachable from the roots. `FitsTraced` is where the collector's blind spots come
in: it holds because the types on which `StackTraced` and `References` differ do not occur.

Each instruction has a lemma that from a machine that is `Ready` leads to one that is
`Good`, also when it fails half-way. Part of `Good` is `Keeps`, which compares the machine
in the middle of an instruction with the one it began with: an upvalue that was marked then
and is in use now stands for the same upvalue, or shows the same value, be it on the stack
or moved to the heap. `move` and `setUpvalue` lead to a machine that is `Fair`, which is
`Good` without `Keeps`. `push-closure` is taken apart into its captures (`Making`); where
one fails, both stacks have their heights of that moment (`Stuck`), which a careful program
does not reach. `Careful` says that the operands of a capture are not negative, for that
reason. From `Keeps` and equal chains of upvalues before and after (`SeenKept`) follows
`CapturedVariablesStay`, and `OpenUpvaluesAreReleased` from `SoundUpvalues`, because what
can be reached is in use. Folds, over the callbacks that main links, over the optional
arguments of a call and over released variables, are put into the form of stages that follow
one another (`FoldStages`), and a property of all stages is shown by looking at the least
one without it. `BecomesHolds`, `ExecuteHolds`, `FinishHolds` and `InitHolds` then are the
four kinds of steps, and `NothingLeaks` follows from `Resting` because what the collector
marks is all that can be reached (`ReachableMarked`): the upvalues of a function that is
running, which are not roots, are held by its closure.

*Uploads.* The firmware and its line hold no more than a cut through the stream
of bytes, and the invariant `InStep` says where it is: while nothing was lost, the bytes
of the length read so far, the FIFO and the line together are the encodings of
the programs that have not run (`ReadingLength`); while code is read, the buffer has
the beginning of the first program and the stream its rest (`ReadingPayload`). That
the four bytes give the length back is `DigitsOfLength`; that what runs of a whole
buffer is the program and not the tail of an older one is `ExecutedIsProgram`, from the
assumption that a program ends itself. Each action then has one lemma that keeps
both the invariant and the contract's next-state relation.

*The microassembler's lines.* Empty lines are filled from below while the scan
goes on, so that a line may move several times. `CodeSoFar` says what is true in
between: while comments are removed, lines above the scan hold their code, those below
are as they were, and the flag says whether the scan is inside a comment (`Stripped`);
while lines move up, there is a line b of the source such that the code up to b
has its final places, which `Rank` counts, all later lines are where they were, and
what is between is empty (`Squished`). The module begins with facts about places of
marks and ranks; a set of naturals has a least element by the library's well-founded
induction, whose conclusion needs no operator.

*The microassembler's images.* `Meaning` looks at the whole source at once; the code goes
through it twice and keeps where it is. `SourceSoFar` says, for a well-formed source,
what a pass has done of the lines before the one it is at. In the first, the sizes said so
far are set, and every line that has been passed is what is left of it (`Sizing`, `Left`).
In the second (`Parsed`), the section and the ROM are those of the last headings, every
bit before this line has its name and its polarity, the fill is set once its line is
passed, and of each opcode the words so far are in its table, each at the number of words
of that opcode before it (`Order`), with nothing behind them. Where a line of
each kind can be is `Shape` and `Sections`: an action's guard looks at a line's beginning only,
and it is well-formedness that makes it the line that the source means. There is one
lemma for each action (`SizingStep`, `SectionStep`, `RomStep`, `BitStep`, `OpcodeStep`,
`WordStep` ...), and in `ParsingStep` those that read or write outside the tables are shown not
to happen. `ImageMeans` then compares what `generateRoms` makes of full tables with
`Meaning`: a name has one bit (`NamedBit`), the word at an offset is the one with that many before
it (`AssertedWord`), and an address falls into an opcode and an offset in one way
(`AddressParts`). The proof found a hypothesis that the bounded sources had not shown
to be needed: what follows `VERSION` must be a single token, since the first pass leaves it as a
line, which the second reads again; of `VERSION FILL x` it would take `x` for the fill.

*The formats.* `ImagesArrive` needs no more of the parser than the types
(`TypedImagesArrive`): it holds of every image. The text formats are loops over characters,
and recursive functions over places or sets in `RomFiles`, whose values no induction theorem
gives here. Instead, the proofs state the value that a loop should have, show that it
satisfies the loop's equation, and that any two solutions agree because they could not
differ at a least place first (`ChosenIs`, `FlattenIs`, `SumIs`). From that come the four
facts that the formats rest on: lines of one length put one behind the other
(`FlattenEqual`), every (L+1)th character left out (`ChosenGroups`: the spaces behind two
digits, those behind eight bits, and the newlines behind a line), a sum over a set in any
order (`SumsAreTotals`), and the checksum that makes a record add up to nothing
(`CheckedSum`). The emulator's three characters to a byte are then places in a row of rows
(`HexMemory`, `HexRead`), and a device programmer finds each address in one record only
(`ProgrammedRows`).

*The pins.* `NothingFights` alone is not inductive: it needs which strobes are at
rest in which phase (`Quiet`), in turn which pins have been turned so far
(`Turned`). `Programmed` needs what is on the lines (`OnPins`), which cells are done
(`Stored`), what has been read so far (`SoFar`), and `Meant`: whenever the write strobe is
low and the address pins are outputs, whatever cell they select shall hold what
is on the data pins. This also holds in programs that stopped in the middle of a pulse and
are uploaded again. That one address selects one cell is `AddressesDiffer`, bit by
bit; that no two signals share a pin is `AddressPinsDiffer`, `DataPinsDiffer` and
`PinKinds`, from the tables.

*Only model-checked:* `MicrocodeArrives`, which is about one constant, the v1.1.3
microprogram, and which the run checks in full, four opcodes at a time; of DuckVM the
programs that are not careful. *Beyond the prover:* what is
eventual (`ProgramsEnd`, `UploadsRun`, `Assembles`, `Finishes`).

## 10 Where code and text disagree

Shown by a run:

- `vector_elements_are_kept`: `duckVM.c:142` does not follow the elements of a
  vector until all are made, and an element made earlier may be collected.
- `nested_captures`: `push-closure` tells the two kinds of captures apart by `ptrdiff1 >
  0x7FFFFFFF` (`duckVM.c:904`), where `ptrdiff1` is a `long`. On the LPC1769 that has 32
  bits, the test is never true, and what the comments at `:905` and `:943` are about, a
  variable that the running function has captured itself, is refused as a slot out of bounds
  (`:911`). The closure is on the stack by then (`:889`) and the stack of upvalues one
  shorter, so that `duckVM_softReset` fails (`:471`) from then on. On a host with 64 bits
  the branch works.
- `foreign_closures`: every instruction is given the code that `execute` was
  called with (`duckVM.c:4481`), whatever code a call has switched to. A closure
  made by a function of an earlier program is tied to the wrong code, and its
  own is freed before it is called.

Met while modelling, with no run of its own:

- *Computer.* `Isa` and so `ImplementsIsa` say nothing of the next four. C is bit 8 of the
  generate term plus one or-ed with the propagate term plus the carry in
  (`Emulator/microcomp_emulator.c:155`), which is not the carry of the sum, as `MicroComp
  Reference v1.1.3.txt:144` has it: 1 + 255 leaves C clear (`CarryIsLost` in `AluProofs`
  proves it). H is computed likewise, of the lower four bits.
- The SWP microprogram (`microcode/v1.1.3/microcode-v1.1.3.uasm:325`) latches three
  ALU results into A, B and A, for an exchange by exclusive or. The ALU takes
  its function from bits 0 to 2 of the instruction, bit 2 of SWP's four bytes
  is clear, and so the function is never the exclusive or: 0xF8 clears both
  registers (`SwapClearsAlways`), where the source at `:325` and the manual at `:136` say
  "A -> B, B -> A".
- The N and E flags are computed otherwise than the reference manual says
  (`MicroComp Reference v1.1.3.txt:145` and `:149`, `microcomp_emulator.c:204`
  and `:205`): N takes bit 7 of B where the manual has the result's, and E
  is set by an odd number of bits.
- SHR latches the flags of the function that bits 0 to 2 of its byte happen to name, an
  exclusive or of A and B for 0xF4; only S is about the shift.
- `microcomp_emulator_step` returns whenever the counter is zero, which it is
  also after the fill word, so two calls run one instruction (`:272`).
- If the garbage in the microcode register does not assert `upcrst`, the reset
  still starts the sequencer (`Sequenced`), but leaves it at a second word, which
  steps the PC: the first instruction is the one at address 0, as the comment at
  `:269` hopes, and the byte after it is skipped. Any other effect of the garbage
  word, such as a store, happens too (`:260`). The power-on states of
  `emulator_isa` therefore assert `upcrst`, as a zeroed structure does;
  `emulator_garbage` has the others, for the properties that hold of them.
- *DuckVM.* `duckVM.c:921` tests for a closure that captures itself, but the
  last entry of the upvalue stack is at that point the topmost variable's; its
  upvalue is replaced, and closures that hold the old one name a slot that
  nobody releases for them. With `recaptures` a kind may do so; those of the runs do not.
- A program that ends in the middle, by an error or by `yield`, releases no variable:
  `duckVM_softReset` pops the stacks only (`duckVM.c:4656`). A closure that it had
  stored under a symbol keeps upvalues that name slots of the stack (`duckVM.c:1107`);
  a later program that calls it reads and overwrites whatever is there, even the
  function that is running, whose code is then collected under it. Of the runs' kinds
  none both captures variables and stores values.
- A call of an instance writes it over the first argument (`duckVM.c:1166`). The model
  does the same; nothing says what the call should leave.
- Printing a list that contains itself recurses without end
  (`microcomp-debugger.c:121-362`).
- `apply` passes what pairs of its list hold; for an element that is a list it
  pushes the pair itself and for an empty one a value of type "none"
  (`duckVM.c:1330`, `duckVM.h:89`). The kinds of programs apply to functions
  without required arguments.
- Instances are not marked (`duckVM.c:158`, `:1202`).
- `set-cdr` of a vector by nothing sets the length of the shared elements to the vector's
  own offset (`duckVM.c:3672`). A second one, through a vector that starts further on,
  lengthens them again, over elements that may have been collected since; and for a vector
  that starts behind the new end, `length` is negative. The kind `cuts` makes such cuts with
  too few slots on the stack to reach freed elements.
- An allocation that fails in `push-closure`, `vector` or `make-vector` leaves
  the stacks of different lengths, and the soft reset then fails for good. No text of
  the repository says what should happen, and the runs' kinds do not go there.
- *Uploads.* The comment says 8-N-1, the code configures even parity
  (`microcomp-debugger.c:35`, `:40`), and the parity is never looked at. A length of
  zero executes the buffer again; a program of exactly the buffer's size is
  refused.
- *Microcode memories.* After `gpio_init` write enable and output enable are both
  low (section 6).
- *Microassembler.* `README.txt:28` of it allows keywords nearly anywhere. A
  `VERSION` behind `ROMS` is read as a bit and behind `ASM` as an opcode, and a
  `WIDTH` or `DEPTH` behind `ASM` stops it; `FILL`, which `README.txt` does not
  list, must be there. A block comment that opens and closes on one line swallows those
  that follow (`microasm.c:858`). The position of a signal, its ROM and its bit, is kept in
  two `char` (`:30`, `:717`, `:734`), so that ROMs and bits from 128 on have negative
  ones. A repeated opcode, an undefined name, more
  words or bits than declared and a bit without a name go unnoticed and use
  what is behind a table, or unset memory, or a null pointer. The properties are
  stated of `WellFormed` sources; the others end either way.
- The option for Intel HEX starts the generator in a forked process without its arguments
  and before the files are closed (`microasm.c:360`). The generator ignores the
  name of its output (`intel_hex_generator.cpp:65`), takes one character too many
  for a digit (`:120`), and gives a record's length eight bits.

## 11 What is not modelled

- *File input, register trace and memory dump of the emulator*: no effect on
  what it computes.
- *Assembler*: beyond the encodings of two programs, it is a Duck-Lisp program of
  one emitting macro per instruction.
- *Other sample programs*: they add no behaviour the two do not have.
- *DuckVM*: error messages (a list that grows and is never emptied),
  `duckVM_quit`, which the firmware never calls, branch targets (a program is
  any sequence already), and text beyond its length.
- *Debugger*: the callbacks that read and write any register of the chip
  (callbacks 10 and 11: no effect that can be stated without the chip), and the
  text that `print` sends.
- *Microassembler*: its command line, files that cannot be opened, allocations that
  fail, the process started for Intel HEX (`microasm.c:360`), and `mem2bin.py`.
- *Vendored board libraries* (`debugger/lpc_*`), three quarters of the C code in the
  repository: access to registers of peripherals, most of which (CAN, Ethernet, SD
  cards, USB clocks) the firmware never touches. Only what it calls on its way is
  in the models: the UART's reading functions, and the functions that turn, set and
  read a pin.
- *Superseded microcode, the unfinished Lisp*: no logic of the running system.
