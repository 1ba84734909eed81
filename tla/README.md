# HyRISC emulator: verification project

TLA+ modules that model the HyRISC board emulator (`src/`), TLC
configurations that model-check them, and theorems about them that the TLA+
proof system (tlapm 1.4.5) checks for every value of the constants.

## 1. The system

`src/main.cpp` builds a board: one CPU and four devices on a system bus, driven
by one thread.  `main` pulses RESET, straps the BUSIRQ pin low, and then loops:
`hyrisc_clock(cpu)`, and `update()` of each device in the order terminal,
iobus, BIOS, memory.  CPU and devices communicate through one shared struct of
pins, `hyrisc_ext_t`.

| Component | State | Operations | Interacts with |
| --- | --- | --- | --- |
| CPU core (`hyrisc/hyrisc.hpp`, `state.hpp`) | 32 registers, status register, cycle counter 0..3, instruction latch | `hyrisc_clock`, `hyrisc_handle_signals`, `hyrisc_reset`, `hyrisc_pulse_reset`, `hyrisc_execute` | pins |
| ALU (`alu.hpp`, `flags.hpp`) | flags Z N V C | `perform_operation`, `hyrisc_test_condition` | registers |
| Decoder | decoder latches | `hyrisc_decode` | instruction latch |
| Bus controller, PIC | pins `a d s rw be busreq busack busirq`, `v irq irqack` | `hyrisc_bci_update`, `hyrisc_init_read`, `hyrisc_init_write` | devices |
| Memory, BIOS, flash (`dev/*.hpp`) | a vector of bytes | `update`, `read`, `write` | pins |
| Terminal | none (the host's terminal) | `update`: print, read a key | pins, host |
| I/O bus (`dev/iobus.hpp`) | `port`, `data`, `rw`, `size` shared by its devices | `update` | pins, PCI, ATA |
| PCI, ATA, block device (`dev/iobus/*`, `dev/block.hpp`) | address latch; channels, drives, PIO buffers; a file | `update`, command and data registers | iobus, host file |
| Disassembler (`disas.c`) | a table of opcodes | `print_insn_hyrisc` | the same instruction words; it has its own copy of the opcode numbers |
| UART, FPU, VGA, command line, log | | | not part of the running board |

What is hard here is the timing of the bus.  An access takes several rounds of
the main loop: the CPU writes the pins in one clock, a device answers in its
turn of the same round, the bus controller clears request and acknowledge at
the beginning of the next clock, and only after that the CPU takes the word
off the data bus, without looking at BUSACK.  A freeze keeps the bus controller
running while the CPU stands still; a reset may come at any clock; a bus error
interrupt takes the CPU away in the middle of an instruction; the pins are not
initialised at power-on; devices answer addresses past their last byte; an
instruction has changed `sp`, `pc` or `lr` before its access is done.  Then
there is the arithmetic: C++'s integer conversions decide what the flags say.

Behind the I/O bus the difficulty is shared state.  All devices see every data
access and work on the same `port` and `data`; a drive is addressed by a port
and by the select latch of its channel, so the reads of one transfer may be
separated by selects, commands and transfers of other drives; the count of
pending bytes is unsigned and an access takes 1, 2 or 4; a register without an
answer leaves the word of an earlier access; and the fields of a drive, the
address of the PCI mechanism and the `ext` struct are not initialised.
`PROJECT.json` lists each such hazard at its line with the properties that
catch it, or says why none does.

What makes each component correct:

- *CPU, bus, memory*: a program sees the instruction set as an atomic machine,
  whatever the bus cycles are interleaved with; a fetched instruction is the
  one memory holds; a load takes the word memory holds; a store happens exactly
  once; with BUSIRQ high, no unanswered access completes; a program that does
  not trap keeps running, unless it waits for a key.
- *ALU*: conditions after a comparison order the numbers; equality is exact;
  shifts scale; carry and LE mean what the documentation says (they do not).
- *I/O bus, PCI, ATA*: a transfer delivers the bytes of the drive's buffer in
  order, each once, and ends where the buffer ends; what is read at a port does
  not depend on accesses to other ports, except where nobody answers.
- *Decoder, disassembler*: the latches hold the bits the encoding gives them
  and nothing of an earlier instruction; what is printed is what is executed (it is not for
  15 opcodes).

## 2. Modules

| Module | Models | Notes |
| --- | --- | --- |
| `HyWords` | bytes, 16-bit halves and 32-bit words | a byte has `ByteBits` bits, a word four bytes: 8 in the program, 1 or 2 in the instances |
| `HyAlu` | `alu.hpp`, `flags.hpp`, `hyrisc_test_condition` | operations and conditions as operators; an operation gives the set of results the build can produce |
| `HyAluUnit` | one call of `perform_operation` | a state machine for the ALU alone |
| `HyIsa` | what each case of `hyrisc_execute` assigns | opcodes are named by mnemonic and operand form; no state |
| `HyDevices` | address ranges, `read()` and `write()` of the devices | no state |
| `Hyrisc` | the CPU with its pins: one action per path through `hyrisc_clock`, the reset pulse, the FREEZE pin | variables `r st cycle instruction pins status` |
| `HyBoard` | `main`: CPU and devices, one action per call of the main loop | adds `mem out port turn resets freezes`; the properties |
| `HyMachine` | the abstract specification: the instruction set as an atomic machine | one step per instruction or interrupt; no cycles, no pins, no devices' turns |
| `HyBoardRefines` | the refinement mapping from `HyBoard` to `HyMachine` | |
| `HyIoExt` | what the devices behind the I/O bus share (`ext.hpp`) | `port`, `data` |
| `HyPci`, `HyAta` | the PCI configuration mechanism; the ATA controller with its four drives | one action per register, direction and outcome of `update()` |
| `HyIobus` | `dev_iobus_t::update()` with the two devices `main` attaches | composes `HyPci` and `HyAta`; the program is any sequence of accesses |
| `HyIoSpace` | the abstract specification: an address register, a table, a queue of bytes per drive | no buffers, counts or directions |
| `HyIobusRefines` | the mapping from `HyIobus` to `HyIoSpace` | |
| `HyDecode` | `hyrisc_decode`, the decoder latches, and which latches each case of `hyrisc_execute` reads | |
| `HyDisas` | `disas.c`: its tables and what it prints, compared with `HyDecode` | |
| `HyInduction` | induction over a set of numbers, and functions defined by recursion | of no component; what the proofs about bits rest on |
| `HyWordsTheorems`, `HyIsaTheorems` | lemmas about the operators: words and their bits, the instruction set | |
| `HyAluProofs` | the theorems about the ALU | |
| `HyDecodeProofs` | the theorems about the decoder and the disassembler | |
| `HyIobusProofs` | the theorems about the I/O bus: types, transfers, the refinement | |
| `HyBoardSafety`, `HyBoardRefinement` | the theorems about the board: types and the bus; the refinement | |
| `MCHyAluUnit`, `MCHyBoard`, `MCHyIobus`, `MCHyDecode` | instances for TLC | |

State and code: `r`, `st`, `cycle`, `instruction` are the fields of
`hyrisc_int_t`; `pins` is `hyrisc_ext_t` without RESET, which is high only
inside `hyrisc_pulse_reset`; `mem` holds the bytes of the BIOS and memory
vectors by absolute address; `out` is what the terminal printed; `port` is
`iobus_ext_t::port`; `turn` is the position in the main loop, 0 for the CPU and
1..4 for the devices; `status` is "running" or the signal that ended the
process.  The actions of `Hyrisc` are the paths through `hyrisc_clock`:
`FrozenClock`, `FetchVector` (an interrupt), `FetchRequest` (case 0),
`FetchLatch` (case 1), the `Execute...` and `Issue...` actions (case 2,
`hyrisc_execute(proc, 0)`) and the `Finish...` actions (case 3,
`hyrisc_execute(proc, 1)`).  Each begins with the bus controller, `Bci`.  The
decoder latches are a function of the instruction latch and not state.

Abstractions and choices:

- Undefined and unspecified values are sets of outcomes: a shift by 32 or more
  gives what the shift instructions of x86-64, AArch64 and ARM give; a byte
  past the end of a vector reads as anything; a byte written there lands in the
  slack of its heap block (the sizes 0x1000 and 0x10000 leave 8 bytes with
  glibc) and is lost; the uninitialised pins at power-on hold anything in the
  four pins and the error code `hyrisc_bci_update` reads.
- In the board, `Decode` is a constant: any function from instruction words to
  decoded fields.  So its theorems hold for every encoding.  What
  `hyrisc_decode` extracts is `HyDecode`, where a word is the function from bit
  numbers to bits, since TLC's integers have fewer than 32.  That the latches are
  a function of the word alone, as `Decode` says, is `LatchesFollowLayout`.
- FREEZE and RESET are pins of the CPU's interface ("Board-level with
  individual pin manipulation", `src/README.md:35`).  `main` moves neither
  after start-up; the model lets an embedder move them between two rounds of
  the main loop.
- `getchar_impl` returns some key of `Keys`.  In the board the devices behind the
  iobus leave some word of `IoWords` in `ext.data`, any word in the theorems;
  which one is the matter of `HyIobus`.  What carries over from one to the other
  is `ReadsAnsweredOnce`: the CPU never lets a device see a read twice, so one
  load of a program is one action of `HyIobus`.
- In `HyIobus` uninitialised fields hold any of a set of values; a byte outside
  a drive's buffer reads as any of `Garbage`; what `store_identify_buffer` leaves
  in the buffer (some of its words are never assigned, the serial number is
  random and its terminating 0 is stored behind its array) is any member of
  `IdentifyData`.  `rw_pending_bytes` keeps the width of `size_t` (`CountMod`)
  and `rw_index` that of `int` (`IndexMod`).  `bus` records the access and the
  word it moved; `identified` says which drives took an IDENTIFY, and `overrun`
  which of them were read past their end since (history).
- In `HyDisas` punctuation and register names are left out; a text is the name,
  how the address is combined, and the fields shown with their values.
- SIGINT from the keyboard ends the process at any moment; it is not an action,
  since no property speaks about a process that is gone.

## 3. Runs

| Run | Question | Instance |
| --- | --- | --- |
| `alu_unit` | do the flags and conditions mean what programs take them for? | 1-bit bytes: 4-bit words, all operands, all operations, flags left by an earlier operation |
| `alu_less_or_equal`, `alu_carry` | documentation against code (see Findings) | the same |
| `board_pairs` | does the board implement the instruction set, and do instructions keep completing? | 31 instructions in two free slots of the program, and the programs of `board_freeze`; a main loop that is fair unless it waits for a key; no freeze, no reset |
| `board_freeze` | is the bus right under freezes and resets? | programs of bus accesses, 2 moves of FREEZE, 1 reset, anywhere |
| `board_busirq` | does BUSIRQ protect accesses nobody answers, and what does its interrupt leave of the program? | BUSIRQ high, vector in a hole of the memory map; programs whose fetches, loads, stores, calls, returns, pushes and pops meet nobody (`HolePrograms`); 1 move of FREEZE, 1 reset |
| `board_irq_stuck` | is an acknowledged interrupt lowered? | BUSIRQ high, vector in the BIOS |
| `iobus_transfers` | do transfers of several drives stay apart, in order and in their buffers, and what does a read past the end disturb? | sector of 5 bytes, byte and long reads mixed; two drives on one channel, one on the other; data and command ports of both channels, select port of the first |
| `iobus_config` | does each port answer for itself, and does one access size keep a transfer in its sector? | the PCI ports and four ATA registers; existing and missing devices and registers; one drive, sector of 4 bytes, drives with a transfer left over in uninitialised memory |
| `iobus_drq` | a comment against the code (see Findings) | the drives and ports of `iobus_transfers`; sector of 6 bytes read by halfwords |
| `decode` | do latches and disassembler follow the encodings? | every opcode with 2 payloads in its own encoding; four opcodes with 8 payloads in all encodings; every word after every other |
| `decode_compare_byte` | the instruction table against the code (see Findings) | the four opcodes |

Bounds.  `MCHyBoard` has 2-bit bytes, so 8-bit words and 256 addresses, five
registers (r0, r1, lr, sp, pc), a BIOS of four words, eight bytes of memory, the
terminal and the iobus.  A word still has four lanes, a halfword two, and all
four access sizes differ.  Three instructions and a trap suffice because the
CPU keeps nothing between instructions but registers, flags and pins: what one
instruction can leave behind for the next is visible in pairs of instructions,
and the first slot sets up the stack pointer or a value.  The programs reach
accesses that run past the end of the BIOS and of the memory, open bus, jumps
into memory, division by zero, break and illegal opcodes.  Two moves of FREEZE
are one freeze of any length; two are needed to see an instruction resume after
it.  `MaxResets` and `MaxFreezes` bound only these two inputs; the programs are
chosen so that they do not print forever, as `out` has no bound of its own.

`MCHyIobus` has 7-bit bytes, so that every port, command and PCI word that the
program uses keeps its value in TLC's integers.  A sector of five bytes holds a
long word and a byte, in any order, or five bytes, and any of these may be
followed by a long word that is wider than what is left; `CountMod` and `IndexMod`
are larger than the sector, as `AtaAssumption` demands, and small enough that a
count that wrapped around comes back into the sector by further reads, which
must not pass for a transfer.  Two drives on one channel share its select latch, a
third has the other channel: every way two transfers can be interleaved occurs.
`iobus_config` takes one drive and short sectors because it asks about ports.
`PortWords`, `DataWords` and `Sizes` bound what the program does; there is no
bound on how long it runs.

`MCHyDecode` takes payloads in which neighbouring fields differ and are not
symmetric, all zeros and all ones.

Deadlock checking is off for the board and the ALU: the process really ends (the
handlers of SIGILL, SIGINT and SIGFPE call `exit`), and `HyAluUnit` performs one
operation.  It is on for the I/O bus and the decoder.

Fairness.  `FairSpec` assumes weak fairness of `MainLoop`: the `while
(instructions)` loop of `main` is the only thread, its counter is never changed,
so it runs as long as the process does, except in `getchar`.  While the terminal is
asked for a key (`AwaitsKey`) nothing is assumed, for nobody has to press one, and
the CPU and every device stop with it; `KeepsRunning` allows exactly this way to
stop.  The programs of `board_pairs` read keys, and without that exception the
property is violated.
Nothing is assumed about FREEZE and RESET, and `board_pairs`, which checks
`KeepsRunning`, has neither.

## 4. Properties

- `ImplementsMachine` (refinement).  `HyMachine` runs one whole instruction per
  step on registers, flags, memory and output.  The mapping keeps the registers
  as they were before the instruction in flight until its effect is visible:
  when it retires or, for a store, when a device performs it.  It fails if an
  instruction is lost, repeated, reads a stale word or is torn by a freeze or a
  reset.  It covers both straps of BUSIRQ.  With BUSIRQ high, `Interrupt` of the
  machine says what a bus error does to the program: the instruction whose fetch
  or access meets nobody is abandoned, keeping what it did to `sp` and `lr` (a
  `pop` or `ret` has moved `sp` up, a `call` or `push` down, a `jal` has set
  `lr`); its address is lost, `pc` is the vector; memory, flags and output are
  untouched; no further instruction is executed, since IRQ is never lowered at
  a vector that answers (finding 3) and raised again at one that does not.  Only
  RESET ends this, and it starts at the bus error vector instead of the reset
  vector if it comes while the access is still unanswered.  One fetch is an
  exception: an acknowledge left over from power-on can hide that nobody
  answered the first one (`Fetched`).  The mapping calls the board interrupted as
  soon as a request that no device will answer is on the bus, although IRQ
  rises a clock later.
  `HyMachine` uses the operators of `HyIsa` and `HyDevices` that the board uses.
  So the refinement is about when and how often each of them takes effect, not
  about what they compute: an error in the order in which a call evaluates its
  target (`hyrisc.hpp:865`), in the `<=` of the BIOS (`bios.hpp:83`) or in a
  wrap-around (`hyrisc.hpp:836`) would be in both.
- `KeepsRunning`.  Weak fairness of the atomic machine's step: an enabled
  instruction is eventually executed, unless the board waits for a key for ever.
- `FetchedInstruction`, `DataBusFresh`, `StorePerformed`, `OnlyPendingStores`,
  `ZeroRegister`, `AccessAnswered`: the safety of the bus, see the comments in
  `HyBoard.tla`.
- `ReadsAnsweredOnce`: a read request is seen by devices only for the fetch or
  load in flight, and once; a second answer would swallow a key of the terminal
  or the next bytes of a transfer.  The acknowledge is cleared by the bus
  controller one clock after it was given, also in a freeze.
- `ImplementsIoSpace` (refinement).  `HyIoSpace` keeps for each identified drive
  the queue of bytes it still owes.  It fails if a byte is repeated, skipped or
  taken from another drive, if a select or a PCI access disturbs a transfer, if
  a missing PCI device answers with an old word, or if a drive that was not
  initialised shows through after IDENTIFY.  What it promises where nobody
  answers is what the code does: the last word stays (`Echo`).  A read wider than
  what is left takes the drive out of the ready ones (`Spoil`): from then on its
  data port promises nothing until it is identified again, and everything else
  is promised as before.
- `TransferInSector`: the count of an identified drive exceeds its buffer only
  after a read of that drive that was wider than what was left, and until its next
  IDENTIFY.
- `OneSizeStaysInside`: a program that reads with one access size, which divides
  the sector, makes no such read, whatever it does between its reads.
- `LatchesFollowLayout`: the latches against the drawing of the encodings
  (`src/hyrisc/hyrisc.hpp:397`), and 0 where the encoding has no field.
- `DisassemblesTheRest`: for every legal opcode outside `Disagree`, name, address
  form and the latches `hyrisc_execute` reads are shown, with their values, and no
  other field is; for every opcode of `Disagree` this is false.  A size that is
  printed and not looked at counts as a disagreement.
- `SignedOrder`, `EqualityIsExact`, `ShiftsScale`: the ALU.  `ShiftsScale` is about
  counts below the word width and says of `asr` what the code does, an unsigned
  shift; nothing is stated about counts at the width or above, which C++ leaves
  undefined.
- `UnsignedConditionsFixed`: since no operation sets carry or overflow, CS, VS and
  HI never hold and CC, VC and LS always do, whatever was compared.

## 5. Findings

1. `CarryOutOfAdd`: the carry flag is never set.  The 64-bit temporary is
   assigned from a 32-bit expression.  The example in
   `src/hyrisc/hyrisc.hpp:213` shows it set.
2. `LessOrEqualIsNotGreater`: LE is computed with `&&`, so it is taken neither
   for equal nor for smaller operands, against "ARM-like Condition Codes"
   (`src/README.md:15`).
3. `InterruptLowered`: after an acknowledged bus error, IRQ stays high when the
   vector is answered, and every clock fetches the vector again, against the
   comment of `src/hyrisc/hyrisc.hpp:57`.
4. `DrqMeansPending`: after the last byte of an IDENTIFY the status still shows
   DRQ, "Data request ready" (`src/dev/iobus/ata.hpp:64`).
5. `CompareByteComparesByte`: `cmp.b` compares with the 16-bit immediate, which
   its encoding leaves at 0, against the instruction table
   (`src/hyrisc/hyrisc.hpp:438`).

The models show more places where the code is not what a reader expects; they
are stated as what the code does and have no run of their own:

- A data read takes 1, 2 or 4 bytes from the count without looking how many are
  left (`ata.hpp:702`): a program that reads one byte and then long words
  subtracts 4 from 3 at the end, and reads past the buffer from then on
  (`PastEnd` of `HyIobus`, `Spoil` of `HyIoSpace`).
- The register at offset 1, error and features, is the drive select
  (`ata.hpp:801` has no `break`): `Answer` and `Write` of `HyIoSpace` say so.
- `tst` in encodings 0 and 1 tests bit 0, although the comment at
  `hyrisc.hpp:521` allows it in any encoding: `Reads` in `HyDecode`.
- The disassembler prints the loads with a fixed offset as stores and the stores
  as leas, with an older numbering of the opcodes: `Moved` in `HyDisas`.
- The sizes of compare and of the reset of a range are printed, and are in the
  instruction table (`hyrisc.hpp:437`, 439, 454), but the CPU compares and clears
  whole registers (`hyrisc.hpp:749`, 751, 780): `SizeIgnored` in `HyDisas`.
- The unsigned conditions of the branches decide nothing
  (`UnsignedConditionsFixed`): finding 1 as a program sees it.

## 6. Proofs

`tlapm` checks every theorem for all values of the constants: word width,
number of registers, memory map, programs, decoder, keys, strap of BUSIRQ, and
any number of freezes and resets.  The assumptions are the named `ASSUME`s of
`HyWords`, `HyIsa`, `HyDevices`, `Hyrisc`, `HyBoard`, `HyPci`, `HyAta`, `HyIobus`
and `HyDecode`: the moduli match, words of the decoder have 32 bits, the constant
decoder of the board gives well-typed fields, the device ranges do not overlap (on the board
they are disjoint), and the vectors are words.

- `TypeCorrect`: `Spec => []TypeOK`.  `TypeOK` is inductive by itself once the
  operators have types (`HyIsaTheorems`); the work is in the wrap-around of the
  arithmetic and in `pc` and `sp`.
- `ZeroRegisterHolds`, `FetchedInstructionHolds`, `DataBusFreshHolds`,
  `StorePerformedHolds`, `OnlyPendingStoresHold`: all follow from
  `BusInvariant` of `HyBoardSafety`.  None is inductive alone: that the word on
  the bus is right when the CPU latches it depends on which device had its turn
  since the request.  `BusInvariant` records this in the present state: a
  request whose device had its turn is acknowledged (`SeenIsAcknowledged`); a
  request that a device will still answer is of this round, so the CPU waits in
  cycle 1 or 3 (`PendingIsNew`); an acknowledge without a request is left over
  from power-on and is gone after the first fetch (`StrayAcknowledge`); the
  request is the one the cycle is about (`RequestMatchesCycle`); the data are
  right once the device had its turn, and stay right while others have theirs
  (`SettledRead`, `SettledWrite`), because no two devices answer an address and
  memory changes only by the request on the bus.  The step lemmas are one per
  part of the loop: `ClockSafe`, `DeviceSafe`, `ResetSafe`, `FreezeSafe`.
- `AccessAnsweredHolds`: by `InterruptInFlight`, an acknowledged interrupt is
  one whose vector is being fetched, so in cycle 3 nothing can swallow the bus
  error.

- `BoardImplementsMachine`: `Spec => ImplementsMachine`, for both straps of BUSIRQ,
  every program and any number of freezes and resets.  `IssueInvariant` of
  `HyBoardRefinement` adds to `BusInvariant` what the refinement mapping needs:
  how far an interrupt has come (`InterruptPins`: it is raised while an access
  goes unanswered, and acknowledged while its vector is fetched); that the
  instruction in flight was fetched from a device and its access has found one,
  unless it is interrupted (`FetchHeard`, `AccessHeard`), except for the first
  fetch after power-on (`StrayAtStart`); the word on the bus is one the
  machine may read, also from the terminal, the iobus and an open bus
  (`AnswerOnBus`); until an instruction happens its word is still what its
  address gives (`InstructionAtPc`), although the instruction before it may have
  overwritten it; registers and pins of a load or store in flight are those the
  instruction set computes from the registers it began with (`LoadInFlight`,
  `StoreInFlight`).  Then each action is a stutter of the machine (fetch, latch,
  issue, a device answering a read, a freeze, the repeated fetch of the vector),
  its `Reset`, its `Interrupt` (a request nobody will answer: `FetchRequestStep`,
  `IssueStep`), or its `Step`: an
  instruction without bus access or a load when it retires (`ExecuteStep`,
  `LoadStep`), a store when its device performs it (`PerformStep`), a store to
  an open bus when it retires (`FinishStep`).  `IssueInvariant` was checked with
  TLC on the programs of `board_freeze` and `board_busirq` before it was proved.

- `ReadsAnsweredOnceHolds`: from `BusInvariant` again: a request that was
  answered is acknowledged, and the bus controller drops an acknowledged request
  before the CPU can make another.
- `SignedOrderHolds`, `UnsignedConditionsFixedHolds`: TLC tries words of 4 bits, the
  theorems have any width; they rest on the types (`AluTypeCorrect`).  `AluInvariant` says that after an operation that subtracts the
  flags are those of the difference, and V is never set; `DifferenceOfSigned` is
  the arithmetic: a difference that is a signed word and the unsigned difference
  modulo the word have the same sign.
- `EqualityIsExactHolds`, `ShiftsScaleHolds`, `OperationsAnswer`: what the bitwise
  operations and the shifts compute, for words of every width.  A bit is a
  quotient by a power of two (`Bit` in `HyWords`), so the argument is an induction
  over the number of bits: `DivideTwice` and `BitsOfHalf` peel off the lowest bit,
  `BitsDetermine` says that a word has no other bits than its own, and `BitsExist`
  that every choice of bits is a word.  With these an exclusive or is 0 only for
  equal words (`XorIsZero`), a shift moves every bit and is the multiplication or
  division it is used for (`ShiftLeftScales`, `ShiftRightScales`), and the set of
  results that the model gives an operation has one member, but none for a
  division by 0, and perhaps more for a shift by the width or more, which is
  undefined in C++ (`OperationsAnswer`): the nondeterminism of the model is the
  code's, and no definition by bits is empty by accident.
- `DecodeTypeCorrect`, `LatchesFollowLayoutHolds`, `DisassemblesTheRestHolds`: TLC
  tries some 600 words, the theorems have all of them, and any latches before.
  The inductive invariant is `DecoderFollows`: the latches are `Decoded` of the
  instruction, from some earlier latches.  `BITSStep` unfolds a bit field by its
  first bit; `BITSTypes` bounds a field by its width.  `OffsetUnfolds` computes
  where the fields of the drawn layouts begin, and `LayoutPlaced` that this is
  where `Fields` takes them from.  For the disassembler, `Corresponds` relates a row
  of its table to a case of `hyrisc_execute`; `TablesCorrespond` finds a row for each
  legal opcode outside `Disagree` and shows that they correspond; `ReadsAreShown` and
  `LowBits` (the mask of `tst`) are the rest.  `DisagreeDiffers` is the converse: a
  legal opcode of `Disagree` has no row, or one with another name, or one that
  shows a size its case does not read.
- Induction.  The library's induction theorems take an operator as a parameter,
  which the provers here cannot instantiate.  `SetInduction` of `HyInduction` takes
  a set instead: a set with 0 and with the successor of each of its numbers has
  all of them.  It is proved from the theorems about finite sets: if some m
  were missing, the missing numbers up to m, each moved down by one, would be
  missing as well, and one fewer.  `RecursionExists` gives from it the function with a first value and a given
  step, which is what the recursive functions of the models (`Pow2`, the one in
  `BITS`, `Offset`) need in order to be unfolded.
- `IobusTypeCorrect`: also for programs that mix access sizes, and for drives
  that are read before they are identified: a count that wraps around stays a
  count.
- `TransferInSectorHolds`: by `DrivesReady`, which adds the status of an
  identified drive; it holds of every program.
- `OneSizeStaysInsideHolds`: `overrun = {}` is not inductive, for it says nothing
  about a last access that is too wide.  `WholeWords` adds that an identified drive
  owes a multiple of the access size, which needs `OneSize`: the program reads
  with one access size, and it divides the sector.  (With sizes 0 to 3 and a
  sector of 512 bytes the second part always holds.)
- `IobusImplementsIoSpace`: the queue of a drive is the last `pending` bytes of
  its buffer (`Left`).  A data read takes its first bytes (`TailFirst`) and leaves
  the rest (`TailRest`), or is wider than the queue and spoils it; every other action leaves every queue alone
  (`LeftSame`), except an IDENTIFY, which fills one.  One lemma per action
  (`RefinesLatch` to `RefinesReadNobody`).

Every invariant and action property of the passing runs is stated by a theorem.
Model-checked only: liveness (`KeepsRunning`), which is outside what the prover
supports (fairness and ENABLED), and the instances' concrete decoder.

## 7. Not modelled, and the plan

Not modelled: the floating point unit (no instruction reaches it), flash and UART
(not attached, the UART does not compile), command line and log (option parsing
that `main` never calls, and formatted output).  Of the block device only `open`
and `is_open` are called: their result is the constant `Attached`; `read`,
`write` and `size` have no caller.  `redefine_ports` of the ATA controller has
none either, and its READ PIO command and data writes are empty in the code.

Done: words, ALU, instruction set, CPU, board and atomic machine with the bus
invariant and the refinement, bus error interrupts included; I/O bus with PCI and ATA and its refinement;
decoder and disassembler; the ALU for every width; the decoder and the disassembler
for every word.

Left:

1. `HyIobus` in place of `IoWords` in the board, as one specification; the board's
   theorems already hold for any words the devices leave.
2. A theorem that `Decoded` of `HyDecode`, taken on the bits of a word of four
   8-bit bytes, is a decoder as `HyIsa` assumes one, so that the board's theorems
   apply to it by name.
3. ATA commands beyond IDENTIFY, and with them the block device, when the code
   has them.
