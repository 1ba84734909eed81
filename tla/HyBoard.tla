------------------------------ MODULE HyBoard ------------------------------
(***************************************************************************)
(* The board (src/main.cpp): the main loop clocks the CPU and then lets    *)
(* each device of the hardware vector look at the pins, in the order they  *)
(* were added: the terminal, the iobus, the BIOS and the memory.           *)
(***************************************************************************)
EXTENDS Hyrisc, HyDevices

CONSTANTS
    Images,         (* the contents the BIOS and the memory may start with *)
    MaxResets,      (* bound: how often the embedder pulses RESET *)
    MaxFreezes      (* bound: how often it moves the FREEZE pin *)

ASSUME BoardAssumption ==
    /\ Images \subseteq [RamBytes -> Byte] /\ Images # {}
    /\ MaxResets \in Nat /\ MaxFreezes \in Nat

VARIABLES
    mem,        (* the bytes of the BIOS and of the memory *)
    out,        (* what the terminal printed *)
    port,       (* the iobus address latch, ext.port *)
    turn,       (* 0: the CPU; 1 .. 4: the device whose update() is next *)
    resets,     (* RESET pulses so far *)
    freezes     (* moves of the FREEZE pin so far *)

deviceVars == <<mem, out, port>>
vars == <<r, st, cycle, instruction, pins, status,
          mem, out, port, turn, resets, freezes>>

TypeOK ==
    /\ CpuTypeOK
    /\ mem \in [RamBytes -> Byte]
    /\ out \in Seq(Byte)
    /\ port \in Word
    /\ turn \in 0..4
    /\ resets \in 0..MaxResets
    /\ freezes \in 0..MaxFreezes

Init ==
    /\ CpuInit
    /\ mem \in Images
    /\ out = <<>>
    /\ port \in IoWords
    /\ turn = 0
    /\ resets = 0
    /\ freezes = 0
-----------------------------------------------------------------------------
CpuClock ==
    /\ turn = 0
    /\ Clock
    /\ turn' = 1
    /\ UNCHANGED <<deviceVars, resets, freezes>>

(* A device answers: it raises BUSACK, clears the error code and, for a    *)
(* read, puts a word of the set on the data bus.                           *)
Acknowledge(p) == [p EXCEPT !.busack = TRUE, !.be = 0]

AnswerRead(words) ==
    /\ ~pins.rw
    /\ \E d \in words : pins' = [Acknowledge(pins) EXCEPT !.d = d]
    /\ UNCHANGED deviceVars

(* update() of the device whose turn is n, when the pins select it. *)
Update(n, answers) ==
    /\ turn = n /\ status = "running"
    /\ pins.busreq /\ pins.a \in answers
    /\ turn' = (n + 1) % 5
    /\ UNCHANGED <<r, st, cycle, instruction, status, resets, freezes>>

TerminalUpdate ==
    /\ Update(1, TermAnswers)
    /\ \/ AnswerRead(ReadTerminal(pins.a))
       \/ /\ pins.rw
          /\ pins' = Acknowledge(pins)
          /\ out' = WriteTerminal(out, pins.a, pins.d)
          /\ UNCHANGED <<mem, port>>

(* The devices behind the iobus see a write to the data port and may leave *)
(* any word of IoWords for a read.                                         *)
IobusUpdate ==
    /\ Update(2, IoAnswers)
    /\ \/ AnswerRead(IF pins.a = IoPort THEN {port} ELSE IoWords)
       \/ /\ pins.rw
          /\ pins' = Acknowledge(pins)
          /\ port' = IF pins.a = IoPort THEN pins.d ELSE port
          /\ UNCHANGED <<mem, out>>

BiosUpdate ==
    /\ Update(3, BiosAnswers)
    /\ \/ AnswerRead(ReadVector(mem, BiosBytes, pins.a, pins.s))
       \/ /\ pins.rw
          /\ pins' = Acknowledge(pins)
          /\ mem' = WriteVector(mem, BiosBytes, pins.a, pins.s, pins.d)
          /\ UNCHANGED <<out, port>>

MemoryUpdate ==
    /\ Update(4, MemAnswers)
    /\ \/ AnswerRead(ReadVector(mem, MemBytes, pins.a, pins.s))
       \/ /\ pins.rw
          /\ pins' = Acknowledge(pins)
          /\ mem' = WriteVector(mem, MemBytes, pins.a, pins.s, pins.d)
          /\ UNCHANGED <<out, port>>

Answers(n) == <<TermAnswers, IoAnswers, BiosAnswers, MemAnswers>>[n]

(* update() returns early: no request, or not this device's address. *)
IdleUpdate ==
    /\ turn \in 1..4 /\ status = "running"
    /\ ~pins.busreq \/ pins.a \notin Answers(turn)
    /\ turn' = (turn + 1) % 5
    /\ UNCHANGED <<cpuVars, deviceVars, resets, freezes>>

DeviceUpdate ==
    TerminalUpdate \/ IobusUpdate \/ BiosUpdate \/ MemoryUpdate \/ IdleUpdate

(* Between two rounds of the main loop. *)
EmbedderReset ==
    /\ turn = 0 /\ resets < MaxResets
    /\ PulseReset
    /\ resets' = resets + 1
    /\ UNCHANGED <<deviceVars, turn, freezes>>

EmbedderFreeze ==
    /\ turn = 0 /\ freezes < MaxFreezes
    /\ MoveFreeze
    /\ freezes' = freezes + 1
    /\ UNCHANGED <<deviceVars, turn, resets>>

MainLoop == CpuClock \/ DeviceUpdate
Next == MainLoop \/ EmbedderReset \/ EmbedderFreeze

Spec == Init /\ [][Next]_vars

(* The terminal is asked for a key: getchar may wait for one for ever, and *)
(* the main loop with it.                                                  *)
AwaitsKey == turn = 1 /\ pins.busreq /\ ~pins.rw /\ pins.a = TermBase + 1

(* But for that, the main loop runs as long as the process does. *)
FairSpec == Spec /\ WF_vars(MainLoop /\ ~AwaitsKey)
-----------------------------------------------------------------------------
RamAnswers == BiosAnswers \cup MemAnswers

(* The bytes of the device that answers address a of RamAnswers, and the   *)
(* words a read there may give now.                                        *)
Region(a) == IF a \in BiosAnswers THEN BiosBytes ELSE MemBytes
ReadRam(a, s) == ReadVector(mem, Region(a), a, s)

(* The zero register reads 0 to every instruction, although instructions,  *)
(* loads and range resets may name it as their destination                 *)
(* (hyrisc_clock clears it when an instruction retires).                   *)
ZeroRegister == r[R0] = 0

(* The instruction about to be executed is the one memory holds at the     *)
(* address pc - 4, whatever freezes, resets and interrupts came between    *)
(* the request of the fetch, its answer and the latch                      *)
(* (hyrisc_clock, cycles 0 to 2).                                          *)
FetchedInstruction ==
    LET a == Wrap(r[PC] - 4)
    IN  cycle = 2 /\ a \in RamAnswers => instruction \in ReadRam(a, Execute)

(* When the CPU takes a word off the data bus, the bus holds the word that *)
(* memory has now at the address requested: the answer did not go stale,   *)
(* and no other device put its own there (hyrisc_clock, hyrisc_do_read).   *)
DataBusFresh ==
    turn = 0 /\ cycle \in {1, 3} /\ ~pins.rw /\ pins.a \in RamAnswers =>
        pins.d \in ReadRam(pins.a, pins.s)

(* When a store finishes, memory holds every byte of it that lies in the   *)
(* device selected (hyrisc_init_write, dev_memory_t::update).              *)
StorePerformed ==
    turn = 0 /\ cycle = 3 /\ pins.rw /\ pins.a \in RamAnswers =>
        \A b \in Region(pins.a) :
            b - pins.a \in 0..(SizeBytes(pins.s) - 1) => mem[b] = Lane(pins.d, b - pins.a)

(* Memory and terminal change only by a store in flight that nobody has    *)
(* acknowledged yet: a request left on the bus by a freeze, or by the end  *)
(* of an instruction, is not performed again (hyrisc_bci_update).          *)
OnlyPendingStores ==
    [][mem' # mem \/ out' # out =>
        cycle = 3 /\ I.opcode \in WriteOpcodes /\ ~pins.busack]_vars

(* A device answers a read only for the fetch or the load in flight, and a *)
(* request that was answered is off the bus in the next round, unless the  *)
(* CPU made another one: a read of the terminal or of the iobus, which     *)
(* takes a key or the next bytes of a transfer away, happens once whatever *)
(* freezes and resets come between (hyrisc_bci_update against the update() *)
(* of dev_terminal_t and dev_iobus_t).                                     *)
ReadsAnsweredOnce ==
    [][/\ turn \in 1..4 /\ pins.busreq /\ ~pins.rw /\ pins.a \in Answers(turn) =>
              cycle = 1 \/ (cycle = 3 /\ I.opcode \in ReadOpcodes)
       /\ turn = 0 /\ turn' = 1 /\ pins.busack /\ pins'.busreq =>
              cycle' # cycle \/ pins'.irqack]_vars

(* With BUSIRQ strapped high no load or store finishes that nobody         *)
(* answered: the interrupt takes the CPU away first, even when another one *)
(* was acknowledged shortly before (hyrisc_bci_update and                  *)
(* hyrisc_handle_signals, against case 3 of hyrisc_clock).                 *)
AccessAnswered ==
    [][turn = 0 /\ cycle = 3 /\ cycle' = 0 /\ UNCHANGED resets /\ pins.busirq =>
        pins.busack \/ ~pins.busreq]_vars

(* hyrisc_bci_update on an acknowledged bus error: "clear bus error and    *)
(* lower IRQ".                                                             *)
InterruptLowered == pins.irqack ~> ~pins.irq
=============================================================================
