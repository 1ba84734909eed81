------------------------------- MODULE Hyrisc -------------------------------
(***************************************************************************)
(* The hyrisc CPU (src/hyrisc/hyrisc.hpp, src/hyrisc/state.hpp): its       *)
(* internal state, its pins and one action per path through hyrisc_clock.  *)
(* A clock first updates the bus controller (BciUpdate), then handles the  *)
(* signals (freeze, irq) and then does one of four cycles: request an      *)
(* instruction, latch it, execute it, finish its bus access.               *)
(* hyrisc_pulse_reset, the FREEZE pin and the power-on are here too; the   *)
(* devices that answer the bus and the main loop are in HyBoard.           *)
(***************************************************************************)
EXTENDS HyIsa

CONSTANTS
    BusErrorVector,     (* 0xf0000000 | (be << 8), for each error code be *)
    BusIrq,             (* how the board straps the BUSIRQ pin: FALSE *)
    ResetVector         (* the vector the board resets the CPU with: 0 *)

ASSUME HyriscAssumption ==
    /\ BusErrorVector \in [Byte -> Word]
    /\ BusIrq \in BOOLEAN
    /\ ResetVector \in Word

VARIABLES
    r,              (* the register file *)
    st,             (* the status register *)
    cycle,          (* the cycle counter *)
    instruction,    (* the instruction latch *)
    pins,           (* proc->ext *)
    status          (* "running", or the signal that ended the process *)

cpuVars == <<r, st, cycle, instruction, pins, status>>

Pins ==
    [a : Word, d : Word, s : Sizes, rw : BOOLEAN, be : Byte,
     busreq : BOOLEAN, busack : BOOLEAN, busirq : BOOLEAN,
     v : Word, irq : BOOLEAN, irqack : BOOLEAN, freeze : BOOLEAN]

CpuTypeOK ==
    /\ r \in [Regs -> Word]
    /\ st \in SUBSET Flags
    /\ cycle \in 0..3
    /\ instruction \in Word
    /\ pins \in Pins
    /\ status \in {"running", "SIGILL", "SIGINT", "SIGFPE"}
-----------------------------------------------------------------------------
(* Mutants of BciUpdate: the request outlives its acknowledge, or only the *)
(* error code raises the interrupt.                                        *)
BciUpdateKeepsRequest(p) ==
    IF p.busreq /\ p.busack THEN [p EXCEPT !.busack = FALSE] ELSE p

BciUpdateErrorsOnly(p) ==
    IF p.busreq /\ p.busack THEN [p EXCEPT !.busreq = FALSE, !.busack = FALSE]
    ELSE IF ~p.busirq \/ p.be = 0 THEN p
    ELSE [p EXCEPT !.irq = TRUE, !.v = BusErrorVector[p.be]]

(* hyrisc_bci_update: retire an acknowledged request; else, when BUSIRQ is *)
(* high and the last request met an error or nobody, raise the interrupt,  *)
(* or lower it if it was acknowledged.                                     *)
BciUpdate(p) ==
    IF p.busreq /\ p.busack THEN [p EXCEPT !.busreq = FALSE, !.busack = FALSE]
    ELSE IF ~p.busirq \/ (p.be = 0 /\ (p.busack \/ ~p.busreq)) THEN p
    ELSE IF p.irqack THEN [p EXCEPT !.be = 0, !.irqack = FALSE, !.irq = FALSE]
    ELSE [p EXCEPT !.irq = TRUE, !.v = BusErrorVector[p.be]]

(* hyrisc_init_read and hyrisc_init_write. *)
InitReadSilent(p, a, s) ==     \* mutant of InitRead: no BUSREQ
    [p EXCEPT !.a = a, !.s = s, !.rw = FALSE]

InitRead(p, a, s) ==
    [p EXCEPT !.a = a, !.s = s, !.rw = FALSE, !.busreq = TRUE, !.be = 0]

InitWriteSilent(p, a, d, s) ==     \* mutant of InitWrite: no BUSREQ
    [p EXCEPT !.a = a, !.s = s, !.d = d, !.rw = TRUE]

InitWrite(p, a, d, s) ==
    [p EXCEPT !.a = a, !.s = s, !.d = d, !.rw = TRUE, !.busreq = TRUE, !.be = 0]

(* The pins as hyrisc_reset leaves them: busack and the vector stay. *)
ResetPins(p) ==
    [p EXCEPT !.a = WordMod - 1, !.d = WordMod - 1, !.rw = FALSE, !.s = Execute,
              !.be = 0, !.busreq = FALSE, !.irq = FALSE, !.irqack = FALSE,
              !.busirq = TRUE, !.freeze = FALSE]

(* hyrisc_pulse_reset: one clock with the RESET pin high, so that the bus  *)
(* controller is updated before the reset reads the vector back.  The      *)
(* board then straps BUSIRQ (main.cpp).                                    *)
PulsedPins(p) == BciUpdate([p EXCEPT !.v = ResetVector])
PulsedRegs(p) == [k \in Regs |-> IF k = PC THEN PulsedPins(p).v ELSE 0]
StrappedPins(p) == [ResetPins(PulsedPins(p)) EXCEPT !.busirq = BusIrq]

(* main allocates hyrisc_t without initialising it: at power-on, the pins  *)
(* that BciUpdate reads hold anything.                                     *)
PowerOnPins ==
    [a : {0}, d : {0}, s : {0}, rw : {FALSE}, be : Byte,
     busreq : BOOLEAN, busack : BOOLEAN, busirq : BOOLEAN,
     v : {0}, irq : {FALSE}, irqack : BOOLEAN, freeze : {FALSE}]

PowerUps == {<<PulsedRegs(p), StrappedPins(p)>> : p \in PowerOnPins}

CpuInit ==
    /\ \E up \in PowerUps : r = up[1] /\ pins = up[2]
    /\ st = {} /\ cycle = 0 /\ instruction = WordMod - 1
    /\ status = "running"
-----------------------------------------------------------------------------
Bci == BciUpdate(pins)

(* Mutant of FrozenClock: a frozen CPU does nothing at all. *)
FrozenClockSkipsBus ==
    /\ status = "running" /\ pins.freeze
    /\ UNCHANGED cpuVars

(* FREEZE is high: the clock only updates the bus controller. *)
FrozenClock ==
    /\ status = "running" /\ Bci.freeze
    /\ pins' = Bci
    /\ UNCHANGED <<r, st, cycle, instruction, status>>

FetchVectorGoesOn ==     \* mutant of FetchVector: the cycle counter stays
    /\ status = "running" /\ ~Bci.freeze /\ Bci.irq
    /\ r' = [r EXCEPT ![PC] = Bci.v]
    /\ pins' = [Bci EXCEPT !.irqack = TRUE]
    /\ cycle' = (cycle + 1) % 4
    /\ UNCHANGED <<st, instruction, status>>

(* IRQ is high: whatever the CPU was doing, fetch from the vector.  *)
FetchVector ==
    /\ status = "running" /\ ~Bci.freeze /\ Bci.irq
    /\ r' = [r EXCEPT ![PC] = Bci.v]
    /\ pins' = InitRead([Bci EXCEPT !.irqack = TRUE], Bci.v, Execute)
    /\ cycle' = 1
    /\ UNCHANGED <<st, instruction, status>>

(* All signals handled: the CPU does cycle c. *)
Cycle(c) == status = "running" /\ ~Bci.freeze /\ ~Bci.irq /\ cycle = c

FetchRequest ==
    /\ Cycle(0)
    /\ pins' = InitRead(Bci, r[PC], Execute)
    /\ cycle' = 1
    /\ UNCHANGED <<r, st, instruction, status>>

FetchLatch ==
    /\ Cycle(1)
    /\ instruction' = Bci.d
    /\ r' = [r EXCEPT ![PC] = Wrap(r[PC] + 4)]
    /\ cycle' = 2
    /\ pins' = Bci
    /\ UNCHANGED <<st, status>>

I == Decode[instruction]

(* hyrisc_execute returned true: registers rr, flags f. *)
Retire(rr, f) ==
    /\ r' = ZeroR0(rr)
    /\ st' = f
    /\ cycle' = 0
    /\ UNCHANGED <<instruction, status>>

ExecuteMove ==
    /\ Cycle(2) /\ I.opcode \in MoveOpcodes
    /\ \E w \in MoveResults(I, r) : Retire([r EXCEPT ![I.x] = w], st)
    /\ pins' = Bci

ExecuteAlu ==
    /\ Cycle(2) /\ I.opcode \in AluOpcodes
    /\ \E t \in Temps(I, r) : Retire(AluRegs(I, r, t), NextFlags(st, t))
    /\ pins' = Bci

ExecuteJump ==
    /\ Cycle(2) /\ I.opcode \in JumpOpcodes
    /\ Retire(JumpRegs(I, r, st), st)
    /\ pins' = Bci

ExecuteResetRange ==
    /\ Cycle(2) /\ I.opcode = Rstm
    /\ Retire(ResetRange(I, r), st)
    /\ pins' = Bci

(* nop, and a call or a return whose condition is false. *)
ExecuteNothing ==
    /\ Cycle(2)
    /\ I.opcode = Nop \/ ~Taken(I, st)
    /\ Retire(r, st)
    /\ pins' = Bci

ExecuteTrap ==
    /\ Cycle(2) /\ Signal(I, r) # "none"
    /\ status' = Signal(I, r)
    /\ pins' = Bci
    /\ UNCHANGED <<r, st, cycle, instruction>>

IssueReadAfterIncrement ==     \* mutant of IssueRead: pop reads at the new sp
    /\ Cycle(2) /\ I.opcode \in ReadOpcodes /\ Taken(I, st)
    /\ pins' = InitRead(Bci, ReadAddress(I, ReadIssued(I, r)), ReadSize(I))
    /\ r' = ReadIssued(I, r)
    /\ cycle' = 3
    /\ UNCHANGED <<st, instruction, status>>

IssueRead ==
    /\ Cycle(2) /\ I.opcode \in ReadOpcodes /\ Taken(I, st)
    /\ pins' = InitRead(Bci, ReadAddress(I, r), ReadSize(I))
    /\ r' = ReadIssued(I, r)
    /\ cycle' = 3
    /\ UNCHANGED <<st, instruction, status>>

IssueWrite ==
    /\ Cycle(2) /\ I.opcode \in WriteOpcodes /\ Taken(I, st)
    /\ pins' = InitWrite(Bci, WriteAddress(I, r), WriteValue(I, r), WriteSize(I))
    /\ r' = WriteIssued(I, r)
    /\ cycle' = 3
    /\ UNCHANGED <<st, instruction, status>>

FinishRead ==
    /\ Cycle(3) /\ I.opcode \in ReadOpcodes
    /\ Retire(ReadDone(I, r, Bci.d), st)
    /\ pins' = Bci

(* Mutant of FinishWrite: the clock obeys hyrisc_bus_wait. *)
FinishWriteWaits ==
    /\ Cycle(3) /\ I.opcode \in WriteOpcodes
    /\ IF Bci.busack THEN Retire(r, st) ELSE UNCHANGED <<r, st, cycle, instruction, status>>
    /\ pins' = [Bci EXCEPT !.busack = FALSE]

(* hyrisc_bus_wait lowers BUSACK; the clock ignores that it may ask for    *)
(* another cycle.                                                          *)
FinishWrite ==
    /\ Cycle(3) /\ I.opcode \in WriteOpcodes
    /\ Retire(r, st)
    /\ pins' = [Bci EXCEPT !.busack = FALSE]

Clock ==
    \/ FrozenClock \/ FetchVector \/ FetchRequest \/ FetchLatch
    \/ ExecuteMove \/ ExecuteAlu \/ ExecuteJump \/ ExecuteResetRange
    \/ ExecuteNothing \/ ExecuteTrap
    \/ IssueRead \/ IssueWrite \/ FinishRead \/ FinishWrite

(* The embedder of the CPU pulses RESET or moves the FREEZE pin. *)
PulseResetKeepsCycle ==     \* mutant of PulseReset
    /\ status = "running"
    /\ r' = PulsedRegs(pins) /\ pins' = StrappedPins(pins)
    /\ st' = {} /\ instruction' = WordMod - 1
    /\ UNCHANGED <<cycle, status>>

PulseReset ==
    /\ status = "running"
    /\ r' = PulsedRegs(pins) /\ pins' = StrappedPins(pins)
    /\ st' = {} /\ cycle' = 0 /\ instruction' = WordMod - 1
    /\ UNCHANGED status

MoveFreeze ==
    /\ status = "running"
    /\ pins' = [pins EXCEPT !.freeze = ~@]
    /\ UNCHANGED <<r, st, cycle, instruction, status>>
=============================================================================
