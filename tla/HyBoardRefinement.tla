------------------------- MODULE HyBoardRefinement -------------------------
(***************************************************************************)
(* The board implements the atomic machine, proved for every value of the  *)
(* constants and for both straps of BUSIRQ.                                *)
(*                                                                         *)
(* Every step of the board is one of four: it changes nothing the machine  *)
(* has (a request, a latch, an answer to a read, a frozen clock), it is a  *)
(* reset, it is the moment an instruction happens (it retires, or a device *)
(* performs its store), or it requests an access nobody will answer, which *)
(* makes the interrupt certain.  IssueInvariant says what the registers    *)
(* and the request hold meanwhile, relative to the registers the           *)
(* instruction began with, and how far an interrupt has come.              *)
(***************************************************************************)
EXTENDS HyBoardSafety, HyBoardRefines

(* The operators of the instruction set mean the same in both              *)
(* specifications.                                                         *)
LEMMA SameWords ==
    ASSUME NEW x, NEW y
    PROVE  /\ Machine!Word = Word /\ Machine!Wrap(x) = Wrap(x)
           /\ Machine!PC = PC /\ Machine!Execute = Execute /\ Machine!Byte = Byte
           /\ Machine!RamBytes = RamBytes
BY DEF Machine!Word, Word, Machine!Wrap, Wrap, Machine!PC, PC, Machine!Execute, Execute,
    Machine!WordMod, WordMod, Machine!HalfMod, HalfMod, Machine!Byte, Byte,
    Machine!RamBytes, RamBytes, Machine!BiosBytes, BiosBytes, Machine!MemBytes, MemBytes

LEMMA SameOpcodes ==
    /\ Machine!MoveOpcodes = MoveOpcodes /\ Machine!AluOpcodes = AluOpcodes
    /\ Machine!JumpOpcodes = JumpOpcodes /\ Machine!Rstm = Rstm /\ Machine!Nop = Nop
    /\ Machine!ReadOpcodes = ReadOpcodes /\ Machine!WriteOpcodes = WriteOpcodes
BY DEF Machine!MoveOpcodes, MoveOpcodes, Machine!AluOpcodes, AluOpcodes,
    Machine!JumpOpcodes, JumpOpcodes, Machine!Rstm, Rstm, Machine!Nop, Nop,
    Machine!ReadOpcodes, ReadOpcodes, Machine!WriteOpcodes, WriteOpcodes,
    Machine!LoadOpcodes, LoadOpcodes, Machine!StoreOpcodes, StoreOpcodes,
    Machine!CallOpcodes, CallOpcodes, Machine!Ret, Ret, Machine!Pop, Pop, Machine!Push, Push

LEMMA SameIsa ==
    ASSUME NEW i, NEW x, NEW f, NEW t
    PROVE  /\ Machine!MoveResults(i, x) = MoveResults(i, x)
           /\ Machine!Temps(i, x) = Temps(i, x)
           /\ Machine!AluRegs(i, x, t) = AluRegs(i, x, t)
           /\ Machine!NextFlags(f, t) = NextFlags(f, t)
           /\ Machine!JumpRegs(i, x, f) = JumpRegs(i, x, f)
           /\ Machine!ResetRange(i, x) = ResetRange(i, x)
           /\ Machine!Taken(i, f) = Taken(i, f)
           /\ Machine!Signal(i, x) = Signal(i, x)
           /\ Machine!ZeroR0(x) = ZeroR0(x)
<1>1. Machine!MoveResults(i, x) = MoveResults(i, x)
    BY DEF MoveResults, Machine!MoveResults, Indexed, Machine!Indexed, HalfMod,
        Machine!HalfMod, WithBits, Machine!WithBits, BitIndices, Machine!BitIndices,
        SignMask, Machine!SignMask, Bit, Machine!Bit, Wrap, Machine!Wrap, Word,
        Machine!Word, WordBits, Machine!WordBits, WordMod, Machine!WordMod
<1>2. Machine!Temps(i, x) = Temps(i, x)
    BY DEF Temps, Machine!Temps, AluTemps, Machine!AluTemps, AluSrc1,
        Machine!AluSrc1, AluSrc2, Machine!AluSrc2, Wrap, Machine!Wrap, WithBits,
        Machine!WithBits, BitIndices, Machine!BitIndices, Bit, Machine!Bit, WordMod,
        Machine!WordMod, ShiftLeft, Machine!ShiftLeft, ShiftCounts,
        Machine!ShiftCounts, ShiftRight, Machine!ShiftRight, Half, Machine!Half,
        Word, Machine!Word, WordBits, Machine!WordBits, HalfMod, Machine!HalfMod
<1>3. Machine!AluRegs(i, x, t) = AluRegs(i, x, t)
    BY DEF AluRegs, Machine!AluRegs, TestOnly, Machine!TestOnly, Wrap, Machine!Wrap,
        WordMod, Machine!WordMod, HalfMod, Machine!HalfMod
<1>4. Machine!NextFlags(f, t) = NextFlags(f, t)
    BY DEF NextFlags, Machine!NextFlags, WordMod, Machine!WordMod, HalfMod,
        Machine!HalfMod
<1>5. Machine!JumpRegs(i, x, f) = JumpRegs(i, x, f)
    BY DEF JumpRegs, Machine!JumpRegs, TestCondition, Machine!TestCondition, Linked,
        Machine!Linked, PC, Machine!PC, Target, Machine!Target, LR, Machine!LR,
        Wrap, Machine!Wrap, SignedHalf, Machine!SignedHalf, HalfMod,
        Machine!HalfMod, Indexed, Machine!Indexed, WordMod, Machine!WordMod
<1>6. Machine!ResetRange(i, x) = ResetRange(i, x)
    BY DEF ResetRange, Machine!ResetRange, Regs, Machine!Regs
<1>7. Machine!Taken(i, f) = Taken(i, f)
    BY DEF Taken, Machine!Taken, CallOpcodes, Machine!CallOpcodes, Ret, Machine!Ret,
        TestCondition, Machine!TestCondition, SP, Machine!SP
<1>8. Machine!Signal(i, x) = Signal(i, x)
    BY DEF Signal, Machine!Signal, Break, Machine!Break, Illegal, Machine!Illegal,
        AluOpcodes, Machine!AluOpcodes, Temps, Machine!Temps, Bit, Machine!Bit,
        Half, Machine!Half, AluTemps, Machine!AluTemps, AluSrc1, Machine!AluSrc1,
        AluSrc2, Machine!AluSrc2, HalfMod, Machine!HalfMod, Wrap, Machine!Wrap,
        WithBits, Machine!WithBits, BitIndices, Machine!BitIndices, WordMod,
        Machine!WordMod, ShiftLeft, Machine!ShiftLeft, ShiftCounts,
        Machine!ShiftCounts, ShiftRight, Machine!ShiftRight, Word, Machine!Word,
        WordBits, Machine!WordBits
<1>9. Machine!ZeroR0(x) = ZeroR0(x)
    BY DEF ZeroR0, Machine!ZeroR0, R0, Machine!R0
<1> QED BY <1>1, <1>2, <1>3, <1>4, <1>5, <1>6, <1>7, <1>8, <1>9

LEMMA SameAccess ==
    ASSUME NEW i, NEW x, NEW d
    PROVE  /\ Machine!ReadAddress(i, x) = ReadAddress(i, x)
           /\ Machine!ReadSize(i) = ReadSize(i)
           /\ Machine!ReadIssued(i, x) = ReadIssued(i, x)
           /\ Machine!ReadDone(i, x, d) = ReadDone(i, x, d)
           /\ Machine!WriteAddress(i, x) = WriteAddress(i, x)
           /\ Machine!WriteSize(i) = WriteSize(i)
           /\ Machine!WriteValue(i, x) = WriteValue(i, x)
           /\ Machine!WriteIssued(i, x) = WriteIssued(i, x)
<1>1. Machine!ReadAddress(i, x) = ReadAddress(i, x)
    BY DEF ReadAddress, Machine!ReadAddress, LoadOpcodes, Machine!LoadOpcodes,
        Indexed, Machine!Indexed, SP, Machine!SP, Wrap, Machine!Wrap, WordMod,
        Machine!WordMod, HalfMod, Machine!HalfMod
<1>2. Machine!ReadSize(i) = ReadSize(i)
    BY DEF ReadSize, Machine!ReadSize, LoadOpcodes, Machine!LoadOpcodes, Long,
        Machine!Long
<1>3. Machine!ReadIssued(i, x) = ReadIssued(i, x)
    BY DEF ReadIssued, Machine!ReadIssued, LoadOpcodes, Machine!LoadOpcodes, Popped,
        Machine!Popped, SP, Machine!SP, Wrap, Machine!Wrap, WordMod,
        Machine!WordMod, HalfMod, Machine!HalfMod
<1>4. Machine!ReadDone(i, x, d) = ReadDone(i, x, d)
    BY DEF ReadDone, Machine!ReadDone, Ret, Machine!Ret, PC, Machine!PC, SP,
        Machine!SP
<1>5. Machine!WriteAddress(i, x) = WriteAddress(i, x)
    BY DEF WriteAddress, Machine!WriteAddress, StoreOpcodes, Machine!StoreOpcodes,
        Indexed, Machine!Indexed, Wrap, Machine!Wrap, SP, Machine!SP, WordMod,
        Machine!WordMod, HalfMod, Machine!HalfMod
<1>6. Machine!WriteSize(i) = WriteSize(i)
    BY DEF WriteSize, Machine!WriteSize, StoreOpcodes, Machine!StoreOpcodes, Long,
        Machine!Long
<1>7. Machine!WriteValue(i, x) = WriteValue(i, x)
    BY DEF WriteValue, Machine!WriteValue, StoreOpcodes, Machine!StoreOpcodes, Push,
        Machine!Push, Pushed, Machine!Pushed, PC, Machine!PC, SP, Machine!SP, Wrap,
        Machine!Wrap, WordMod, Machine!WordMod, HalfMod, Machine!HalfMod
<1>8. Machine!WriteIssued(i, x) = WriteIssued(i, x)
    BY DEF WriteIssued, Machine!WriteIssued, StoreOpcodes, Machine!StoreOpcodes,
        Push, Machine!Push, Pushed, Machine!Pushed, PC, Machine!PC, Target,
        Machine!Target, SP, Machine!SP, Wrap, Machine!Wrap, SignedHalf,
        Machine!SignedHalf, LR, Machine!LR, HalfMod, Machine!HalfMod, Indexed,
        Machine!Indexed, WordMod, Machine!WordMod
<1> QED BY <1>1, <1>2, <1>3, <1>4, <1>5, <1>6, <1>7, <1>8

LEMMA SameDevices ==
    ASSUME NEW m, NEW g, NEW a, NEW s, NEW d, NEW o
    PROVE  /\ Machine!ReadVector(m, g, a, s) = ReadVector(m, g, a, s)
           /\ Machine!WriteVector(m, g, a, s, d) = WriteVector(m, g, a, s, d)
           /\ Machine!ReadTerminal(a) = ReadTerminal(a)
           /\ Machine!WriteTerminal(o, a, d) = WriteTerminal(o, a, d)
           /\ Machine!BiosBytes = BiosBytes
           /\ Machine!MemBytes = MemBytes
           /\ Machine!BiosAnswers = BiosAnswers
           /\ Machine!MemAnswers = MemAnswers
<1>1. Machine!ReadVector(m, g, a, s) = ReadVector(m, g, a, s)
    BY DEF ReadVector, Machine!ReadVector, Assemble, Machine!Assemble, ReadByte,
        Machine!ReadByte, SizeBytes, Machine!SizeBytes, Byte, Machine!Byte
<1>2. Machine!WriteVector(m, g, a, s, d) = WriteVector(m, g, a, s, d)
    BY DEF WriteVector, Machine!WriteVector, RamBytes, Machine!RamBytes, SizeBytes,
        Machine!SizeBytes, Lane, Machine!Lane, BiosBytes, Machine!BiosBytes,
        MemBytes, Machine!MemBytes, HalfMod, Machine!HalfMod
<1>3. Machine!ReadTerminal(a) = ReadTerminal(a)
    BY DEF ReadTerminal, Machine!ReadTerminal
<1>4. Machine!WriteTerminal(o, a, d) = WriteTerminal(o, a, d)
    BY DEF WriteTerminal, Machine!WriteTerminal
<1>5. Machine!BiosBytes = BiosBytes
    BY DEF BiosBytes, Machine!BiosBytes
<1>6. Machine!MemBytes = MemBytes
    BY DEF MemBytes, Machine!MemBytes
<1>7. Machine!BiosAnswers = BiosAnswers
    BY DEF BiosAnswers, Machine!BiosAnswers
<1>8. Machine!MemAnswers = MemAnswers
    BY DEF MemAnswers, Machine!MemAnswers
<1> QED BY <1>1, <1>2, <1>3, <1>4, <1>5, <1>6, <1>7, <1>8
-----------------------------------------------------------------------------
(* What a read of size s at address a may give.  Where no device answers   *)
(* it may give any word.                                                   *)
Gives(a, s, d) ==
    /\ d \in Word
    /\ a \in TermAnswers => d \in ReadTerminal(a)
    /\ a \in IoAnswers => d \in IF a = IoPort THEN {port} ELSE IoWords
    /\ a \in BiosAnswers => d \in ReadVector(mem, BiosBytes, a, s)
    /\ a \in MemAnswers => d \in ReadVector(mem, MemBytes, a, s)

LEMMA GivesReads ==
    ASSUME NEW a, NEW s, NEW d, Gives(a, s, d) PROVE d \in Machine!Reads(a, s)
<1>1. /\ Machine!BiosAnswers = BiosAnswers /\ Machine!MemAnswers = MemAnswers
      /\ Machine!TermAnswers = TermAnswers
      /\ Machine!ReadVector(mem, Machine!BiosBytes, a, s) = ReadVector(mem, BiosBytes, a, s)
      /\ Machine!ReadVector(mem, Machine!MemBytes, a, s) = ReadVector(mem, MemBytes, a, s)
      /\ Machine!ReadTerminal(a) = ReadTerminal(a) /\ Machine!Word = Word
    BY SameDevices, SameWords DEF Machine!TermAnswers, TermAnswers
<1>2. /\ a \in BiosAnswers => a \notin MemAnswers \cup TermAnswers \cup IoAnswers
      /\ a \in MemAnswers => a \notin TermAnswers \cup IoAnswers
      /\ a \in TermAnswers => a \notin IoAnswers
      /\ a \in IoAnswers <=> a = IoPort \/ a = IoPort + 1
    BY DevicesAssumption DEF IoAnswers
<1>3. IoPort # IoPort + 1
    BY DevicesAssumption, WordInt
<1>4. CASE a \in BiosAnswers
    <2>1. Machine!Reads(a, s) = ReadVector(mem, BiosBytes, a, s)
        BY <1>1, <1>2, <1>4, Zenon DEF Machine!Reads
    <2> QED BY <1>4, <2>1 DEF Gives
<1>5. CASE a \in MemAnswers
    <2>1. Machine!Reads(a, s) = ReadVector(mem, MemBytes, a, s)
        BY <1>1, <1>2, <1>5, Zenon DEF Machine!Reads
    <2> QED BY <1>5, <2>1 DEF Gives
<1>6. CASE a \in TermAnswers
    <2>1. Machine!Reads(a, s) = ReadTerminal(a)
        BY <1>1, <1>2, <1>6, Zenon DEF Machine!Reads
    <2> QED BY <1>6, <2>1 DEF Gives
<1>7. CASE a = IoPort
    <2>1. Machine!Reads(a, s) = {port}
        BY <1>1, <1>2, <1>3, <1>7, Zenon DEF Machine!Reads
    <2> QED BY <1>2, <1>7, <2>1 DEF Gives
<1>8. CASE a = IoPort + 1
    <2>1. Machine!Reads(a, s) = IoWords
        BY <1>1, <1>2, <1>3, <1>8, Zenon DEF Machine!Reads
    <2> QED BY <1>2, <1>3, <1>8, <2>1 DEF Gives
<1>9. CASE a \notin BiosAnswers \cup MemAnswers \cup TermAnswers \cup IoAnswers
    <2>1. Machine!Reads(a, s) = Word
        BY <1>1, <1>2, <1>9, Zenon DEF Machine!Reads
    <2> QED BY <2>1 DEF Gives
<1> QED BY <1>2, <1>4, <1>5, <1>6, <1>7, <1>8, <1>9

(* One device decides what a read gives; none does on an open bus.         *)
LEMMA GivesOne ==
    ASSUME NEW a, NEW s, NEW d \in Word
    PROVE  /\ a \in TermAnswers /\ d \in ReadTerminal(a) => Gives(a, s, d)
           /\ a \in IoAnswers /\ d \in (IF a = IoPort THEN {port} ELSE IoWords) => Gives(a, s, d)
           /\ a \in BiosAnswers /\ d \in ReadVector(mem, BiosBytes, a, s) => Gives(a, s, d)
           /\ a \in MemAnswers /\ d \in ReadVector(mem, MemBytes, a, s) => Gives(a, s, d)
           /\ (\A n \in 1..4 : a \notin Answers(n)) => Gives(a, s, d)
<1>1. /\ a \in BiosAnswers => a \notin MemAnswers \cup TermAnswers \cup IoAnswers
      /\ a \in MemAnswers => a \notin TermAnswers \cup IoAnswers
      /\ a \in TermAnswers => a \notin IoAnswers
    BY DevicesAssumption
<1> QED BY <1>1, AnswersFacts DEF Gives
-----------------------------------------------------------------------------
(* The registers the instruction in flight began with, pc past it. *)
BeganPc == IF cycle = 3 /\ I.opcode \in CallOpcodes THEN pins.d ELSE r[PC]
Began == [r EXCEPT ![PC] = BeganPc, ![SP] = SpBefore]

(* A store a device performed, which the machine has done already. *)
Done == pins.rw /\ (Stored \/ ~pins.busreq)

(* Every device that answers the address has had its turn. *)
AllSettled == ~pins.busreq \/ \A n \in 1..4 : pins.a \in Answers(n) => Past(n)

(* How far an interrupt has come: it is raised while an access goes        *)
(* unanswered and acknowledged while its vector is fetched.                *)
InterruptPins ==
    /\ pins.busirq = BusIrq /\ pins.be = 0
    /\ pins.irq => BusIrq /\ pins.v = BusErrorVector[0]
    /\ pins.irq /\ ~pins.irqack => Unanswered
    /\ InterruptInFlight

(* Nobody waits in vain, except for an interrupt: the fetch of the         *)
(* instruction in flight and its access have found a device, or the fetch  *)
(* an acknowledge left over from the power-on.                             *)
Heard(a) == BusIrq => \E n \in 1..4 : a \in Answers(n)

FetchHeard ==
    ~Interrupted /\ (cycle \in {1, 2} \/ (cycle = 3 /\ ~Done)) =>
        Heard(ProgramRegisters[PC]) \/ ProgramRegisters \in Machine!Starts

AccessHeard == ~Interrupted /\ cycle = 3 => Heard(pins.a)

StrayAtStart == pins.busack /\ ~pins.busreq => r \in Machine!Starts

(* The word on the data bus is what a read gives now. *)
AnswerOnBus ==
    cycle \in {1, 3} /\ ~pins.rw /\ AllSettled => Gives(pins.a, pins.s, pins.d)

(* The instruction in flight is what its address gives until it happens. *)
InstructionAtPc ==
    cycle = 2 \/ (cycle = 3 /\ ~Done) => Gives(Wrap(Began[PC] - 4), Execute, instruction)

(* What a load or a store in flight has done to the registers and what it  *)
(* asks of the bus, in terms of the registers it began with.               *)
LoadInFlight ==
    cycle = 3 /\ I.opcode \in ReadOpcodes =>
        /\ Taken(I, st)
        /\ r = ReadIssued(I, Began)
        /\ pins.a = ReadAddress(I, Began) /\ pins.s = ReadSize(I)

StoreInFlight ==
    cycle = 3 /\ I.opcode \in WriteOpcodes =>
        /\ Taken(I, st)
        /\ r = WriteIssued(I, Began)
        /\ pins.a = WriteAddress(I, Began) /\ pins.s = WriteSize(I)
        /\ pins.d = WriteValue(I, Began)

Flight ==
    /\ AnswerOnBus
    /\ InstructionAtPc
    /\ LoadInFlight
    /\ StoreInFlight
    /\ FetchHeard
    /\ AccessHeard
    /\ StrayAtStart

IssueInvariant == BusInvariant /\ InterruptPins /\ Flight
-----------------------------------------------------------------------------
LEMMA BeforeFacts ==
    /\ cycle \in {0, 1} => PcBefore = r[PC] /\ SpBefore = r[SP]
    /\ cycle \in {2, 3} => PcBefore = Wrap(BeganPc - 4)
    /\ cycle = 2 => BeganPc = r[PC] /\ SpBefore = r[SP]
    /\ cycle = 3 /\ I.opcode \in {Pop, Ret} => SpBefore = Wrap(r[SP] - 4)
    /\ cycle = 3 /\ I.opcode \in CallOpcodes \cup {Push} => SpBefore = Wrap(r[SP] + 4)
    /\ cycle = 3 /\ I.opcode \notin CallOpcodes \cup {Push, Pop, Ret} => SpBefore = r[SP]
<1>1. ASSUME cycle \in {0, 1} PROVE PcBefore = r[PC] /\ SpBefore = r[SP]
    <2>1. cycle # 3
        BY <1>1
    <2>2. PcBefore = r[PC]
        BY <1>1, <2>1, Zenon DEF PcBefore
    <2>3. SpBefore = r[SP]
        BY <2>1, Zenon DEF SpBefore
    <2> QED BY <2>2, <2>3
<1>2. ASSUME cycle = 2 PROVE PcBefore = Wrap(BeganPc - 4) /\ BeganPc = r[PC] /\ SpBefore = r[SP]
    <2>1. cycle # 3 /\ cycle \notin {0, 1}
        BY <1>2
    <2>2. BeganPc = r[PC]
        BY <2>1 DEF BeganPc
    <2>3. PcBefore = Wrap(r[PC] - 4)
        BY <2>1, Zenon DEF PcBefore
    <2>4. SpBefore = r[SP]
        BY <2>1, Zenon DEF SpBefore
    <2> QED BY <2>2, <2>3, <2>4
<1>3. ASSUME cycle = 3 PROVE PcBefore = Wrap(BeganPc - 4)
    <2>1. cycle \notin {0, 1}
        BY <1>3
    <2>2. CASE I.opcode \in CallOpcodes
        <3>1. PcBefore = Wrap(pins.d - 4)
            BY <1>3, <2>1, <2>2, Zenon DEF PcBefore
        <3> QED BY <1>3, <2>2, <3>1 DEF BeganPc
    <2>3. CASE I.opcode \notin CallOpcodes
        <3>1. PcBefore = Wrap(r[PC] - 4)
            BY <2>1, <2>3, Zenon DEF PcBefore
        <3> QED BY <2>3, <3>1 DEF BeganPc
    <2> QED BY <2>2, <2>3
<1>4. {Pop, Ret} \cap (CallOpcodes \cup {Push}) = {}
    BY DEF Pop, Ret, CallOpcodes, Push
<1>5. ASSUME cycle = 3, I.opcode \in {Pop, Ret} PROVE SpBefore = Wrap(r[SP] - 4)
    BY <1>4, <1>5, Zenon DEF SpBefore
<1>6. ASSUME cycle = 3, I.opcode \in CallOpcodes \cup {Push} PROVE SpBefore = Wrap(r[SP] + 4)
    BY <1>4, <1>6, Zenon DEF SpBefore
<1>7. ASSUME I.opcode \notin CallOpcodes \cup {Push, Pop, Ret} PROVE SpBefore = r[SP]
    BY <1>7, Zenon DEF SpBefore
<1> QED BY <1>1, <1>2, <1>3, <1>5, <1>6, <1>7

(* Between instructions the program's registers are the board's. *)
LEMMA IdleRegisters ==
    r \in RegFile /\ cycle \in {0, 1} => ProgramRegisters = r
<1> SUFFICES ASSUME r \in RegFile, cycle \in {0, 1} PROVE ProgramRegisters = r
    OBVIOUS
<1>1. ProgramRegisters = InFlight
    BY DEF ProgramRegisters
<1>2. PcBefore = r[PC] /\ SpBefore = r[SP]
    BY BeforeFacts
<1> QED BY <1>1, <1>2, RegsTypes DEF InFlight, RegFile

(* While an instruction is in flight, the machine is about to run it, on   *)
(* the registers it began with.                                            *)
LEMMA BeganFacts ==
    TypeOK /\ (cycle = 2 \/ (cycle = 3 /\ ~Done)) =>
        /\ Began \in RegFile
        /\ ProgramRegisters[PC] = Wrap(Began[PC] - 4)
        /\ ProgramRegisters = [Began EXCEPT ![PC] = Wrap(Began[PC] - 4)]
        /\ [ProgramRegisters EXCEPT ![PC] = Wrap(ProgramRegisters[PC] + 4)] = Began
<1> SUFFICES ASSUME TypeOK, cycle = 2 \/ (cycle = 3 /\ ~Done)
             PROVE  /\ Began \in RegFile
                    /\ ProgramRegisters[PC] = Wrap(Began[PC] - 4)
                    /\ ProgramRegisters = [Began EXCEPT ![PC] = Wrap(Began[PC] - 4)]
                    /\ [ProgramRegisters EXCEPT ![PC] = Wrap(ProgramRegisters[PC] + 4)] = Began
    OBVIOUS
<1>1. r \in RegFile /\ pins.d \in Word
    BY DEF TypeOK, CpuTypeOK, Pins, RegFile
<1>2. r[PC] \in Word /\ r[SP] \in Word /\ BeganPc \in Word
    BY <1>1, RegsTypes DEF RegFile, BeganPc
<1>3. SpBefore \in Word
    <2>1. Wrap(r[SP] + 4) \in Word /\ Wrap(r[SP] - 4) \in Word
        BY <1>2, WrapStepType
    <2> QED BY <1>2, <2>1, BeforeFacts
<1>4. ProgramRegisters = InFlight
    BY DEF ProgramRegisters, Done
<1>5. PcBefore = Wrap(BeganPc - 4) /\ Wrap(PcBefore + 4) = BeganPc
    BY <1>2, BeforeFacts, WrapRoundTrip
<1>6. Began \in RegFile /\ Began[PC] = BeganPc
    BY <1>1, <1>2, <1>3, RegsTypes DEF Began, RegFile
<1>7. ProgramRegisters[PC] = PcBefore
    BY <1>1, <1>4, RegsTypes DEF InFlight, RegFile
<1>8. [ProgramRegisters EXCEPT ![PC] = BeganPc] = Began
    BY <1>1, <1>4, RegsTypes DEF InFlight, Began, RegFile
<1>9. ProgramRegisters = [Began EXCEPT ![PC] = PcBefore]
    BY <1>1, <1>4, RegsTypes DEF InFlight, Began, RegFile
<1> QED BY <1>5, <1>6, <1>7, <1>8, <1>9
-----------------------------------------------------------------------------
(* What the bus controller makes of an interrupt.  At the end of a round a *)
(* request that is not acknowledged is one that nobody answers.            *)
LEMMA BciInterrupts ==
    ASSUME IssueInvariant, turn = 0
    PROVE  /\ pins \in Pins /\ Bci \in Pins /\ Bci.a = pins.a
           /\ Bci.busirq = BusIrq /\ Bci.be = 0
           /\ Interrupted <=> BusIrq /\ (Bci.irq \/ (Bci.busreq /\ ~Bci.busack))
           /\ Bci.irq => Interrupted /\ Bci.v = BusErrorVector[0]
           /\ Bci.irqack => Bci.irq /\ cycle = 1
           /\ Bci.irq /\ ~Bci.irqack => Bci.busreq /\ ~Bci.busack
           /\ Bci.busreq => ~Bci.busack /\ \A n \in 1..4 : pins.a \notin Answers(n)
           /\ Interrupted => Bci.irq \/ cycle = 1
<1>1. pins \in Pins /\ Bci \in Pins
    BY BciUpdateType DEF IssueInvariant, BusInvariant, TypeOK, CpuTypeOK, Bci
<1>2. pins.busreq /\ ~pins.busack => \A n \in 1..4 : pins.a \notin Answers(n)
    BY DEF IssueInvariant, BusInvariant, SeenIsAcknowledged, Past
<1>3. Unanswered <=> pins.busreq /\ ~pins.busack
    BY <1>2 DEF Unanswered
<1>4. /\ Bci.busreq <=> pins.busreq /\ ~pins.busack
      /\ Bci.busack <=> pins.busack /\ ~pins.busreq
      /\ Bci.a = pins.a
    BY <1>1, BciFacts DEF Bci
<1>5. /\ pins.busirq = BusIrq /\ pins.be = 0
      /\ pins.irq => BusIrq /\ pins.v = BusErrorVector[0]
      /\ pins.irq /\ ~pins.irqack => Unanswered
      /\ pins.irqack => pins.irq /\ cycle = 1
    BY DEF IssueInvariant, InterruptPins, InterruptInFlight
<1>6. CASE ~Unanswered \/ ~BusIrq
    <2>1. /\ Bci.irq = pins.irq /\ Bci.irqack = pins.irqack /\ Bci.v = pins.v
          /\ Bci.busirq = pins.busirq /\ Bci.be = pins.be
        BY <1>1, <1>3, <1>5, <1>6 DEF Bci, BciUpdate, Pins
    <2> QED BY <1>1, <1>2, <1>3, <1>4, <1>5, <1>6, <2>1 DEF Interrupted
<1>7. CASE Unanswered /\ BusIrq /\ pins.irqack
    <2>1. /\ ~Bci.irq /\ ~Bci.irqack
          /\ Bci.busirq = pins.busirq /\ Bci.be = 0
        BY <1>1, <1>3, <1>5, <1>7 DEF Bci, BciUpdate, Pins
    <2> QED BY <1>1, <1>2, <1>3, <1>4, <1>5, <1>7, <2>1 DEF Interrupted
<1>8. CASE Unanswered /\ BusIrq /\ ~pins.irqack
    <2>1. /\ Bci.irq /\ ~Bci.irqack /\ Bci.v = BusErrorVector[0]
          /\ Bci.busirq = pins.busirq /\ Bci.be = 0
        BY <1>1, <1>3, <1>5, <1>8 DEF Bci, BciUpdate, Pins
    <2> QED BY <1>1, <1>2, <1>3, <1>4, <1>5, <1>8, <2>1 DEF Interrupted
<1> QED BY <1>6, <1>7, <1>8

(* The CPU goes on with a cycle only if no interrupt is raised; then none  *)
(* is under way, unless the vector is just being fetched from a hole.      *)
LEMMA CycleQuiet ==
    ASSUME IssueInvariant, turn = 0, NEW c \in 0..3, Cycle(c)
    PROVE  /\ ~Bci.irq /\ ~Bci.irqack
           /\ c # 1 => ~Interrupted
BY BciInterrupts DEF Cycle

(* A clock that leaves the request as the bus controller does. *)
LEMMA BciKeepsInterrupted ==
    ASSUME IssueInvariant, turn = 0, pins'.a = pins.a, pins'.irq = Bci.irq,
           pins'.busreq = Bci.busreq, pins'.busack = Bci.busack
    PROVE  Interrupted' = Interrupted
<1>1. Answers(1)' = Answers(1) /\ Answers(2)' = Answers(2)
      /\ Answers(3)' = Answers(3) /\ Answers(4)' = Answers(4)
    BY DEF Answers
<1>2. Unanswered' <=> Bci.busreq /\ ~Bci.busack
    BY <1>1, BciInterrupts DEF Unanswered, Answers
<1>3. Interrupted' <=> BusIrq /\ (Bci.irq \/ (Bci.busreq /\ ~Bci.busack))
    BY <1>2 DEF Interrupted
<1> QED BY <1>3, BciInterrupts DEF Interrupted

LEMMA InterruptPinsNext ==
    ASSUME IssueInvariant, TypeOK', [Next]_vars PROVE InterruptPins'
<1>1. TypeOK /\ pins \in Pins /\ turn \in 0..4 /\ InterruptInFlight /\ InterruptPins
    BY DEF IssueInvariant, BusInvariant, TypeOK, CpuTypeOK, InterruptPins
<1>2. InterruptInFlight'
    BY <1>1, InterruptNext
<1>3. \A n \in 1..4 : Answers(n)' = Answers(n)
    BY DEF Answers
<1>4. CASE UNCHANGED <<pins, cycle>>
    BY <1>1, <1>2, <1>3, <1>4 DEF InterruptPins, Unanswered, Answers
<1>5. CASE CpuClock
    <2>1. turn = 0
        BY <1>5 DEF CpuClock
    <2>2. CASE FrozenClock
        <3>1. pins' = Bci
            BY <2>2 DEF FrozenClock
        <3>2. pins'.irq /\ ~pins'.irqack => Unanswered'
            BY <1>3, <2>1, <3>1, BciInterrupts DEF Unanswered, Answers
        <3> QED BY <1>2, <2>1, <3>1, <3>2, BciInterrupts DEF InterruptPins, Interrupted
    <2>3. CASE FetchVector
        <3>1. /\ pins'.busirq = Bci.busirq /\ pins'.be = 0 /\ pins'.irq = Bci.irq
              /\ pins'.irqack /\ pins'.v = Bci.v
            BY <2>1, <2>3, BciInterrupts DEF FetchVector, InitRead, Pins
        <3> QED BY <1>2, <2>1, <3>1, BciInterrupts DEF InterruptPins, Interrupted
    <2>4. CASE ~FrozenClock /\ ~FetchVector
        <3>1. PICK c \in 0..3 : Cycle(c)
            BY <1>5, <2>4 DEF CpuClock, Clock, FetchRequest, FetchLatch, ExecuteMove,
                ExecuteAlu, ExecuteJump, ExecuteResetRange, ExecuteNothing, ExecuteTrap,
                IssueRead, IssueWrite, FinishRead, FinishWrite
        <3>2. /\ pins'.busirq = Bci.busirq /\ pins'.irq = Bci.irq
              /\ pins'.be \in {Bci.be, 0}
            BY <1>5, <2>1, <2>4, BciInterrupts DEF CpuClock, Clock, FetchRequest, FetchLatch,
                ExecuteMove, ExecuteAlu, ExecuteJump, ExecuteResetRange, ExecuteNothing,
                ExecuteTrap, IssueRead, IssueWrite, FinishRead, FinishWrite, InitRead,
                InitWrite, Pins
        <3> QED BY <1>2, <2>1, <3>1, <3>2, CycleQuiet, BciInterrupts DEF InterruptPins
    <2> QED BY <2>2, <2>3, <2>4
<1>6. CASE DeviceUpdate
    <2>1. CASE IdleUpdate
        BY <1>4, <2>1 DEF IdleUpdate, cpuVars
    <2>2. CASE TerminalUpdate \/ IobusUpdate \/ BiosUpdate \/ MemoryUpdate
        <3>1. turn \in 1..4 /\ pins.a \in Answers(turn)
            BY <2>2, AnswersFacts DEF TerminalUpdate, IobusUpdate, BiosUpdate, MemoryUpdate,
                Update
        <3>2. \/ pins' = Acknowledge(pins)
              \/ \E d : pins' = [Acknowledge(pins) EXCEPT !.d = d]
            BY <2>2 DEF TerminalUpdate, IobusUpdate, BiosUpdate, MemoryUpdate, AnswerRead
        <3>3. /\ pins'.busirq = pins.busirq /\ pins'.be = 0 /\ pins'.irq = pins.irq
              /\ pins'.irqack = pins.irqack /\ pins'.v = pins.v
            BY <1>1, <3>2 DEF Acknowledge, Pins
        <3>4. ~Unanswered
            BY <3>1 DEF Unanswered
        <3> QED BY <1>1, <1>2, <3>3, <3>4 DEF InterruptPins
    <2> QED BY <1>6, <2>1, <2>2 DEF DeviceUpdate
<1>7. CASE EmbedderReset
    <2>1. PulsedPins(pins) \in Pins /\ pins' = StrappedPins(pins)
        BY <1>1, <1>7, ResetType DEF EmbedderReset, PulseReset
    <2> QED BY <1>2, <2>1 DEF StrappedPins, ResetPins, Pins, InterruptPins
<1>8. CASE EmbedderFreeze
    <2>1. /\ pins'.busirq = pins.busirq /\ pins'.be = pins.be /\ pins'.irq = pins.irq
          /\ pins'.irqack = pins.irqack /\ pins'.v = pins.v /\ pins'.busreq = pins.busreq
          /\ pins'.busack = pins.busack /\ pins'.a = pins.a
        BY <1>1, <1>8 DEF EmbedderFreeze, MoveFreeze, Pins
    <2> QED BY <1>1, <1>2, <1>3, <2>1 DEF InterruptPins, Unanswered, Answers
<1> QED BY <1>4, <1>5, <1>6, <1>7, <1>8 DEF Next, MainLoop, vars
-----------------------------------------------------------------------------
LEMMA HeededIsHeard == \A a : Machine!Heeded(a) <=> Heard(a)
<1>1. /\ Machine!BiosAnswers = BiosAnswers /\ Machine!MemAnswers = MemAnswers
      /\ Machine!TermAnswers = TermAnswers /\ Machine!IoAnswers = IoAnswers
    BY SameDevices DEF Machine!TermAnswers, TermAnswers, Machine!IoAnswers, IoAnswers
<1>2. \A a : (\E n \in 1..4 : a \in Answers(n))
            <=> a \in BiosAnswers \cup MemAnswers \cup TermAnswers \cup IoAnswers
    BY AnswersFacts
<1> QED BY <1>1, <1>2 DEF Machine!Heeded, Heard

(* The machine may run the instruction in flight. *)
LEMMA MachineFetched ==
    ASSUME IssueInvariant, ~Interrupted, cycle \in {1, 2} \/ (cycle = 3 /\ ~Done)
    PROVE  Machine!Fetched
<1>1. Heard(ProgramRegisters[PC]) \/ ProgramRegisters \in Machine!Starts
    BY DEF IssueInvariant, Flight, FetchHeard
<1>2. ArchRegisters = ProgramRegisters /\ Machine!PC = PC
    BY SameWords DEF ArchRegisters
<1> QED BY <1>1, <1>2, HeededIsHeard DEF Machine!Fetched

(* What the machine fetches, with the registers the instruction began with *)
(* once the machine has moved pc past it.                                  *)
LEMMA MachineFetches ==
    ASSUME IssueInvariant, ~Interrupted, cycle = 2 \/ (cycle = 3 /\ ~Done)
    PROVE  /\ Machine!Fetched /\ Machine!PastPc = Began
           /\ instruction \in Machine!Reads(ArchRegisters[Machine!PC], Machine!Execute)
<1>1. /\ ProgramRegisters[PC] = Wrap(Began[PC] - 4)
      /\ [ProgramRegisters EXCEPT ![PC] = Wrap(ProgramRegisters[PC] + 4)] = Began
    BY BeganFacts DEF IssueInvariant, BusInvariant
<1>2. ArchRegisters = ProgramRegisters
    BY DEF ArchRegisters
<1>3. Gives(ArchRegisters[PC], Execute, instruction)
    BY <1>1, <1>2 DEF IssueInvariant, Flight, InstructionAtPc
<1>4. instruction \in Machine!Reads(ArchRegisters[PC], Execute)
    BY <1>3, GivesReads
<1>5. /\ Machine!PC = PC /\ Machine!Execute = Execute
      /\ Machine!Wrap(ArchRegisters[PC] + 4) = Wrap(ArchRegisters[PC] + 4)
    BY SameWords
<1> QED BY <1>1, <1>2, <1>4, <1>5, MachineFetched DEF Machine!PastPc

LEMMA MachineStep ==
    ASSUME IssueInvariant, status = "running", ~Interrupted,
           cycle = 2 \/ (cycle = 3 /\ ~Done),
           Machine!Execute1(I, Began) \/ Machine!Trap(I, Began)
    PROVE  Machine!Step
<1>1. \/ Machine!Execute1(Decode[instruction], Began)
      \/ Machine!Trap(Decode[instruction], Began)
    BY DEF I
<1> QED BY <1>1, MachineFetches DEF Machine!Step

(* An instruction that retires leaves its registers and flags.             *)
LEMMA RetireRegisters ==
    ASSUME NEW rf \in RegFile, NEW f, Retire(rf, f), UNCHANGED deviceVars,
           ~Interrupted, ~Interrupted'
    PROVE  Machine!Registers(rf, f)
<1>1. r' = ZeroR0(rf) /\ st' = f /\ cycle' = 0 /\ status' = status
    BY DEF Retire
<1>2. r' \in RegFile
    BY <1>1, ZeroR0Type
<1>3. (r \in RegFile /\ cycle \in {0, 1} => ProgramRegisters = r)'
    BY IdleRegisters, PTL
<1>4. ArchRegisters' = r'
    BY <1>1, <1>2, <1>3 DEF ArchRegisters
<1>5. Machine!ZeroR0(rf) = ZeroR0(rf)
    BY SameIsa
<1>6. Interrupted' = Interrupted
    BY DEF Interrupted
<1> QED BY <1>1, <1>4, <1>5, <1>6 DEF Machine!Registers, deviceVars

(* From its execution to its end no interrupt concerns an instruction that *)
(* retires.                                                                *)
LEMMA RetiresQuietly ==
    ASSUME IssueInvariant, CpuClock,
           \/ ExecuteMove \/ ExecuteAlu \/ ExecuteJump \/ ExecuteResetRange
           \/ ExecuteNothing \/ ExecuteTrap \/ FinishRead \/ FinishWrite
    PROVE  ~Interrupted /\ ~Interrupted' /\ ~pins'.busack
<1>1. /\ turn = 0 /\ cycle \in {2, 3} /\ Cycle(cycle)
      /\ pins' = Bci \/ (cycle = 3 /\ pins' = [Bci EXCEPT !.busack = FALSE])
    BY DEF CpuClock, ExecuteMove, ExecuteAlu, ExecuteJump, ExecuteResetRange, ExecuteNothing,
        ExecuteTrap, FinishRead, FinishWrite, Cycle
<1>2. ~Interrupted
    BY <1>1, CycleQuiet
<1>3. pins \in Pins /\ Bci \in Pins /\ Bci.a = pins.a
    BY <1>1, BciInterrupts
<1>4. ~Bci.busack
    BY <1>1, <1>3, BciFacts DEF Bci, IssueInvariant, BusInvariant, StrayAcknowledge
<1>5. /\ pins'.a = pins.a /\ pins'.irq = Bci.irq
      /\ pins'.busreq = Bci.busreq /\ pins'.busack = Bci.busack
    BY <1>1, <1>3, <1>4 DEF Pins
<1>6. Interrupted' = Interrupted
    BY <1>1, <1>5, BciKeepsInterrupted
<1> QED BY <1>2, <1>4, <1>5, <1>6

(* The instruction that needs no bus happens when it retires.              *)
LEMMA ExecuteStep ==
    ASSUME IssueInvariant, CpuClock,
           ExecuteMove \/ ExecuteAlu \/ ExecuteJump \/ ExecuteResetRange \/ ExecuteNothing
    PROVE  Machine!Step
<1>1. Cycle(2) /\ UNCHANGED deviceVars
    BY DEF CpuClock, ExecuteMove, ExecuteAlu, ExecuteJump, ExecuteResetRange, ExecuteNothing
<1>2. cycle = 2 /\ status = "running"
    BY <1>1 DEF Cycle
<1>3. ~Interrupted /\ ~Interrupted'
    BY RetiresQuietly
<1>4. r \in RegFile /\ I \in Instr /\ I.x \in Regs
    BY DecodeType DEF IssueInvariant, BusInvariant, TypeOK, CpuTypeOK, RegFile, I, Instr
<1>5. Began = r
    BY <1>2, <1>4, BeforeFacts DEF Began, RegFile
<1>6. Machine!Execute1(I, r)
    <2>1. CASE ExecuteMove
        <3>1. PICK w \in MoveResults(I, r) : Retire([r EXCEPT ![I.x] = w], st)
            BY <2>1 DEF ExecuteMove
        <3>2. [r EXCEPT ![I.x] = w] \in RegFile
            BY <1>4, MoveResultsType, UpdateType
        <3>3. Machine!Registers([r EXCEPT ![I.x] = w], st)
            BY <1>1, <3>1, <3>2, <1>3, RetireRegisters
        <3>4. I.opcode \in Machine!MoveOpcodes /\ w \in Machine!MoveResults(I, r)
            BY <2>1, SameOpcodes, SameIsa DEF ExecuteMove
        <3> QED BY <3>3, <3>4, Zenon DEF Machine!Execute1
    <2>2. CASE ExecuteAlu
        <3>1. PICK t \in Temps(I, r) : Retire(AluRegs(I, r, t), NextFlags(st, t))
            BY <2>2 DEF ExecuteAlu
        <3>2. AluRegs(I, r, t) \in RegFile
            BY <1>4, TempsType, AluRegsType
        <3>3. Machine!Registers(AluRegs(I, r, t), NextFlags(st, t))
            BY <1>1, <3>1, <3>2, <1>3, RetireRegisters
        <3>4. /\ Machine!AluRegs(I, r, t) = AluRegs(I, r, t)
              /\ Machine!NextFlags(st, t) = NextFlags(st, t)
            BY SameIsa
        <3>5. I.opcode \in Machine!AluOpcodes /\ t \in Machine!Temps(I, r)
            BY <2>2, SameOpcodes, SameIsa DEF ExecuteAlu
        <3> QED BY <3>3, <3>4, <3>5, Zenon DEF Machine!Execute1
    <2>3. CASE ExecuteJump
        <3>1. Machine!Registers(JumpRegs(I, r, st), st)
            BY <1>1, <1>4, <2>3, JumpRegsType, <1>3, RetireRegisters DEF ExecuteJump
        <3>2. I.opcode \in Machine!JumpOpcodes /\ Machine!JumpRegs(I, r, st) = JumpRegs(I, r, st)
            BY <2>3, SameOpcodes, SameIsa DEF ExecuteJump
        <3> QED BY <3>1, <3>2, Zenon DEF Machine!Execute1
    <2>4. CASE ExecuteResetRange
        <3>1. Machine!Registers(ResetRange(I, r), st)
            BY <1>1, <1>4, <2>4, ResetRangeType, <1>3, RetireRegisters DEF ExecuteResetRange
        <3>2. I.opcode = Machine!Rstm /\ Machine!ResetRange(I, r) = ResetRange(I, r)
            BY <2>4, SameOpcodes, SameIsa DEF ExecuteResetRange
        <3> QED BY <3>1, <3>2, Zenon DEF Machine!Execute1
    <2>5. CASE ExecuteNothing
        <3>1. Machine!Registers(r, st)
            BY <1>1, <1>4, <2>5, <1>3, RetireRegisters DEF ExecuteNothing
        <3>2. I.opcode = Machine!Nop \/ ~Machine!Taken(I, st)
            BY <2>5, SameOpcodes, SameIsa DEF ExecuteNothing
        <3> QED BY <3>1, <3>2, Zenon DEF Machine!Execute1
    <2> QED BY <2>1, <2>2, <2>3, <2>4, <2>5
<1> QED BY <1>2, <1>3, <1>5, <1>6, MachineStep

(* A load happens when it retires: the word on the bus is fresh.           *)
LEMMA LoadStep ==
    ASSUME IssueInvariant, CpuClock, FinishRead PROVE Machine!Step
<1>1. /\ turn = 0 /\ cycle = 3 /\ status = "running" /\ I.opcode \in ReadOpcodes
      /\ Retire(ReadDone(I, r, Bci.d), st) /\ UNCHANGED deviceVars
    BY DEF CpuClock, FinishRead, Cycle
<1>2. TypeOK /\ ~pins.rw /\ pins \in Pins /\ pins.d \in Word /\ r \in RegFile /\ I \in Instr
    BY <1>1, DecodeType DEF IssueInvariant, BusInvariant, RequestMatchesCycle, TypeOK,
        CpuTypeOK, Pins, RegFile, I
<1>3. Bci.d = pins.d
    BY <1>2, BciFacts DEF Bci
<1>4. AllSettled
    BY <1>1 DEF AllSettled, Past
<1>5. Gives(pins.a, pins.s, pins.d)
    BY <1>1, <1>2, <1>4 DEF IssueInvariant, Flight, AnswerOnBus
<1>6. ~Interrupted /\ ~Interrupted' /\ Heard(pins.a)
    BY <1>1, RetiresQuietly DEF IssueInvariant, Flight, AccessHeard
<1>7. /\ Taken(I, st) /\ r = ReadIssued(I, Began)
      /\ pins.a = ReadAddress(I, Began) /\ pins.s = ReadSize(I)
    BY <1>1 DEF IssueInvariant, Flight, LoadInFlight
<1>8. pins.d \in Machine!Reads(ReadAddress(I, Began), ReadSize(I))
    BY <1>5, <1>7, GivesReads
<1>9. Machine!Registers(ReadDone(I, ReadIssued(I, Began), pins.d), st)
    BY <1>1, <1>2, <1>3, <1>7, <1>6, ReadTypes, RetireRegisters
<1>10. /\ Machine!ReadAddress(I, Began) = ReadAddress(I, Began)
      /\ Machine!ReadSize(I) = ReadSize(I)
      /\ Machine!ReadIssued(I, Began) = ReadIssued(I, Began)
      /\ Machine!ReadDone(I, ReadIssued(I, Began), pins.d)
            = ReadDone(I, ReadIssued(I, Began), pins.d)
    BY SameAccess
<1>11. I.opcode \in Machine!ReadOpcodes /\ Machine!Taken(I, st)
    BY <1>1, <1>7, SameOpcodes, SameIsa
<1>12. Machine!Heeded(ReadAddress(I, Began))
    BY <1>7, <1>6, HeededIsHeard
<1>13. Machine!Execute1(I, Began)
    BY <1>8, <1>9, <1>10, <1>11, <1>12, Zenon DEF Machine!Execute1
<1> QED BY <1>1, <1>2, <1>6, <1>13, MachineStep DEF Done
(* The write of the one device that answers the address, or of none.       *)
LEMMA DeviceWrite ==
    ASSUME NEW a, NEW s, NEW d,
           \/ /\ a \in TermAnswers /\ out' = WriteTerminal(out, a, d)
              /\ UNCHANGED <<mem, port>>
           \/ /\ a \in IoAnswers /\ port' = IF a = IoPort THEN d ELSE port
              /\ UNCHANGED <<mem, out>>
           \/ /\ a \in BiosAnswers /\ mem' = WriteVector(mem, BiosBytes, a, s, d)
              /\ UNCHANGED <<out, port>>
           \/ /\ a \in MemAnswers /\ mem' = WriteVector(mem, MemBytes, a, s, d)
              /\ UNCHANGED <<out, port>>
           \/ (\A n \in 1..4 : a \notin Answers(n)) /\ UNCHANGED <<mem, out, port>>
    PROVE  Machine!Write(a, s, d)
<1>1. /\ Machine!BiosAnswers = BiosAnswers /\ Machine!MemAnswers = MemAnswers
      /\ Machine!WriteVector(mem, Machine!BiosBytes, a, s, d) = WriteVector(mem, BiosBytes, a, s, d)
      /\ Machine!WriteVector(mem, Machine!MemBytes, a, s, d) = WriteVector(mem, MemBytes, a, s, d)
      /\ Machine!WriteTerminal(out, a, d) = WriteTerminal(out, a, d)
    BY SameDevices
<1>2. /\ a \in BiosAnswers => a \notin MemAnswers \cup TermAnswers \cup IoAnswers
      /\ a \in MemAnswers => a \notin TermAnswers \cup IoAnswers
      /\ a \in TermAnswers => a \notin IoAnswers
      /\ a = IoPort => a \in IoAnswers
    BY DevicesAssumption DEF IoAnswers
<1>3. a \notin TermAnswers => WriteTerminal(out, a, d) = out
    BY DevicesAssumption, WordInt DEF TermAnswers, WriteTerminal
<1>4. CASE a \in TermAnswers /\ out' = WriteTerminal(out, a, d) /\ UNCHANGED <<mem, port>>
    <2>1. a \notin BiosAnswers /\ a \notin MemAnswers /\ a # IoPort
        BY <1>2, <1>4
    <2> QED BY <1>1, <1>4, <2>1, Zenon DEF Machine!Write
<1>5. CASE /\ a \in IoAnswers /\ port' = IF a = IoPort THEN d ELSE port
           /\ UNCHANGED <<mem, out>>
    <2>1. a \notin BiosAnswers /\ a \notin MemAnswers /\ a \notin TermAnswers
        BY <1>2, <1>5
    <2> QED BY <1>1, <1>3, <1>5, <2>1, Zenon DEF Machine!Write
<1>6. CASE /\ a \in BiosAnswers /\ mem' = WriteVector(mem, BiosBytes, a, s, d)
           /\ UNCHANGED <<out, port>>
    <2>1. a \notin MemAnswers /\ a \notin TermAnswers /\ a # IoPort
        BY <1>2, <1>6
    <2> QED BY <1>1, <1>3, <1>6, <2>1, Zenon DEF Machine!Write
<1>7. CASE /\ a \in MemAnswers /\ mem' = WriteVector(mem, MemBytes, a, s, d)
           /\ UNCHANGED <<out, port>>
    <2>1. a \notin BiosAnswers /\ a \notin TermAnswers /\ a # IoPort
        BY <1>2, <1>7
    <2> QED BY <1>1, <1>3, <1>7, <2>1, Zenon DEF Machine!Write
<1>8. CASE (\A n \in 1..4 : a \notin Answers(n)) /\ UNCHANGED <<mem, out, port>>
    <2>1. a \notin BiosAnswers /\ a \notin MemAnswers /\ a \notin TermAnswers /\ a # IoPort
        BY <1>2, <1>8, AnswersFacts
    <2> QED BY <1>1, <1>3, <1>8, <2>1, Zenon DEF Machine!Write
<1> QED BY <1>4, <1>5, <1>6, <1>7, <1>8

(* A store in flight that nobody has performed happens with its write.     *)
LEMMA StoreStep ==
    ASSUME IssueInvariant, status = "running", cycle = 3, I.opcode \in WriteOpcodes, ~Done,
           ~Interrupted, ~Interrupted',
           Machine!Write(pins.a, pins.s, pins.d), ProgramRegisters' = ZeroR0(r),
           UNCHANGED <<st, status>>
    PROVE  Machine!Step
<1>1. /\ Taken(I, st) /\ r = WriteIssued(I, Began)
      /\ pins.a = WriteAddress(I, Began) /\ pins.s = WriteSize(I)
      /\ pins.d = WriteValue(I, Began)
    BY DEF IssueInvariant, Flight, StoreInFlight
<1>2. /\ Machine!WriteAddress(I, Began) = WriteAddress(I, Began)
      /\ Machine!WriteSize(I) = WriteSize(I)
      /\ Machine!WriteValue(I, Began) = WriteValue(I, Began)
      /\ Machine!WriteIssued(I, Began) = WriteIssued(I, Began)
    BY SameAccess
<1>3. I.opcode \in Machine!WriteOpcodes /\ Machine!Taken(I, st)
    BY <1>1, SameOpcodes, SameIsa
<1>4. Machine!ZeroR0(r) = ZeroR0(r)
    BY SameIsa
<1>5. /\ ArchRegisters' = Machine!ZeroR0(Machine!WriteIssued(I, Began))
      /\ Interrupted' = Interrupted
    BY <1>1, <1>2, <1>4 DEF ArchRegisters, Interrupted
<1>6. Machine!Write(Machine!WriteAddress(I, Began), Machine!WriteSize(I),
                    Machine!WriteValue(I, Began))
    BY <1>1, <1>2
<1>7. Machine!Heeded(Machine!WriteAddress(I, Began))
    BY <1>1, <1>2, HeededIsHeard DEF IssueInvariant, Flight, AccessHeard
<1>8. Machine!Execute1(I, Began)
    BY <1>3, <1>5, <1>6, <1>7, Zenon DEF Machine!Execute1
<1> QED BY <1>8, MachineStep

(* The store a device answers happens when the device performs it.         *)
LEMMA PerformStep ==
    ASSUME IssueInvariant, NEW n \in 1..4, Update(n, Answers(n)),
           pins.rw, pins' = Acknowledge(pins), Machine!Write(pins.a, pins.s, pins.d)
    PROVE  Machine!Step
<1>1. /\ turn = n /\ status = "running" /\ pins.busreq /\ pins.a \in Answers(n)
      /\ UNCHANGED <<r, st, cycle, instruction, status>>
    BY DEF Update
<1>2. pins \in Pins /\ r \in RegFile /\ r[R0] = 0
    BY DEF IssueInvariant, BusInvariant, TypeOK, CpuTypeOK, RegFile, ZeroRegister
<1>3. cycle = 3 /\ I.opcode \in WriteOpcodes
    <2>1. cycle \in {1, 3}
        BY <1>1 DEF IssueInvariant, BusInvariant, PendingIsNew
    <2> QED BY <2>1 DEF IssueInvariant, BusInvariant, RequestMatchesCycle
<1>4. ~pins.busack
    <2>1. ~Past(n)
        BY <1>1 DEF Past
    <2> QED BY <1>1, <1>3, <2>1 DEF IssueInvariant, BusInvariant, UnseenIsNotAcknowledged
<1>5. ~Done
    BY <1>1, <1>4 DEF Done, Stored
<1>6. pins'.rw /\ pins'.busack
    BY <1>2 DEF Acknowledge, Pins
<1>7. ProgramRegisters' = r
    BY <1>1, <1>3, <1>6 DEF ProgramRegisters, Stored
<1>8. r = ZeroR0(r)
    BY <1>2, RegsTypes DEF ZeroR0, RegFile
<1>9. ~Interrupted /\ ~Interrupted'
    <2>1. ~pins.irq /\ ~Unanswered
        BY <1>1, <1>3 DEF IssueInvariant, InterruptPins, InterruptInFlight, Unanswered
    <2>2. pins'.irq = pins.irq /\ pins'.busack
        BY <1>2 DEF Acknowledge, Pins
    <2> QED BY <2>1, <2>2 DEF Interrupted, Unanswered
<1> QED BY <1>1, <1>3, <1>5, <1>7, <1>8, <1>9, StoreStep

(* A store ends: on an open bus it happens now and is lost, otherwise it   *)
(* has happened.                                                           *)
LEMMA FinishStep ==
    ASSUME IssueInvariant, CpuClock, FinishWrite
    PROVE  Machine!Step \/ UNCHANGED Machine!vars
<1>1. /\ turn = 0 /\ cycle = 3 /\ status = "running" /\ I.opcode \in WriteOpcodes
      /\ r' = ZeroR0(r) /\ cycle' = 0 /\ UNCHANGED <<st, status, mem, out, port>>
    BY DEF CpuClock, FinishWrite, Cycle, Retire, deviceVars
<1>2. r \in RegFile /\ r[R0] = 0 /\ pins.rw
    BY <1>1 DEF IssueInvariant, BusInvariant, TypeOK, CpuTypeOK, RegFile, ZeroRegister,
        RequestMatchesCycle
<1>3. r' = r
    BY <1>1, <1>2, RegsTypes DEF ZeroR0, RegFile
<1>4. ProgramRegisters' = r'
    <2>1. (r \in RegFile /\ cycle \in {0, 1} => ProgramRegisters = r)'
        BY IdleRegisters, PTL
    <2> QED BY <1>1, <1>2, <1>3, <2>1
<1>5. ~Interrupted /\ ~Interrupted' /\ Interrupted' = Interrupted
    BY RetiresQuietly DEF Interrupted
<1>6. CASE Done
    <2>1. ProgramRegisters = r
        BY <1>1, <1>6 DEF Done, ProgramRegisters
    <2>2. ArchRegisters' = ArchRegisters
        BY <1>5, <1>3, <1>4, <2>1 DEF ArchRegisters
    <2> QED BY <1>1, <1>5, <2>2 DEF Machine!vars
<1>7. CASE ~Done
    <2>1. pins.busreq /\ ~pins.busack
        BY <1>2, <1>7 DEF Done, Stored
    <2>2. \A n \in 1..4 : pins.a \notin Answers(n)
        BY <1>1, <2>1 DEF IssueInvariant, BusInvariant, SeenIsAcknowledged, Past
    <2>3. Machine!Write(pins.a, pins.s, pins.d)
        BY <1>1, <2>2, DeviceWrite
    <2> QED BY <1>1, <1>4, <1>7, <1>5, <2>3, StoreStep
<1> QED BY <1>6, <1>7
-----------------------------------------------------------------------------
(* What the instruction in flight began with stays the same while it waits. *)
LEMMA BeganStays ==
    ASSUME IssueInvariant, UNCHANGED <<r, cycle, instruction>>,
           cycle = 3 /\ I.opcode \in CallOpcodes => pins'.d = pins.d
    PROVE  /\ Began' = Began
           /\ cycle # 3 \/ Done' = Done => ProgramRegisters' = ProgramRegisters
<1>1. I' = I /\ r' = r /\ cycle' = cycle
    BY DEF I
<1>2. BeganPc' = BeganPc
    BY <1>1 DEF BeganPc
<1>3. SpBefore' = SpBefore /\ PcBefore' = PcBefore
    <2>1. cycle \in 0..3
        BY DEF IssueInvariant, BusInvariant, TypeOK, CpuTypeOK
    <2>2. (/\ cycle \in {0, 1} => PcBefore = r[PC] /\ SpBefore = r[SP]
           /\ cycle \in {2, 3} => PcBefore = Wrap(BeganPc - 4)
           /\ cycle = 2 => BeganPc = r[PC] /\ SpBefore = r[SP]
           /\ cycle = 3 /\ I.opcode \in {Pop, Ret} => SpBefore = Wrap(r[SP] - 4)
           /\ cycle = 3 /\ I.opcode \in CallOpcodes \cup {Push} => SpBefore = Wrap(r[SP] + 4)
           /\ cycle = 3 /\ I.opcode \notin CallOpcodes \cup {Push, Pop, Ret}
                => SpBefore = r[SP])'
        BY BeforeFacts, PTL
    <2> QED BY <1>1, <1>2, <2>1, <2>2, BeforeFacts
<1>4. Began' = Began /\ InFlight' = InFlight
    BY <1>1, <1>2, <1>3 DEF Began, InFlight
<1> QED BY <1>1, <1>4 DEF ProgramRegisters, Done, Stored

(* A load or a store that is issued began with the registers it found.     *)
LEMMA LoadIssued ==
    ASSUME TypeOK, I.opcode \in ReadOpcodes, r' = ReadIssued(I, r),
           cycle' = 3, instruction' = instruction
    PROVE  Began' = r
<1>1. r \in RegFile /\ r[SP] \in Word /\ I' = I /\ cycle' # 2
    BY RegsTypes DEF TypeOK, CpuTypeOK, RegFile, I
<1>2. (/\ cycle = 3 /\ I.opcode \in {Pop, Ret} => SpBefore = Wrap(r[SP] - 4)
       /\ cycle = 3 /\ I.opcode \notin CallOpcodes \cup {Push, Pop, Ret} => SpBefore = r[SP])'
    BY BeforeFacts, PTL
<1>3. I.opcode \notin CallOpcodes
    BY ReadOrWrite DEF WriteOpcodes
<1>4. BeganPc' = r'[PC]
    BY <1>1, <1>3 DEF BeganPc
<1>5. CASE I.opcode \in LoadOpcodes
    <2>1. I.opcode \notin CallOpcodes \cup {Push, Pop, Ret}
        BY <1>5 DEF LoadOpcodes, CallOpcodes, Push, Pop, Ret
    <2>2. r' = r /\ SpBefore' = r[SP]
        BY <1>1, <1>2, <1>5, <2>1 DEF ReadIssued
    <2> QED BY <1>1, <1>4, <2>2, RegsTypes DEF Began, RegFile
<1>6. CASE I.opcode \notin LoadOpcodes
    <2>1. I.opcode \in {Pop, Ret} /\ r' = Popped(r)
        BY <1>6 DEF ReadOpcodes, ReadIssued
    <2>2. r'[SP] = Wrap(r[SP] + 4) /\ r'[PC] = r[PC]
        BY <1>1, <2>1, RegsTypes DEF Popped, RegFile
    <2>3. SpBefore' = r[SP]
        BY <1>1, <1>2, <2>1, <2>2, WrapRoundTrip
    <2> QED BY <1>1, <1>4, <2>1, <2>2, <2>3, RegsTypes DEF Began, Popped, RegFile
<1> QED BY <1>5, <1>6

LEMMA StoreIssued ==
    ASSUME TypeOK, I.opcode \in WriteOpcodes, r' = WriteIssued(I, r),
           pins'.d = WriteValue(I, r), cycle' = 3, instruction' = instruction
    PROVE  Began' = r
<1>1. r \in RegFile /\ r[SP] \in Word /\ I' = I /\ cycle' # 2
    BY RegsTypes DEF TypeOK, CpuTypeOK, RegFile, I
<1>2. (/\ cycle = 3 /\ I.opcode \in CallOpcodes \cup {Push} => SpBefore = Wrap(r[SP] + 4)
       /\ cycle = 3 /\ I.opcode \notin CallOpcodes \cup {Push, Pop, Ret} => SpBefore = r[SP])'
    BY BeforeFacts, PTL
<1>3. /\ StoreOpcodes \cap (CallOpcodes \cup {Push, Pop, Ret}) = {}
      /\ Push \notin CallOpcodes
    BY DEF StoreOpcodes, CallOpcodes, Push, Pop, Ret
<1>4. CASE I.opcode \in StoreOpcodes
    <2>1. I.opcode \notin CallOpcodes \cup {Push, Pop, Ret}
        BY <1>3, <1>4
    <2>2. WriteIssued(I, r) = r
        <3>1. I.opcode # Push
            BY <2>1
        <3> QED BY <1>4, <3>1, Zenon DEF WriteIssued
    <2>3. BeganPc' = r[PC] /\ SpBefore' = r[SP]
        BY <1>1, <1>2, <2>1, <2>2 DEF BeganPc
    <2> QED BY <1>1, <2>2, <2>3, RegsTypes DEF Began, RegFile
<1>5. CASE I.opcode \notin StoreOpcodes
    <2>1. I.opcode \in CallOpcodes \cup {Push}
        BY <1>5 DEF WriteOpcodes
    <2>2. /\ Pushed(r) \in RegFile
          /\ Pushed(r)[SP] = Wrap(r[SP] - 4) /\ Pushed(r)[PC] = r[PC]
          /\ \A k \in Regs \ {SP} : Pushed(r)[k] = r[k]
        BY <1>1, RegsTypes, WrapStepType DEF Pushed, RegFile
    <2>3. /\ DOMAIN r' = Regs
          /\ r'[SP] = Wrap(r[SP] - 4)
          /\ \A k \in Regs \ {SP, PC} : r'[k] = r[k]
          /\ BeganPc' = r[PC]
        <3>1. CASE I.opcode = Push
            <4>1. WriteIssued(I, r) = Pushed(r)
                BY <1>5, <3>1, Zenon DEF WriteIssued
            <4>2. BeganPc' = r'[PC]
                BY <1>1, <1>3, <3>1 DEF BeganPc
            <4> QED BY <2>2, <4>1, <4>2 DEF RegFile
        <3>2. CASE I.opcode \in CallOpcodes
            <4>1. I.opcode # Push
                BY <1>3, <3>2
            <4>2. WriteIssued(I, r) = [Pushed(r) EXCEPT ![PC] = Target(I, Pushed(r))]
                BY <1>5, <4>1, Zenon DEF WriteIssued
            <4>3. WriteValue(I, r) = r[PC]
                BY <1>5, <4>1, Zenon DEF WriteValue
            <4>4. BeganPc' = r[PC]
                BY <1>1, <3>2, <4>3 DEF BeganPc
            <4> QED BY <2>2, <4>2, <4>4, RegsTypes DEF RegFile
        <3> QED BY <2>1, <3>1, <3>2
    <2>4. SpBefore' = r[SP]
        BY <1>1, <1>2, <2>1, <2>3, WrapRoundTrip
    <2> QED BY <1>1, <2>3, <2>4, RegsTypes DEF Began, RegFile
<1> QED BY <1>4, <1>5
-----------------------------------------------------------------------------
(* What IssueInvariant adds, apart from the pins of the interrupt, when a  *)
(* step keeps the instruction in flight, the memory, the answer on the bus *)
(* and the course of the interrupt.                                        *)
LEMMA FlightStays ==
    ASSUME IssueInvariant, UNCHANGED <<r, st, cycle, instruction, mem, port>>, Done' = Done,
           UNCHANGED <<pins.a, pins.s, pins.d, pins.rw>>, AllSettled' => AllSettled,
           Interrupted' = Interrupted,
           pins'.busack /\ ~pins'.busreq => pins.busack /\ ~pins.busreq
    PROVE  /\ Flight'
           /\ ArchRegisters' = ArchRegisters
<1>1. Began' = Began /\ ProgramRegisters' = ProgramRegisters /\ I' = I
    BY BeganStays DEF I
<1>2. AnswerOnBus'
    BY DEF IssueInvariant, Flight, AnswerOnBus, Gives, ReadVector, ReadByte
<1>3. InstructionAtPc'
    BY <1>1 DEF IssueInvariant, Flight, InstructionAtPc, Gives, ReadVector, ReadByte
<1>4. LoadInFlight' /\ StoreInFlight'
    BY <1>1 DEF IssueInvariant, Flight, LoadInFlight, StoreInFlight
<1>5. FetchHeard' /\ AccessHeard'
    BY <1>1 DEF IssueInvariant, Flight, FetchHeard, AccessHeard, Heard, Answers, Machine!Starts,
        Machine!BootRegs
<1>6. StrayAtStart'
    BY DEF IssueInvariant, Flight, StrayAtStart, Machine!Starts, Machine!BootRegs
<1>7. ArchRegisters' = ArchRegisters
    BY <1>1 DEF ArchRegisters
<1> QED BY <1>2, <1>3, <1>4, <1>5, <1>6, <1>7 DEF Flight

(* A new request has no answer yet that anyone could hold wrong. *)
LEMMA RequestIsOpen ==
    ASSUME turn' = 1, pins'.busreq, pins'.d \in Word PROVE AnswerOnBus'
<1>1. \A n \in 1..4 : ~Past(n)'
    BY DEF Past
<1>2. AllSettled' => \A n \in 1..4 : pins'.a \notin Answers(n)
    BY <1>1 DEF AllSettled, Answers
<1>3. SUFFICES ASSUME \A n \in 1..4 : pins'.a \notin Answers(n)
               PROVE  Gives(pins.a, pins.s, pins.d)'
    BY <1>2 DEF AnswerOnBus
<1> QED BY <1>3, AnswersFacts DEF Gives

LEMMA FrozenKeeps ==
    ASSUME IssueInvariant, CpuClock, FrozenClock
    PROVE  Flight' /\ UNCHANGED Machine!vars
<1>1. /\ pins \in Pins /\ pins' = Bci /\ turn = 0
      /\ UNCHANGED <<r, st, cycle, instruction, mem, out, port, status>>
    BY DEF CpuClock, FrozenClock, deviceVars, IssueInvariant, BusInvariant, TypeOK, CpuTypeOK
<1>2. /\ pins'.a = pins.a /\ pins'.d = pins.d /\ pins'.s = pins.s /\ pins'.rw = pins.rw
      /\ pins'.busreq <=> pins.busreq /\ ~pins.busack
      /\ pins'.busack <=> pins.busack /\ ~pins.busreq
    BY <1>1, BciFacts DEF Bci
<1>3. Done' = Done /\ AllSettled
    BY <1>1, <1>2 DEF Done, Stored, AllSettled, Past, Pins
<1>4. Interrupted' = Interrupted
    BY <1>1, <1>2, BciKeepsInterrupted
<1>5. Flight' /\ ArchRegisters' = ArchRegisters
    BY <1>1, <1>2, <1>3, <1>4, FlightStays
<1> QED BY <1>1, <1>4, <1>5 DEF Machine!vars

(* A request makes an interrupt certain when nobody answers it, and a      *)
(* stray acknowledge does not either.                                      *)
LEMMA RequestInterrupts ==
    ASSUME ~Bci.irq, pins'.irq = Bci.irq, pins'.busreq, pins'.busack = Bci.busack
    PROVE  Interrupted' <=> ~Bci.busack /\ ~Heard(pins'.a)
BY DEF Interrupted, Unanswered, Heard, Answers

(* An interrupt leaves the pc of the program behind. *)
LEMMA AbandonStep ==
    ASSUME NEW rf \in RegFile, status = "running", ~Interrupted, Interrupted',
           r' = rf \/ r' = [rf EXCEPT ![PC] = BusErrorVector[0]],
           UNCHANGED <<st, mem, out, port, status>>
    PROVE  Machine!Abandon(rf)
<1>1. ArchRegisters' = [rf EXCEPT ![PC] = BusErrorVector[0]]
    BY RegsTypes DEF ArchRegisters, RegFile
<1>2. Interrupted' = TRUE
    BY DEF Interrupted
<1>3. Machine!PC = PC
    BY SameWords
<1> QED BY <1>1, <1>2, <1>3 DEF Machine!Abandon, Machine!Vector

LEMMA FetchRequestStep ==
    ASSUME IssueInvariant, TypeOK', CpuClock, FetchRequest
    PROVE  Flight' /\ (Machine!Interrupt \/ UNCHANGED Machine!vars)
<1>1. /\ turn = 0 /\ turn' = 1 /\ pins \in Pins /\ Bci \in Pins
      /\ r \in RegFile /\ r' = r /\ pins' \in Pins /\ pins'.d \in Word
      /\ cycle = 0 /\ Cycle(0) /\ cycle' = 1 /\ status = "running"
      /\ UNCHANGED <<mem, out, port, st, status>>
      /\ pins' = InitRead(Bci, r[PC], Execute)
    BY BciUpdateType DEF CpuClock, FetchRequest, Cycle, deviceVars, IssueInvariant,
        BusInvariant, TypeOK, CpuTypeOK, Bci, RegFile, Pins
<1>2. /\ pins'.busreq /\ pins'.a = r[PC] /\ pins'.irq = Bci.irq
      /\ pins'.busack = Bci.busack
    BY <1>1 DEF InitRead, Pins
<1>3. ~Interrupted /\ ~Bci.irq
    BY <1>1, CycleQuiet
<1>4. Interrupted' <=> ~Bci.busack /\ ~Heard(r[PC])
    BY <1>2, <1>3, RequestInterrupts
<1>5. ArchRegisters = r /\ ProgramRegisters' = r
    <2>1. (r \in RegFile /\ cycle \in {0, 1} => ProgramRegisters = r)'
        BY IdleRegisters, PTL
    <2> QED BY <1>1, <1>3, <2>1, IdleRegisters DEF ArchRegisters
<1>6. Bci.busack => r \in Machine!Starts
    BY <1>1, BciFacts DEF Bci, IssueInvariant, Flight, StrayAtStart
<1>7. FetchHeard'
    BY <1>1, <1>4, <1>5, <1>6 DEF FetchHeard, Heard, Answers, Machine!Starts, Machine!BootRegs
<1>8. Flight'
    BY <1>1, <1>2, <1>7, RequestIsOpen
        DEF Flight, InstructionAtPc, LoadInFlight, StoreInFlight, AccessHeard, StrayAtStart
<1>9. CASE Interrupted'
    <2>1. ~Machine!Heeded(ArchRegisters[Machine!PC])
        BY <1>4, <1>5, <1>9, SameWords, HeededIsHeard
    <2>2. Machine!Abandon(ArchRegisters)
        BY <1>1, <1>3, <1>5, <1>9, AbandonStep
    <2> QED BY <1>8, <2>1, <2>2 DEF Machine!Interrupt, Machine!FetchFails
<1>10. CASE ~Interrupted'
    <2>1. ArchRegisters' = ArchRegisters
        BY <1>5, <1>10 DEF ArchRegisters
    <2>2. Interrupted' = Interrupted
        BY <1>3, <1>10 DEF Interrupted
    <2> QED BY <1>1, <1>8, <2>1, <2>2 DEF Machine!vars
<1> QED BY <1>9, <1>10

(* The fetch from the vector, however often it is repeated. *)
LEMMA FetchVectorKeeps ==
    ASSUME IssueInvariant, TypeOK', CpuClock, FetchVector
    PROVE  Flight' /\ UNCHANGED Machine!vars
<1>1. /\ turn = 0 /\ turn' = 1 /\ r \in RegFile /\ pins'.d \in Word /\ cycle' = 1
      /\ Bci.irq /\ r' = [r EXCEPT ![PC] = Bci.v]
      /\ pins' = InitRead([Bci EXCEPT !.irqack = TRUE], Bci.v, Execute)
      /\ UNCHANGED <<mem, out, port, st, status>>
    BY DEF CpuClock, FetchVector, deviceVars, IssueInvariant, BusInvariant, TypeOK,
        CpuTypeOK, RegFile, Pins
<1>2. Bci \in Pins /\ Interrupted /\ Bci.v = BusErrorVector[0]
    BY <1>1, BciInterrupts
<1>3. pins'.busreq /\ pins'.irq
    BY <1>1, <1>2 DEF InitRead, Pins
<1>4. Interrupted'
    BY <1>2, <1>3 DEF Interrupted
<1>5. ArchRegisters' = ArchRegisters
    BY <1>1, <1>2, <1>4, RegsTypes DEF ArchRegisters, RegFile
<1>6. Interrupted' = Interrupted
    BY <1>2, <1>4 DEF Interrupted
<1>7. Flight'
    BY <1>1, <1>3, <1>4, RequestIsOpen DEF Flight, InstructionAtPc, LoadInFlight,
        StoreInFlight, FetchHeard, AccessHeard, StrayAtStart
<1> QED BY <1>1, <1>5, <1>6, <1>7 DEF Machine!vars

LEMMA FetchLatchKeeps ==
    ASSUME IssueInvariant, TypeOK', CpuClock, FetchLatch
    PROVE  Flight' /\ UNCHANGED Machine!vars
<1>1. /\ turn = 0 /\ turn' = 1 /\ TypeOK /\ pins \in Pins /\ Bci \in Pins
      /\ r \in RegFile /\ r' \in RegFile /\ pins' = Bci
      /\ cycle = 1 /\ cycle' = 2 /\ instruction' = Bci.d
      /\ r' = [r EXCEPT ![PC] = Wrap(r[PC] + 4)]
      /\ UNCHANGED <<mem, out, port, st, status>>
    BY BciUpdateType DEF CpuClock, FetchLatch, Cycle, deviceVars, IssueInvariant,
        BusInvariant, TypeOK, CpuTypeOK, Bci, RegFile
<1>2. /\ instruction' = pins.d /\ pins.a = r[PC] /\ ~pins.rw /\ pins.s = Execute
    BY <1>1, BciFacts DEF Bci, IssueInvariant, BusInvariant, RequestMatchesCycle
<1>3. AllSettled
    BY <1>1 DEF AllSettled, Past
<1>4. Gives(r[PC], Execute, instruction')
    BY <1>1, <1>2, <1>3 DEF IssueInvariant, Flight, AnswerOnBus
<1>5. (cycle = 2 => BeganPc = r[PC] /\ SpBefore = r[SP])'
    BY BeforeFacts, PTL
<1>6. Began' = r'
    BY <1>1, <1>5 DEF Began, RegFile
<1>7. r[PC] \in Word
    BY <1>1, RegsTypes DEF RegFile
<1>8. r'[PC] = Wrap(r[PC] + 4)
    BY <1>1, RegsTypes DEF RegFile
<1>9. Wrap(r'[PC] - 4) = r[PC]
    BY <1>7, <1>8, WrapRoundTrip
<1>10. InstructionAtPc'
    BY <1>1, <1>4, <1>6, <1>9 DEF InstructionAtPc, Gives, ReadVector, ReadByte
<1>11. (TypeOK /\ (cycle = 2 \/ (cycle = 3 /\ ~Done)) =>
            ProgramRegisters = [Began EXCEPT ![PC] = Wrap(Began[PC] - 4)])'
    BY BeganFacts, PTL
<1>12. ProgramRegisters' = [r' EXCEPT ![PC] = r[PC]]
    BY <1>1, <1>6, <1>9, <1>11
<1>13. ProgramRegisters' = r /\ ProgramRegisters = r
    BY <1>1, <1>12, RegsTypes, IdleRegisters DEF RegFile
<1>14. Interrupted' = Interrupted
    BY <1>1, BciKeepsInterrupted, BciInterrupts
<1>15. ArchRegisters' = ArchRegisters
    BY <1>1, <1>13, <1>14, RegsTypes DEF ArchRegisters, RegFile
<1>16. FetchHeard'
    BY <1>1, <1>13, <1>14 DEF IssueInvariant, Flight, FetchHeard, Heard, Answers,
        Machine!Starts, Machine!BootRegs
<1>17. ~Bci.busack
    BY <1>1, BciFacts DEF Bci, IssueInvariant, BusInvariant, StrayAcknowledge
<1>18. Flight'
    BY <1>1, <1>10, <1>16, <1>17 DEF Flight, AnswerOnBus, LoadInFlight, StoreInFlight,
        AccessHeard, StrayAtStart
<1> QED BY <1>1, <1>14, <1>15, <1>18 DEF Machine!vars

(* A load or store that is requested is a stutter of the machine, unless   *)
(* nobody answers.                                                         *)
LEMMA IssueStep ==
    ASSUME IssueInvariant, TypeOK', CpuClock, IssueRead \/ IssueWrite
    PROVE  Flight' /\ (Machine!Interrupt \/ UNCHANGED Machine!vars)
<1>1. /\ turn = 0 /\ turn' = 1 /\ TypeOK /\ pins \in Pins /\ Bci \in Pins /\ r \in RegFile
      /\ I \in Instr /\ pins'.d \in Word /\ cycle = 2 /\ cycle' = 3 /\ Taken(I, st)
      /\ Cycle(2) /\ status = "running" /\ r' \in RegFile
      /\ UNCHANGED <<mem, out, port, st, status, instruction>>
    BY BciUpdateType, DecodeType DEF CpuClock, IssueRead, IssueWrite, Cycle, deviceVars,
        IssueInvariant, BusInvariant, TypeOK, CpuTypeOK, Bci, RegFile, Pins, I
<1>2. I' = I /\ Taken(I, st)'
    BY <1>1 DEF I, Taken
<1>3. ~Bci.busack /\ ~Bci.irq /\ ~Interrupted
    BY <1>1, BciFacts, CycleQuiet DEF Bci, IssueInvariant, BusInvariant, StrayAcknowledge
<1>4. Began = r
    BY <1>1, BeforeFacts DEF Began, RegFile
<1>5. /\ pins'.busreq /\ ~pins'.busack /\ Began' = r /\ pins'.irq = Bci.irq
      /\ pins'.busack = Bci.busack
      /\ LoadInFlight' /\ StoreInFlight'
      /\ \/ I.opcode \in ReadOpcodes /\ pins'.a = ReadAddress(I, r) /\ r' = ReadIssued(I, r)
         \/ I.opcode \in WriteOpcodes /\ pins'.a = WriteAddress(I, r) /\ r' = WriteIssued(I, r)
    <2>1. CASE IssueRead
        <3>1. /\ I.opcode \in ReadOpcodes /\ r' = ReadIssued(I, r)
              /\ pins' = InitRead(Bci, ReadAddress(I, r), ReadSize(I))
            BY <2>1 DEF IssueRead
        <3>2. /\ pins'.a = ReadAddress(I, r) /\ pins'.s = ReadSize(I)
              /\ pins'.busreq /\ pins'.busack = Bci.busack /\ pins'.irq = Bci.irq
            BY <1>1, <3>1 DEF InitRead, Pins
        <3>3. Began' = r
            BY <1>1, <3>1, LoadIssued
        <3>4. I.opcode \notin WriteOpcodes
            BY <3>1, ReadOrWrite
        <3> QED BY <1>2, <1>3, <3>1, <3>2, <3>3, <3>4 DEF LoadInFlight, StoreInFlight
    <2>2. CASE IssueWrite
        <3>1. /\ I.opcode \in WriteOpcodes /\ r' = WriteIssued(I, r)
              /\ pins' = InitWrite(Bci, WriteAddress(I, r), WriteValue(I, r), WriteSize(I))
            BY <2>2 DEF IssueWrite
        <3>2. /\ pins'.a = WriteAddress(I, r) /\ pins'.s = WriteSize(I)
              /\ pins'.d = WriteValue(I, r) /\ pins'.busreq /\ pins'.busack = Bci.busack
              /\ pins'.irq = Bci.irq
            BY <1>1, <3>1 DEF InitWrite, Pins
        <3>3. Began' = r
            BY <1>1, <3>1, <3>2, StoreIssued
        <3>4. I.opcode \notin ReadOpcodes
            BY <3>1, ReadOrWrite
        <3> QED BY <1>2, <1>3, <3>1, <3>2, <3>3, <3>4 DEF LoadInFlight, StoreInFlight
    <2> QED BY <2>1, <2>2
<1>6. ~Done'
    BY <1>5 DEF Done, Stored
<1>7. AnswerOnBus'
    BY <1>1, <1>5, RequestIsOpen
<1>8. InstructionAtPc'
    BY <1>1, <1>4, <1>5 DEF IssueInvariant, Flight, InstructionAtPc, Gives, ReadVector,
        ReadByte
<1>9. ProgramRegisters' = ProgramRegisters
    <2>1. (TypeOK /\ (cycle = 2 \/ (cycle = 3 /\ ~Done)) =>
                ProgramRegisters = [Began EXCEPT ![PC] = Wrap(Began[PC] - 4)])'
        BY BeganFacts, PTL
    <2>2. ProgramRegisters' = [r EXCEPT ![PC] = Wrap(r[PC] - 4)]
        BY <1>1, <1>5, <1>6, <2>1
    <2>3. ProgramRegisters = [r EXCEPT ![PC] = Wrap(r[PC] - 4)]
        BY <1>1, <1>4, BeganFacts
    <2> QED BY <2>2, <2>3
<1>10. Interrupted' <=> ~Heard(pins'.a)
    BY <1>3, <1>5, RequestInterrupts
<1>11. FetchHeard'
    BY <1>1, <1>3, <1>9 DEF IssueInvariant, Flight, FetchHeard, Heard, Answers,
        Machine!Starts, Machine!BootRegs
<1>12. Flight'
    BY <1>5, <1>7, <1>8, <1>10, <1>11 DEF Flight, AccessHeard, StrayAtStart, Heard, Answers
<1>13. CASE ~Interrupted'
    <2>1. ArchRegisters' = ArchRegisters
        BY <1>3, <1>9, <1>13 DEF ArchRegisters
    <2>2. Interrupted' = Interrupted
        BY <1>3, <1>13 DEF Interrupted
    <2> QED BY <1>1, <1>12, <2>1, <2>2 DEF Machine!vars
<1>14. CASE Interrupted'
    <2>1. Machine!Abandon(r')
        BY <1>1, <1>3, <1>14, AbandonStep
    <2>2. ~Machine!Heeded(pins'.a)
        BY <1>10, <1>14, HeededIsHeard
    <2>3. /\ Machine!ReadAddress(I, r) = ReadAddress(I, r)
          /\ Machine!ReadIssued(I, r) = ReadIssued(I, r)
          /\ Machine!WriteAddress(I, r) = WriteAddress(I, r)
          /\ Machine!WriteIssued(I, r) = WriteIssued(I, r)
        BY SameAccess
    <2>4. /\ Machine!ReadOpcodes = ReadOpcodes /\ Machine!WriteOpcodes = WriteOpcodes
          /\ Machine!Taken(I, st)
        BY <1>1, SameOpcodes, SameIsa
    <2>5. Machine!AccessFails(Decode[instruction], r)
        BY <1>5, <2>1, <2>2, <2>3, <2>4, Zenon DEF Machine!AccessFails, I
    <2>6. /\ Machine!Fetched /\ Machine!PastPc = r
          /\ instruction \in Machine!Reads(ArchRegisters[Machine!PC], Machine!Execute)
        BY <1>1, <1>3, <1>4, MachineFetches
    <2> QED BY <1>12, <2>5, <2>6 DEF Machine!Interrupt
<1> QED BY <1>13, <1>14

LEMMA TrapStep ==
    ASSUME IssueInvariant, CpuClock, ExecuteTrap
    PROVE  Flight' /\ Machine!Step
<1>1. /\ turn = 0 /\ cycle = 2 /\ cycle' = 2 /\ status = "running" /\ r \in RegFile
      /\ Signal(I, r) # "none" /\ status' = Signal(I, r) /\ pins' = Bci
      /\ UNCHANGED <<r, st, cycle, instruction, mem, out, port>>
    BY DEF CpuClock, ExecuteTrap, Cycle, deviceVars, IssueInvariant, BusInvariant, TypeOK,
        CpuTypeOK, RegFile
<1>2. Began' = Began /\ ProgramRegisters' = ProgramRegisters
    BY <1>1, BeganStays
<1>3. ~Interrupted /\ ~Interrupted' /\ ~pins'.busack
    BY RetiresQuietly
<1>4. ArchRegisters' = ArchRegisters /\ Interrupted' = Interrupted
    BY <1>2, <1>3 DEF ArchRegisters, Interrupted
<1>5. Began = r
    BY <1>1, BeforeFacts DEF Began, RegFile
<1>6. Machine!Signal(I, Began) = Signal(I, r)
    BY <1>5, SameIsa
<1>7. Machine!Trap(I, Began)
    BY <1>1, <1>4, <1>6, Zenon DEF Machine!Trap
<1>8. Machine!Step
    BY <1>1, <1>3, <1>7, MachineStep
<1>9. InstructionAtPc'
    BY <1>1, <1>2 DEF IssueInvariant, Flight, InstructionAtPc, Gives, ReadVector, ReadByte
<1>10. FetchHeard'
    BY <1>1, <1>2, <1>3 DEF IssueInvariant, Flight, FetchHeard, Heard, Answers,
        Machine!Starts, Machine!BootRegs
<1> QED
    BY <1>1, <1>3, <1>8, <1>9, <1>10
        DEF Flight, AnswerOnBus, LoadInFlight, StoreInFlight, AccessHeard, StrayAtStart

(* The clock. *)
LEMMA ClockRefines ==
    ASSUME IssueInvariant, TypeOK', CpuClock
    PROVE  Flight' /\ (Machine!Step \/ Machine!Interrupt \/ UNCHANGED Machine!vars)
<1>1. ASSUME cycle' = 0, ~pins'.busack PROVE Flight'
    BY <1>1 DEF Flight, AnswerOnBus, InstructionAtPc, LoadInFlight, StoreInFlight,
        FetchHeard, AccessHeard, StrayAtStart
<1>2. CASE FetchVector
    BY <1>2, FetchVectorKeeps
<1>3. CASE ExecuteMove \/ ExecuteAlu \/ ExecuteJump \/ ExecuteResetRange \/ ExecuteNothing
    <2>1. cycle' = 0
        BY <1>3 DEF ExecuteMove, ExecuteAlu, ExecuteJump, ExecuteResetRange, ExecuteNothing,
            Retire
    <2> QED BY <1>1, <1>3, <2>1, ExecuteStep, RetiresQuietly
<1>4. CASE FinishRead \/ FinishWrite
    <2>1. cycle' = 0
        BY <1>4 DEF FinishRead, FinishWrite, Retire
    <2> QED BY <1>1, <1>4, <2>1, LoadStep, FinishStep, RetiresQuietly
<1>5. CASE FrozenClock
    BY <1>5, FrozenKeeps
<1>6. CASE FetchRequest
    BY <1>6, FetchRequestStep
<1>7. CASE FetchLatch
    BY <1>7, FetchLatchKeeps
<1>8. CASE IssueRead \/ IssueWrite
    BY <1>8, IssueStep
<1>9. CASE ExecuteTrap
    BY <1>9, TrapStep
<1> QED BY <1>2, <1>3, <1>4, <1>5, <1>6, <1>7, <1>8, <1>9 DEF CpuClock, Clock

(* A device that answers a read. *)
LEMMA AnswerKeeps ==
    ASSUME IssueInvariant, NEW n \in 1..4, Update(n, Answers(n)), NEW words \in SUBSET Word,
           AnswerRead(words), \A d \in words : Gives(pins.a, pins.s, d)
    PROVE  /\ Flight'
           /\ UNCHANGED Machine!vars
<1>1. /\ turn = n /\ pins.busreq /\ pins.a \in Answers(n) /\ ~pins.rw
      /\ UNCHANGED <<r, st, cycle, instruction, status, mem, out, port>>
    BY DEF Update, AnswerRead, deviceVars
<1>2. PICK d \in words : pins' = [Acknowledge(pins) EXCEPT !.d = d]
    BY DEF AnswerRead
<1>3. pins \in Pins /\ d \in Word /\ cycle \in 0..3
    BY DEF IssueInvariant, BusInvariant, TypeOK, CpuTypeOK
<1>4. /\ pins'.d = d /\ pins'.a = pins.a /\ pins'.s = pins.s /\ pins'.rw = pins.rw
      /\ pins'.busreq = pins.busreq /\ pins'.busack /\ pins'.irq = pins.irq
    BY <1>2, <1>3 DEF Acknowledge, Pins
<1>5. cycle \in {1, 3}
    BY <1>1 DEF IssueInvariant, BusInvariant, PendingIsNew
<1>6. cycle = 3 => I.opcode \notin CallOpcodes /\ I.opcode \notin WriteOpcodes
    BY <1>1 DEF IssueInvariant, BusInvariant, RequestMatchesCycle, WriteOpcodes
<1>7. Done' = Done
    BY <1>1, <1>4 DEF Done
<1>8. Began' = Began /\ ProgramRegisters' = ProgramRegisters /\ I' = I
    BY <1>1, <1>6, <1>7, BeganStays DEF I
<1>9. AnswerOnBus'
    <2>1. Gives(pins.a, pins.s, d) /\ pins'.a = pins.a /\ pins'.s = pins.s /\ pins'.d = d
        BY <1>2, <1>4
    <2>2. Gives(pins.a, pins.s, pins.d)'
        BY <1>1, <2>1 DEF Gives, ReadVector, ReadByte
    <2> QED BY <2>2 DEF AnswerOnBus
<1>10. InstructionAtPc'
    BY <1>1, <1>7, <1>8 DEF IssueInvariant, Flight, InstructionAtPc, Gives, ReadVector, ReadByte
<1>11. LoadInFlight' /\ StoreInFlight'
    BY <1>1, <1>4, <1>6, <1>8 DEF IssueInvariant, Flight, LoadInFlight, StoreInFlight
<1>12. Interrupted' = Interrupted
    BY <1>1, <1>4 DEF Interrupted, Unanswered
<1>13. ArchRegisters' = ArchRegisters
    BY <1>1, <1>8, <1>12 DEF ArchRegisters
<1>14. FetchHeard'
    BY <1>1, <1>7, <1>8, <1>12 DEF IssueInvariant, Flight, FetchHeard, Heard, Answers,
        Machine!Starts, Machine!BootRegs
<1>15. AccessHeard' /\ StrayAtStart'
    BY <1>1, <1>4 DEF AccessHeard, StrayAtStart, Heard, Answers
<1> QED BY <1>1, <1>9, <1>10, <1>11, <1>12, <1>13, <1>14, <1>15 DEF Flight, Machine!vars

(* A device that performs a store. *)
LEMMA PerformKeeps ==
    ASSUME IssueInvariant, NEW n \in 1..4, Update(n, Answers(n)),
           pins.rw, pins' = Acknowledge(pins)
    PROVE  Flight'
<1>1. /\ turn = n /\ pins.busreq /\ pins.a \in Answers(n) /\ pins \in Pins
      /\ UNCHANGED <<r, st, cycle, instruction>>
    BY DEF Update, IssueInvariant, BusInvariant, TypeOK, CpuTypeOK
<1>2. /\ pins'.d = pins.d /\ pins'.a = pins.a /\ pins'.s = pins.s /\ pins'.rw
      /\ pins'.busack /\ pins'.busreq
    BY <1>1 DEF Acknowledge, Pins
<1>3. cycle = 3
    BY <1>1 DEF IssueInvariant, BusInvariant, PendingIsNew, RequestMatchesCycle
<1>4. Began' = Began /\ I' = I
    BY <1>1, <1>2, BeganStays DEF I
<1>5. Done'
    BY <1>2 DEF Done, Stored
<1>6. AccessHeard'
    BY <1>1, <1>2 DEF AccessHeard, Heard, Answers
<1>7. LoadInFlight' /\ StoreInFlight'
    BY <1>1, <1>2, <1>4 DEF IssueInvariant, Flight, LoadInFlight, StoreInFlight
<1> QED
    BY <1>1, <1>2, <1>3, <1>5, <1>6, <1>7 DEF Flight, AnswerOnBus, InstructionAtPc,
        FetchHeard, StrayAtStart

(* The round of the devices. *)
LEMMA DeviceRefines ==
    ASSUME IssueInvariant, DeviceUpdate
    PROVE  /\ Flight'
           /\ Machine!Step \/ UNCHANGED Machine!vars
<1>1. mem \in [RamBytes -> Byte] /\ port \in Word /\ pins \in Pins
    BY DEF IssueInvariant, BusInvariant, TypeOK, CpuTypeOK
<1>2. CASE TerminalUpdate
    <2>1. Update(1, Answers(1)) /\ pins.a \in TermAnswers
        BY <1>2, AnswersFacts DEF TerminalUpdate, Update
    <2>2. ReadTerminal(pins.a) \in SUBSET Word
        BY DevicesAssumption, Constants DEF ReadTerminal
    <2>3. CASE AnswerRead(ReadTerminal(pins.a))
        BY <2>1, <2>2, <2>3, GivesOne, AnswerKeeps
    <2>4. CASE /\ pins.rw /\ pins' = Acknowledge(pins)
               /\ out' = WriteTerminal(out, pins.a, pins.d) /\ UNCHANGED <<mem, port>>
        BY <2>1, <2>4, DeviceWrite, PerformStep, PerformKeeps
    <2> QED BY <1>2, <2>3, <2>4 DEF TerminalUpdate
<1>3. CASE IobusUpdate
    <2>1. Update(2, Answers(2)) /\ pins.a \in IoAnswers
        BY <1>3, AnswersFacts DEF IobusUpdate, Update
    <2>2. (IF pins.a = IoPort THEN {port} ELSE IoWords) \in SUBSET Word
        BY <1>1, DevicesAssumption
    <2>3. CASE AnswerRead(IF pins.a = IoPort THEN {port} ELSE IoWords)
        BY <2>1, <2>2, <2>3, GivesOne, AnswerKeeps
    <2>4. CASE /\ pins.rw /\ pins' = Acknowledge(pins)
               /\ port' = IF pins.a = IoPort THEN pins.d ELSE port
               /\ UNCHANGED <<mem, out>>
        BY <2>1, <2>4, DeviceWrite, PerformStep, PerformKeeps
    <2> QED BY <1>3, <2>3, <2>4 DEF IobusUpdate
<1>4. CASE BiosUpdate
    <2>1. Update(3, Answers(3)) /\ pins.a \in BiosAnswers
        BY <1>4, AnswersFacts DEF BiosUpdate, Update
    <2>2. ReadVector(mem, BiosBytes, pins.a, pins.s) \in SUBSET Word
        BY <1>1, ReadVectorType DEF RamBytes
    <2>3. CASE AnswerRead(ReadVector(mem, BiosBytes, pins.a, pins.s))
        BY <2>1, <2>2, <2>3, GivesOne, AnswerKeeps
    <2>4. CASE /\ pins.rw /\ pins' = Acknowledge(pins)
               /\ mem' = WriteVector(mem, BiosBytes, pins.a, pins.s, pins.d)
               /\ UNCHANGED <<out, port>>
        BY <2>1, <2>4, DeviceWrite, PerformStep, PerformKeeps
    <2> QED BY <1>4, <2>3, <2>4 DEF BiosUpdate
<1>5. CASE MemoryUpdate
    <2>1. Update(4, Answers(4)) /\ pins.a \in MemAnswers
        BY <1>5, AnswersFacts DEF MemoryUpdate, Update
    <2>2. ReadVector(mem, MemBytes, pins.a, pins.s) \in SUBSET Word
        BY <1>1, ReadVectorType DEF RamBytes
    <2>3. CASE AnswerRead(ReadVector(mem, MemBytes, pins.a, pins.s))
        BY <2>1, <2>2, <2>3, GivesOne, AnswerKeeps
    <2>4. CASE /\ pins.rw /\ pins' = Acknowledge(pins)
               /\ mem' = WriteVector(mem, MemBytes, pins.a, pins.s, pins.d)
               /\ UNCHANGED <<out, port>>
        BY <2>1, <2>4, DeviceWrite, PerformStep, PerformKeeps
    <2> QED BY <1>5, <2>3, <2>4 DEF MemoryUpdate
<1>6. CASE IdleUpdate
    <2>1. /\ turn \in 1..4 /\ turn' = (turn + 1) % 5
          /\ ~pins.busreq \/ pins.a \notin Answers(turn)
          /\ UNCHANGED <<r, st, cycle, instruction, pins, status, mem, out, port>>
        BY <1>6 DEF IdleUpdate, cpuVars, deviceVars
    <2>2. \A n \in 1..4 : Past(n)' => Past(n) \/ n = turn
        BY <2>1 DEF Past
    <2>3. AllSettled' => AllSettled
        BY <2>1, <2>2 DEF AllSettled, Answers
    <2>4. Done' = Done
        BY <2>1 DEF Done, Stored
    <2>5. Interrupted' = Interrupted
        BY <2>1 DEF Interrupted, Unanswered, Answers
    <2>6. /\ Flight'
          /\ ArchRegisters' = ArchRegisters
        BY <2>1, <2>3, <2>4, <2>5, FlightStays
    <2> QED BY <2>1, <2>5, <2>6 DEF Machine!vars
<1> QED BY <1>2, <1>3, <1>4, <1>5, <1>6 DEF DeviceUpdate

(* A RESET pulse starts the machine again, at the bus error vector when it *)
(* comes while an access goes unanswered; FREEZE it does not know.         *)
LEMMA PulsedVector ==
    ASSUME IssueInvariant, turn = 0
    PROVE  \/ PulsedPins(pins).v = ResetVector
           \/ Interrupted /\ PulsedPins(pins).v = BusErrorVector[0]
<1> DEFINE q == [pins EXCEPT !.v = ResetVector]
<1>1. pins \in Pins /\ pins.busirq = BusIrq /\ pins.be = 0
    BY DEF IssueInvariant, BusInvariant, TypeOK, CpuTypeOK, InterruptPins
<1>2. /\ q \in Pins /\ q.v = ResetVector /\ q.busirq = BusIrq /\ q.be = 0
      /\ q.busreq = pins.busreq /\ q.busack = pins.busack /\ q.irqack = pins.irqack
    BY <1>1, HyriscAssumption DEF Pins
<1>3. PulsedPins(pins) = BciUpdate(q)
    BY DEF PulsedPins
<1> HIDE DEF q
<1>4. CASE BusIrq /\ pins.busreq /\ ~pins.busack
    <2>1. \A n \in 1..4 : pins.a \notin Answers(n)
        BY <1>4 DEF IssueInvariant, BusInvariant, SeenIsAcknowledged, Past
    <2>2. Interrupted
        BY <1>4, <2>1 DEF Interrupted, Unanswered
    <2>3. BciUpdate(q).v \in {ResetVector, BusErrorVector[0]}
        BY <1>2 DEF BciUpdate, Pins
    <2> QED BY <1>3, <2>2, <2>3
<1>5. CASE ~(BusIrq /\ pins.busreq /\ ~pins.busack)
    <2>1. BciUpdate(q).v = ResetVector
        BY <1>2, <1>5 DEF BciUpdate, Pins
    <2> QED BY <1>3, <2>1
<1> QED BY <1>4, <1>5

LEMMA ResetRefines ==
    ASSUME IssueInvariant, TypeOK', EmbedderReset
    PROVE  /\ Flight'
           /\ Machine!Reset
<1>1. /\ turn = 0 /\ status = "running" /\ st' = {} /\ cycle' = 0
      /\ r' = PulsedRegs(pins) /\ pins' = StrappedPins(pins) /\ r' \in RegFile
      /\ UNCHANGED <<mem, out, port, status>> /\ pins \in Pins
    BY DEF EmbedderReset, PulseReset, deviceVars, IssueInvariant, BusInvariant, TypeOK,
        CpuTypeOK, RegFile
<1>2. r' = Machine!BootRegs(PulsedPins(pins).v)
    BY <1>1 DEF PulsedRegs, Machine!BootRegs, Machine!Regs, Regs, Machine!PC, PC
<1>3. ~Interrupted' /\ Interrupted' = FALSE
    <2>1. PulsedPins(pins) \in Pins
        BY <1>1, ResetType
    <2>2. ~pins'.irq /\ ~pins'.busreq
        BY <1>1, <2>1 DEF StrappedPins, ResetPins, Pins
    <2> QED BY <2>2 DEF Interrupted, Unanswered
<1>4. (r \in RegFile /\ cycle \in {0, 1} => ProgramRegisters = r)'
    BY IdleRegisters, PTL
<1>5. ArchRegisters' = r'
    BY <1>1, <1>3, <1>4 DEF ArchRegisters
<1>6. r' \in Machine!Starts
    <2>1. PulsedPins(pins).v \in {ResetVector, BusErrorVector[0]} /\ 0 \in Byte
        BY <1>1, PulsedVector, Constants
    <2>2. Machine!Byte = Byte
        BY SameWords
    <2> QED BY <1>2, <2>1, <2>2 DEF Machine!Starts
<1>7. Flight'
    BY <1>1, <1>3, <1>6 DEF Flight, AnswerOnBus, InstructionAtPc, LoadInFlight,
        StoreInFlight, FetchHeard, AccessHeard, StrayAtStart, Machine!Starts, Machine!BootRegs
<1>8. Machine!Reset
    BY <1>1, <1>2, <1>3, <1>5, PulsedVector DEF Machine!Reset, Machine!Vector
<1> QED BY <1>7, <1>8

LEMMA FreezeRefines ==
    ASSUME IssueInvariant, EmbedderFreeze
    PROVE  /\ Flight'
           /\ UNCHANGED Machine!vars
<1>1. /\ pins \in Pins /\ pins' = [pins EXCEPT !.freeze = ~@]
      /\ UNCHANGED <<r, st, cycle, instruction, status, mem, out, port, turn>>
    BY DEF EmbedderFreeze, MoveFreeze, deviceVars, IssueInvariant, BusInvariant, TypeOK,
        CpuTypeOK
<1>2. /\ pins'.a = pins.a /\ pins'.d = pins.d /\ pins'.s = pins.s /\ pins'.rw = pins.rw
      /\ pins'.busreq = pins.busreq /\ pins'.busack = pins.busack /\ pins'.irq = pins.irq
    BY <1>1 DEF Pins
<1>3. Done' = Done /\ (AllSettled' => AllSettled)
    BY <1>1, <1>2 DEF Done, Stored, AllSettled, Past, Answers
<1>4. Interrupted' = Interrupted
    BY <1>2 DEF Interrupted, Unanswered, Answers
<1>5. /\ Flight'
      /\ ArchRegisters' = ArchRegisters
    BY <1>1, <1>2, <1>3, <1>4, FlightStays
<1> QED BY <1>1, <1>4, <1>5 DEF Machine!vars
-----------------------------------------------------------------------------
LEMMA IssueInvariantInit == ASSUME Init PROVE IssueInvariant /\ Machine!Init
<1>1. BusInvariant /\ TypeOK
    BY BusInvariantInit DEF BusInvariant
<1>2. /\ cycle = 0 /\ r \in RegFile /\ mem \in [RamBytes -> Byte] /\ st = {} /\ out = <<>>
      /\ port \in IoWords /\ status = "running"
    BY <1>1, BoardAssumption DEF Init, CpuInit, TypeOK, CpuTypeOK, RegFile
<1>3. PICK p \in PowerOnPins : r = PulsedRegs(p) /\ pins = StrappedPins(p)
    BY DEF Init, CpuInit, PowerUps
<1>4. p \in Pins
    BY <1>3, PowerOnType
<1>5. /\ pins.busirq = BusIrq /\ pins.be = 0 /\ ~pins.busreq
      /\ ~pins.irq /\ ~pins.irqack
    <2>1. PulsedPins(p) \in Pins
        BY <1>4, ResetType
    <2> QED BY <1>3, <2>1 DEF StrappedPins, ResetPins, Pins
<1>6. ~Interrupted /\ Interrupted = FALSE
    BY <1>5 DEF Interrupted, Unanswered
<1>7. PulsedPins(p).v \in {ResetVector} \cup {BusErrorVector[e] : e \in Byte}
    BY <1>4, HyriscAssumption DEF PulsedPins, BciUpdate, Pins
<1>8. /\ r = Machine!BootRegs(PulsedPins(p).v)
      /\ Machine!Byte = Byte /\ Machine!RamBytes = RamBytes
    BY <1>3, SameWords DEF PulsedRegs, Machine!BootRegs, Machine!Regs, Regs, Machine!PC, PC
<1>9. r \in Machine!Starts
    BY <1>7, <1>8 DEF Machine!Starts
<1>10. ArchRegisters = r
    BY <1>2, <1>6, IdleRegisters DEF ArchRegisters
<1>11. InterruptPins
    BY <1>5 DEF InterruptPins, InterruptInFlight
<1>12. Flight
    BY <1>2, <1>9 DEF Flight, AnswerOnBus, InstructionAtPc, LoadInFlight, StoreInFlight,
        FetchHeard, AccessHeard, StrayAtStart
<1> QED BY <1>1, <1>2, <1>6, <1>8, <1>9, <1>10, <1>11, <1>12 DEF IssueInvariant, Machine!Init

LEMMA IssueInvariantNext ==
    ASSUME IssueInvariant, TypeOK', [Next]_vars
    PROVE  IssueInvariant' /\ [Machine!Next]_(Machine!vars)
<1>1. BusInvariant' /\ InterruptPins'
    BY BusInvariantNext, InterruptPinsNext DEF IssueInvariant, BusInvariant
<1>2. CASE UNCHANGED vars
    <2>1. UNCHANGED <<r, st, cycle, instruction, pins, status, mem, out, port, turn>>
        BY <1>2 DEF vars
    <2>2. Done' = Done /\ AllSettled' = AllSettled /\ Interrupted' = Interrupted
        BY <2>1 DEF Done, Stored, AllSettled, Past, Answers, Interrupted, Unanswered
    <2>3. /\ Flight'
          /\ ArchRegisters' = ArchRegisters
        BY <2>1, <2>2, FlightStays
    <2> QED BY <1>1, <2>1, <2>2, <2>3 DEF IssueInvariant, Machine!vars
<1>3. CASE CpuClock
    BY <1>1, <1>3, ClockRefines DEF IssueInvariant, Machine!Next
<1>4. CASE DeviceUpdate
    BY <1>1, <1>4, DeviceRefines DEF IssueInvariant, Machine!Next
<1>5. CASE EmbedderReset
    BY <1>1, <1>5, ResetRefines DEF IssueInvariant, Machine!Next
<1>6. CASE EmbedderFreeze
    BY <1>1, <1>6, FreezeRefines DEF IssueInvariant
<1> QED BY <1>2, <1>3, <1>4, <1>5, <1>6 DEF Next, MainLoop

(* The board runs every program as the atomic machine does, with BUSIRQ    *)
(* strapped low or high: every instruction happens exactly once and as a   *)
(* whole, whatever freezes and resets come in between, until, with BUSIRQ  *)
(* high, an access meets nobody; the instruction that made it leaves sp    *)
(* and lr as it changed them and nothing else (hyrisc_clock,               *)
(* hyrisc_execute, hyrisc_bci_update, the update() of each device, main).  *)
THEOREM BoardImplementsMachine == Spec => ImplementsMachine
<1>1. Init => IssueInvariant /\ Machine!Init
    BY IssueInvariantInit
<1>2. IssueInvariant /\ TypeOK' /\ [Next]_vars =>
        IssueInvariant' /\ [Machine!Next]_(Machine!vars)
    BY IssueInvariantNext
<1> QED BY <1>1, <1>2, TypeCorrect, PTL DEF Spec, ImplementsMachine, Machine!Spec
=============================================================================
