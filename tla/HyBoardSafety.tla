--------------------------- MODULE HyBoardSafety ---------------------------
(***************************************************************************)
(* Type correctness and the safety properties of the board, proved for     *)
(* every value of its constants: every program, memory map, decoder, width *)
(* of a byte, number of registers and strapping of BUSIRQ, with any number *)
(* of freezes and resets.                                                  *)
(*                                                                         *)
(* First, no step of the CPU or of a device leaves its types, and none     *)
(* applies a function outside its domain on the way.                       *)
(*                                                                         *)
(* None of the safety properties is inductive: a word is right when the    *)
(* CPU takes it off the bus because one device answered the request in its *)
(* own turn, no other device touched it since, and the request was lowered *)
(* before the next round.  BusInvariant records that history in the        *)
(* present state.                                                          *)
(***************************************************************************)
EXTENDS HyBoard, HyIsaTheorems

LEMMA BciUpdateType == ASSUME NEW p \in Pins PROVE BciUpdate(p) \in Pins
<1>1. BusErrorVector[p.be] \in Word
    BY HyriscAssumption DEF Pins
<1> QED BY <1>1, Constants DEF BciUpdate, Pins

LEMMA InitReadType ==
    ASSUME NEW p \in Pins, NEW a \in Word, NEW s \in Sizes
    PROVE  InitRead(p, a, s) \in Pins
BY Constants DEF InitRead, Pins

LEMMA InitWriteType ==
    ASSUME NEW p \in Pins, NEW a \in Word, NEW d \in Word, NEW s \in Sizes
    PROVE  InitWrite(p, a, d, s) \in Pins
BY Constants DEF InitWrite, Pins

LEMMA AcknowledgeType ==
    ASSUME NEW p \in Pins, NEW d \in Word
    PROVE  Acknowledge(p) \in Pins /\ [Acknowledge(p) EXCEPT !.d = d] \in Pins
BY Constants DEF Acknowledge, Pins

(* A reset leaves well-typed pins and registers. *)
LEMMA ResetType ==
    ASSUME NEW p \in Pins
    PROVE  PulsedPins(p) \in Pins /\ StrappedPins(p) \in Pins /\ PulsedRegs(p) \in RegFile
<1>1. [p EXCEPT !.v = ResetVector] \in Pins
    BY HyriscAssumption DEF Pins
<1>2. PulsedPins(p) \in Pins
    BY <1>1, BciUpdateType DEF PulsedPins
<1>3. StrappedPins(p) \in Pins
    <2>1. ResetPins(PulsedPins(p)) \in Pins
        <3> DEFINE q == PulsedPins(p)
        <3> HIDE DEF q
        <3>1. q \in Pins
            BY <1>2 DEF q
        <3>2. Execute \in Sizes /\ WordMod - 1 \in Word /\ 0 \in Byte
            BY Constants DEF Execute, Sizes
        <3>3. ResetPins(q) \in Pins
            BY <3>1, <3>2 DEF ResetPins, Pins
        <3> QED BY <3>3 DEF q
    <2>2. \A q \in Pins : [q EXCEPT !.busirq = BusIrq] \in Pins
        BY HyriscAssumption DEF Pins
    <2> QED BY <2>1, <2>2 DEF StrappedPins
<1>4. PulsedPins(p).v \in Word
    BY <1>2 DEF Pins
<1>5. PulsedRegs(p) \in RegFile
    BY <1>4, Constants DEF PulsedRegs, RegFile
<1> QED BY <1>2, <1>3, <1>5

LEMMA PowerOnType == PowerOnPins \subseteq Pins
<1> SUFFICES ASSUME NEW q \in PowerOnPins PROVE q \in Pins
    OBVIOUS
<1>1. 0 \in Word /\ 0 \in Sizes
    BY Constants DEF Sizes
<1> QED BY <1>1 DEF PowerOnPins, Pins

LEMMA RetireType ==
    ASSUME CpuTypeOK, NEW rf \in RegFile, NEW f \in SUBSET Flags, Retire(rf, f)
    PROVE  /\ r' \in RegFile /\ st' \in SUBSET Flags /\ cycle' \in 0..3
           /\ instruction' \in Word /\ status' = status
BY ZeroR0Type DEF Retire, CpuTypeOK

LEMMA CpuInitType == CpuInit => CpuTypeOK
<1> SUFFICES ASSUME CpuInit PROVE CpuTypeOK
    OBVIOUS
<1>2. PICK p \in PowerOnPins : r = PulsedRegs(p) /\ pins = StrappedPins(p)
    BY DEF CpuInit, PowerUps
<1>3. r \in RegFile /\ pins \in Pins
    BY <1>2, PowerOnType, ResetType
<1> QED BY <1>3, Constants DEF CpuInit, CpuTypeOK, RegFile, Flags

(* Every path through hyrisc_clock keeps the CPU well-typed. *)
LEMMA ClockType == ASSUME CpuTypeOK, Clock PROVE CpuTypeOK'
<1> USE DEF CpuTypeOK
<1>1. r \in RegFile /\ Bci \in Pins /\ I \in Instr
    BY BciUpdateType, DecodeType DEF RegFile, Bci, I
<1>2. Bci.d \in Word /\ Bci.v \in Word /\ r[PC] \in Word /\ Execute \in Sizes
    BY <1>1, RegsTypes DEF Pins, RegFile, Execute, Sizes
<1>3. CASE FrozenClock
    BY <1>1, <1>3 DEF FrozenClock
<1>4. CASE FetchVector
    <2>1. [Bci EXCEPT !.irqack = TRUE] \in Pins
        BY <1>1 DEF Pins
    <2>2. pins' \in Pins
        BY <1>2, <1>4, <2>1, InitReadType DEF FetchVector
    <2>3. r' \in RegFile
        BY <1>1, <1>2, <1>4, RegsTypes, UpdateType DEF FetchVector
    <2> QED BY <1>4, <2>2, <2>3 DEF FetchVector, RegFile
<1>5. CASE FetchRequest
    <2>1. pins' \in Pins
        BY <1>1, <1>2, <1>5, InitReadType DEF FetchRequest
    <2> QED BY <1>5, <2>1 DEF FetchRequest
<1>6. CASE FetchLatch
    <2>1. Wrap(r[PC] + 4) \in Word
        BY <1>2, WrapStepType
    <2>2. r' \in RegFile
        BY <1>1, <1>6, <2>1, RegsTypes, UpdateType DEF FetchLatch
    <2> QED BY <1>1, <1>2, <1>6, <2>2 DEF FetchLatch, RegFile
<1>7. CASE ExecuteMove
    <2>1. PICK w \in MoveResults(I, r) : Retire([r EXCEPT ![I.x] = w], st)
        BY <1>7 DEF ExecuteMove
    <2>2. w \in Word /\ I.x \in Regs
        BY <1>1, MoveResultsType DEF Instr
    <2>3. [r EXCEPT ![I.x] = w] \in RegFile
        BY <1>1, <2>2, UpdateType
    <2> QED BY <1>1, <1>7, <2>1, <2>3, RetireType DEF ExecuteMove, RegFile
<1>8. CASE ExecuteAlu
    <2>1. PICK t \in Temps(I, r) : Retire(AluRegs(I, r, t), NextFlags(st, t))
        BY <1>8 DEF ExecuteAlu
    <2>2. AluRegs(I, r, t) \in RegFile /\ NextFlags(st, t) \in SUBSET Flags
        BY <1>1, TempsType, AluRegsType, NextFlagsType
    <2> QED BY <1>1, <1>8, <2>1, <2>2, RetireType DEF ExecuteAlu, RegFile
<1>9. CASE ExecuteJump
    <2>1. JumpRegs(I, r, st) \in RegFile
        BY <1>1, JumpRegsType
    <2> QED BY <1>1, <1>9, <2>1, RetireType DEF ExecuteJump, RegFile
<1>10. CASE ExecuteResetRange
    <2>1. ResetRange(I, r) \in RegFile
        BY <1>1, ResetRangeType
    <2> QED BY <1>1, <1>10, <2>1, RetireType DEF ExecuteResetRange, RegFile
<1>11. CASE ExecuteNothing
    BY <1>1, <1>11, RetireType DEF ExecuteNothing, RegFile
<1>12. CASE ExecuteTrap
    BY <1>1, <1>12 DEF ExecuteTrap, Signal
<1>13. CASE IssueRead
    <2>1. pins' \in Pins /\ r' \in RegFile
        BY <1>1, <1>2, <1>13, ReadTypes, InitReadType DEF IssueRead
    <2> QED BY <1>13, <2>1 DEF IssueRead, RegFile
<1>14. CASE IssueWrite
    <2>1. pins' \in Pins /\ r' \in RegFile
        BY <1>1, <1>14, WriteTypes, InitWriteType DEF IssueWrite
    <2> QED BY <1>14, <2>1 DEF IssueWrite, RegFile
<1>15. CASE FinishRead
    <2>1. ReadDone(I, r, Bci.d) \in RegFile
        BY <1>1, <1>2, ReadTypes
    <2> QED BY <1>1, <1>15, <2>1, RetireType DEF FinishRead, RegFile
<1>16. CASE FinishWrite
    <2>1. pins' \in Pins
        BY <1>1, <1>16 DEF FinishWrite, Pins
    <2> QED BY <1>1, <1>16, <2>1, RetireType DEF FinishWrite, RegFile
<1> QED
    BY <1>3, <1>4, <1>5, <1>6, <1>7, <1>8, <1>9, <1>10, <1>11, <1>12, <1>13,
       <1>14, <1>15, <1>16 DEF Clock

(* What the devices read and write is well-typed. *)
LEMMA ReadVectorType ==
    ASSUME NEW m \in [RamBytes -> Byte], NEW region \in SUBSET RamBytes, NEW a, NEW s
    PROVE  ReadVector(m, region, a, s) \subseteq Word
<1>1. \A k : ReadByte(m, region, a, s, k) \subseteq Byte
    BY Constants DEF ReadByte
<1> QED BY <1>1, AssembleType DEF ReadVector

LEMMA WriteVectorType ==
    ASSUME NEW m \in [RamBytes -> Byte], NEW region, NEW a \in Word, NEW s \in Sizes,
           NEW d \in Word
    PROVE  WriteVector(m, region, a, s, d) \in [RamBytes -> Byte]
<1>1. SizeBytes(s) \in 1..4
    BY DEF SizeBytes, Sizes
<1>2. \A k \in 0..(SizeBytes(s) - 1) : Lane(d, k) \in Byte
    BY <1>1, LaneType
<1> QED BY <1>2 DEF WriteVector

LEMMA WriteTerminalType ==
    ASSUME NEW o \in Seq(Byte), NEW a, NEW d \in Word
    PROVE  WriteTerminal(o, a, d) \in Seq(Byte)
<1>1. d % ByteMod \in Byte
    BY ModuliTypes, WordInt DEF Byte, Word
<1> QED BY <1>1 DEF WriteTerminal

LEMMA AnswerReadType ==
    ASSUME TypeOK, NEW words \in SUBSET Word, AnswerRead(words)
    PROVE  pins' \in Pins /\ mem' = mem /\ out' = out /\ port' = port
<1>1. PICK d \in words : pins' = [Acknowledge(pins) EXCEPT !.d = d]
    BY DEF AnswerRead
<1> QED BY <1>1, AcknowledgeType DEF AnswerRead, TypeOK, CpuTypeOK, deviceVars

LEMMA UpdateKeepsTypes ==
    ASSUME TypeOK, NEW n \in 1..4, NEW answers, Update(n, answers), pins' \in Pins,
           mem' \in [RamBytes -> Byte], out' \in Seq(Byte), port' \in Word
    PROVE  TypeOK'
<1>1. turn' \in 0..4
    BY DEF Update
<1> QED BY <1>1 DEF TypeOK, CpuTypeOK, Update

(* Every device's update() keeps the board well-typed. *)
LEMMA DeviceUpdateType == ASSUME TypeOK, DeviceUpdate PROVE TypeOK'
<1>1. /\ pins \in Pins /\ pins.a \in Word /\ pins.d \in Word /\ pins.s \in Sizes
      /\ mem \in [RamBytes -> Byte] /\ out \in Seq(Byte) /\ port \in Word
    BY DEF TypeOK, CpuTypeOK, Pins
<1>2. BiosBytes \in SUBSET RamBytes /\ MemBytes \in SUBSET RamBytes
    BY DEF RamBytes
<1>8. Acknowledge(pins) \in Pins
    BY <1>1, AcknowledgeType
<1>3. CASE TerminalUpdate
    <2>1. Update(1, TermAnswers)
        BY <1>3 DEF TerminalUpdate
    <2>2. CASE AnswerRead(ReadTerminal(pins.a))
        <3>1. ReadTerminal(pins.a) \in SUBSET Word
            BY DevicesAssumption, Constants DEF ReadTerminal
        <3> QED BY <1>1, <2>1, <2>2, <3>1, AnswerReadType, UpdateKeepsTypes
    <2>3. CASE /\ pins' = Acknowledge(pins)
               /\ out' = WriteTerminal(out, pins.a, pins.d)
               /\ UNCHANGED <<mem, port>>
        BY <1>1, <1>8, <2>1, <2>3, WriteTerminalType, UpdateKeepsTypes
    <2> QED BY <1>3, <2>2, <2>3 DEF TerminalUpdate
<1>4. CASE IobusUpdate
    <2>1. Update(2, IoAnswers)
        BY <1>4 DEF IobusUpdate
    <2>2. CASE AnswerRead(IF pins.a = IoPort THEN {port} ELSE IoWords)
        <3>1. (IF pins.a = IoPort THEN {port} ELSE IoWords) \in SUBSET Word
            BY <1>1, DevicesAssumption
        <3> QED BY <1>1, <2>1, <2>2, <3>1, AnswerReadType, UpdateKeepsTypes
    <2>3. CASE /\ pins' = Acknowledge(pins)
               /\ port' = IF pins.a = IoPort THEN pins.d ELSE port
               /\ UNCHANGED <<mem, out>>
        BY <1>1, <1>8, <2>1, <2>3, UpdateKeepsTypes
    <2> QED BY <1>4, <2>2, <2>3 DEF IobusUpdate
<1>5. CASE BiosUpdate
    <2>1. Update(3, BiosAnswers)
        BY <1>5 DEF BiosUpdate
    <2>2. CASE AnswerRead(ReadVector(mem, BiosBytes, pins.a, pins.s))
        BY <1>1, <1>2, <2>1, <2>2, ReadVectorType, AnswerReadType, UpdateKeepsTypes
    <2>3. CASE /\ pins' = Acknowledge(pins)
               /\ mem' = WriteVector(mem, BiosBytes, pins.a, pins.s, pins.d)
               /\ UNCHANGED <<out, port>>
        <3>1. mem' \in [RamBytes -> Byte]
            BY <1>1, <2>3, WriteVectorType
        <3> QED BY <1>1, <1>8, <2>1, <2>3, <3>1, UpdateKeepsTypes
    <2> QED BY <1>5, <2>2, <2>3 DEF BiosUpdate
<1>6. CASE MemoryUpdate
    <2>1. Update(4, MemAnswers)
        BY <1>6 DEF MemoryUpdate
    <2>2. CASE AnswerRead(ReadVector(mem, MemBytes, pins.a, pins.s))
        BY <1>1, <1>2, <2>1, <2>2, ReadVectorType, AnswerReadType, UpdateKeepsTypes
    <2>3. CASE /\ pins' = Acknowledge(pins)
               /\ mem' = WriteVector(mem, MemBytes, pins.a, pins.s, pins.d)
               /\ UNCHANGED <<out, port>>
        <3>1. mem' \in [RamBytes -> Byte]
            BY <1>1, <2>3, WriteVectorType
        <3> QED BY <1>1, <1>8, <2>1, <2>3, <3>1, UpdateKeepsTypes
    <2> QED BY <1>6, <2>2, <2>3 DEF MemoryUpdate
<1>7. CASE IdleUpdate
    BY <1>7 DEF IdleUpdate, TypeOK, CpuTypeOK, cpuVars, deviceVars
<1> QED BY <1>3, <1>4, <1>5, <1>6, <1>7 DEF DeviceUpdate

LEMMA InitType == Init => TypeOK
BY CpuInitType, BoardAssumption, DevicesAssumption DEF Init, TypeOK

LEMMA NextType == TypeOK /\ [Next]_vars => TypeOK'
<1> SUFFICES ASSUME TypeOK, [Next]_vars PROVE TypeOK'
    OBVIOUS
<1>1. CASE CpuClock
    <2>1. CpuTypeOK'
        BY <1>1, ClockType DEF CpuClock, TypeOK
    <2> QED BY <1>1, <2>1 DEF CpuClock, TypeOK, deviceVars
<1>2. CASE DeviceUpdate
    BY <1>2, DeviceUpdateType
<1>3. CASE EmbedderReset
    <2>1. r' \in RegFile /\ pins' \in Pins
        BY <1>3, ResetType DEF EmbedderReset, PulseReset, TypeOK, CpuTypeOK
    <2>2. CpuTypeOK'
        BY <1>3, <2>1, Constants
            DEF EmbedderReset, PulseReset, TypeOK, CpuTypeOK, RegFile, Flags
    <2>3. resets' \in 0..MaxResets
        BY <1>3, BoardAssumption DEF EmbedderReset, TypeOK
    <2> QED BY <1>3, <2>2, <2>3 DEF EmbedderReset, TypeOK, deviceVars
<1>4. CASE EmbedderFreeze
    <2>1. pins' \in Pins
        BY <1>4 DEF EmbedderFreeze, MoveFreeze, TypeOK, CpuTypeOK, Pins
    <2>2. CpuTypeOK'
        BY <1>4, <2>1 DEF EmbedderFreeze, MoveFreeze, TypeOK, CpuTypeOK
    <2>3. freezes' \in 0..MaxFreezes
        BY <1>4, BoardAssumption DEF EmbedderFreeze, TypeOK
    <2> QED BY <1>4, <2>2, <2>3 DEF EmbedderFreeze, TypeOK, deviceVars
<1>5. CASE UNCHANGED vars
    BY <1>5 DEF vars, TypeOK, CpuTypeOK
<1> QED BY <1>1, <1>2, <1>3, <1>4, <1>5 DEF Next, MainLoop

(* The board never leaves its types (every action of HyBoard): a register  *)
(* always holds a word, a memory byte always a byte, the pins always a     *)
(* legal access.                                                           *)
THEOREM TypeCorrect == Spec => []TypeOK
BY InitType, NextType, PTL DEF Spec
-----------------------------------------------------------------------------
(* The devices that have had their turn since the last clock. *)
Past(n) == turn = 0 \/ turn > n

(* The device at the address has had its turn, or need not any more. *)
Settled == ~pins.busreq \/ \E n \in 3..4 : pins.a \in Answers(n) /\ Past(n)

(* A request that its device has seen is acknowledged. *)
SeenIsAcknowledged ==
    \A n \in 1..4 : pins.busreq /\ pins.a \in Answers(n) /\ Past(n) => pins.busack

(* A request some device will still answer was issued in this round. *)
PendingIsNew ==
    \A n \in 1..4 : pins.busreq /\ pins.a \in Answers(n) /\ turn # 0 => cycle \in {1, 3}

(* An acknowledge without a request is left over from the power-on. *)
StrayAcknowledge == pins.busack /\ ~pins.busreq => cycle = 0

(* A load or store no device has seen yet is not acknowledged. *)
UnseenIsNotAcknowledged ==
    \A n \in 1..4 : cycle = 3 /\ pins.busreq /\ pins.a \in Answers(n) /\ ~Past(n)
                        => ~pins.busack

(* What the request in flight is. *)
RequestMatchesCycle ==
    /\ cycle = 1 => pins.a = r[PC] /\ ~pins.rw /\ pins.s = Execute
    /\ cycle = 2 => ~pins.rw
    /\ cycle = 3 => /\ I.opcode \in ReadOpcodes => ~pins.rw
                    /\ I.opcode \in WriteOpcodes => pins.rw
                    /\ I.opcode \in ReadOpcodes \cup WriteOpcodes

SettledRead ==
    cycle \in {1, 3} /\ ~pins.rw /\ pins.a \in RamAnswers /\ Settled =>
        pins.d \in ReadRam(pins.a, pins.s)

SettledWrite ==
    cycle = 3 /\ pins.rw /\ pins.a \in RamAnswers /\ Settled =>
        \A b \in Region(pins.a) :
            b - pins.a \in 0..(SizeBytes(pins.s) - 1) => mem[b] = Lane(pins.d, b - pins.a)

BusInvariant ==
    /\ TypeOK
    /\ SeenIsAcknowledged
    /\ PendingIsNew
    /\ StrayAcknowledge
    /\ UnseenIsNotAcknowledged
    /\ RequestMatchesCycle
    /\ SettledRead
    /\ SettledWrite
    /\ ZeroRegister
    /\ FetchedInstruction
-----------------------------------------------------------------------------
LEMMA AnswersFacts ==
    /\ Answers(1) = TermAnswers /\ Answers(2) = IoAnswers
    /\ Answers(3) = BiosAnswers /\ Answers(4) = MemAnswers
    /\ RamAnswers = Answers(3) \cup Answers(4)
BY DEF Answers, RamAnswers

(* No two devices answer the same address. *)
LEMMA AnswersDisjoint ==
    ASSUME NEW m \in 1..4, NEW n \in 1..4, NEW a, a \in Answers(m), a \in Answers(n)
    PROVE  m = n
<1>1. \A x : /\ x \in BiosAnswers => x \notin MemAnswers \cup TermAnswers \cup IoAnswers
             /\ x \in MemAnswers => x \notin TermAnswers \cup IoAnswers
             /\ x \in TermAnswers => x \notin IoAnswers
    BY DevicesAssumption
<1> QED BY <1>1, AnswersFacts

(* What the bus controller does to the request. *)
LEMMA BciFacts ==
    ASSUME NEW p \in Pins
    PROVE  /\ BciUpdate(p).a = p.a /\ BciUpdate(p).d = p.d /\ BciUpdate(p).s = p.s
           /\ BciUpdate(p).rw = p.rw
           /\ BciUpdate(p).busreq <=> p.busreq /\ ~p.busack
           /\ BciUpdate(p).busack <=> p.busack /\ ~p.busreq
BY DEF BciUpdate, Pins

LEMMA ReadOrWrite == ReadOpcodes \cap WriteOpcodes = {}
BY DEF ReadOpcodes, WriteOpcodes, LoadOpcodes, StoreOpcodes, CallOpcodes, Ret, Pop, Push

(* At the end of a round nothing a device answers is still requested once  *)
(* the bus controller has run.                                             *)
LEMMA RoundIsOver ==
    ASSUME BusInvariant, turn = 0, NEW n \in 1..4, pins.a \in Answers(n)
    PROVE  ~Bci.busreq
<1>1. pins \in Pins
    BY DEF BusInvariant, TypeOK, CpuTypeOK
<1>2. pins.busreq => pins.busack
    BY DEF BusInvariant, SeenIsAcknowledged, Past
<1> QED BY <1>1, <1>2, BciFacts DEF Bci

LEMMA RoundIsSettled ==
    ASSUME turn = 0, pins.a \in RamAnswers
    PROVE  Settled
BY AnswersFacts DEF Settled, Past

(* A clock that issues nothing leaves no request a device would answer. *)
LEMMA QuietClock ==
    ASSUME BusInvariant, turn = 0, turn' = 1, pins'.a = pins.a,
           pins'.busreq = Bci.busreq
    PROVE  SeenIsAcknowledged' /\ PendingIsNew' /\ UnseenIsNotAcknowledged'
<1>1. \A n \in 1..4 : pins'.a \in Answers(n) => ~pins'.busreq
    BY RoundIsOver
<1>2. \A n \in 1..4 : Answers(n)' = Answers(n)
    BY DEF Answers
<1> QED
    BY <1>1, <1>2 DEF SeenIsAcknowledged, PendingIsNew, UnseenIsNotAcknowledged

(* A request is not settled in the round that begins with it. *)
LEMMA RequestClock ==
    ASSUME turn' = 1, cycle' \in {1, 3}, pins'.busreq
    PROVE  /\ SeenIsAcknowledged' /\ PendingIsNew' /\ StrayAcknowledge'
           /\ SettledRead' /\ SettledWrite' /\ FetchedInstruction'
<1>1. ~Past(3)' /\ ~Past(4)' /\ \A n \in 1..4 : ~Past(n)'
    BY DEF Past
<1>2. ~Settled'
    BY <1>1 DEF Settled
<1>3. SeenIsAcknowledged'
    BY <1>1 DEF SeenIsAcknowledged
<1>4. PendingIsNew'
    BY DEF PendingIsNew
<1>5. StrayAcknowledge'
    BY DEF StrayAcknowledge
<1>6. FetchedInstruction'
    BY DEF FetchedInstruction
<1> QED BY <1>2, <1>3, <1>4, <1>5, <1>6 DEF SettledRead, SettledWrite

(* An instruction that retires leaves only the zero register to check. *)
LEMMA RetireSafe ==
    ASSUME TypeOK, NEW rf \in RegFile, NEW f, Retire(rf, f)
    PROVE  /\ RequestMatchesCycle' /\ StrayAcknowledge'
           /\ SettledRead' /\ SettledWrite' /\ ZeroRegister' /\ FetchedInstruction'
<1>1. cycle' = 0 /\ r' = ZeroR0(rf)
    BY DEF Retire
<1>2. ZeroRegister'
    BY <1>1, ZeroR0Type DEF ZeroRegister
<1> QED
    BY <1>1, <1>2 DEF RequestMatchesCycle, StrayAcknowledge, SettledRead,
        SettledWrite, FetchedInstruction

LEMMA ClockSafe == ASSUME BusInvariant, TypeOK', CpuClock PROVE BusInvariant'
<1>1. /\ turn = 0 /\ turn' = 1 /\ mem' = mem /\ TypeOK /\ pins \in Pins /\ r \in RegFile
      /\ I \in Instr /\ cycle \in 0..3
    BY DecodeType DEF CpuClock, deviceVars, BusInvariant, TypeOK, CpuTypeOK, RegFile, I
<1>2. /\ Bci \in Pins /\ Bci.a = pins.a /\ Bci.d = pins.d /\ Bci.s = pins.s /\ Bci.rw = pins.rw
      /\ Bci.busreq <=> pins.busreq /\ ~pins.busack
      /\ Bci.busack <=> pins.busack /\ ~pins.busreq
    BY <1>1, BciFacts, BciUpdateType DEF Bci
<1>3. r[R0] = 0
    BY DEF BusInvariant, ZeroRegister
<1>4. Bci.busack => cycle = 0
    BY <1>2 DEF BusInvariant, StrayAcknowledge
<1>6. CASE FrozenClock
    <2>1. pins' = Bci /\ UNCHANGED <<r, cycle, instruction>>
        BY <1>6 DEF FrozenClock
    <2>2. SeenIsAcknowledged' /\ PendingIsNew' /\ UnseenIsNotAcknowledged'
        BY <1>1, <1>2, <2>1, QuietClock
    <2>3. StrayAcknowledge'
        BY <1>2, <1>4, <2>1 DEF StrayAcknowledge
    <2>4. RequestMatchesCycle'
        BY <1>2, <2>1 DEF BusInvariant, RequestMatchesCycle, I
    <2>5. SettledRead'
        BY <1>1, <1>2, <2>1, RoundIsSettled
            DEF BusInvariant, SettledRead, ReadRam, Region, ReadVector, ReadByte
    <2>6. SettledWrite'
        BY <1>1, <1>2, <2>1, RoundIsSettled DEF BusInvariant, SettledWrite, Region
    <2>7. ZeroRegister'
        BY <1>3, <2>1 DEF ZeroRegister
    <2>8. FetchedInstruction'
        BY <1>1, <2>1
            DEF BusInvariant, FetchedInstruction, ReadRam, Region, ReadVector, ReadByte
    <2> QED BY <2>2, <2>3, <2>4, <2>5, <2>6, <2>7, <2>8 DEF BusInvariant
<1>7. CASE FetchVector \/ FetchRequest
    <2>1. /\ cycle' = 1 /\ pins'.busreq /\ pins'.a = r'[PC] /\ ~pins'.rw /\ pins'.s = Execute
          /\ r'[R0] = 0
        <3>1. CASE FetchVector
            <4>1. [Bci EXCEPT !.irqack = TRUE] \in Pins
                BY <1>2 DEF Pins
            <4> QED BY <1>1, <1>3, <3>1, <4>1, RegsTypes DEF FetchVector, InitRead, Pins, RegFile
        <3>2. CASE FetchRequest
            BY <1>1, <1>2, <1>3, <3>2 DEF FetchRequest, InitRead, Pins
        <3> QED BY <1>7, <3>1, <3>2
    <2>2. /\ SeenIsAcknowledged' /\ PendingIsNew' /\ StrayAcknowledge'
          /\ SettledRead' /\ SettledWrite' /\ FetchedInstruction'
        BY <1>1, <2>1, RequestClock
    <2>3. UnseenIsNotAcknowledged' /\ RequestMatchesCycle' /\ ZeroRegister'
        BY <2>1 DEF UnseenIsNotAcknowledged, RequestMatchesCycle, ZeroRegister
    <2> QED BY <2>2, <2>3 DEF BusInvariant
<1>8. CASE FetchLatch
    <2>1. /\ cycle = 1 /\ cycle' = 2 /\ pins' = Bci /\ instruction' = pins.d
          /\ r' = [r EXCEPT ![PC] = Wrap(r[PC] + 4)]
        BY <1>2, <1>8 DEF FetchLatch, Cycle
    <2>2. pins.a = r[PC] /\ ~pins.rw /\ pins.s = Execute /\ r[PC] \in Word
        BY <1>1, <2>1, RegsTypes DEF BusInvariant, RequestMatchesCycle, RegFile
    <2>3. Wrap(r'[PC] - 4) = pins.a /\ r'[R0] = 0
        BY <1>1, <1>3, <2>1, <2>2, RegsTypes, WrapRoundTrip DEF RegFile
    <2>4. SeenIsAcknowledged' /\ PendingIsNew' /\ UnseenIsNotAcknowledged'
        BY <1>1, <1>2, <2>1, QuietClock
    <2>5. StrayAcknowledge' /\ RequestMatchesCycle' /\ ZeroRegister'
        BY <1>2, <1>4, <2>1, <2>2, <2>3
            DEF StrayAcknowledge, RequestMatchesCycle, ZeroRegister
    <2>6. SettledRead' /\ SettledWrite'
        BY <2>1 DEF SettledRead, SettledWrite
    <2>7. FetchedInstruction'
        <3>1. pins.a \in RamAnswers => pins.d \in ReadRam(pins.a, Execute)
            BY <1>1, <2>1, <2>2, RoundIsSettled DEF BusInvariant, SettledRead
        <3> QED BY <1>1, <2>1, <2>3, <3>1
                DEF FetchedInstruction, ReadRam, Region, ReadVector, ReadByte
    <2> QED BY <2>4, <2>5, <2>6, <2>7 DEF BusInvariant
<1>9. CASE \/ ExecuteMove \/ ExecuteAlu \/ ExecuteJump \/ ExecuteResetRange
           \/ ExecuteNothing \/ FinishRead \/ FinishWrite
    <2>1. pins'.a = pins.a /\ pins'.busreq = Bci.busreq
        BY <1>2, <1>9 DEF ExecuteMove, ExecuteAlu, ExecuteJump, ExecuteResetRange,
            ExecuteNothing, FinishRead, FinishWrite, Pins
    <2>2. PICK rf \in RegFile, f \in SUBSET Flags : Retire(rf, f)
        <3>1. CASE ExecuteMove
            <4>1. PICK w \in MoveResults(I, r) : Retire([r EXCEPT ![I.x] = w], st)
                BY <3>1 DEF ExecuteMove
            <4>2. w \in Word /\ I.x \in Regs
                BY <1>1, MoveResultsType DEF Instr
            <4>3. [r EXCEPT ![I.x] = w] \in RegFile
                BY <1>1, <4>2, UpdateType
            <4> QED BY <1>1, <4>1, <4>3 DEF TypeOK, CpuTypeOK
        <3>2. CASE ExecuteAlu
            <4>1. PICK t \in Temps(I, r) : Retire(AluRegs(I, r, t), NextFlags(st, t))
                BY <3>2 DEF ExecuteAlu
            <4>2. AluRegs(I, r, t) \in RegFile /\ NextFlags(st, t) \in SUBSET Flags
                BY <1>1, TempsType, AluRegsType, NextFlagsType
            <4> QED BY <4>1, <4>2
        <3>3. CASE ExecuteJump
            BY <1>1, <3>3, JumpRegsType DEF ExecuteJump, TypeOK, CpuTypeOK
        <3>4. CASE ExecuteResetRange
            BY <1>1, <3>4, ResetRangeType DEF ExecuteResetRange, TypeOK, CpuTypeOK
        <3>5. CASE ExecuteNothing
            BY <1>1, <3>5 DEF ExecuteNothing, TypeOK, CpuTypeOK
        <3>6. CASE FinishRead
            <4>1. Bci.d \in Word
                BY <1>2 DEF Pins
            <4>2. ReadDone(I, r, Bci.d) \in RegFile
                BY <1>1, <4>1, ReadTypes
            <4> QED BY <1>1, <3>6, <4>2 DEF FinishRead, TypeOK, CpuTypeOK
        <3>7. CASE FinishWrite
            BY <1>1, <3>7 DEF FinishWrite, TypeOK, CpuTypeOK
        <3> QED BY <1>9, <3>1, <3>2, <3>3, <3>4, <3>5, <3>6, <3>7
    <2>3. /\ RequestMatchesCycle' /\ StrayAcknowledge' /\ SettledRead' /\ SettledWrite'
          /\ ZeroRegister' /\ FetchedInstruction'
        BY <1>1, <2>2, RetireSafe
    <2>4. SeenIsAcknowledged' /\ PendingIsNew' /\ UnseenIsNotAcknowledged'
        BY <1>1, <2>1, QuietClock
    <2> QED BY <2>3, <2>4 DEF BusInvariant
<1>10. CASE ExecuteTrap
    <2>1. cycle = 2 /\ pins' = Bci /\ UNCHANGED <<r, cycle, instruction>>
        BY <1>10 DEF ExecuteTrap, Cycle
    <2>2. SeenIsAcknowledged' /\ PendingIsNew' /\ UnseenIsNotAcknowledged'
        BY <1>1, <1>2, <2>1, QuietClock
    <2>3. StrayAcknowledge' /\ RequestMatchesCycle' /\ SettledRead' /\ SettledWrite'
          /\ ZeroRegister'
        BY <1>2, <1>3, <1>4, <2>1 DEF BusInvariant, StrayAcknowledge, RequestMatchesCycle,
            SettledRead, SettledWrite, ZeroRegister
    <2>4. FetchedInstruction'
        BY <1>1, <2>1
            DEF BusInvariant, FetchedInstruction, ReadRam, Region, ReadVector, ReadByte
    <2> QED BY <2>2, <2>3, <2>4 DEF BusInvariant
<1>11. CASE IssueRead \/ IssueWrite
    <2>1. /\ cycle = 2 /\ cycle' = 3 /\ pins'.busreq /\ pins'.busack = Bci.busack
          /\ instruction' = instruction
        BY <1>2, <1>11 DEF IssueRead, IssueWrite, InitRead, InitWrite, Cycle, Pins
    <2>2. /\ I.opcode \in ReadOpcodes => ~pins'.rw
          /\ I.opcode \in WriteOpcodes => pins'.rw
          /\ I.opcode \in ReadOpcodes \cup WriteOpcodes
        <3>1. CASE IssueRead
            <4>1. I.opcode \in ReadOpcodes
                BY <3>1 DEF IssueRead
            <4>2. pins' = InitRead(Bci, ReadAddress(I, r), ReadSize(I))
                BY <3>1 DEF IssueRead
            <4>3. ~pins'.rw
                BY <1>2, <4>2 DEF InitRead, Pins
            <4> QED BY <4>1, <4>3, ReadOrWrite
        <3>2. CASE IssueWrite
            <4>1. I.opcode \in WriteOpcodes
                BY <3>2 DEF IssueWrite
            <4>2. pins' = InitWrite(Bci, WriteAddress(I, r), WriteValue(I, r), WriteSize(I))
                BY <3>2 DEF IssueWrite
            <4>3. pins'.rw
                BY <1>2, <4>2 DEF InitWrite, Pins
            <4> QED BY <4>1, <4>3, ReadOrWrite
        <3> QED BY <1>11, <3>1, <3>2
    <2>3. r'[R0] = 0
        <3>1. Pushed(r)[R0] = 0 /\ Popped(r)[R0] = 0 /\ Pushed(r) \in RegFile
            BY <1>1, <1>3, RegsTypes, StackType DEF Pushed, Popped, RegFile
        <3>2. ReadIssued(I, r)[R0] = 0
            BY <1>3, <3>1 DEF ReadIssued
        <3>3. WriteIssued(I, r)[R0] = 0
            <4>1. [Pushed(r) EXCEPT ![PC] = Target(I, Pushed(r))][R0] = 0
                BY <3>1, RegsTypes DEF RegFile
            <4> QED BY <1>3, <3>1, <4>1 DEF WriteIssued
        <3> QED BY <1>11, <3>2, <3>3 DEF IssueRead, IssueWrite
    <2>4. /\ SeenIsAcknowledged' /\ PendingIsNew' /\ StrayAcknowledge'
          /\ SettledRead' /\ SettledWrite' /\ FetchedInstruction'
        BY <1>1, <2>1, RequestClock
    <2>5. UnseenIsNotAcknowledged'
        BY <1>4, <2>1 DEF UnseenIsNotAcknowledged
    <2>6. RequestMatchesCycle'
        BY <2>1, <2>2, ReadOrWrite DEF RequestMatchesCycle, I
    <2> QED BY <2>3, <2>4, <2>5, <2>6 DEF BusInvariant, ZeroRegister
<1> QED
    BY <1>6, <1>7, <1>8, <1>9, <1>10, <1>11 DEF CpuClock, Clock

(* A device answering read or write of another address leaves the bus      *)
(* settled for nobody else: only the device selected sees the request.     *)
LEMMA ServeFacts ==
    ASSUME BusInvariant, NEW n \in 1..4, Update(n, Answers(n)),
           pins'.a = pins.a, pins'.rw = pins.rw, pins'.s = pins.s,
           pins'.busreq, pins'.busack
    PROVE  /\ cycle \in {1, 3} /\ cycle' = cycle /\ instruction' = instruction /\ r' = r
           /\ SeenIsAcknowledged' /\ PendingIsNew' /\ StrayAcknowledge'
           /\ UnseenIsNotAcknowledged' /\ RequestMatchesCycle' /\ ZeroRegister'
           /\ FetchedInstruction'
<1>1. /\ turn = n /\ turn' = (n + 1) % 5 /\ pins.busreq /\ pins.a \in Answers(n)
      /\ UNCHANGED <<r, cycle, instruction>>
    BY DEF Update
<1>2. cycle \in {1, 3}
    BY <1>1 DEF BusInvariant, PendingIsNew
<1>3. \A m \in 1..4 : Answers(m)' = Answers(m)
    BY DEF Answers
<1>4. \A m \in 1..4 : pins.a \in Answers(m) => m = n
    BY <1>1, AnswersDisjoint
<1>5. Past(n)'
    BY <1>1 DEF Past
<1>6. SeenIsAcknowledged' /\ PendingIsNew' /\ StrayAcknowledge'
    BY <1>1, <1>2 DEF SeenIsAcknowledged, PendingIsNew, StrayAcknowledge
<1>7. UnseenIsNotAcknowledged'
    BY <1>3, <1>4, <1>5 DEF UnseenIsNotAcknowledged
<1>8. RequestMatchesCycle' /\ ZeroRegister'
    BY <1>1 DEF BusInvariant, RequestMatchesCycle, ZeroRegister, I
<1>9. FetchedInstruction'
    BY <1>1, <1>2 DEF FetchedInstruction
<1> QED BY <1>1, <1>2, <1>6, <1>7, <1>8, <1>9

LEMMA AnswerReadSafe ==
    ASSUME BusInvariant, TypeOK', NEW n \in 1..4, Update(n, Answers(n)),
           NEW words \in SUBSET Word, AnswerRead(words),
           pins.a \in RamAnswers => words \subseteq ReadRam(pins.a, pins.s)
    PROVE  BusInvariant'
<1>1. PICK d \in words : pins' = [Acknowledge(pins) EXCEPT !.d = d]
    BY DEF AnswerRead
<1>2. ~pins.rw /\ mem' = mem /\ pins \in Pins /\ pins.busreq
    BY DEF AnswerRead, deviceVars, BusInvariant, TypeOK, CpuTypeOK, Update
<1>3. /\ pins'.a = pins.a /\ pins'.rw = pins.rw /\ pins'.s = pins.s /\ pins'.d = d
      /\ pins'.busreq /\ pins'.busack
    BY <1>1, <1>2 DEF Acknowledge, Pins
<1>4. SettledRead'
    <2>1. pins.a \in RamAnswers => d \in ReadRam(pins.a, pins.s)
        BY <1>1
    <2>2. pins.a \in RamAnswers => (pins.d \in ReadRam(pins.a, pins.s))'
        BY <1>2, <1>3, <2>1 DEF ReadRam, Region, ReadVector, ReadByte
    <2> QED BY <1>3, <2>2 DEF SettledRead, RamAnswers
<1>5. SettledWrite'
    BY <1>2, <1>3 DEF SettledWrite
<1> QED BY <1>3, <1>4, <1>5, ServeFacts DEF BusInvariant

LEMMA AnswerWriteSafe ==
    ASSUME BusInvariant, TypeOK', NEW n \in 1..4, Update(n, Answers(n)),
           pins.rw, pins' = Acknowledge(pins),
           pins.a \in RamAnswers =>
               mem' = WriteVector(mem, Region(pins.a), pins.a, pins.s, pins.d)
    PROVE  BusInvariant'
<1>1. pins \in Pins /\ pins.busreq
    BY DEF BusInvariant, TypeOK, CpuTypeOK, Update
<1>2. /\ pins'.a = pins.a /\ pins'.rw = pins.rw /\ pins'.s = pins.s /\ pins'.d = pins.d
      /\ pins'.busreq /\ pins'.busack
    BY <1>1 DEF Acknowledge, Pins
<1>3. SettledRead'
    BY <1>2 DEF SettledRead
<1>4. SettledWrite'
    <2>1. SUFFICES ASSUME pins.a \in RamAnswers, NEW b \in Region(pins.a),
                          b - pins.a \in 0..(SizeBytes(pins.s) - 1)
                   PROVE  mem'[b] = Lane(pins.d, b - pins.a)
        BY <1>2 DEF SettledWrite, Region
    <2>2. b \in RamBytes
        BY <2>1 DEF Region, RamBytes
    <2> QED BY <2>1, <2>2 DEF WriteVector
<1> QED BY <1>2, <1>3, <1>4, ServeFacts DEF BusInvariant

LEMMA DeviceSafe == ASSUME BusInvariant, TypeOK', DeviceUpdate PROVE BusInvariant'
<1>1. /\ TypeOK /\ pins \in Pins /\ pins.a \in Word /\ pins.d \in Word /\ pins.s \in Sizes
      /\ mem \in [RamBytes -> Byte] /\ port \in Word
    BY DEF BusInvariant, TypeOK, CpuTypeOK, Pins
<1>2. /\ pins.a \in BiosAnswers => pins.a \notin MemAnswers
      /\ pins.a \in TermAnswers \cup IoAnswers => pins.a \notin RamAnswers
    BY DevicesAssumption DEF RamAnswers
<1>3. CASE TerminalUpdate
    <2>1. Update(1, Answers(1)) /\ pins.a \notin RamAnswers
        BY <1>2, <1>3, AnswersFacts DEF TerminalUpdate, Update
    <2>2. ReadTerminal(pins.a) \in SUBSET Word
        BY DevicesAssumption, Constants DEF ReadTerminal
    <2>3. CASE AnswerRead(ReadTerminal(pins.a))
        BY <2>1, <2>2, <2>3, AnswerReadSafe
    <2>4. CASE pins.rw /\ pins' = Acknowledge(pins)
        BY <2>1, <2>4, AnswerWriteSafe
    <2> QED BY <1>3, <2>3, <2>4 DEF TerminalUpdate
<1>4. CASE IobusUpdate
    <2>1. Update(2, Answers(2)) /\ pins.a \notin RamAnswers
        BY <1>2, <1>4, AnswersFacts DEF IobusUpdate, Update
    <2>2. (IF pins.a = IoPort THEN {port} ELSE IoWords) \in SUBSET Word
        BY <1>1, DevicesAssumption
    <2>3. CASE AnswerRead(IF pins.a = IoPort THEN {port} ELSE IoWords)
        BY <2>1, <2>2, <2>3, AnswerReadSafe
    <2>4. CASE pins.rw /\ pins' = Acknowledge(pins)
        BY <2>1, <2>4, AnswerWriteSafe
    <2> QED BY <1>4, <2>3, <2>4 DEF IobusUpdate
<1>5. CASE BiosUpdate
    <2>1. Update(3, Answers(3)) /\ Region(pins.a) = BiosBytes
        BY <1>5, AnswersFacts DEF BiosUpdate, Update, Region
    <2>2. BiosBytes \in SUBSET RamBytes
        BY DEF RamBytes
    <2>3. ReadVector(mem, BiosBytes, pins.a, pins.s) \in SUBSET Word
        BY <1>1, <2>2, ReadVectorType
    <2>4. CASE AnswerRead(ReadVector(mem, BiosBytes, pins.a, pins.s))
        BY <2>1, <2>3, <2>4, AnswerReadSafe DEF ReadRam
    <2>5. CASE /\ pins.rw /\ pins' = Acknowledge(pins)
               /\ mem' = WriteVector(mem, BiosBytes, pins.a, pins.s, pins.d)
        BY <2>1, <2>5, AnswerWriteSafe
    <2> QED BY <1>5, <2>4, <2>5 DEF BiosUpdate
<1>6. CASE MemoryUpdate
    <2>1. Update(4, Answers(4)) /\ Region(pins.a) = MemBytes
        BY <1>2, <1>6, AnswersFacts DEF MemoryUpdate, Update, Region
    <2>2. MemBytes \in SUBSET RamBytes
        BY DEF RamBytes
    <2>3. ReadVector(mem, MemBytes, pins.a, pins.s) \in SUBSET Word
        BY <1>1, <2>2, ReadVectorType
    <2>4. CASE AnswerRead(ReadVector(mem, MemBytes, pins.a, pins.s))
        BY <2>1, <2>3, <2>4, AnswerReadSafe DEF ReadRam
    <2>5. CASE /\ pins.rw /\ pins' = Acknowledge(pins)
               /\ mem' = WriteVector(mem, MemBytes, pins.a, pins.s, pins.d)
        BY <2>1, <2>5, AnswerWriteSafe
    <2> QED BY <1>6, <2>4, <2>5 DEF MemoryUpdate
<1>7. CASE IdleUpdate
    <2>1. /\ turn \in 1..4 /\ turn' = (turn + 1) % 5
          /\ ~pins.busreq \/ pins.a \notin Answers(turn)
          /\ UNCHANGED <<r, cycle, instruction, pins, mem>>
        BY <1>7 DEF IdleUpdate, cpuVars, deviceVars
    <2>2. \A n \in 1..4 : Past(n)' => Past(n) \/ n = turn
        BY <2>1 DEF Past
    <2>3. \A n \in 1..4 : ~Past(n)' => ~Past(n)
        BY <2>1 DEF Past
    <2>4. \A n \in 1..4 : Answers(n)' = Answers(n)
        BY DEF Answers
    <2>5. SeenIsAcknowledged' /\ PendingIsNew' /\ UnseenIsNotAcknowledged'
        BY <2>1, <2>2, <2>3, <2>4
            DEF BusInvariant, SeenIsAcknowledged, PendingIsNew, UnseenIsNotAcknowledged
    <2>6. Settled' => Settled
        BY <2>1, <2>2, <2>4 DEF Settled
    <2>7. SettledRead' /\ SettledWrite' /\ FetchedInstruction'
        BY <2>1, <2>6 DEF BusInvariant, SettledRead, SettledWrite, FetchedInstruction,
            ReadRam, Region, ReadVector, ReadByte
    <2>8. StrayAcknowledge' /\ RequestMatchesCycle' /\ ZeroRegister'
        BY <2>1 DEF BusInvariant, StrayAcknowledge, RequestMatchesCycle, ZeroRegister, I
    <2> QED BY <2>5, <2>7, <2>8 DEF BusInvariant
<1> QED BY <1>3, <1>4, <1>5, <1>6, <1>7 DEF DeviceUpdate

(* A RESET pulse withdraws the request; a FREEZE move touches nothing else. *)
LEMMA ResetSafe == ASSUME BusInvariant, TypeOK', EmbedderReset PROVE BusInvariant'
<1>1. /\ pins \in Pins /\ turn' = 0 /\ cycle' = 0 /\ r' = PulsedRegs(pins)
      /\ pins' = StrappedPins(pins)
    BY DEF EmbedderReset, PulseReset, BusInvariant, TypeOK, CpuTypeOK
<1>2. ~pins'.busreq
    <2>1. PulsedPins(pins) \in Pins
        BY <1>1, ResetType
    <2> QED BY <1>1, <2>1 DEF StrappedPins, ResetPins, Pins
<1>3. r'[R0] = 0
    BY <1>1, RegsTypes DEF PulsedRegs
<1> QED
    BY <1>1, <1>2, <1>3 DEF BusInvariant, SeenIsAcknowledged, PendingIsNew, StrayAcknowledge,
        UnseenIsNotAcknowledged, RequestMatchesCycle, SettledRead, SettledWrite,
        ZeroRegister, FetchedInstruction

LEMMA FreezeSafe == ASSUME BusInvariant, TypeOK', EmbedderFreeze PROVE BusInvariant'
<1>1. /\ pins \in Pins /\ pins' = [pins EXCEPT !.freeze = ~@]
      /\ UNCHANGED <<r, cycle, instruction, mem, turn>>
    BY DEF EmbedderFreeze, MoveFreeze, deviceVars, BusInvariant, TypeOK, CpuTypeOK
<1>2. /\ pins'.a = pins.a /\ pins'.d = pins.d /\ pins'.s = pins.s /\ pins'.rw = pins.rw
      /\ pins'.busreq = pins.busreq /\ pins'.busack = pins.busack
    BY <1>1 DEF Pins
<1>3. SeenIsAcknowledged' /\ PendingIsNew' /\ StrayAcknowledge' /\ UnseenIsNotAcknowledged'
    BY <1>1, <1>2 DEF BusInvariant, SeenIsAcknowledged, PendingIsNew, StrayAcknowledge,
        UnseenIsNotAcknowledged, Past, Answers
<1>4. Settled' => Settled
    BY <1>1, <1>2 DEF Settled, Past, Answers
<1>5. SettledRead' /\ SettledWrite' /\ FetchedInstruction'
    <2>1. SettledRead'
        BY <1>1, <1>2, <1>4
            DEF BusInvariant, SettledRead, RamAnswers, ReadRam, Region, ReadVector, ReadByte
    <2>2. SettledWrite'
        BY <1>1, <1>2, <1>4 DEF BusInvariant, SettledWrite, RamAnswers, Region
    <2>3. FetchedInstruction'
        BY <1>1 DEF BusInvariant, FetchedInstruction, RamAnswers, ReadRam, Region,
            ReadVector, ReadByte
    <2> QED BY <2>1, <2>2, <2>3
<1>6. RequestMatchesCycle' /\ ZeroRegister'
    BY <1>1, <1>2 DEF BusInvariant, RequestMatchesCycle, ZeroRegister, I
<1> QED BY <1>3, <1>5, <1>6 DEF BusInvariant

LEMMA BusInvariantInit == Init => BusInvariant
<1> SUFFICES ASSUME Init PROVE BusInvariant
    OBVIOUS
<1>1. TypeOK
    BY InitType
<1>2. cycle = 0 /\ turn = 0
    BY DEF Init, CpuInit
<1>3. PICK p \in PowerOnPins : r = PulsedRegs(p) /\ pins = StrappedPins(p)
    BY DEF Init, CpuInit, PowerUps
<1>4. p \in Pins
    BY <1>3, PowerOnType
<1>5. ~pins.busreq
    <2>1. PulsedPins(p) \in Pins
        BY <1>4, ResetType
    <2> QED BY <1>3, <2>1 DEF StrappedPins, ResetPins, Pins
<1>6. r[R0] = 0
    BY <1>3, RegsTypes DEF PulsedRegs
<1> QED
    BY <1>1, <1>2, <1>5, <1>6 DEF BusInvariant, SeenIsAcknowledged, PendingIsNew,
        StrayAcknowledge, UnseenIsNotAcknowledged, RequestMatchesCycle, SettledRead,
        SettledWrite, ZeroRegister, FetchedInstruction

LEMMA BusInvariantNext == BusInvariant /\ TypeOK' /\ [Next]_vars => BusInvariant'
<1> SUFFICES ASSUME BusInvariant, TypeOK', [Next]_vars PROVE BusInvariant'
    OBVIOUS
<1>1. CASE UNCHANGED vars
    BY <1>1 DEF vars, BusInvariant, SeenIsAcknowledged, PendingIsNew, StrayAcknowledge,
        UnseenIsNotAcknowledged, RequestMatchesCycle, SettledRead, SettledWrite, Settled,
        Past, Answers, RamAnswers, ReadRam, Region, ReadVector, ReadByte, ZeroRegister,
        FetchedInstruction, I
<1> QED BY <1>1, ClockSafe, DeviceSafe, ResetSafe, FreezeSafe DEF Next, MainLoop

LEMMA BusInvariantHolds == Spec => []BusInvariant
<1>1. Init => BusInvariant
    BY BusInvariantInit
<1>2. BusInvariant /\ TypeOK' /\ [Next]_vars => BusInvariant'
    BY BusInvariantNext
<1> QED BY <1>1, <1>2, TypeCorrect, PTL DEF Spec
-----------------------------------------------------------------------------
(* Whatever an instruction names as its destination, the zero register     *)
(* reads 0 in every state (hyrisc_clock).                                  *)
THEOREM ZeroRegisterHolds == Spec => []ZeroRegister
<1>1. BusInvariant => ZeroRegister
    BY DEF BusInvariant
<1> QED BY <1>1, BusInvariantHolds, PTL

(* The CPU executes the word memory holds at pc - 4, with any sequence of  *)
(* freezes, resets and bus interrupts between request and execution.       *)
THEOREM FetchedInstructionHolds == Spec => []FetchedInstruction
<1>1. BusInvariant => FetchedInstruction
    BY DEF BusInvariant
<1> QED BY <1>1, BusInvariantHolds, PTL

(* The word the CPU takes off the bus, a clock after it asked for it, is   *)
(* the one memory holds then at the address it asked for.                  *)
THEOREM DataBusFreshHolds == Spec => []DataBusFresh
<1>1. BusInvariant => DataBusFresh
    BY RoundIsSettled DEF BusInvariant, SettledRead, DataBusFresh
<1> QED BY <1>1, BusInvariantHolds, PTL

(* A store the CPU finishes has reached memory.                            *)
THEOREM StorePerformedHolds == Spec => []StorePerformed
<1>1. BusInvariant => StorePerformed
    BY RoundIsSettled DEF BusInvariant, SettledWrite, StorePerformed
<1> QED BY <1>1, BusInvariantHolds, PTL

(* No store is performed twice, late, or without an instruction in flight  *)
(* that issued it.                                                         *)
THEOREM OnlyPendingStoresHold == Spec => OnlyPendingStores
<1>1. ASSUME BusInvariant, [Next]_vars, mem' # mem \/ out' # out
      PROVE  cycle = 3 /\ I.opcode \in WriteOpcodes /\ ~pins.busack
    <2>1. TerminalUpdate \/ IobusUpdate \/ BiosUpdate \/ MemoryUpdate
        BY <1>1 DEF vars, Next, MainLoop, CpuClock, DeviceUpdate, IdleUpdate,
            EmbedderReset, EmbedderFreeze, deviceVars
    <2>2. PICK n \in 1..4 : turn = n /\ pins.busreq /\ pins.a \in Answers(n)
        BY <2>1, AnswersFacts
            DEF TerminalUpdate, IobusUpdate, BiosUpdate, MemoryUpdate, Update
    <2>3. pins.rw
        BY <1>1, <2>1 DEF TerminalUpdate, IobusUpdate, BiosUpdate, MemoryUpdate,
            AnswerRead, deviceVars
    <2>4. cycle \in {1, 3}
        BY <1>1, <2>2 DEF BusInvariant, PendingIsNew
    <2>5. cycle = 3 /\ I.opcode \in WriteOpcodes
        BY <1>1, <2>3, <2>4 DEF BusInvariant, RequestMatchesCycle
    <2>6. ~Past(n)
        BY <2>2 DEF Past
    <2> QED BY <1>1, <2>2, <2>5, <2>6 DEF BusInvariant, UnseenIsNotAcknowledged
<1>2. BusInvariant /\ [Next]_vars =>
        [mem' # mem \/ out' # out =>
            cycle = 3 /\ I.opcode \in WriteOpcodes /\ ~pins.busack]_vars
    BY <1>1
<1> QED BY <1>2, BusInvariantHolds, PTL DEF Spec, OnlyPendingStores

(* No device gives a word away twice, or to nobody.                        *)
THEOREM ReadsAnsweredOnceHolds == Spec => ReadsAnsweredOnce
<1> DEFINE InFlight == cycle = 1 \/ (cycle = 3 /\ I.opcode \in ReadOpcodes)
<1>1. ASSUME BusInvariant, turn \in 1..4, pins.busreq, ~pins.rw, pins.a \in Answers(turn)
      PROVE  InFlight
    <2>1. cycle \in {1, 3}
        BY <1>1 DEF BusInvariant, PendingIsNew
    <2> QED BY <1>1, <2>1, ReadOrWrite DEF BusInvariant, RequestMatchesCycle
<1>2. ASSUME BusInvariant, [Next]_vars, turn = 0, turn' = 1, pins.busack, pins'.busreq
      PROVE  cycle' # cycle \/ pins'.irqack
    <2>1. CpuClock
        BY <1>2 DEF vars, Next, MainLoop, DeviceUpdate, TerminalUpdate, IobusUpdate,
            BiosUpdate, MemoryUpdate, IdleUpdate, Update, EmbedderReset, EmbedderFreeze
    <2>2. /\ Bci \in Pins
          /\ ~Bci.busreq
        BY <1>2, BciUpdateType DEF BusInvariant, TypeOK, CpuTypeOK, Bci, BciUpdate, Pins
    <2>3. CASE FetchVector
        BY <2>2, <2>3 DEF FetchVector, InitRead, Pins
    <2>4. CASE FetchRequest \/ IssueRead \/ IssueWrite
        BY <2>4 DEF FetchRequest, IssueRead, IssueWrite, Cycle
    <2>5. CASE \/ FrozenClock \/ FetchLatch \/ ExecuteMove \/ ExecuteAlu \/ ExecuteJump
               \/ ExecuteResetRange \/ ExecuteNothing \/ ExecuteTrap
               \/ FinishRead \/ FinishWrite
        BY <1>2, <2>2, <2>5 DEF FrozenClock, FetchLatch, ExecuteMove, ExecuteAlu,
            ExecuteJump, ExecuteResetRange, ExecuteNothing, ExecuteTrap, FinishRead,
            FinishWrite, Pins
    <2> QED BY <2>1, <2>3, <2>4, <2>5 DEF CpuClock, Clock
<1>3. BusInvariant /\ [Next]_vars =>
        [/\ turn \in 1..4 /\ pins.busreq /\ ~pins.rw /\ pins.a \in Answers(turn) => InFlight
         /\ turn = 0 /\ turn' = 1 /\ pins.busack /\ pins'.busreq =>
                cycle' # cycle \/ pins'.irqack]_vars
    BY <1>1, <1>2
<1> QED BY <1>3, BusInvariantHolds, PTL DEF Spec, ReadsAnsweredOnce
-----------------------------------------------------------------------------
(* An interrupt acknowledged is one whose vector is being fetched.         *)
InterruptInFlight == pins.irqack => pins.irq /\ cycle = 1

LEMMA BciInterrupt ==
    ASSUME NEW p \in Pins, p.irqack => p.irq
    PROVE  /\ BciUpdate(p).irqack => BciUpdate(p).irq /\ p.irqack
           /\ p.busirq /\ p.busreq /\ ~p.busack /\ ~p.irqack => BciUpdate(p).irq
BY DEF BciUpdate, Pins

LEMMA ClockInterrupt == ASSUME TypeOK, InterruptInFlight, CpuClock PROVE InterruptInFlight'
<1>1. /\ pins \in Pins /\ Bci \in Pins
      /\ Bci.irqack => Bci.irq /\ cycle = 1
    BY BciUpdateType, BciInterrupt DEF TypeOK, CpuTypeOK, InterruptInFlight, Bci
<1>2. CASE FrozenClock
    BY <1>1, <1>2 DEF FrozenClock, InterruptInFlight
<1>3. CASE FetchVector
    <2>1. [Bci EXCEPT !.irqack = TRUE] \in Pins
        BY <1>1 DEF Pins
    <2> QED BY <1>1, <1>3, <2>1 DEF FetchVector, InitRead, InterruptInFlight, Pins
<1>4. CASE ~Bci.freeze /\ ~Bci.irq /\ pins'.irqack = Bci.irqack
    BY <1>1, <1>4 DEF InterruptInFlight
<1>5. CASE FetchRequest \/ IssueRead \/ IssueWrite
    BY <1>1, <1>4, <1>5 DEF FetchRequest, IssueRead, IssueWrite, InitRead, InitWrite, Cycle, Pins
<1>6. CASE \/ FetchLatch \/ ExecuteMove \/ ExecuteAlu \/ ExecuteJump \/ ExecuteResetRange
           \/ ExecuteNothing \/ ExecuteTrap \/ FinishRead \/ FinishWrite
    BY <1>1, <1>4, <1>6 DEF FetchLatch, ExecuteMove, ExecuteAlu, ExecuteJump,
        ExecuteResetRange, ExecuteNothing, ExecuteTrap, FinishRead, FinishWrite, Cycle, Pins
<1> QED BY <1>2, <1>3, <1>5, <1>6 DEF CpuClock, Clock

LEMMA InterruptNext ==
    TypeOK /\ InterruptInFlight /\ [Next]_vars => InterruptInFlight'
<1> SUFFICES ASSUME TypeOK, InterruptInFlight, [Next]_vars PROVE InterruptInFlight'
    OBVIOUS
<1>1. pins \in Pins
    BY DEF TypeOK, CpuTypeOK
<1>2. CASE UNCHANGED vars
    BY <1>2 DEF vars, InterruptInFlight
<1>3. CASE CpuClock
    BY <1>3, ClockInterrupt
<1>4. CASE DeviceUpdate
    <2>1. cycle' = cycle
        BY <1>4 DEF DeviceUpdate, TerminalUpdate, IobusUpdate, BiosUpdate, MemoryUpdate,
            IdleUpdate, Update, cpuVars
    <2>2. pins'.irq = pins.irq /\ pins'.irqack = pins.irqack
        BY <1>1, <1>4 DEF DeviceUpdate, TerminalUpdate, IobusUpdate, BiosUpdate,
            MemoryUpdate, IdleUpdate, AnswerRead, Acknowledge, cpuVars, Pins
    <2> QED BY <2>1, <2>2 DEF InterruptInFlight
<1>5. CASE EmbedderReset
    <2>1. PulsedPins(pins) \in Pins /\ pins' = StrappedPins(pins)
        BY <1>1, <1>5, ResetType DEF EmbedderReset, PulseReset
    <2> QED BY <2>1 DEF StrappedPins, ResetPins, Pins, InterruptInFlight
<1>6. CASE EmbedderFreeze
    BY <1>1, <1>6 DEF EmbedderFreeze, MoveFreeze, Pins, InterruptInFlight
<1> QED BY <1>2, <1>3, <1>4, <1>5, <1>6 DEF Next, MainLoop

LEMMA InterruptInit == Init => InterruptInFlight
<1> SUFFICES ASSUME Init PROVE InterruptInFlight
    OBVIOUS
<1>1. PICK p \in PowerOnPins : pins = StrappedPins(p)
    BY DEF Init, CpuInit, PowerUps
<1>2. PulsedPins(p) \in Pins
    BY <1>1, PowerOnType, ResetType
<1> QED BY <1>1, <1>2 DEF StrappedPins, ResetPins, Pins, InterruptInFlight

(* With BUSIRQ high, an access nobody answered never completes: the CPU    *)
(* takes the interrupt instead of the stale word on the data bus.          *)
THEOREM AccessAnsweredHolds == Spec => AccessAnswered
<1>1. ASSUME TypeOK, InterruptInFlight, [Next]_vars, turn = 0, cycle = 3, cycle' = 0,
             UNCHANGED resets, pins.busirq
      PROVE  pins.busack \/ ~pins.busreq
    <2>1. SUFFICES ASSUME pins.busreq, ~pins.busack PROVE FALSE
        BY <1>1 DEF TypeOK, CpuTypeOK, Pins
    <2>2. Bci.irq
        BY <1>1, <2>1, BciInterrupt DEF TypeOK, CpuTypeOK, InterruptInFlight, Bci
    <2>3. CpuClock
        <3>1. cycle' # cycle
            BY <1>1
        <3>2. ~UNCHANGED vars
            BY <3>1 DEF vars
        <3>3. ~DeviceUpdate
            BY <3>1 DEF DeviceUpdate, TerminalUpdate, IobusUpdate, BiosUpdate,
                MemoryUpdate, IdleUpdate, Update, cpuVars
        <3>4. ~EmbedderReset
            <4>1. resets \in Int
                BY <1>1, BoardAssumption DEF TypeOK
            <4> QED BY <1>1, <4>1 DEF EmbedderReset
        <3>5. ~EmbedderFreeze
            BY <3>1 DEF EmbedderFreeze, MoveFreeze
        <3> QED BY <1>1, <3>2, <3>3, <3>4, <3>5 DEF Next, MainLoop
    <2>4. FrozenClock \/ FetchVector
        BY <2>2, <2>3 DEF CpuClock, Clock, FetchRequest, FetchLatch, ExecuteMove, ExecuteAlu,
            ExecuteJump, ExecuteResetRange, ExecuteNothing, ExecuteTrap, IssueRead,
            IssueWrite, FinishRead, FinishWrite, Cycle
    <2> QED BY <1>1, <2>4 DEF FrozenClock, FetchVector
<1>2. TypeOK /\ InterruptInFlight /\ [Next]_vars =>
        [turn = 0 /\ cycle = 3 /\ cycle' = 0 /\ UNCHANGED resets /\ pins.busirq =>
            pins.busack \/ ~pins.busreq]_vars
    BY <1>1
<1>3. Spec => []InterruptInFlight
    BY InterruptInit, InterruptNext, TypeCorrect, PTL DEF Spec
<1> QED BY <1>2, <1>3, TypeCorrect, PTL DEF Spec, AccessAnswered
=============================================================================
