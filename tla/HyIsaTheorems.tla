--------------------------- MODULE HyIsaTheorems ---------------------------
(***************************************************************************)
(* The instruction set stays within its types: whatever the decoded        *)
(* instruction and the register file, what an instruction computes is a    *)
(* word, a register file or a set of flags.                                *)
(***************************************************************************)
EXTENDS HyIsa, HyWordsTheorems

RegFile == [Regs -> Word]

LEMMA RegsTypes ==
    /\ NRegs \in Nat /\ NRegs >= 4
    /\ R0 \in Regs /\ LR \in Regs /\ SP \in Regs /\ PC \in Regs
    /\ R0 # LR /\ R0 # SP /\ R0 # PC /\ SP # PC /\ LR # PC
BY IsaAssumption DEF Regs, R0, LR, SP, PC

LEMMA BitsType == ASSUME NEW f PROVE WithBits(f) \subseteq Word
BY DEF WithBits

LEMMA AluTempsType ==
    ASSUME NEW op, NEW dst \in Word, NEW src1 \in Word, NEW src2 \in Word
    PROVE  AluTemps(op, dst, src1, src2) \subseteq Word
<1> DEFINE bits(f) == WithBits(f)
<1>1. \A n : ShiftLeft(src1, n) \subseteq Word /\ ShiftRight(src1, n) \subseteq Word
    BY BitsType DEF ShiftLeft, ShiftRight
<1>2. /\ UNION {ShiftLeft(src1, n) : n \in ShiftCounts(src2)} \subseteq Word
      /\ UNION {ShiftRight(src1, n) : n \in ShiftCounts(src2)} \subseteq Word
    BY <1>1
<1>3. /\ Wrap(src1 + src2) \in Word /\ Wrap(src1 - src2) \in Word
      /\ Wrap(dst + src1) \in Word /\ Wrap(dst - src1) \in Word
      /\ WordMod - 1 - src1 \in Word
    BY WrapType, WordInt, ModuliTypes DEF Word
<1>4. Wrap(src1 * src2) \in Word
    <2>1. src1 * src2 \in Int
        BY WordInt
    <2> QED BY <2>1, WrapType
<1>5. Wrap(dst - (src1 % ByteMod)) \in Word
    <2>1. dst - (src1 % ByteMod) \in Int
        BY WordInt, ModuliTypes
    <2> QED BY <2>1, WrapType
<1>6. src2 # 0 => src1 \div src2 \in Word
    BY QuotientType
<1>7. /\ WithBits([i \in BitIndices |-> Bit(src1, i) * Bit(src2, i)]) \subseteq Word
      /\ WithBits([i \in BitIndices |-> IF Bit(src1, i) = 1 THEN 1 ELSE Bit(src2, i)])
            \subseteq Word
      /\ WithBits([i \in BitIndices |-> (Bit(src1, i) + Bit(src2, i)) % 2]) \subseteq Word
      /\ WithBits([i \in BitIndices |-> IF i = src1 THEN Bit(dst, i) ELSE 0]) \subseteq Word
    BY BitsType
<1> QED BY <1>2, <1>3, <1>4, <1>5, <1>6, <1>7 DEF AluTemps

LEMMA NextFlagsType ==
    ASSUME NEW st, NEW temp PROVE NextFlags(st, temp) \in SUBSET Flags
BY DEF NextFlags, Flags

LEMMA IndexedType ==
    ASSUME NEW mode, NEW i \in Instr, NEW rf \in RegFile
    PROVE  Indexed(mode, i, rf) \in Word
<1>1. /\ i.y \in Regs /\ i.z \in Regs /\ i.w \in Nat /\ i.z \in Nat /\ NRegs \in Nat
      /\ rf[i.y] \in Int /\ rf[i.z] \in Int
    <2>1. i.y \in Regs /\ i.z \in Regs /\ i.w \in Regs
        BY DEF Instr
    <2>2. rf[i.y] \in Word /\ rf[i.z] \in Word
        BY <2>1 DEF RegFile
    <2>3. Regs \subseteq Nat /\ NRegs \in Nat
        BY RegsTypes DEF Regs
    <2> QED BY <2>1, <2>2, <2>3, WordInt
<1>2. rf[i.y] + rf[i.z] * i.w \in Int
    BY <1>1
<1>3. rf[i.y] + rf[i.z] * Pow2[i.w] \in Int
    <2>1. Pow2[i.w] \in Int
        BY <1>1, Pow2Type
    <2> HIDE <1>2
    <2> QED BY <1>1, <2>1
<1>4. rf[i.y] + (i.z + NRegs * i.w) \in Int /\ rf[i.y] - (i.z + NRegs * i.w) \in Int
    BY <1>1
<1>5. 0 \in Word
    BY Constants
<1> QED BY <1>2, <1>3, <1>4, <1>5, WrapType DEF Indexed

LEMMA MoveResultsType ==
    ASSUME NEW i \in Instr, NEW rf \in RegFile
    PROVE  MoveResults(i, rf) \subseteq Word
<1>1. Indexed(i.opcode[2], i, rf) \in Word
    BY IndexedType
<1>2. rf[i.y] \in Word /\ i.imm16 \in Half
    BY DEF Instr, RegFile
<1>3. i.imm16 \in Word /\ i.imm16 * HalfMod \in Word /\ 0 \in Word
    BY <1>2, UpperHalfType, HalfIsWord, Constants
<1>4. WithBits([k \in BitIndices |-> IF SignMask(i.size, k) THEN 1 ELSE Bit(rf[i.y], k)])
        \subseteq Word
    BY BitsType
<1> QED BY <1>1, <1>2, <1>3, <1>4 DEF MoveResults

LEMMA AluOperandsType ==
    ASSUME NEW i \in Instr, NEW rf \in RegFile
    PROVE  rf[i.x] \in Word /\ AluSrc1(i, rf) \in Word /\ AluSrc2(i, rf) \in Word
<1>1. rf[i.x] \in Word /\ rf[i.y] \in Word /\ rf[i.z] \in Word
    BY DEF Instr, RegFile
<1>2. i.imm16 \in Word /\ i.imm8 \in Word /\ 0 \in Word
    BY HalfIsWord, Constants DEF Instr
<1>3. <<1, 2, 4, 8>>[i.size + 1] \in Word
    BY ModuliTypes DEF Instr, Sizes, Word
<1>4. i.y \in Word
    BY IsaAssumption, ModuliTypes DEF Instr, Regs, Word
<1> QED BY <1>1, <1>2, <1>3, <1>4 DEF AluSrc1, AluSrc2

LEMMA TempsType ==
    ASSUME NEW i \in Instr, NEW rf \in RegFile
    PROVE  Temps(i, rf) \subseteq Word
BY AluOperandsType, AluTempsType DEF Temps

LEMMA UpdateType ==
    ASSUME NEW rf \in RegFile, NEW k \in Regs, NEW w \in Word
    PROVE  [rf EXCEPT ![k] = w] \in RegFile
BY DEF RegFile

LEMMA AluRegsType ==
    ASSUME NEW i \in Instr, NEW rf \in RegFile, NEW t \in Word
    PROVE  AluRegs(i, rf, t) \in RegFile
<1>1. i.x \in Regs
    BY DEF Instr
<1>2. Wrap(t) \in Word
    BY WordInt, WrapType
<1> QED BY <1>1, <1>2, UpdateType DEF AluRegs

LEMMA ResetRangeType ==
    ASSUME NEW i \in Instr, NEW rf \in RegFile PROVE ResetRange(i, rf) \in RegFile
BY Constants DEF ResetRange, RegFile

LEMMA TargetType ==
    ASSUME NEW i \in Instr, NEW rf \in RegFile PROVE Target(i, rf) \in Word
<1>1. rf[PC] \in Word /\ rf[LR] \in Word /\ i.imm16 \in Half
    BY RegsTypes DEF Instr, RegFile
<1>2. rf[PC] + i.imm16 \in Int /\ rf[PC] + SignedHalf(i.imm16) \in Int
    <2>1. rf[PC] \in Int /\ i.imm16 \in Int
        BY <1>1, WordInt
    <2>2. SignedHalf(i.imm16) \in Int
        BY <2>1, ModuliTypes DEF SignedHalf
    <2> QED BY <2>1, <2>2
<1>3. (rf[PC] - (rf[PC] % HalfMod)) + i.imm16 \in Word
    BY <1>1, LowerHalfType
<1>4. Indexed(i.opcode[2], i, rf) \in Word
    BY IndexedType
<1> QED BY <1>1, <1>2, <1>3, <1>4, WrapType DEF Target

LEMMA JumpRegsType ==
    ASSUME NEW i \in Instr, NEW rf \in RegFile, NEW st
    PROVE  JumpRegs(i, rf, st) \in RegFile
<1>1. Linked(i, rf) \in RegFile
    BY RegsTypes, UpdateType DEF Linked, RegFile
<1>2. [Linked(i, rf) EXCEPT ![PC] = Target(i, Linked(i, rf))] \in RegFile
    BY <1>1, RegsTypes, UpdateType, TargetType
<1> QED BY <1>2 DEF JumpRegs

LEMMA StackType ==
    ASSUME NEW rf \in RegFile
    PROVE  /\ Wrap(rf[SP] - 4) \in Word /\ Wrap(rf[SP] + 4) \in Word
           /\ Pushed(rf) \in RegFile /\ Popped(rf) \in RegFile
<1>1. rf[SP] \in Word
    BY RegsTypes DEF RegFile
<1>2. Wrap(rf[SP] - 4) \in Word /\ Wrap(rf[SP] + 4) \in Word
    BY <1>1, WrapStepType
<1> QED BY <1>2, RegsTypes, UpdateType DEF Pushed, Popped

LEMMA ReadTypes ==
    ASSUME NEW i \in Instr, NEW rf \in RegFile, NEW d \in Word
    PROVE  /\ ReadAddress(i, rf) \in Word /\ ReadSize(i) \in Sizes
           /\ ReadIssued(i, rf) \in RegFile /\ ReadDone(i, rf, d) \in RegFile
<1>1. i.size \in Sizes /\ Long \in Sizes /\ i.x \in Regs
    BY DEF Instr, Long, Sizes
<1>2. ReadAddress(i, rf) \in Word
    BY IndexedType, RegsTypes DEF ReadAddress, RegFile
<1>3. ReadIssued(i, rf) \in RegFile
    BY StackType DEF ReadIssued
<1>4. ReadDone(i, rf, d) \in RegFile
    BY <1>1, RegsTypes, UpdateType DEF ReadDone
<1> QED BY <1>1, <1>2, <1>3, <1>4 DEF ReadSize

LEMMA WriteTypes ==
    ASSUME NEW i \in Instr, NEW rf \in RegFile
    PROVE  /\ WriteAddress(i, rf) \in Word /\ WriteSize(i) \in Sizes
           /\ WriteValue(i, rf) \in Word /\ WriteIssued(i, rf) \in RegFile
<1>1. i.size \in Sizes /\ Long \in Sizes /\ i.x \in Regs
    BY DEF Instr, Long, Sizes
<1>2. WriteAddress(i, rf) \in Word
    BY IndexedType, StackType DEF WriteAddress
<1>3. Pushed(rf) \in RegFile
    BY StackType
<1>4. WriteValue(i, rf) \in Word
    <2>1. rf[i.x] \in Word /\ Pushed(rf)[i.x] \in Word /\ rf[PC] \in Word
        BY <1>1, <1>3, RegsTypes DEF RegFile
    <2> QED BY <2>1 DEF WriteValue
<1>5. WriteIssued(i, rf) \in RegFile
    <2>1. [Pushed(rf) EXCEPT ![PC] = Target(i, Pushed(rf))] \in RegFile
        BY <1>3, TargetType, RegsTypes, UpdateType
    <2> QED BY <2>1, <1>3 DEF WriteIssued
<1> QED BY <1>1, <1>2, <1>4, <1>5 DEF WriteSize

LEMMA ZeroR0Type ==
    ASSUME NEW rf \in RegFile PROVE ZeroR0(rf) \in RegFile /\ ZeroR0(rf)[R0] = 0
BY RegsTypes, UpdateType, Constants DEF ZeroR0, RegFile

(* Whatever word is latched, the decoder gives an instruction. *)
LEMMA DecodeType == ASSUME NEW w \in Word PROVE Decode[w] \in Instr
BY IsaAssumption
=============================================================================
