------------------------------- MODULE HyIsa -------------------------------
(***************************************************************************)
(* What an instruction of the hyrisc CPU computes from the register file   *)
(* and the status register: the opcodes, the decoded fields and, for each  *)
(* case of hyrisc_execute, the values it assigns (src/hyrisc/hyrisc.hpp).  *)
(* When it assigns them, and how the bus takes part, is in Hyrisc.         *)
(***************************************************************************)
EXTENDS HyAlu

CONSTANTS
    NRegs,      (* registers: 32 in the program *)
    Decode      (* hyrisc_decode: the fields of each instruction word *)

Regs == 0..(NRegs - 1)

(* r0 is the zero register; lr, sp and pc are the last three. *)
R0 == 0
LR == NRegs - 3
SP == NRegs - 2
PC == NRegs - 1

(* An opcode is an operation and the form of its operands, as the operand  *)
(* column of the instruction table distinguishes them.                     *)
AluOpcodes ==
    ({"addu", "subu", "mulu", "divu", "and", "or", "xor"} \X {"R", "I8", "I16"})
        \cup ({"adds", "subs", "muls", "divs"} \X {"I8", "I16"})
        \cup ({"lsl", "lsr", "asl", "asr"} \X {"R", "I16"})
        \cup ({"inc", "dec"} \X {"Size"})
        \cup {<<"not", "Y">>, <<"neg", "Y">>, <<"tst", "Bit">>, <<"cmp", "Zero">>,
              <<"cmp", "Y">>, <<"cmp", "Half">>, <<"cmpb", "Half">>}

(* The opcodes that assign REGX without using the bus or the flags. *)
MoveOpcodes ==
    ({"lea"} \X {"M", "S", "FA", "FS"})
        \cup {<<"mov", "Y">>, <<"li", "I16">>, <<"lui", "I16">>, <<"sext", "Y">>, <<"rst", "S">>}

LoadOpcodes  == {"load"} \X {"M", "S", "FA", "FS"}
StoreOpcodes == {"store"} \X {"M", "S", "FA", "FS"}
CallOpcodes  == {"call"} \X {"I16", "M", "S"}
JumpOpcodes  == {<<"bcc", "S">>, <<"bcc", "U">>, <<"rtl", "LR">>} \cup ({"jal"} \X {"I16", "M", "S"})
Ret  == <<"ret", "SP">>
Push == <<"push", "S">>
Pop  == <<"pop", "S">>
Rstm == <<"rst", "M">>
Nop  == <<"nop", "-">>
Break   == <<"break", "-">>
Illegal == <<"illegal", "-">>   (* every other opcode, pushm and popm included *)

ReadOpcodes  == LoadOpcodes \cup {Ret, Pop}
WriteOpcodes == StoreOpcodes \cup CallOpcodes \cup {Push}
Opcodes ==
    AluOpcodes \cup MoveOpcodes \cup ReadOpcodes \cup WriteOpcodes \cup JumpOpcodes
        \cup {Rstm, Nop, Break, Illegal}

Sizes == 0..3
Long == 2        (* AS_LONG *)
Execute == 3     (* AS_EXECUTE *)

(* The decoder latches.  The condition is field x read as a number; it has *)
(* a component of its own because Regs may be smaller than 0..31.          *)
Instr ==
    [opcode : Opcodes, x : Regs, y : Regs, z : Regs, w : Regs, cond : 0..31,
     imm8 : Byte, imm16 : Half, size : Sizes]

(* As many bits in a word as registers, at least: field w shifts a word,   *)
(* field y is the number of the bit tst tests.                             *)
ASSUME IsaAssumption ==
    /\ NRegs \in Nat /\ 4 <= NRegs /\ NRegs <= WordBits /\ NRegs <= WordMod
    /\ Decode \in [Word -> Instr]

(* INDEXED_MULTIPLY, INDEXED_SHIFT, REGY + I10 and REGY - I10. *)
Indexed(mode, i, r) ==
    CASE mode = "M"  -> Wrap(r[i.y] + r[i.z] * i.w)
      [] mode = "S"  -> Wrap(r[i.y] + r[i.z] * Pow2[i.w])
      [] mode = "FA" -> Wrap(r[i.y] + (i.z + NRegs * i.w))
      [] mode = "FS" -> Wrap(r[i.y] - (i.z + NRegs * i.w))
      [] OTHER       -> 0

(* SEXT sets the bits above the size's sign bit, whatever that bit is.     *)
SignMask(size, i) == i >= <<1, 2, 4, 8>>[size + 1] * ByteBits

(* The values a move assigns to REGX. *)
MoveResults(i, r) ==
    CASE i.opcode[1] = "lea" -> {Indexed(i.opcode[2], i, r)}
      [] i.opcode[1] = "mov" -> {r[i.y]}
      [] i.opcode[1] = "li"  -> {i.imm16}
      [] i.opcode[1] = "lui" -> {i.imm16 * HalfMod}
      [] i.opcode[1] = "sext" ->
            WithBits([k \in BitIndices |-> IF SignMask(i.size, k) THEN 1 ELSE Bit(r[i.y], k)])
      [] OTHER -> {0}

(* The second and third arguments of perform_operation, the first being    *)
(* REGX.  cmp.b takes the 16-bit immediate, which its encoding leaves 0.   *)
AluSrc1(i, r) ==
    CASE i.opcode[2] \in {"R", "I8", "Y"} -> r[i.y]
      [] i.opcode[2] = "I16"  -> r[i.x]
      [] i.opcode[2] = "Half" -> i.imm16
      [] i.opcode[2] = "Size" -> <<1, 2, 4, 8>>[i.size + 1]
      [] i.opcode[2] = "Bit"  -> i.y
      [] OTHER -> 0

AluSrc2(i, r) ==
    CASE i.opcode[2] = "R"   -> r[i.z]
      [] i.opcode[2] = "I8"  -> i.imm8
      [] i.opcode[2] = "I16" -> i.imm16
      [] OTHER -> 0

Temps(i, r) == AluTemps(i.opcode[1], r[i.x], AluSrc1(i, r), AluSrc2(i, r))

(* The register file after an ALU instruction whose temporary is temp. *)
AluRegs(i, r, temp) ==
    IF i.opcode[1] \in TestOnly THEN r ELSE [r EXCEPT ![i.x] = Wrap(temp)]

(* rst.m clears the registers from x to the one before y. *)
ResetRange(i, r) == [k \in Regs |-> IF i.x <= k /\ k < i.y THEN 0 ELSE r[k]]

(* The register file after a branch, a jump or the register part of a      *)
(* call, its condition being true.  r[PC] already points past the          *)
(* instruction.  jal with an immediate does not write the link register.   *)
Target(i, r) ==
    CASE i.opcode = <<"bcc", "S">> -> Wrap(r[PC] + SignedHalf(i.imm16))
      [] i.opcode = <<"bcc", "U">> -> Wrap(r[PC] + i.imm16)
      [] i.opcode = <<"rtl", "LR">> -> r[LR]
      [] i.opcode[2] = "I16" -> (r[PC] - (r[PC] % HalfMod)) + i.imm16
      [] OTHER -> Indexed(i.opcode[2], i, r)

Linked(i, r) ==
    IF i.opcode[1] = "jal" /\ i.opcode[2] # "I16" THEN [r EXCEPT ![LR] = r[PC]] ELSE r

JumpRegs(i, r, st) ==
    IF TestCondition(i.cond, st)
    THEN LET linked == Linked(i, r) IN [linked EXCEPT ![PC] = Target(i, linked)]
    ELSE r

(* The access of a load or store, its registers and the value stored, in   *)
(* the order the code evaluates them: the stack pointer moves first, so a  *)
(* call's target and a pushed sp are computed from the new one.            *)
PushedWithoutWrap(r) == [r EXCEPT ![SP] = @ - 4]    \* mutant of Pushed
Pushed(r) == [r EXCEPT ![SP] = Wrap(r[SP] - 4)]
Popped(r) == [r EXCEPT ![SP] = Wrap(r[SP] + 4)]

ReadAddress(i, r) == IF i.opcode \in LoadOpcodes THEN Indexed(i.opcode[2], i, r) ELSE r[SP]
ReadSize(i) == IF i.opcode \in LoadOpcodes THEN i.size ELSE Long
ReadIssued(i, r) == IF i.opcode \in LoadOpcodes THEN r ELSE Popped(r)
ReadDone(i, r, d) == [r EXCEPT ![IF i.opcode = Ret THEN PC ELSE i.x] = d]

WriteAddress(i, r) ==
    IF i.opcode \in StoreOpcodes THEN Indexed(i.opcode[2], i, r) ELSE Wrap(r[SP] - 4)
WriteSize(i) == IF i.opcode \in StoreOpcodes THEN i.size ELSE Long
WriteValue(i, r) ==
    CASE i.opcode \in StoreOpcodes -> r[i.x]
      [] i.opcode = Push -> Pushed(r)[i.x]
      [] OTHER -> r[PC]
WriteIssued(i, r) ==
    CASE i.opcode \in StoreOpcodes -> r
      [] i.opcode = Push -> Pushed(r)
      [] OTHER -> [Pushed(r) EXCEPT ![PC] = Target(i, Pushed(r))]

(* call and ret test the condition; the other accesses always happen. *)
Taken(i, st) == i.opcode \in CallOpcodes \cup {Ret} => TestCondition(i.cond, st)

(* Break, an illegal opcode, a division by zero: the host's signal handler *)
(* ends the process in the middle of the clock.                            *)
Signal(i, rr) ==
    CASE i.opcode = Break -> "SIGINT"
      [] i.opcode = Illegal -> "SIGILL"
      [] i.opcode \in AluOpcodes /\ Temps(i, rr) = {} -> "SIGFPE"
      [] OTHER -> "none"

(* Completing an instruction clears the zero register. *)
ZeroR0Skipped(r) == r    \* mutant of ZeroR0
ZeroR0(r) == [r EXCEPT ![R0] = 0]
=============================================================================
