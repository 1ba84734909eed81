----------------------------- MODULE HyDevices -----------------------------
(***************************************************************************)
(* The system bus devices of the board (src/dev, src/main.cpp): where each *)
(* one answers and what it returns or stores.  Addresses are absolute; the *)
(* devices subtract their base.  When they answer is in HyBoard.           *)
(***************************************************************************)
EXTENDS HyWords, Sequences

CONSTANTS
    BiosBase, BiosSize,     (* bios.create: 0x00000000, 0x1000 *)
    MemBase, MemSize,       (* memory.create: 0x7fff0000, 0x10000 *)
    TermBase,               (* terminal.create: 0xa0000000 *)
    IoPort,                 (* IOBUS_PORT: 0xfffffffe; IOBUS_DATA follows it *)
    Keys,                   (* what getchar_impl may return *)
    IoWords                 (* what the iobus devices may leave in ext.data *)

(* The bytes each vector holds, and the addresses each update() answers.   *)
(* The BIOS also answers the address just past its last byte.              *)
BiosBytes == BiosBase..(BiosBase + BiosSize - 1)
MemBytes  == MemBase..(MemBase + MemSize - 1)
RamBytes  == BiosBytes \cup MemBytes

BiosAnswers == BiosBase..(BiosBase + BiosSize)
MemAnswers  == MemBase..(MemBase + MemSize - 1)
TermAnswers == TermBase..(TermBase + 2)
IoAnswers   == {IoPort, IoPort + 1}

ASSUME DevicesAssumption ==
    /\ BiosBase \in Word /\ MemBase \in Word /\ TermBase \in Word /\ IoPort \in Word
    /\ BiosSize \in Nat \ {0} /\ MemSize \in Nat \ {0}
    /\ BiosAnswers \subseteq Word /\ MemAnswers \subseteq Word
    /\ TermAnswers \subseteq Word /\ IoAnswers \subseteq Word
    /\ BiosAnswers \cap (MemAnswers \cup TermAnswers \cup IoAnswers) = {}
    /\ MemAnswers \cap (TermAnswers \cup IoAnswers) = {}
    /\ TermAnswers \cap IoAnswers = {}
    /\ Keys \subseteq Word /\ Keys # {}
    /\ IoWords \subseteq Word /\ IoWords # {}

SizeBytes(s) == <<1, 2, 4, 4>>[s + 1]

(* read8: a byte of the vector; reading past its end is undefined, and the *)
(* heap has any byte there.  Bytes the size leaves out read 0.             *)
ReadByte(mem, region, a, s, k) ==
    IF k >= SizeBytes(s) THEN {0} ELSE IF a + k \in region THEN {mem[a + k]} ELSE Byte

(* read(): the words a vector holding the bytes in region can return. *)
ReadVector(mem, region, a, s) ==
    {Assemble(b0, b1, b2, b3) :
        b0 \in ReadByte(mem, region, a, s, 0), b1 \in ReadByte(mem, region, a, s, 1),
        b2 \in ReadByte(mem, region, a, s, 2), b3 \in ReadByte(mem, region, a, s, 3)}

(* write(): a byte written past the end of the vector lands in the slack   *)
(* of its heap block, which holds at least 4 bytes more, and not in memory *)
(* this model describes.                                                   *)
WriteVector(mem, region, a, s, d) ==
    [b \in RamBytes |-> IF b \in region /\ b - a \in 0..(SizeBytes(s) - 1)
                        THEN Lane(d, b - a) ELSE mem[b]]

(* The terminal: offset 1 waits for a key, the other offsets read 0, and   *)
(* only a write to offset 0 prints.                                        *)
ReadTerminal(a) == IF a = TermBase + 1 THEN Keys ELSE {0}
WriteTerminal(out, a, d) == IF a = TermBase THEN Append(out, d % ByteMod) ELSE out
=============================================================================
