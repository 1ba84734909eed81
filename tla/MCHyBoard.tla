----------------------------- MODULE MCHyBoard -----------------------------
(***************************************************************************)
(* Model-checking instance of the board: 2-bit bytes, so that a word has 8 *)
(* bits and there are 256 addresses; five registers (r0, r1, lr, sp, pc);  *)
(* a BIOS of four words at 0, a memory of 8 bytes at 236, the terminal at  *)
(* 246 and the iobus at 254.  A program is up to three instructions of the *)
(* list below and a final word that is an illegal instruction.             *)
(***************************************************************************)
EXTENDS HyBoardRefines

Default ==
    [opcode |-> Illegal, x |-> 1, y |-> 0, z |-> 0, w |-> 0, cond |-> 14,
     imm8 |-> 0, imm16 |-> 0, size |-> 2]

Op(name, form) == [Default EXCEPT !.opcode = <<name, form>>]
Imm(i, n) == [i EXCEPT !.imm16 = n, !.imm8 = n % 4]
Rx(i, x) == [i EXCEPT !.x = x]
Ry(i, y) == [i EXCEPT !.y = y]
I10(i, n) == [i EXCEPT !.z = n % 5, !.w = n \div 5]
Sized(i, s) == [i EXCEPT !.size = s]
Cond(i, c) == [i EXCEPT !.cond = c]

(* Instruction word n, 1 <= n <= Len(Listing), is Listing[n]. *)
Listing == <<
    Rx(I10(Op("lea", "FS"), 16), 3),            \*  1 lea sp, [r0-16]
    Imm(Op("li", "I16"), 9),                    \*  2 li r1, 9
    I10(Op("store", "FS"), 20),                 \*  3 store.l [r0-20], r1
    I10(Op("load", "FS"), 20),                  \*  4 load.l r1, [r0-20]
    Op("push", "S"),                            \*  5 push r1
    Op("pop", "S"),                             \*  6 pop r1
    Imm(Op("call", "I16"), 8),                  \*  7 call 8
    Op("ret", "SP"),                            \*  8 ret
    Sized(I10(Op("store", "FS"), 10), 0),       \*  9 store.b [r0-10], r1 (print)
    Sized(I10(Op("load", "FS"), 9), 0),         \* 10 load.b r1, [r0-9] (key)
    I10(Op("load", "FS"), 6),                   \* 11 load.l r1, [r0-6] (open bus)
    I10(Op("store", "FS"), 6),                  \* 12 store.l [r0-6], r1 (open bus)
    I10(Op("store", "FS"), 2),                  \* 13 store.l [r0-2], r1 (iobus port)
    I10(Op("load", "FS"), 2),                   \* 14 load.l r1, [r0-2]
    I10(Op("load", "FS"), 1),                   \* 15 load.l r1, [r0-1] (iobus data)
    I10(Op("store", "FA"), 8),                  \* 16 store.l [r0+8], r1 (next word)
    Sized(I10(Op("load", "FA"), 5), 1),         \* 17 load.s r1, [r0+5]
    Imm(Ry(Op("subu", "I8"), 1), 1),            \* 18 subu r1, r1, 1
    Imm(Op("cmp", "Half"), 9),                  \* 19 cmp.s r1, 9
    Imm(Cond(Op("bcc", "S"), 0), 12),           \* 20 beq.s -4
    Cond(Op("ret", "SP"), 1),                   \* 21 ret ne
    Rx(Op("load", "FA"), 0),                    \* 22 load.l r0, [r0+0]
    Rx(Ry(Op("mov", "Y"), 4), 0),               \* 23 mov r0, pc
    Ry(Op("jal", "M"), 2),                      \* 24 jal [lr+r0*0]
    Op("rtl", "LR"),                            \* 25 rtl
    Rx(Ry(Op("rst", "M"), 3), 1),               \* 26 rst.l {r1-sp}
    Op("divu", "R"),                            \* 27 divu r1, r0, r0
    Op("nop", "-"),                             \* 28 nop
    Op("break", "-"),                           \* 29 break
    Rx(Op("push", "S"), 3),                     \* 30 push sp
    Rx(Op("pop", "S"), 4) >>                    \* 31 pop pc

MCDecode == [n \in Word |-> IF n \in 1..Len(Listing) THEN Listing[n] ELSE Default]

(* The BIOS holds the words of program, every word of the memory is 12,    *)
(* the address of the last word of the BIOS.                               *)
Image(program) ==
    [b \in RamBytes |-> IF b \in BiosBytes THEN Lane(program[(b \div 4) + 1], b % 4)
                                           ELSE Lane(12, b % 4)]

Programs(first, second, third) ==
    {Image(<<i, j, k, 0>>) : i \in first, j \in second, k \in third}

(* Every pair of instructions after one that sets up the stack or a value, *)
(* except that nothing returns through lr or calls itself forever.         *)
Pairs ==
    Programs({1}, 1..31 \ {25}, {4, 5, 6, 8, 9, 15, 16, 18, 20, 21, 23, 26, 27, 29, 30, 31}) \cup Programs({1}, {24}, {25})
        \cup Programs({2}, {5, 7, 9, 13, 16, 18, 19, 30}, {6, 8, 14, 20, 21, 27})

(* The instructions that use the bus or leave the straight line. *)
BusPrograms == Programs({1}, {3, 5, 7, 9, 10, 12, 16}, {4, 6, 8, 9, 11})

(* More accesses that meet nobody: a push and a call on an empty stack, a  *)
(* pop and a return past the memory, a jump and a second fetch into a hole.*)
HolePrograms ==
    BusPrograms \cup Programs({2}, {5, 7}, {4, 6}) \cup Programs({1}, {6}, {6, 8, 21})
        \cup Programs({2}, {5, 24}, {8, 25, 31})

AllPrograms == Pairs \cup BusPrograms

MCVectorInBios == [e \in Byte |-> 12]
MCBusErrorVector == [e \in Byte |-> 64]
MCKeys == {0, 3}
MCIoWords == {0, 7}
=============================================================================
