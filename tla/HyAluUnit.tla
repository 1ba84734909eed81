----------------------------- MODULE HyAluUnit -----------------------------
(***************************************************************************)
(* The arithmetic unit on its own: a destination register, two operands,   *)
(* the status register and one call of alu::perform_operation at a time.   *)
(* TLC explores every operation on every operand of a narrow word.         *)
(***************************************************************************)
EXTENDS HyAlu

VARIABLES
    dst,    (* the register dst refers to *)
    src1,
    src2,
    st,     (* the status register *)
    last    (* the operation just performed and the value of dst before it *)

vars == <<dst, src1, src2, st, last>>

TypeOK ==
    /\ dst \in Word /\ src1 \in Word /\ src2 \in Word
    /\ st \subseteq Flags
    /\ last \in [op : AluOps \cup {"none"}, dst : Word]

(* The status register is 0 after a reset, and V is never written since;   *)
(* the other three flags are what an earlier operation left.               *)
Init ==
    /\ dst \in Word /\ src1 \in Word /\ src2 \in Word
    /\ st \in {{}, {"Z"}, {"N"}}
    /\ last = [op |-> "none", dst |-> dst]

(* perform_operation(proc, dst, src1, src2, op). *)
Perform(op) ==
    /\ last.op = "none"
    /\ \E temp \in AluTemps(op, dst, src1, src2) :
          /\ dst' = IF op \in TestOnly THEN dst ELSE Wrap(temp)
          /\ st' = NextFlags(st, temp)
    /\ last' = [op |-> op, dst |-> dst]
    /\ UNCHANGED <<src1, src2>>

Next == \E op \in AluOps : Perform(op)

Spec == Init /\ [][Next]_vars
-----------------------------------------------------------------------------
Holds(cc) == TestCondition(cc, st)

(* After a comparison of two signed numbers whose difference is a signed   *)
(* word, the conditions GE, LT and GT (codes 10, 11, 12) order them.       *)
SignedOrder ==
    LET difference == SignedWord(last.dst) - SignedWord(src1)
    IN  last.op = "cmp" /\ 2 * difference \in (0 - WordMod)..(WordMod - 1) =>
            /\ Holds(10) <=> difference >= 0
            /\ Holds(11) <=> difference < 0
            /\ Holds(12) <=> difference > 0
            /\ Holds(0)  <=> difference = 0

(* No operation on a register loses track of zero: the condition EQ after  *)
(* a subtraction, a comparison or an exclusive or says that the operands   *)
(* were the same word, whatever the flags were before.                     *)
EqualityIsExact ==
    /\ last.op \in {"cmp", "dec"} => (Holds(0) <=> last.dst = src1)
    /\ last.op \in {"subu", "subs", "xor"} => (Holds(0) <=> src1 = src2)

(* The shifts scale: below the width of the word a shift to the left by n  *)
(* multiplies by 2^n modulo the word, and a shift to the right divides,    *)
(* the arithmetic ones too (asr does not copy the sign).                   *)
ShiftsScale ==
    src2 < WordBits =>
        /\ last.op \in {"lsl", "asl"} => dst = Wrap(src1 * Pow2[src2])
        /\ last.op \in {"lsr", "asr"} => dst = src1 \div Pow2[src2]

(* No operation sets C, for the temporary that perform_operation compares  *)
(* with 0xffffffff is a 32-bit expression, and none writes V: whatever was *)
(* added, subtracted or compared, branches on CS, VS and HI (codes 2, 6,   *)
(* 8) are never taken and branches on CC, VC and LS (3, 7, 9) always are.  *)
UnsignedConditionsFixed ==
    /\ \A cc \in {2, 6, 8} : ~Holds(cc)
    /\ \A cc \in {3, 7, 9} : Holds(cc)

(* README.md calls the condition codes ARM-like: after a comparison LE     *)
(* (code 13) is the opposite of GT (code 12).                              *)
LessOrEqualIsNotGreater ==
    last.op = "cmp" => (Holds(13) <=> ~Holds(12))

(* The comment above the register table works an example: adding 1 to a    *)
(* register that holds all ones leaves 0 and sets the zero and the carry   *)
(* flags.                                                                  *)
CarryOutOfAdd ==
    last.op = "addu" /\ src1 = WordMod - 1 /\ src2 = 1 =>
        dst = 0 /\ {"Z", "C"} \subseteq st
=============================================================================
