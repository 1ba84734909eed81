------------------------------- MODULE HyAlu -------------------------------
(***************************************************************************)
(* The arithmetic and logic unit (src/hyrisc/alu.hpp), the status register *)
(* (src/hyrisc/flags.hpp) and the condition codes of the branches.  The    *)
(* status register is the set of the flags that are 1.                     *)
(***************************************************************************)
EXTENDS HyWords

Flags == {"Z", "N", "V", "C"}

AluOps ==
    {"addu", "subu", "mulu", "divu", "adds", "subs", "muls", "divs",
     "and", "or", "xor", "not", "neg", "inc", "dec", "tst", "cmp", "cmpb",
     "lsl", "lsr", "asl", "asr"}

(* A shift by the width of the word or more is undefined in C++.  The      *)
(* Makefile's unoptimised build emits the host's shift instruction, which  *)
(* reduces the count (x86-64, AArch64) or yields 0 (32-bit ARM).           *)
ShiftCounts(n) == IF n < WordBits THEN {n} ELSE {n % WordBits, WordBits}

ShiftLeft(w, n) ==
    WithBits([i \in BitIndices |-> IF i >= n THEN Bit(w, i - n) ELSE 0])

(* Mutant of ShiftRight: the vacated bits copy the sign. *)
ShiftRightCopiesSign(w, n) ==
    WithBits([i \in BitIndices |-> Bit(w, IF i + n < WordBits THEN i + n ELSE WordBits - 1)])

ShiftRight(w, n) ==
    WithBits([i \in BitIndices |-> IF i + n < WordBits THEN Bit(w, i + n) ELSE 0])

(* Mutant of AluTemps: the sum is computed in the 64 bits of the temporary.*)
AluTempsWide(op, dst, src1, src2) ==
    IF op \in {"addu", "adds"} THEN {src1 + src2} ELSE {Wrap(dst - src1)}

(* The values the temporary of OPERATION(op, ...) can take.  All operands  *)
(* are 32-bit, so the temporary is reduced before it is widened to 64      *)
(* bits.  Casting src2 to a signed type changes nothing: the other operand *)
(* is unsigned and so is the operation.  A division by zero has no value:  *)
(* it traps.                                                               *)
AluTemps(op, dst, src1, src2) ==
    CASE op \in {"addu", "adds"} -> {Wrap(src1 + src2)}
      [] op \in {"subu", "subs"} -> {Wrap(src1 - src2)}
      [] op \in {"mulu", "muls"} -> {Wrap(src1 * src2)}
      [] op \in {"divu", "divs"} -> IF src2 = 0 THEN {} ELSE {src1 \div src2}
      [] op = "and" -> WithBits([i \in BitIndices |-> Bit(src1, i) * Bit(src2, i)])
      [] op = "or"  -> WithBits([i \in BitIndices |->
                            IF Bit(src1, i) = 1 THEN 1 ELSE Bit(src2, i)])
      [] op = "xor" -> WithBits([i \in BitIndices |-> (Bit(src1, i) + Bit(src2, i)) % 2])
      [] op \in {"not", "neg"} -> {WordMod - 1 - src1}
      [] op = "inc"  -> {Wrap(dst + src1)}
      [] op = "dec"  -> {Wrap(dst - src1)}
      [] op = "tst"  -> WithBits([i \in BitIndices |-> IF i = src1 THEN Bit(dst, i) ELSE 0])
      [] op = "cmp"  -> {Wrap(dst - src1)}
      [] op = "cmpb" -> {Wrap(dst - (src1 % ByteMod))}
      [] op \in {"lsl", "asl"} -> UNION {ShiftLeft(src1, n) : n \in ShiftCounts(src2)}
      [] op \in {"lsr", "asr"} -> UNION {ShiftRight(src1, n) : n \in ShiftCounts(src2)}
      [] OTHER -> {}

(* The operations whose lambda leaves the destination register alone. *)
TestOnly == {"tst", "cmp", "cmpb"}

(* Mutant of NextFlags: the zero flag is set but never cleared. *)
NextFlagsStickyZero(st, temp) ==
    (st \cap {"V", "Z"})
        \cup (IF temp = 0 THEN {"Z"} ELSE {})
        \cup (IF 2 * temp >= WordMod THEN {"N"} ELSE {})

(* perform_operation: the three flags it sets or clears from the temporary.*)
(* V is never written.                                                     *)
NextFlags(st, temp) ==
    (st \cap {"V"})
        \cup (IF temp % WordMod = 0 THEN {"Z"} ELSE {})
        \cup (IF 2 * (temp % WordMod) >= WordMod THEN {"N"} ELSE {})
        \cup (IF temp > WordMod - 1 THEN {"C"} ELSE {})

(* Mutant of TestCondition: "greater" is also true of equal operands. *)
TestConditionGreaterOrEqual(cc, st) ==
    CASE cc \in {10, 12} -> st \cap {"N", "V"} = {}
      [] cc = 11 -> st \cap {"N", "V"} # {}
      [] cc = 0  -> "Z" \in st
      [] OTHER   -> "Z" \notin st

(* hyrisc_test_condition.  SET(N) and SET(V) are compared as masks, 2 or 0 *)
(* and 4 or 0: they are equal only when both flags are 0.                  *)
TestCondition(cc, st) ==
    CASE cc = 0  -> "Z" \in st
      [] cc = 1  -> "Z" \notin st
      [] cc = 2  -> "C" \in st
      [] cc = 3  -> "C" \notin st
      [] cc = 4  -> "N" \in st
      [] cc = 5  -> "N" \notin st
      [] cc = 6  -> "V" \in st
      [] cc = 7  -> "V" \notin st
      [] cc = 8  -> "C" \in st /\ "Z" \notin st
      [] cc = 9  -> "C" \notin st \/ "Z" \in st
      [] cc = 10 -> st \cap {"N", "V"} = {}
      [] cc = 11 -> st \cap {"N", "V"} # {}
      [] cc = 12 -> "Z" \notin st /\ st \cap {"N", "V"} = {}
      [] cc = 13 -> "Z" \in st /\ st \cap {"N", "V"} # {}
      [] OTHER   -> cc = 14
=============================================================================
