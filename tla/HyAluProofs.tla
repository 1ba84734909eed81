----------------------------- MODULE HyAluProofs -----------------------------
(***************************************************************************)
(* The arithmetic unit, for words of every width: types, and the order and *)
(* the equality that the conditions after an operation show.               *)
(***************************************************************************)
EXTENDS HyAluUnit, HyIsaTheorems

LEMMA AluTypeInit == Init => TypeOK
BY DEF Init, TypeOK, Flags

LEMMA AluTypeNext == TypeOK /\ [Next]_vars => TypeOK'
<1> SUFFICES ASSUME TypeOK, [Next]_vars PROVE TypeOK'
    OBVIOUS
<1>1. CASE UNCHANGED vars
    BY <1>1 DEF vars, TypeOK
<1>2. ASSUME NEW op \in AluOps, Perform(op) PROVE TypeOK'
    <2>1. PICK temp \in AluTemps(op, dst, src1, src2) :
              dst' = (IF op \in TestOnly THEN dst ELSE Wrap(temp)) /\ st' = NextFlags(st, temp)
        BY <1>2 DEF Perform
    <2>2. dst' \in Word
        <3>1. temp \in Word
            BY <2>1, AluTempsType DEF TypeOK
        <3>2. Wrap(temp) \in Word
            BY <3>1, WordInt, WrapType
        <3> QED BY <2>1, <3>2 DEF TypeOK
    <2>3. st' \subseteq Flags
        BY <2>1, NextFlagsType
    <2>4. last' \in [op : AluOps \cup {"none"}, dst : Word]
        BY <1>2 DEF Perform, TypeOK
    <2> QED BY <1>2, <2>2, <2>3, <2>4 DEF Perform, TypeOK
<1> QED BY <1>1, <1>2 DEF Next

(* Whatever the operation, its operands and the flags it finds, registers  *)
(* and flags stay words and flags.                                         *)
THEOREM AluTypeCorrect == Spec => []TypeOK
BY AluTypeInit, AluTypeNext, PTL DEF Spec
-----------------------------------------------------------------------------
(* What is left when a word is taken from another. *)
LEMMA Difference ==
    ASSUME NEW a \in Word, NEW b \in Word
    PROVE  Wrap(a - b) = IF a >= b THEN a - b ELSE a - b + WordMod
<1>1. CASE a >= b
    BY <1>1, ModuliTypes DEF Word, Wrap
<1>2. CASE a < b
    BY <1>2, ModuliTypes DEF Word, Wrap
<1> QED BY <1>1, <1>2, ModuliTypes DEF Word

LEMMA DifferenceOfSigned ==
    ASSUME NEW a \in Word, NEW b \in Word,
           2 * (SignedWord(a) - SignedWord(b)) \in (0 - WordMod)..(WordMod - 1)
    PROVE  /\ SignedWord(a) - SignedWord(b) \in Int
           /\ Wrap(a - b) = 0 <=> SignedWord(a) - SignedWord(b) = 0
           /\ 2 * Wrap(a - b) >= WordMod <=> SignedWord(a) - SignedWord(b) < 0
<1>1. a \in 0..(WordMod - 1) /\ b \in 0..(WordMod - 1) /\ WordMod \in Nat
    BY ModuliTypes DEF Word
<1> QED BY <1>1, Difference DEF SignedWord

LEMMA DifferenceIsZero ==
    ASSUME NEW a \in Word, NEW b \in Word PROVE Wrap(a - b) = 0 <=> a = b
<1>1. a \in 0..(WordMod - 1) /\ b \in 0..(WordMod - 1) /\ WordMod \in Nat
    BY ModuliTypes DEF Word
<1> QED BY <1>1, Difference

(* The flags after a word, and the conditions that read them.              *)
LEMMA FlagsOfWord ==
    ASSUME NEW s \in SUBSET Flags, "V" \notin s, NEW t \in Word
    PROVE  /\ NextFlags(s, t) \cap {"V", "C"} = {}
           /\ "Z" \in NextFlags(s, t) <=> t = 0
           /\ "N" \in NextFlags(s, t) <=> 2 * t >= WordMod
<1>1. t % WordMod = t /\ ~(t > WordMod - 1)
    BY ModuliTypes DEF Word
<1> QED BY <1>1 DEF NextFlags, Flags

LEMMA Conditions ==
    /\ Holds(0)  <=> "Z" \in st
    /\ Holds(10) <=> st \cap {"N", "V"} = {}
    /\ Holds(11) <=> st \cap {"N", "V"} # {}
    /\ Holds(12) <=> "Z" \notin st /\ st \cap {"N", "V"} = {}
    /\ Holds(2) <=> "C" \in st
    /\ Holds(3) <=> "C" \notin st
    /\ Holds(6) <=> "V" \in st
    /\ Holds(7) <=> "V" \notin st
    /\ Holds(8) <=> "C" \in st /\ "Z" \notin st
    /\ Holds(9) <=> "C" \notin st \/ "Z" \in st
BY DEF Holds, TestCondition
-----------------------------------------------------------------------------
(* A greater power is an even multiple of a smaller one. *)
LEMMA Pow2Split ==
    ASSUME NEW m \in Nat, NEW n \in Nat, m < n
    PROVE  \E h \in Nat : Pow2[n] = Pow2[m] * (2 * h)
<1> DEFINE k == (n - m) - 1
<1>1. k \in Nat /\ k + 1 \in Nat /\ m + (k + 1) = n
    OBVIOUS
<1> HIDE DEF k
<1>2. Pow2[n] = Pow2[m] * Pow2[k + 1]
    BY <1>1, Pow2Sum
<1>3. Pow2[k + 1] = 2 * Pow2[k] /\ Pow2[k] \in Nat
    BY <1>1, Pow2Step, Pow2Type
<1> QED BY <1>2, <1>3

(* Moving the bits of a word is scaling it by a power of 2. *)
LEMMA BitOfScaled ==
    ASSUME NEW x \in Nat, NEW n \in Nat, NEW i \in Nat
    PROVE  Bit(x * Pow2[n], i) = IF i >= n THEN Bit(x, i - n) ELSE 0
<1> DEFINE p == Pow2[n]
<1>0. p \in Nat \ {0} /\ Pow2[i] \in Nat \ {0} /\ x * p \in Nat
    BY Pow2Type
<1>1. CASE i >= n
    <2>1. i - n \in Nat /\ n + (i - n) = i
        BY <1>1
    <2>2. Pow2[i] = p * Pow2[i - n] /\ Pow2[i - n] \in Nat \ {0}
        BY <2>1, Pow2Sum, Pow2Type
    <2> HIDE DEF p
    <2>3. (x * p) \div p = x
        <3>1. (x * p + 0) \div p = x
            BY <1>0, Quotient
        <3>2. x * p + 0 = x * p
            BY <1>0
        <3> QED BY <3>1, <3>2
    <2>4. ((x * p) \div p) \div Pow2[i - n] = (x * p) \div Pow2[i]
        BY <1>0, <2>2, DivideTwice
    <2> QED BY <1>1, <2>3, <2>4 DEF Bit, p
<1>2. CASE i < n
    <2>2. PICK h \in Nat : p = Pow2[i] * (2 * h)
        BY <1>2, Pow2Split
    <2> HIDE DEF p
    <2>3. x * p = (2 * (x * h)) * Pow2[i] + 0 /\ x * h \in Nat
        BY <1>0, <2>2
    <2>4. (x * p) \div Pow2[i] = 2 * (x * h)
        BY <1>0, <2>3, Quotient
    <2>5. Bit(x * p, i) = 0
        <3> DEFINE y == x * h
        <3>1. y \in Nat /\ (x * p) \div Pow2[i] = 2 * y
            BY <2>3, <2>4
        <3> HIDE DEF y
        <3>2. (2 * y) % 2 = 0
            BY <3>1
        <3> QED BY <3>1, <3>2 DEF Bit
    <2> QED BY <1>2, <2>5 DEF p
<1> QED BY <1>1, <1>2

(* Wrapping around keeps the bits of a word. *)
LEMMA BitOfWrapped ==
    ASSUME NEW x \in Nat, NEW i \in BitIndices PROVE Bit(Wrap(x), i) = Bit(x, i)
<1> DEFINE q == x \div WordMod
           r == x % WordMod
           p == Pow2[i]
<1>1. i \in Nat /\ i < WordBits
    BY WordIsPow2 DEF BitIndices
<1>2. p \in Nat \ {0} /\ \E h \in Nat : WordMod = p * (2 * h)
    BY <1>1, Pow2Type, Pow2Split, WordIsPow2
<1>3. q \in Int /\ r \in Int /\ x = q * WordMod + r /\ 0 <= r
    BY ModuliTypes, Division
<1> PICK h \in Nat : WordMod = p * (2 * h)
    BY <1>2
<1> HIDE DEF q, r, p
<1>4. r \div p \in Int /\ r % p \in Int /\ r = (r \div p) * p + (r % p) /\ 0 <= r % p /\ r % p < p
    BY <1>2, <1>3, Division
<1> DEFINE u == r \div p
           v == r % p
           w == q * h
<1>5. u \in Int /\ v \in Int /\ r = u * p + v /\ 0 <= v /\ v < p /\ w \in Int
    BY <1>2, <1>3, <1>4
<1>6. x = (2 * w + u) * p + v
    <2> HIDE DEF u, v
    <2>1. q * (p * (2 * h)) = (2 * (q * h)) * p
        BY <1>2, <1>3
    <2>2. (2 * (q * h) + u) * p = (2 * (q * h)) * p + u * p
        BY <1>2, <1>3, <1>5
    <2>3. x = q * (p * (2 * h)) + (u * p + v)
        BY <1>2, <1>3, <1>5
    <2>4. (2 * (q * h)) * p \in Int /\ u * p \in Int
        BY <1>2, <1>3, <1>5
    <2> QED BY <1>5, <2>1, <2>2, <2>3, <2>4
<1>7. x \div p = 2 * w + u
    <2> HIDE DEF u, v, w
    <2>1. 2 * w + u \in Int
        BY <1>5
    <2> QED BY <1>2, <1>5, <1>6, <2>1, Quotient
<1>8. (2 * w + u) % 2 = u % 2
    <2> HIDE DEF u, w
    <2> QED BY <1>5
<1> QED BY <1>7, <1>8 DEF Bit, Wrap, u, r, p

(* A shift to the left by any count multiplies, within the word.           *)
LEMMA ShiftLeftScales ==
    ASSUME NEW w \in Word, NEW n \in Nat PROVE ShiftLeft(w, n) = {Wrap(w * Pow2[n])}
<1>1. w \in Nat /\ Pow2[n] \in Nat
    BY Pow2Type, ModuliTypes DEF Word
<1>2. w * Pow2[n] \in Nat
    BY <1>1
<1>3. Wrap(w * Pow2[n]) \in Word
    BY <1>2, WrapType
<1> DEFINE f == [i \in BitIndices |-> IF i >= n THEN Bit(w, i - n) ELSE 0]
<1>4. ASSUME NEW i \in BitIndices PROVE Bit(Wrap(w * Pow2[n]), i) = f[i]
    <2>1. i \in Nat
        BY WordIsPow2 DEF BitIndices
    <2>2. Bit(Wrap(w * Pow2[n]), i) = Bit(w * Pow2[n], i)
        BY <1>2, BitOfWrapped
    <2>3. Bit(w * Pow2[n], i) = IF i >= n THEN Bit(w, i - n) ELSE 0
        BY <1>1, <2>1, BitOfScaled
    <2> QED BY <2>2, <2>3
<1> HIDE DEF f
<1>5. WithBits(f) = {Wrap(w * Pow2[n])}
    BY <1>3, <1>4, WithBitsOfWord
<1> QED BY <1>5 DEF ShiftLeft, f

(* A shift to the right by any count divides.                              *)
LEMMA ShiftRightScales ==
    ASSUME NEW w \in Word, NEW n \in Nat PROVE ShiftRight(w, n) = {w \div Pow2[n]}
<1> DEFINE f == [i \in BitIndices |-> IF i + n < WordBits THEN Bit(w, i + n) ELSE 0]
           t == w \div Pow2[n]
<1>1. w \in Nat /\ Pow2[n] \in Nat \ {0} /\ w < WordMod /\ WordMod \in Nat
    BY Pow2Type, ModuliTypes DEF Word
<1>2. t \in Word
    <2> DEFINE p == Pow2[n]
    <2>1. p \in Nat \ {0}
        BY <1>1
    <2> HIDE DEF p
    <2>2. w \div p \in 0..w
        BY <1>1, <2>1
    <2> QED BY <1>1, <2>2 DEF Word, p
<1>3. ASSUME NEW i \in BitIndices PROVE Bit(t, i) = f[i]
    <2>1. i \in Nat /\ n + i \in Nat /\ i + n = n + i
        BY WordIsPow2 DEF BitIndices
    <2>2. t \div Pow2[i] = w \div Pow2[n + i]
        <3>1. Pow2[n + i] = Pow2[n] * Pow2[i] /\ Pow2[i] \in Nat \ {0}
            BY <2>1, Pow2Sum, Pow2Type
        <3> QED BY <1>1, <3>1, DivideTwice
    <2>3. Bit(t, i) = Bit(w, n + i)
        BY <2>2 DEF Bit
    <2>4. CASE n + i < WordBits
        BY <2>1, <2>3, <2>4
    <2>5. CASE ~(n + i < WordBits)
        <3>1. (n + i) - WordBits \in Nat /\ WordBits + ((n + i) - WordBits) = n + i
            BY <2>1, <2>5, WordIsPow2
        <3> DEFINE m == Pow2[(n + i) - WordBits]
        <3>2. Pow2[n + i] = WordMod * m /\ m \in Nat \ {0}
            BY <3>1, Pow2Sum, Pow2Type, WordIsPow2
        <3> HIDE DEF m
        <3>3. WordMod * m \in Nat \ {0} /\ w < WordMod * m
            <4>1. WordMod * m >= WordMod * 1
                BY <3>2, ModuliTypes
            <4> QED BY <1>1, <3>2, <4>1
        <3>4. (0 * (WordMod * m) + w) \div (WordMod * m) = 0
            BY <1>1, <3>3, Quotient
        <3>5. 0 * (WordMod * m) + w = w
            BY <1>1, <3>3
        <3>6. Bit(w, n + i) = 0
            BY <3>2, <3>4, <3>5 DEF Bit
        <3> QED BY <2>1, <2>3, <2>5, <3>6
    <2> QED BY <2>4, <2>5
<1> HIDE DEF f, t
<1>4. WithBits(f) = {t}
    BY <1>2, <1>3, WithBitsOfWord
<1> QED BY <1>4 DEF ShiftRight, f, t

(* The exclusive or of two words is 0 when they are the same word.         *)
LEMMA XorIsZero ==
    ASSUME NEW a \in Word, NEW b \in Word,
           NEW t \in WithBits([i \in BitIndices |-> (Bit(a, i) + Bit(b, i)) % 2])
    PROVE  t = 0 <=> a = b
<1>1. a \in Nat /\ b \in Nat /\ 0 \in Word /\ t \in Word
    BY ModuliTypes DEF Word, WithBits
<1>2. ASSUME NEW i \in BitIndices
      PROVE  /\ Bit(t, i) = (Bit(a, i) + Bit(b, i)) % 2 /\ Bit(0, i) = 0
             /\ Bit(a, i) \in {0, 1} /\ Bit(b, i) \in {0, 1}
    <2>1. i \in Nat
        BY WordIsPow2 DEF BitIndices
    <2>2. Bit(t, i) = (Bit(a, i) + Bit(b, i)) % 2
        BY DEF WithBits
    <2>3. Bit(0, i) = 0
        BY <2>1, Pow2Type DEF Bit
    <2> QED BY <1>1, <2>1, <2>2, <2>3, BitsOfHalf
<1>3. \A x, y \in Word : (\A i \in BitIndices : Bit(x, i) = Bit(y, i)) => x = y
    BY BitsDetermine, WordIsPow2 DEF Word, BitIndices
<1>4. CASE t = 0
    <2>1. \A i \in BitIndices : Bit(a, i) = Bit(b, i)
        BY <1>2, <1>4
    <2> QED BY <1>3, <1>4, <2>1
<1>5. CASE a = b
    <2>1. \A i \in BitIndices : Bit(t, i) = Bit(0, i)
        BY <1>2, <1>5
    <2> QED BY <1>1, <1>3, <1>5, <2>1
<1> QED BY <1>4, <1>5

LEMMA BitTypes ==
    ASSUME NEW w \in Word, NEW i \in Nat PROVE Bit(w, i) \in {0, 1}
<1>1. w \in Nat
    BY ModuliTypes DEF Word
<1> QED BY <1>1, BitsOfHalf

LEMMA ShiftIsOneWord ==
    ASSUME NEW w \in Word, NEW n \in Nat
    PROVE  (\E t \in Word : ShiftLeft(w, n) = {t}) /\ (\E t \in Word : ShiftRight(w, n) = {t})
<1>1. Wrap(w * Pow2[n]) \in Word
    <2>1. w * Pow2[n] \in Int
        BY WordInt, Pow2Type
    <2> QED BY <2>1, WrapType
<1>2. w \div Pow2[n] \in ShiftRight(w, n)
    BY ShiftRightScales
<1> QED BY <1>1, <1>2, ShiftLeftScales, ShiftRightScales DEF ShiftRight, WithBits

(* The operations have a result and only one, for words of any width: but  *)
(* a division by 0 has none, it traps, and a shift by the width of the     *)
(* word or more, undefined in C++, may have two.                           *)
THEOREM OperationsAnswer ==
    ASSUME NEW op \in AluOps, NEW d \in Word, NEW a \in Word, NEW b \in Word
    PROVE  /\ AluTemps(op, d, a, b) = {} <=> op \in {"divu", "divs"} /\ b = 0
           /\ \/ op \in {"divu", "divs"} /\ b = 0
              \/ op \in {"lsl", "asl", "lsr", "asr"} /\ b >= WordBits
              \/ \E t \in Word : AluTemps(op, d, a, b) = {t}
<1> DEFINE One(T) == \E t \in Word : T = {t}
<1>0. d \in Int /\ a \in Int /\ b \in Nat /\ WordBits \in Nat \ {0}
    BY ModuliTypes, WordIsPow2 DEF Word
<1>1. \A i \in BitIndices : i \in Nat /\ Bit(a, i) \in {0, 1} /\ Bit(b, i) \in {0, 1} /\ Bit(d, i) \in {0, 1}
    BY BitTypes, WordIsPow2 DEF BitIndices
<1>2. /\ One(WithBits([i \in BitIndices |-> Bit(a, i) * Bit(b, i)]))
      /\ One(WithBits([i \in BitIndices |-> IF Bit(a, i) = 1 THEN 1 ELSE Bit(b, i)]))
      /\ One(WithBits([i \in BitIndices |-> (Bit(a, i) + Bit(b, i)) % 2]))
      /\ One(WithBits([i \in BitIndices |-> IF i = a THEN Bit(d, i) ELSE 0]))
    <2>1. /\ [i \in BitIndices |-> Bit(a, i) * Bit(b, i)] \in [BitIndices -> {0, 1}]
          /\ [i \in BitIndices |-> IF Bit(a, i) = 1 THEN 1 ELSE Bit(b, i)] \in [BitIndices -> {0, 1}]
          /\ [i \in BitIndices |-> (Bit(a, i) + Bit(b, i)) % 2] \in [BitIndices -> {0, 1}]
          /\ [i \in BitIndices |-> IF i = a THEN Bit(d, i) ELSE 0] \in [BitIndices -> {0, 1}]
        BY <1>1
    <2> QED BY <2>1, WithBitsExists
<1>3. CASE op \in {"and", "or", "xor", "tst"}
    BY <1>2, <1>3 DEF AluTemps
<1>4. CASE op \in {"addu", "adds", "subu", "subs", "mulu", "muls", "not", "neg", "inc", "dec",
                   "cmp", "cmpb"}
    <2>1. /\ Wrap(a + b) \in Word /\ Wrap(a - b) \in Word /\ Wrap(a * b) \in Word
          /\ Wrap(d + a) \in Word /\ Wrap(d - a) \in Word /\ Wrap(d - (a % ByteMod)) \in Word
          /\ WordMod - 1 - a \in Word
        <3>1. a % ByteMod \in Int /\ a * b \in Int
            BY <1>0, ModuliTypes
        <3>2. WordMod - 1 - a \in Word
            BY ModuliTypes DEF Word
        <3> QED BY <1>0, <3>1, <3>2, WrapType
    <2>2. /\ op \notin {"divu", "divs"}
          /\ \/ AluTemps(op, d, a, b) = {Wrap(a + b)}
             \/ AluTemps(op, d, a, b) = {Wrap(a - b)}
             \/ AluTemps(op, d, a, b) = {Wrap(a * b)}
             \/ AluTemps(op, d, a, b) = {WordMod - 1 - a}
             \/ AluTemps(op, d, a, b) = {Wrap(d + a)}
             \/ AluTemps(op, d, a, b) = {Wrap(d - a)}
             \/ AluTemps(op, d, a, b) = {Wrap(d - (a % ByteMod))}
        BY <1>4 DEF AluTemps
    <2> QED BY <2>1, <2>2
<1>5. CASE op \in {"divu", "divs"}
    <2>1. AluTemps(op, d, a, b) = IF b = 0 THEN {} ELSE {a \div b}
        BY <1>5 DEF AluTemps
    <2>2. b # 0 => a \div b \in Word
        BY QuotientType
    <2> QED BY <1>5, <2>1, <2>2
<1>6. CASE op \in {"lsl", "asl", "lsr", "asr"}
    <2>1. \/ AluTemps(op, d, a, b) = UNION {ShiftLeft(a, n) : n \in ShiftCounts(b)}
          \/ AluTemps(op, d, a, b) = UNION {ShiftRight(a, n) : n \in ShiftCounts(b)}
        BY <1>6 DEF AluTemps
    <2>2. ShiftCounts(b) \subseteq Nat /\ ShiftCounts(b) # {} /\ (b < WordBits => ShiftCounts(b) = {b})
        BY <1>0 DEF ShiftCounts
    <2>3. \A n \in ShiftCounts(b) : One(ShiftLeft(a, n)) /\ One(ShiftRight(a, n))
        BY <2>2, ShiftIsOneWord
    <2>4. AluTemps(op, d, a, b) # {}
        BY <2>1, <2>2, <2>3
    <2>5. CASE b < WordBits
        <3>1. AluTemps(op, d, a, b) = ShiftLeft(a, b) \/ AluTemps(op, d, a, b) = ShiftRight(a, b)
            BY <2>1, <2>2, <2>5
        <3> QED BY <1>6, <2>2, <2>3, <2>4, <2>5, <3>1
    <2> QED BY <1>0, <1>6, <2>4, <2>5
<1> QED BY <1>3, <1>4, <1>5, <1>6 DEF AluOps
-----------------------------------------------------------------------------
(* After an operation that subtracts, the flags are those of the           *)
(* difference, for V is never set and the others are computed anew.        *)
Flagged(t) ==
    /\ st \cap {"V", "C"} = {}
    /\ "Z" \in st <=> t = 0
    /\ "N" \in st <=> 2 * t >= WordMod

AluInvariant ==
    /\ st \cap {"V", "C"} = {}
    /\ last.op \in {"cmp", "dec"} => Flagged(Wrap(last.dst - src1))
    /\ last.op \in {"subu", "subs"} => Flagged(Wrap(src1 - src2))
    /\ last.op = "xor" => ("Z" \in st <=> src1 = src2)

LEMMA AluInvariantInit == Init => AluInvariant
BY DEF Init, AluInvariant

LEMMA AluInvariantNext == TypeOK /\ AluInvariant /\ [Next]_vars => AluInvariant'
<1> SUFFICES ASSUME TypeOK, AluInvariant, [Next]_vars PROVE AluInvariant'
    OBVIOUS
<1>1. CASE UNCHANGED vars
    BY <1>1 DEF vars, AluInvariant, Flagged
<1>2. ASSUME NEW op \in AluOps, Perform(op) PROVE AluInvariant'
    <2>1. PICK temp \in AluTemps(op, dst, src1, src2) : st' = NextFlags(st, temp)
        BY <1>2 DEF Perform
    <2>2. temp \in Word /\ st \subseteq Flags /\ "V" \notin st
        BY <2>1, AluTempsType DEF TypeOK, AluInvariant
    <2>3. Flagged(temp)'
        BY <2>1, <2>2, FlagsOfWord DEF Flagged
    <2>4. last'.op = op /\ last'.dst = dst /\ src1' = src1 /\ src2' = src2
        BY <1>2 DEF Perform
    <2>5. op \in {"cmp", "dec"} => temp = Wrap(dst - src1)
        BY <2>1 DEF AluTemps
    <2>6. op \in {"subu", "subs"} => temp = Wrap(src1 - src2)
        BY <2>1 DEF AluTemps
    <2>7. op = "xor" => (temp = 0 <=> src1 = src2)
        <3>1. op = "xor" =>
                  temp \in WithBits([i \in BitIndices |-> (Bit(src1, i) + Bit(src2, i)) % 2])
            BY <2>1 DEF AluTemps
        <3> QED BY <3>1, XorIsZero DEF TypeOK
    <2> QED BY <2>3, <2>4, <2>5, <2>6, <2>7 DEF AluInvariant, Flagged
<1> QED BY <1>1, <1>2 DEF Next

LEMMA AluInvariantHolds == Spec => [](TypeOK /\ AluInvariant)
BY AluTypeInit, AluTypeNext, AluInvariantInit, AluInvariantNext, PTL DEF Spec

(* For words of any width, GE, LT, GT and EQ after a comparison order two  *)
(* signed numbers whose difference is a signed word: leaving the overflow  *)
(* flag out, as perform_operation does, is right exactly there.            *)
THEOREM SignedOrderHolds == Spec => []SignedOrder
<1>1. TypeOK /\ AluInvariant => SignedOrder
    <2> SUFFICES ASSUME TypeOK, AluInvariant PROVE SignedOrder
        OBVIOUS
    <2> DEFINE difference == SignedWord(last.dst) - SignedWord(src1)
               t == Wrap(last.dst - src1)
    <2>1. last.dst \in Word /\ src1 \in Word
        BY DEF TypeOK
    <2> SUFFICES ASSUME last.op = "cmp", 2 * difference \in (0 - WordMod)..(WordMod - 1)
                 PROVE  /\ Holds(10) <=> difference >= 0
                        /\ Holds(11) <=> difference < 0
                        /\ Holds(12) <=> difference > 0
                        /\ Holds(0)  <=> difference = 0
        BY DEF SignedOrder
    <2>2. /\ difference \in Int
          /\ t = 0 <=> difference = 0
          /\ 2 * t >= WordMod <=> difference < 0
        BY <2>1, DifferenceOfSigned
    <2>3. Flagged(t)
        BY DEF AluInvariant
    <2> HIDE DEF difference, t
    <2>4. "Z" \in st <=> difference = 0
        BY <2>2, <2>3 DEF Flagged
    <2>5. st \cap {"N", "V"} = {} <=> ~(difference < 0)
        BY <2>2, <2>3 DEF Flagged
    <2> QED BY <2>2, <2>4, <2>5, Conditions
<1> QED BY <1>1, AluInvariantHolds, PTL

(* For words of any width, no sequence of operations makes an unsigned     *)
(* condition depend on what was compared.                                  *)
THEOREM UnsignedConditionsFixedHolds == Spec => []UnsignedConditionsFixed
<1>1. AluInvariant => UnsignedConditionsFixed
    <2> SUFFICES ASSUME AluInvariant PROVE UnsignedConditionsFixed
        OBVIOUS
    <2>1. "V" \notin st /\ "C" \notin st
        BY DEF AluInvariant
    <2> QED BY <2>1, Conditions DEF UnsignedConditionsFixed
<1> QED BY <1>1, AluInvariantHolds, PTL

(* For words of any width, EQ after a subtraction, a comparison, a         *)
(* decrement or an exclusive or says that the operands were the same word. *)
THEOREM EqualityIsExactHolds == Spec => []EqualityIsExact
<1>1. TypeOK /\ AluInvariant => EqualityIsExact
    <2> SUFFICES ASSUME TypeOK, AluInvariant PROVE EqualityIsExact
        OBVIOUS
    <2>1. last.dst \in Word /\ src1 \in Word /\ src2 \in Word
        BY DEF TypeOK
    <2>2. Wrap(last.dst - src1) = 0 <=> last.dst = src1
        BY <2>1, DifferenceIsZero
    <2>3. Wrap(src1 - src2) = 0 <=> src1 = src2
        BY <2>1, DifferenceIsZero
    <2> QED BY <2>2, <2>3, Conditions DEF EqualityIsExact, AluInvariant, Flagged
<1> QED BY <1>1, AluInvariantHolds, PTL
-----------------------------------------------------------------------------
LEMMA ShiftsScaleNext == TypeOK /\ ShiftsScale /\ [Next]_vars => ShiftsScale'
<1> SUFFICES ASSUME TypeOK, ShiftsScale, [Next]_vars PROVE ShiftsScale'
    OBVIOUS
<1>1. CASE UNCHANGED vars
    BY <1>1 DEF vars, ShiftsScale
<1>2. ASSUME NEW op \in AluOps, Perform(op) PROVE ShiftsScale'
    <2>1. PICK temp \in AluTemps(op, dst, src1, src2) :
              dst' = IF op \in TestOnly THEN dst ELSE Wrap(temp)
        BY <1>2 DEF Perform
    <2>2. last'.op = op /\ src1' = src1 /\ src2' = src2
        BY <1>2 DEF Perform
    <2>3. src1 \in Word /\ src2 \in Nat
        BY ModuliTypes DEF TypeOK, Word
    <2>4. temp \in Word /\ Wrap(temp) = temp
        <3>1. temp \in Word
            BY <2>1, AluTempsType DEF TypeOK
        <3> QED BY <3>1, ModuliTypes DEF Word, Wrap
    <2> SUFFICES ASSUME src2 < WordBits, op \in {"lsl", "asl", "lsr", "asr"}
                 PROVE  /\ op \in {"lsl", "asl"} => temp = Wrap(src1 * Pow2[src2])
                        /\ op \in {"lsr", "asr"} => temp = src1 \div Pow2[src2]
        BY <2>1, <2>2, <2>4 DEF ShiftsScale, TestOnly
    <2>5. ShiftCounts(src2) = {src2}
        BY DEF ShiftCounts
    <2>6. op \in {"lsl", "asl"} => temp \in ShiftLeft(src1, src2)
        BY <2>1, <2>5 DEF AluTemps
    <2>7. op \in {"lsr", "asr"} => temp \in ShiftRight(src1, src2)
        BY <2>1, <2>5 DEF AluTemps
    <2> QED BY <2>3, <2>6, <2>7, ShiftLeftScales, ShiftRightScales
<1> QED BY <1>1, <1>2 DEF Next

(* For words of any width, and for every count below it, shifting scales   *)
(* by a power of 2, the arithmetic shift to the right included.            *)
THEOREM ShiftsScaleHolds == Spec => []ShiftsScale
<1>1. Init => ShiftsScale
    BY DEF Init, ShiftsScale
<1> QED BY <1>1, AluTypeInit, AluTypeNext, ShiftsScaleNext, PTL DEF Spec
=============================================================================
