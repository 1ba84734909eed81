-------------------------- MODULE HyWordsTheorems --------------------------
(***************************************************************************)
(* Facts about the words of HyWords, for every width of a byte.            *)
(***************************************************************************)
EXTENDS HyWords, HyInduction

(* The moduli are positive, and a word holds the number 4, which the       *)
(* program counter and the stack pointer move by.                          *)
LEMMA ModuliTypes ==
    /\ ByteMod \in Nat /\ ByteMod >= 2
    /\ HalfMod \in Nat /\ HalfMod >= 4 /\ HalfMod >= ByteMod
    /\ WordMod \in Nat /\ WordMod >= 16 /\ WordMod >= HalfMod
<1>1. ByteMod \in Nat /\ ByteMod >= 2
    BY WordsAssumption
<1>2. HalfMod \in Nat /\ HalfMod >= 4 /\ HalfMod >= ByteMod
    BY <1>1 DEF HalfMod
<1>3. WordMod \in Nat /\ WordMod >= 16 /\ WordMod >= HalfMod
    BY <1>2 DEF WordMod
<1> QED BY <1>1, <1>2, <1>3

LEMMA WrapType == ASSUME NEW x \in Int PROVE Wrap(x) \in Word
BY ModuliTypes DEF Wrap, Word

LEMMA WrapStepType ==
    ASSUME NEW w \in Word PROVE Wrap(w + 4) \in Word /\ Wrap(w - 4) \in Word
BY ModuliTypes DEF Wrap, Word

-----------------------------------------------------------------------------
(* The powers of 2: the recursion has a solution, so Pow2 is one.          *)
LEMMA Pow2Unfolds ==
    Pow2 = [n \in Nat |-> IF n = 0 THEN 1 ELSE 2 * Pow2[n - 1]]
<1> DEFINE twice == [p \in Nat \X Nat |-> 2 * p[2]]
<1>1. twice \in [Nat \X Nat -> Nat]
    OBVIOUS
<1>2. PICK f : Follows(f, Nat, 1, twice)
    <2> HIDE DEF twice
    <2>1. 1 \in Nat
        OBVIOUS
    <2> QED BY <1>1, <2>1, RecursionExists
<1>3. ASSUME NEW n \in Nat \ {0} PROVE f[n] = 2 * f[n - 1]
    <2>1. n - 1 \in Nat /\ (n - 1) + 1 = n
        OBVIOUS
    <2>2. f[(n - 1) + 1] = twice[<<n - 1, f[n - 1]>>] /\ f[n - 1] \in Nat
        BY <1>2, <2>1 DEF Follows
    <2> QED BY <2>1, <2>2
<1>4. f = [n \in Nat |-> IF n = 0 THEN 1 ELSE 2 * f[n - 1]]
    BY <1>2, <1>3 DEF Follows
<1> QED BY <1>4 DEF Pow2

LEMMA Pow2Type == \A n \in Nat : Pow2[n] \in Nat \ {0}
<1> DEFINE S == {n \in Nat : Pow2[n] \in Nat \ {0}}
<1>1. 0 \in S
    BY Pow2Unfolds
<1>2. ASSUME NEW n \in Nat, n \in S PROVE n + 1 \in S
    <2>1. Pow2[n + 1] = 2 * Pow2[n]
        BY Pow2Unfolds
    <2> QED BY <1>2, <2>1
<1> HIDE DEF S
<1>3. Nat \subseteq S
    BY <1>1, <1>2, SetInduction
<1> QED BY <1>3 DEF S

LEMMA Pow2Step == Pow2[0] = 1 /\ \A n \in Nat : Pow2[n + 1] = 2 * Pow2[n]
<1>1. Pow2[0] = 1
    BY Pow2Unfolds
<1>2. ASSUME NEW n \in Nat PROVE Pow2[n + 1] = 2 * Pow2[n]
    <2>1. n + 1 \in Nat /\ n + 1 # 0 /\ (n + 1) - 1 = n
        OBVIOUS
    <2> QED BY <2>1, Pow2Unfolds
<1> QED BY <1>1, <1>2

LEMMA Pow2Sum == \A m \in Nat : \A n \in Nat : Pow2[m + n] = Pow2[m] * Pow2[n]
<1> SUFFICES ASSUME NEW m \in Nat PROVE \A n \in Nat : Pow2[m + n] = Pow2[m] * Pow2[n]
    OBVIOUS
<1> DEFINE S == {n \in Nat : Pow2[m + n] = Pow2[m] * Pow2[n]}
<1>1. 0 \in S
    BY Pow2Step, Pow2Type
<1>2. ASSUME NEW n \in Nat, n \in S PROVE n + 1 \in S
    <2>1. Pow2[n + 1] = 2 * Pow2[n]
        BY Pow2Step
    <2>2. Pow2[m + (n + 1)] = 2 * Pow2[m + n]
        <3>1. m + n \in Nat /\ m + (n + 1) = (m + n) + 1
            OBVIOUS
        <3> QED BY <3>1, Pow2Step
    <2>3. Pow2[m + n] = Pow2[m] * Pow2[n]
        BY <1>2
    <2>4. Pow2[m] \in Nat /\ Pow2[n] \in Nat
        BY Pow2Type
    <2>5. 2 * (Pow2[m] * Pow2[n]) = Pow2[m] * (2 * Pow2[n])
        BY <2>4
    <2> QED BY <2>1, <2>2, <2>3, <2>5
<1> HIDE DEF S
<1>3. Nat \subseteq S
    BY <1>1, <1>2, SetInduction
<1> QED BY <1>3 DEF S
-----------------------------------------------------------------------------

LEMMA WordInt == Word \subseteq Int /\ Byte \subseteq Int /\ Half \subseteq Int
BY ModuliTypes DEF Word, Byte, Half

LEMMA Constants == 0 \in Word /\ 0 \in Byte /\ WordMod - 1 \in Word
BY ModuliTypes DEF Word, Byte

LEMMA HalfIsWord == Half \subseteq Word /\ Byte \subseteq Word
BY ModuliTypes DEF Half, Word, Byte

(* A quotient of words is a word. *)
LEMMA QuotientType ==
    ASSUME NEW x \in Word, NEW y \in Word, y # 0 PROVE x \div y \in Word
BY ModuliTypes DEF Word

(* lui: a half-word moved to the upper half fits. *)
LEMMA UpperHalfType == ASSUME NEW h \in Half PROVE h * HalfMod \in Word
<1>1. h \in Int /\ 0 <= h /\ h <= HalfMod - 1
    BY ModuliTypes DEF Half
<1>2. h * HalfMod <= (HalfMod - 1) * HalfMod
    BY <1>1, ModuliTypes
<1>3. (HalfMod - 1) * HalfMod = WordMod - HalfMod
    BY ModuliTypes DEF WordMod
<1>4. 0 <= h * HalfMod /\ h * HalfMod \in Int
    BY <1>1, ModuliTypes
<1> QED BY <1>2, <1>3, <1>4, ModuliTypes DEF Word

(* jal and call: replacing the lower half of a word leaves a word. *)
LEMMA LowerHalfType ==
    ASSUME NEW w \in Word, NEW h \in Half PROVE (w - (w % HalfMod)) + h \in Word
<1> DEFINE q == w \div HalfMod
<1>1. w \in Int /\ 0 <= w /\ w <= WordMod - 1 /\ h \in Int /\ 0 <= h /\ h <= HalfMod - 1
    BY ModuliTypes DEF Word, Half
<1>2. q \in Int /\ 0 <= q /\ w - (w % HalfMod) = q * HalfMod
    BY <1>1, ModuliTypes
<1>3. q <= HalfMod - 1
    <2>1. SUFFICES ASSUME q >= HalfMod PROVE FALSE
        BY <1>2, ModuliTypes
    <2>2. q * HalfMod >= HalfMod * HalfMod
        BY <2>1, <1>2, ModuliTypes
    <2>3. w >= q * HalfMod
        BY <1>1, <1>2, ModuliTypes
    <2> QED BY <2>2, <2>3, <1>1, <1>2, ModuliTypes DEF WordMod
<1>4. q * HalfMod \in Word /\ q * HalfMod <= WordMod - HalfMod
    <2>1. q \in Half
        BY <1>2, <1>3, ModuliTypes DEF Half
    <2>2. q * HalfMod <= (HalfMod - 1) * HalfMod
        BY <1>2, <1>3, ModuliTypes
    <2>3. (HalfMod - 1) * HalfMod = WordMod - HalfMod
        BY ModuliTypes DEF WordMod
    <2> QED BY <2>1, <2>2, <2>3, UpperHalfType, <1>2, ModuliTypes
<1> HIDE DEF q
<1> QED BY <1>1, <1>2, <1>4, ModuliTypes DEF Word

(* A word assembled from four bytes is a word. *)
LEMMA AssembleType ==
    ASSUME NEW b0 \in Byte, NEW b1 \in Byte, NEW b2 \in Byte, NEW b3 \in Byte
    PROVE  Assemble(b0, b1, b2, b3) \in Word
<1>1. \A n \in Nat, b \in Byte : \A x \in 0..(n - 1) : b + ByteMod * x \in 0..(n * ByteMod - 1)
    <2> SUFFICES ASSUME NEW n \in Nat, NEW b \in Byte, NEW x \in 0..(n - 1)
                 PROVE  b + ByteMod * x \in 0..(n * ByteMod - 1)
        OBVIOUS
    <2>1. b \in Int /\ 0 <= b /\ b <= ByteMod - 1 /\ x \in Int /\ 0 <= x /\ x <= n - 1
        BY ModuliTypes DEF Byte
    <2>2. ByteMod * x \in Int /\ 0 <= ByteMod * x /\ ByteMod * x <= ByteMod * (n - 1)
        BY <2>1, ModuliTypes
    <2>3. ByteMod * (n - 1) = n * ByteMod - ByteMod
        BY ModuliTypes
    <2> QED BY <2>1, <2>2, <2>3, ModuliTypes
<1> DEFINE c2 == b2 + ByteMod * b3
           c1 == b1 + ByteMod * c2
           c0 == b0 + ByteMod * c1
<1>2. c2 \in 0..(HalfMod - 1)
    BY <1>1, ModuliTypes DEF Byte, HalfMod
<1> HIDE DEF c2
<1>3. c1 \in 0..(HalfMod * ByteMod - 1)
    BY <1>1, <1>2, ModuliTypes
<1> HIDE DEF c1
<1>4. HalfMod * ByteMod \in Nat /\ (HalfMod * ByteMod) * ByteMod = WordMod
    BY ModuliTypes DEF WordMod, HalfMod
<1>5. c0 \in 0..((HalfMod * ByteMod) * ByteMod - 1)
    BY <1>1, <1>3, <1>4
<1> QED BY <1>4, <1>5 DEF Assemble, c1, c2, Word

LEMMA LaneType == ASSUME NEW w \in Word, NEW k \in 0..3 PROVE Lane(w, k) \in Byte
<1>1. <<1, ByteMod, HalfMod, HalfMod * ByteMod>>[k + 1] \in Nat \ {0}
    BY ModuliTypes
<1> DEFINE m == <<1, ByteMod, HalfMod, HalfMod * ByteMod>>[k + 1]
<1> HIDE DEF m
<1>2. m \in Nat \ {0}
    BY <1>1 DEF m
<1>3. w \div m \in Int
    BY <1>2, ModuliTypes DEF Word
<1>4. (w \div m) % ByteMod \in Byte
    BY <1>3, ModuliTypes DEF Byte
<1> QED BY <1>4 DEF Lane, m

(* Moving a word by 4 and back changes nothing: what undoing a push, a pop *)
(* or the advance of the program counter relies on.                        *)
LEMMA WrapRoundTrip ==
    ASSUME NEW x \in Word
    PROVE  Wrap(Wrap(x + 4) - 4) = x /\ Wrap(Wrap(x - 4) + 4) = x
<1>1. CASE x + 4 < WordMod /\ x >= 4
    BY <1>1, ModuliTypes DEF Word, Wrap
<1>2. CASE x + 4 >= WordMod /\ x >= 4
    BY <1>2, ModuliTypes DEF Word, Wrap
<1>3. CASE x < 4
    BY <1>3, ModuliTypes DEF Word, Wrap
<1> QED BY <1>1, <1>2, <1>3, ModuliTypes DEF Word
-----------------------------------------------------------------------------
(* Division: the quotient and the remainder are the only numbers that do   *)
(* what they are for, and dividing twice is dividing by the product.       *)
LEMMA Division ==
    ASSUME NEW x \in Int, NEW d \in Nat \ {0}
    PROVE  /\ x \div d \in Int /\ x % d \in Int
           /\ x = (x \div d) * d + (x % d)
           /\ 0 <= x % d /\ x % d < d
OBVIOUS

LEMMA Quotient ==
    ASSUME NEW d \in Nat \ {0}, NEW q \in Int, NEW r \in Int, 0 <= r, r < d
    PROVE  (q * d + r) \div d = q /\ (q * d + r) % d = r
<1> DEFINE x == q * d + r
           y == x \div d
           s == x % d
<1>1. x \in Int /\ x = q * d + r
    OBVIOUS
<1>2. y \in Int /\ s \in Int /\ x = y * d + s /\ 0 <= s /\ s < d
    <2> HIDE DEF x
    <2> QED BY <1>1, Division
<1> HIDE DEF x, y, s
<1>3. (y - q) * d = r - s /\ (q - y) * d = s - r
    <2>1. y * d + s = q * d + r
        BY <1>1, <1>2
    <2>2. (y - q) * d = y * d - q * d /\ (q - y) * d = q * d - y * d
        BY <1>2
    <2> QED BY <1>2, <2>1, <2>2
<1>4. ~(y - q >= 1)
    <2>1. SUFFICES ASSUME y - q >= 1 PROVE FALSE
        OBVIOUS
    <2>2. (y - q) * d >= 1 * d
        BY <2>1, <1>2
    <2> QED BY <2>2, <1>2, <1>3
<1>5. ~(q - y >= 1)
    <2>1. SUFFICES ASSUME q - y >= 1 PROVE FALSE
        OBVIOUS
    <2>2. (q - y) * d >= 1 * d
        BY <2>1, <1>2
    <2> QED BY <2>2, <1>2, <1>3
<1>6. y = q
    BY <1>2, <1>4, <1>5
<1>7. s = r
    BY <1>1, <1>2, <1>6
<1> QED BY <1>6, <1>7 DEF x, y, s

LEMMA DivideTwice ==
    ASSUME NEW x \in Int, NEW a \in Nat \ {0}, NEW b \in Nat \ {0}
    PROVE  (x \div a) \div b = x \div (a * b)
<1> DEFINE y == x \div a
           r == x % a
           q == y \div b
           s == y % b
<1>1. y \in Int /\ r \in Int /\ x = y * a + r /\ 0 <= r /\ r < a
    BY Division
<1>2. q \in Int /\ s \in Int /\ y = q * b + s /\ 0 <= s /\ s < b
    <2> HIDE DEF y
    <2> QED BY <1>1, Division
<1> HIDE DEF y, r, q, s
<1>3. x = q * (a * b) + (s * a + r)
    <2>1. x = (q * b + s) * a + r
        BY <1>1, <1>2
    <2> QED BY <1>1, <1>2, <2>1
<1>4. s * a + r \in Int /\ 0 <= s * a + r
    BY <1>1, <1>2
<1>5. s * a + r < a * b
    <2>1. s * a <= (b - 1) * a
        BY <1>2
    <2>2. (b - 1) * a = a * b - a
        OBVIOUS
    <2>3. s * a \in Int /\ a * b \in Int
        BY <1>2
    <2> QED BY <1>1, <2>1, <2>2, <2>3
<1>6. a * b \in Nat \ {0}
    OBVIOUS
<1> DEFINE t == s * a + r
           c == a * b
<1>7. x = q * c + t /\ t \in Int /\ 0 <= t /\ t < c /\ c \in Nat \ {0}
    BY <1>3, <1>4, <1>5, <1>6
<1>8. x \div c = q
    <2> HIDE DEF t, c
    <2> QED BY <1>2, <1>7, Quotient
<1> QED BY <1>8 DEF q, y, c
-----------------------------------------------------------------------------
(* The bits of a number: the first is its remainder by 2, and the others   *)
(* are the bits of its half.                                               *)
LEMMA BitsOfHalf ==
    ASSUME NEW x \in Nat
    PROVE  /\ x \div 2 \in Nat /\ x = 2 * (x \div 2) + (x % 2)
           /\ Bit(x, 0) = x % 2
           /\ \A i \in Nat : Bit(x, i) \in {0, 1} /\ Bit(x, i + 1) = Bit(x \div 2, i)
<1>1. x \div 2 \in Nat /\ x = 2 * (x \div 2) + (x % 2)
    OBVIOUS
<1>2. Bit(x, 0) = x % 2
    BY Pow2Step DEF Bit
<1>3. ASSUME NEW i \in Nat PROVE Bit(x, i) \in {0, 1}
    <2>1. Pow2[i] \in Nat \ {0}
        BY Pow2Type
    <2>2. x \div Pow2[i] \in Int
        BY <2>1, Division
    <2> QED BY <2>2 DEF Bit
<1>4. ASSUME NEW i \in Nat PROVE Bit(x, i + 1) = Bit(x \div 2, i)
    <2>1. Pow2[i] \in Nat \ {0} /\ Pow2[i + 1] = 2 * Pow2[i]
        BY Pow2Type, Pow2Step
    <2>2. (x \div 2) \div Pow2[i] = x \div (2 * Pow2[i])
        BY <2>1, DivideTwice
    <2> QED BY <2>1, <2>2 DEF Bit
<1> QED BY <1>1, <1>2, <1>3, <1>4

(* Two numbers of n bits with the same bits are the same. *)
LEMMA BitsDetermine ==
    \A n \in Nat : \A x, y \in 0..(Pow2[n] - 1) :
        (\A i \in 0..(n - 1) : Bit(x, i) = Bit(y, i)) => x = y
<1> DEFINE S == {n \in Nat : \A x, y \in 0..(Pow2[n] - 1) :
                     (\A i \in 0..(n - 1) : Bit(x, i) = Bit(y, i)) => x = y}
<1>1. 0 \in S
    BY Pow2Step
<1>2. ASSUME NEW n \in Nat, n \in S PROVE n + 1 \in S
    <2> SUFFICES ASSUME NEW x \in 0..(Pow2[n + 1] - 1), NEW y \in 0..(Pow2[n + 1] - 1),
                        \A i \in 0..n : Bit(x, i) = Bit(y, i)
                 PROVE  x = y
        <3>1. (n + 1) - 1 = n
            OBVIOUS
        <3> QED BY <3>1
    <2>1. Pow2[n] \in Nat \ {0} /\ Pow2[n + 1] = 2 * Pow2[n]
        BY Pow2Type, Pow2Step
    <2>2. x \in Nat /\ y \in Nat
        BY <2>1
    <2>3. x \div 2 \in 0..(Pow2[n] - 1) /\ y \div 2 \in 0..(Pow2[n] - 1)
        BY <2>1
    <2>4. ASSUME NEW i \in 0..(n - 1) PROVE Bit(x \div 2, i) = Bit(y \div 2, i)
        <3>1. i \in Nat /\ i + 1 \in 0..n
            OBVIOUS
        <3>2. Bit(x, i + 1) = Bit(x \div 2, i) /\ Bit(y, i + 1) = Bit(y \div 2, i)
            BY <2>2, <3>1, BitsOfHalf
        <3> QED BY <3>1, <3>2
    <2>5. x \div 2 = y \div 2
        BY <1>2, <2>3, <2>4
    <2>6. x % 2 = y % 2
        <3>1. Bit(x, 0) = x % 2 /\ Bit(y, 0) = y % 2 /\ 0 \in 0..n
            BY <2>2, BitsOfHalf
        <3> QED BY <3>1
    <2> QED BY <2>2, <2>5, <2>6, BitsOfHalf
<1> HIDE DEF S
<1>3. Nat \subseteq S
    BY <1>1, <1>2, SetInduction
<1> QED BY <1>3 DEF S

(* Any n bits are the bits of a number of n bits. *)
LEMMA BitsExist ==
    \A n \in Nat : \A f \in [Nat -> {0, 1}] : \E x \in 0..(Pow2[n] - 1) :
        \A i \in 0..(n - 1) : Bit(x, i) = f[i]
<1> DEFINE S == {n \in Nat : \A f \in [Nat -> {0, 1}] : \E x \in 0..(Pow2[n] - 1) :
                     \A i \in 0..(n - 1) : Bit(x, i) = f[i]}
<1>1. 0 \in S
    <2>1. 0 \in 0..(Pow2[0] - 1) /\ 0..(0 - 1) = {}
        BY Pow2Step
    <2> QED BY <2>1
<1>2. ASSUME NEW n \in Nat, n \in S PROVE n + 1 \in S
    <2> SUFFICES ASSUME NEW f \in [Nat -> {0, 1}]
                 PROVE  \E x \in 0..(Pow2[n + 1] - 1) : \A i \in 0..n : Bit(x, i) = f[i]
        <3>1. (n + 1) - 1 = n
            OBVIOUS
        <3> QED BY <3>1
    <2> DEFINE rest == [i \in Nat |-> f[i + 1]]
    <2>1. rest \in [Nat -> {0, 1}]
        OBVIOUS
    <2>2. PICK y \in 0..(Pow2[n] - 1) : \A i \in 0..(n - 1) : Bit(y, i) = rest[i]
        BY <1>2, <2>1
    <2> DEFINE x == 2 * y + f[0]
    <2>3. Pow2[n] \in Nat \ {0} /\ Pow2[n + 1] = 2 * Pow2[n] /\ f[0] \in {0, 1}
        BY Pow2Type, Pow2Step
    <2>4. x \in 0..(Pow2[n + 1] - 1) /\ x \in Nat /\ x \div 2 = y /\ x % 2 = f[0]
        BY <2>3
    <2> HIDE DEF x
    <2>5. ASSUME NEW i \in 0..n PROVE Bit(x, i) = f[i]
        <3>1. CASE i = 0
            BY <2>4, <3>1, BitsOfHalf
        <3>2. CASE i # 0
            <4>1. i - 1 \in 0..(n - 1) /\ i - 1 \in Nat /\ (i - 1) + 1 = i
                BY <3>2
            <4>2. Bit(x, (i - 1) + 1) = Bit(x \div 2, i - 1)
                BY <2>4, <4>1, BitsOfHalf
            <4>3. Bit(y, i - 1) = rest[i - 1] /\ rest[i - 1] = f[(i - 1) + 1]
                BY <2>2, <4>1
            <4> QED BY <2>4, <4>1, <4>2, <4>3
        <3> QED BY <3>1, <3>2
    <2> QED BY <2>4, <2>5
<1> HIDE DEF S
<1>3. Nat \subseteq S
    BY <1>1, <1>2, SetInduction
<1> QED BY <1>3 DEF S

(* The width of a word in bits is the one of its modulus. *)
LEMMA WordIsPow2 == WordBits \in Nat \ {0} /\ WordMod = Pow2[WordBits]
<1>1. ByteBits \in Nat \ {0} /\ ByteMod = Pow2[ByteBits] /\ ByteMod \in Nat
    BY WordsAssumption
<1>2. Pow2[ByteBits + ByteBits] = HalfMod
    BY <1>1, Pow2Sum DEF HalfMod
<1>3. Pow2[(ByteBits + ByteBits) + (ByteBits + ByteBits)] = HalfMod * HalfMod
    BY <1>1, <1>2, Pow2Sum
<1>4. (ByteBits + ByteBits) + (ByteBits + ByteBits) = WordBits
    BY <1>1 DEF WordBits
<1> QED BY <1>1, <1>3, <1>4 DEF WordBits, WordMod

(* Whatever bits are asked for, WithBits has the one word with these bits. *)
LEMMA WithBitsOfWord ==
    ASSUME NEW f, NEW t \in Word, \A i \in BitIndices : Bit(t, i) = f[i]
    PROVE  WithBits(f) = {t}
<1>1. t \in WithBits(f)
    BY DEF WithBits
<1>2. ASSUME NEW s \in WithBits(f) PROVE s = t
    <2>1. s \in 0..(Pow2[WordBits] - 1) /\ t \in 0..(Pow2[WordBits] - 1)
        BY WordIsPow2 DEF WithBits, Word
    <2>2. \A i \in 0..(WordBits - 1) : Bit(s, i) = Bit(t, i)
        BY DEF WithBits, BitIndices
    <2> QED BY <2>1, <2>2, BitsDetermine, WordIsPow2
<1> QED BY <1>1, <1>2

LEMMA WithBitsExists ==
    ASSUME NEW f \in [BitIndices -> {0, 1}] PROVE \E t \in Word : WithBits(f) = {t}
<1> DEFINE g == [i \in Nat |-> IF i \in BitIndices THEN f[i] ELSE 0]
<1>1. g \in [Nat -> {0, 1}]
    OBVIOUS
<1>2. PICK t \in 0..(Pow2[WordBits] - 1) : \A i \in 0..(WordBits - 1) : Bit(t, i) = g[i]
    BY <1>1, BitsExist, WordIsPow2
<1>3. t \in Word
    BY WordIsPow2 DEF Word
<1>4. \A i \in BitIndices : Bit(t, i) = f[i]
    BY <1>2, WordIsPow2 DEF BitIndices
<1> QED BY <1>3, <1>4, WithBitsOfWord
=============================================================================
