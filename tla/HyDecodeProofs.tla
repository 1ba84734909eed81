--------------------------- MODULE HyDecodeProofs ---------------------------
(***************************************************************************)
(* The decoder and the disassembler, for every word of 32 bits and every   *)
(* content of the latches before: types, the layout of the encodings, and  *)
(* the agreement of the two opcode tables.                                 *)
(***************************************************************************)
EXTENDS HyDisas, HyInduction

Instruction == [BitNumbers -> {0, 1}]

(* f has the numbers in the bits from each i to e - 1: what BITS computes. *)
Numbers(f, w, a, e) == f = [i \in a..e |-> IF i = e THEN 0 ELSE w[i] + 2 * f[i + 1]]

(* There is such a function, by the recursion theorem. *)
LEMMA NumbersExist ==
    ASSUME NEW w \in Instruction, NEW a \in Nat, NEW e \in 0..32, a <= e
    PROVE  \E f : Numbers(f, w, a, e)
<1> DEFINE H == [p \in Nat \X Nat |->
                    (IF (e - 1) - p[1] \in BitNumbers THEN w[(e - 1) - p[1]] ELSE 0) + 2 * p[2]]
<1>1. \A i \in BitNumbers : w[i] \in Nat
    BY DEF Instruction
<1>2. H \in [Nat \X Nat -> Nat] /\ 0 \in Nat
    BY <1>1
<1> HIDE DEF H
<1>3. PICK g : Follows(g, Nat, 0, H)
    BY <1>2, RecursionExists
<1> DEFINE f == [i \in a..e |-> g[e - i]]
<1>4. ASSUME NEW i \in a..e PROVE f[i] = IF i = e THEN 0 ELSE w[i] + 2 * f[i + 1]
    <2>1. CASE i = e
        <3>1. g[e - i] = g[0]
            BY <2>1
        <3> QED BY <1>3, <2>1, <3>1 DEF Follows
    <2>2. CASE i # e
        <3> DEFINE n == e - (i + 1)
        <3>1. /\ n \in Nat /\ n + 1 = e - i /\ (e - 1) - n = i
              /\ i \in BitNumbers /\ i + 1 \in a..e
            BY <2>2 DEF BitNumbers
        <3> HIDE DEF n
        <3>2. g[n + 1] = H[<<n, g[n]>>] /\ g[n] \in Nat
            BY <1>3, <3>1 DEF Follows
        <3>3. H[<<n, g[n]>>] = w[i] + 2 * g[n]
            BY <3>1, <3>2 DEF H
        <3>4. f[i] = g[n + 1] /\ f[i + 1] = g[n]
            BY <3>1 DEF n
        <3> QED BY <2>2, <3>2, <3>3, <3>4
    <2> QED BY <2>1, <2>2
<1>5. Numbers(f, w, a, e)
    BY <1>4 DEF Numbers
<1> QED BY <1>5

(* They do not depend on where the field begins. *)
LEMMA NumbersAgree ==
    ASSUME NEW w \in Instruction, NEW a \in Nat, NEW e \in Nat, NEW f, NEW g,
           a < e, Numbers(f, w, a, e), Numbers(g, w, a + 1, e)
    PROVE  \A i \in (a + 1)..e : f[i] = g[i]
<1> DEFINE S == {n \in Nat : n <= e - (a + 1) => f[e - n] = g[e - n]}
<1>1. 0 \in S
    <2>1. e \in a..e /\ e \in (a + 1)..e /\ e - 0 = e
        OBVIOUS
    <2> QED BY <2>1 DEF Numbers
<1>2. ASSUME NEW n \in Nat, n \in S PROVE n + 1 \in S
    <2> SUFFICES ASSUME n + 1 <= e - (a + 1) PROVE f[e - (n + 1)] = g[e - (n + 1)]
        OBVIOUS
    <2> DEFINE i == e - (n + 1)
    <2>1. i \in a..e /\ i \in (a + 1)..e /\ i # e /\ i + 1 = e - n
        OBVIOUS
    <2> HIDE DEF i
    <2>2. f[i] = w[i] + 2 * f[i + 1] /\ g[i] = w[i] + 2 * g[i + 1]
        BY <2>1 DEF Numbers
    <2>3. f[i + 1] = g[i + 1]
        BY <1>2, <2>1
    <2> QED BY <2>2, <2>3 DEF i
<1> HIDE DEF S
<1>3. Nat \subseteq S
    BY <1>1, <1>2, SetInduction
<1>4. ASSUME NEW i \in (a + 1)..e PROVE f[i] = g[i]
    <2>1. e - i \in Nat /\ e - (e - i) = i /\ e - i <= e - (a + 1)
        OBVIOUS
    <2> QED BY <1>3, <2>1 DEF S
<1> QED BY <1>4

(* BITS is its first value. *)
LEMMA BITSIsNumbers ==
    ASSUME NEW w \in Instruction, NEW b \in Nat, NEW l \in Nat, b + l <= 32
    PROVE  \E f : Numbers(f, w, b, b + l) /\ BITS(w, b, l) = f[b]
<1>1. b + l \in 0..32 /\ b <= b + l
    OBVIOUS
<1>2. \E f : Numbers(f, w, b, b + l)
    BY <1>1, NumbersExist
<1> DEFINE from == CHOOSE f :
               f = [i \in b..(b + l) |-> IF i = b + l THEN 0 ELSE w[i] + 2 * f[i + 1]]
<1>3. Numbers(from, w, b, b + l)
    BY <1>2 DEF Numbers
<1>4. BITS(w, b, l) = from[b]
    BY DEF BITS
<1> QED BY <1>3, <1>4

(* A field of no bits is 0; otherwise its first bit is the least           *)
(* significant one.                                                        *)
LEMMA BITSStep ==
    ASSUME NEW w \in Instruction, NEW b \in Nat, NEW l \in Nat
    PROVE  /\ b <= 32 => BITS(w, b, 0) = 0
           /\ b + l + 1 <= 32 => BITS(w, b, l + 1) = w[b] + 2 * BITS(w, b + 1, l)
<1>1. ASSUME b <= 32 PROVE BITS(w, b, 0) = 0
    <2>1. b + 0 = b /\ b + 0 <= 32 /\ 0 \in Nat
        BY <1>1
    <2>2. PICK f : Numbers(f, w, b, b + 0) /\ BITS(w, b, 0) = f[b]
        BY <2>1, BITSIsNumbers
    <2> QED BY <2>1, <2>2 DEF Numbers
<1>2. ASSUME b + l + 1 <= 32 PROVE BITS(w, b, l + 1) = w[b] + 2 * BITS(w, b + 1, l)
    <2> DEFINE e == b + (l + 1)
    <2>1. e = (b + 1) + l /\ e <= 32 /\ b < e /\ l + 1 \in Nat /\ b + 1 \in Nat /\ e \in Nat
        BY <1>2
    <2>2. PICK f : Numbers(f, w, b, e) /\ BITS(w, b, l + 1) = f[b]
        BY <2>1, BITSIsNumbers
    <2>3. PICK g : Numbers(g, w, b + 1, e) /\ BITS(w, b + 1, l) = g[b + 1]
        <3>1. (b + 1) + l <= 32
            BY <2>1
        <3>2. \E g : Numbers(g, w, b + 1, (b + 1) + l) /\ BITS(w, b + 1, l) = g[b + 1]
            BY <2>1, <3>1, BITSIsNumbers
        <3> QED BY <2>1, <3>2
    <2> HIDE DEF e
    <2>4. f[b + 1] = g[b + 1]
        <3>1. \A i \in (b + 1)..e : f[i] = g[i]
            BY <2>1, <2>2, <2>3, NumbersAgree
        <3>2. b + 1 \in (b + 1)..e
            BY <2>1
        <3> QED BY <3>1, <3>2
    <2>5. f[b] = w[b] + 2 * f[b + 1]
        <3>1. b \in b..e /\ b # e
            BY <2>1
        <3> QED BY <2>2, <3>1 DEF Numbers
    <2> QED BY <2>2, <2>3, <2>4, <2>5
<1> QED BY <1>1, <1>2

(* A bit more doubles the range. *)
LEMMA BITSDoubles ==
    ASSUME NEW w \in Instruction, NEW l \in 0..31, NEW m \in Nat,
           \A b \in 0..(32 - l) : BITS(w, b, l) \in 0..(m - 1)
    PROVE  \A b \in 0..(32 - (l + 1)) : BITS(w, b, l + 1) \in 0..(2 * m - 1)
<1> SUFFICES ASSUME NEW b \in 0..(32 - (l + 1)) PROVE BITS(w, b, l + 1) \in 0..(2 * m - 1)
    OBVIOUS
<1>1. b \in Nat /\ l \in Nat /\ b + l + 1 <= 32 /\ b + 1 \in 0..(32 - l) /\ b \in BitNumbers
    BY DEF BitNumbers
<1>2. BITS(w, b, l + 1) = w[b] + 2 * BITS(w, b + 1, l)
    BY <1>1, BITSStep
<1>3. BITS(w, b + 1, l) \in 0..(m - 1) /\ w[b] \in {0, 1}
    BY <1>1 DEF Instruction
<1> QED BY <1>2, <1>3

(* Every field is a number. *)
LEMMA BITSNumber ==
    ASSUME NEW w \in Instruction, NEW b \in Nat, NEW l \in Nat, b + l <= 32
    PROVE  BITS(w, b, l) \in Nat
<1> DEFINE S == {k \in Nat : \A a \in Nat : a + k <= 32 => BITS(w, a, k) \in Nat}
<1>1. 0 \in S
    BY BITSStep
<1>2. ASSUME NEW k \in S PROVE k + 1 \in S
    <2> SUFFICES ASSUME NEW a \in Nat, a + (k + 1) <= 32 PROVE BITS(w, a, k + 1) \in Nat
        OBVIOUS
    <2>1. BITS(w, a, k + 1) = w[a] + 2 * BITS(w, a + 1, k)
        BY BITSStep
    <2>2. w[a] \in Nat
        BY DEF Instruction, BitNumbers
    <2>3. BITS(w, a + 1, k) \in Nat
        OBVIOUS
    <2> QED BY <2>1, <2>2, <2>3
<1>3. Nat \subseteq S
    <2> HIDE DEF S
    <2> QED BY <1>1, <1>2, SetInduction
<1> QED BY <1>3

(* A field of l bits is below 2^l. *)
LEMMA BITSTypes ==
    ASSUME NEW w \in Instruction
    PROVE  /\ \A b \in 0..30 : BITS(w, b, 2) \in 0..3
           /\ \A b \in 0..27 : BITS(w, b, 5) \in 0..31
           /\ \A b \in 0..24 : BITS(w, b, 8) \in 0..255
           /\ \A b \in 0..16 : BITS(w, b, 16) \in Imm16
<1> DEFINE R(l, m) == \A b \in 0..(32 - l) : BITS(w, b, l) \in 0..(m - 1)
<1>0. R(0, 1)
    BY BITSStep
<1>d. \A l \in 0..31 : \A m \in Nat : R(l, m) => R(l + 1, 2 * m)
    BY BITSDoubles
<1> HIDE DEF R
<1>1. R(1, 2)
    BY <1>d, <1>0
<1>2. R(2, 4)
    BY <1>d, <1>1
<1>3. R(3, 8)
    BY <1>d, <1>2
<1>4. R(4, 16)
    BY <1>d, <1>3
<1>5. R(5, 32)
    BY <1>d, <1>4
<1>6. R(6, 64)
    BY <1>d, <1>5
<1>7. R(7, 128)
    BY <1>d, <1>6
<1>8. R(8, 256)
    BY <1>d, <1>7
<1>9. R(9, 256 * 2)
    BY <1>d, <1>8
<1>10. R(10, 256 * 4)
    BY <1>d, <1>9
<1>11. R(11, 256 * 8)
    BY <1>d, <1>10
<1>12. R(12, 256 * 16)
    BY <1>d, <1>11
<1>13. R(13, 256 * 32)
    BY <1>d, <1>12
<1>14. R(14, 256 * 64)
    BY <1>d, <1>13
<1>15. R(15, 256 * 128)
    BY <1>d, <1>14
<1>16. R(16, 256 * 256)
    BY <1>d, <1>15
<1> USE DEF R
<1>17. \A b \in 0..30 : BITS(w, b, 2) \in 0..3
    BY <1>2
<1>18. \A b \in 0..27 : BITS(w, b, 5) \in 0..31
    BY <1>5
<1>19. \A b \in 0..24 : BITS(w, b, 8) \in 0..255
    BY <1>8
<1>20. \A b \in 0..16 : BITS(w, b, 16) \in Imm16
    <2>1. 0..(32 - 16) = 0..16
        OBVIOUS
    <2> QED BY <1>16, <2>1 DEF Imm16
<1> QED BY <1>17, <1>18, <1>19, <1>20
-----------------------------------------------------------------------------
(* A latch has one place, whatever encoding it belongs to. *)
Place ==
    [fieldx |-> <<10, 5>>, fieldy |-> <<15, 5>>, fieldz |-> <<20, 5>>, fieldw |-> <<25, 5>>,
     imm8 |-> <<20, 8>>, imm16 |-> <<15, 16>>, size |-> <<30, 2>>]

(* Every encoding puts its fields in their places. *)
LEMMA FieldsPlaced ==
    ASSUME NEW e \in 0..3
    PROVE  /\ DOMAIN Fields(e) \subseteq DOMAIN Place
           /\ \A f \in DOMAIN Fields(e) : Fields(e)[f] = Place[f]
<1>1. CASE e = 0
    BY <1>1 DEF Fields, Place
<1>2. CASE e = 1
    BY <1>2 DEF Fields, Place
<1>3. CASE e = 2
    BY <1>3 DEF Fields, Place
<1>4. CASE e = 3
    BY <1>4 DEF Fields, Place
<1> QED BY <1>1, <1>2, <1>3, <1>4

(* What hyrisc_decode leaves in each latch. *)
LEMMA DecodedLatches ==
    ASSUME NEW d, NEW w \in Instruction
    PROVE  /\ Decoded(d, w).opcode = BITS(w, 0, 8)
           /\ Decoded(d, w).encoding = BITS(w, 8, 2) /\ BITS(w, 8, 2) \in 0..3
           /\ \A f \in DOMAIN Place :
                  Decoded(d, w)[f] = IF f \in DOMAIN Fields(BITS(w, 8, 2))
                                     THEN BITS(w, Place[f][1], Place[f][2]) ELSE 0
<1>1. BITS(w, 8, 2) \in 0..3
    <2>1. 8 \in 0..30
        OBVIOUS
    <2> QED BY <2>1, BITSTypes
<1> DEFINE e == BITS(w, 8, 2)
<1> HIDE DEF e
<1>2. \A f \in LatchNames :
          Decoded(d, w)[f] = CASE f = "opcode" -> BITS(w, 0, 8)
                               [] f = "encoding" -> e
                               [] f \in DOMAIN Fields(e) ->
                                      BITS(w, Fields(e)[f][1], Fields(e)[f][2])
                               [] OTHER -> Memset(d)[f]
    BY DEF Decoded, e
<1>3. \A f \in LatchNames : Memset(d)[f] = 0
    BY DEF Memset
<1>4. DOMAIN Place = LatchNames \ {"opcode", "encoding"}
    BY DEF Place, LatchNames
<1>5. "opcode" \in LatchNames /\ "encoding" \in LatchNames
    BY DEF LatchNames
<1>6. ASSUME NEW f \in DOMAIN Place
      PROVE  Decoded(d, w)[f] = IF f \in DOMAIN Fields(e)
                                THEN BITS(w, Place[f][1], Place[f][2]) ELSE 0
    <2>1. f \in LatchNames /\ f # "opcode" /\ f # "encoding"
        BY <1>4
    <2>2. CASE f \in DOMAIN Fields(e)
        <3>1. Fields(e)[f] = Place[f]
            BY <1>1, <2>2, FieldsPlaced DEF e
        <3> QED BY <1>2, <2>1, <2>2, <3>1
    <2>3. CASE f \notin DOMAIN Fields(e)
        BY <1>2, <1>3, <2>1, <2>3
    <2> QED BY <2>2, <2>3
<1>7. Decoded(d, w)["opcode"] = BITS(w, 0, 8) /\ Decoded(d, w)["encoding"] = e
    <2>1. "opcode" \notin DOMAIN Fields(e) /\ "encoding" \notin DOMAIN Fields(e)
        BY <1>1, <1>4, FieldsPlaced DEF e
    <2> QED BY <1>2, <1>5, <2>1
<1> QED BY <1>1, <1>6, <1>7 DEF e

(* The fields of the encodings. *)
LEMMA FieldTypes ==
    ASSUME NEW w \in Instruction
    PROVE  /\ BITS(w, 0, 8) \in 0..255 /\ BITS(w, 8, 2) \in 0..3
           /\ BITS(w, 10, 5) \in 0..31 /\ BITS(w, 15, 5) \in 0..31
           /\ BITS(w, 20, 5) \in 0..31 /\ BITS(w, 25, 5) \in 0..31
           /\ BITS(w, 20, 8) \in 0..255 /\ BITS(w, 15, 16) \in Imm16
           /\ BITS(w, 30, 2) \in 0..3
<1>1. BITS(w, 0, 8) \in 0..255
    <2>1. 0 \in 0..24
        OBVIOUS
    <2> QED BY <2>1, BITSTypes
<1>2. BITS(w, 8, 2) \in 0..3
    <2>1. 8 \in 0..30
        OBVIOUS
    <2> QED BY <2>1, BITSTypes
<1>3. BITS(w, 10, 5) \in 0..31
    <2>1. 10 \in 0..27
        OBVIOUS
    <2> QED BY <2>1, BITSTypes
<1>4. BITS(w, 15, 5) \in 0..31
    <2>1. 15 \in 0..27
        OBVIOUS
    <2> QED BY <2>1, BITSTypes
<1>5. BITS(w, 20, 5) \in 0..31
    <2>1. 20 \in 0..27
        OBVIOUS
    <2> QED BY <2>1, BITSTypes
<1>6. BITS(w, 25, 5) \in 0..31
    <2>1. 25 \in 0..27
        OBVIOUS
    <2> QED BY <2>1, BITSTypes
<1>7. BITS(w, 20, 8) \in 0..255
    <2>1. 20 \in 0..24
        OBVIOUS
    <2> QED BY <2>1, BITSTypes
<1>8. BITS(w, 15, 16) \in Imm16
    <2>1. 15 \in 0..16
        OBVIOUS
    <2> QED BY <2>1, BITSTypes
<1>9. BITS(w, 30, 2) \in 0..3
    <2>1. 30 \in 0..30
        OBVIOUS
    <2> QED BY <2>1, BITSTypes
<1> QED BY <1>1, <1>2, <1>3, <1>4, <1>5, <1>6, <1>7, <1>8, <1>9

(* hyrisc_decode leaves values in the latches that fit them. *)
LEMMA DecodedType == ASSUME NEW d, NEW w \in Instruction PROVE Decoded(d, w) \in Latches
<1> DEFINE D == Decoded(d, w)
<1>1. D["opcode"] \in 0..255 /\ D["encoding"] \in 0..3
    BY FieldTypes, DecodedLatches
<1>2. D["fieldx"] \in 0..31
    <2>1. "fieldx" \in DOMAIN Place /\ Place["fieldx"][1] = 10 /\ Place["fieldx"][2] = 5
        BY DEF Place
    <2>2. D["fieldx"] \in {0, BITS(w, 10, 5)}
        BY <2>1, DecodedLatches
    <2> QED BY <2>2, FieldTypes
<1>3. D["fieldy"] \in 0..31
    <2>1. "fieldy" \in DOMAIN Place /\ Place["fieldy"][1] = 15 /\ Place["fieldy"][2] = 5
        BY DEF Place
    <2>2. D["fieldy"] \in {0, BITS(w, 15, 5)}
        BY <2>1, DecodedLatches
    <2> QED BY <2>2, FieldTypes
<1>4. D["fieldz"] \in 0..31
    <2>1. "fieldz" \in DOMAIN Place /\ Place["fieldz"][1] = 20 /\ Place["fieldz"][2] = 5
        BY DEF Place
    <2>2. D["fieldz"] \in {0, BITS(w, 20, 5)}
        BY <2>1, DecodedLatches
    <2> QED BY <2>2, FieldTypes
<1>5. D["fieldw"] \in 0..31
    <2>1. "fieldw" \in DOMAIN Place /\ Place["fieldw"][1] = 25 /\ Place["fieldw"][2] = 5
        BY DEF Place
    <2>2. D["fieldw"] \in {0, BITS(w, 25, 5)}
        BY <2>1, DecodedLatches
    <2> QED BY <2>2, FieldTypes
<1>6. D["imm8"] \in 0..255
    <2>1. "imm8" \in DOMAIN Place /\ Place["imm8"][1] = 20 /\ Place["imm8"][2] = 8
        BY DEF Place
    <2>2. D["imm8"] \in {0, BITS(w, 20, 8)}
        BY <2>1, DecodedLatches
    <2> QED BY <2>2, FieldTypes
<1>7. D["imm16"] \in Imm16
    <2>1. "imm16" \in DOMAIN Place /\ Place["imm16"][1] = 15 /\ Place["imm16"][2] = 16
        BY DEF Place
    <2>2. D["imm16"] \in {0, BITS(w, 15, 16)}
        BY <2>1, DecodedLatches
    <2>3. 0 \in Imm16
        BY DEF Imm16
    <2> QED BY <2>2, <2>3, FieldTypes
<1>8. D["size"] \in 0..3
    <2>1. "size" \in DOMAIN Place /\ Place["size"][1] = 30 /\ Place["size"][2] = 2
        BY DEF Place
    <2>2. D["size"] \in {0, BITS(w, 30, 2)}
        BY <2>1, DecodedLatches
    <2> QED BY <2>2, FieldTypes
<1>9. D = [f \in LatchNames |-> D[f]]
    BY DEF Decoded
<1> HIDE DEF D
<1>10. D = [opcode |-> D["opcode"], encoding |-> D["encoding"], fieldx |-> D["fieldx"],
            fieldy |-> D["fieldy"], fieldz |-> D["fieldz"], fieldw |-> D["fieldw"],
            imm8 |-> D["imm8"], imm16 |-> D["imm16"], size |-> D["size"]]
    BY <1>9 DEF LatchNames
<1>11. D \in Latches
    BY <1>1, <1>2, <1>3, <1>4, <1>5, <1>6, <1>7, <1>8, <1>10 DEF Latches
<1> QED BY <1>11 DEF D

(* The decoder holds what hyrisc_decode made of the instruction latch.     *)
DecoderFollows == instruction \in Instruction /\ \E d : decoder = Decoded(d, instruction)

(* The inductive invariant of the decoder. *)
LEMMA DecoderFollowsHolds == Spec => [](instruction \in Words /\ DecoderFollows)
<1>1. Init => instruction \in Words /\ DecoderFollows
    BY DecodeAssumption DEF Init, DecoderFollows, Instruction
<1>2. (instruction \in Words /\ DecoderFollows) /\ [Next]_vars
      => (instruction \in Words /\ DecoderFollows)'
    BY DecodeAssumption DEF Next, vars, DecoderFollows, Instruction
<1> QED BY <1>1, <1>2, PTL DEF Spec

(* Whatever was in the latches at power-on, and for any words: a field     *)
(* that names a register is one of 32, and the others fit their latches.   *)
THEOREM DecodeTypeCorrect == Spec => []TypeOK
<1>1. instruction \in Words /\ DecoderFollows => TypeOK
    BY DecodedType DEF DecoderFollows, TypeOK
<1> QED BY <1>1, DecoderFollowsHolds, PTL
-----------------------------------------------------------------------------
(* The drawing of the encodings is made of widths. *)
LEMMA LayoutTypes ==
    ASSUME NEW e \in 0..3
    PROVE  /\ Len(Layout[e]) \in Nat
           /\ \A k \in 1..Len(Layout[e]) : Layout[e][k][1] \in Nat
<1>1. CASE e = 0
    BY <1>1 DEF Layout
<1>2. CASE e = 1
    BY <1>2 DEF Layout
<1>3. CASE e = 2
    BY <1>3 DEF Layout
<1>4. CASE e = 3
    BY <1>4 DEF Layout
<1> QED BY <1>1, <1>2, <1>3, <1>4

(* An entry of the drawing starts where the one before it ends. *)
LEMMA OffsetUnfolds ==
    ASSUME NEW e \in 0..3
    PROVE  \A k \in 1..Len(Layout[e]) :
               Offset(e)[k] = IF k = 1 THEN 0 ELSE Offset(e)[k - 1] + Layout[e][k - 1][1]
<1> DEFINE n == Len(Layout[e])
           L == [k \in 1..n |-> Layout[e][k][1]]
           H == [p \in Nat \X Nat |-> p[2] + (IF p[1] + 1 \in 1..n THEN L[p[1] + 1] ELSE 0)]
<1>1. n \in Nat /\ L \in [1..n -> Nat]
    BY LayoutTypes
<1> HIDE DEF n, L
<1>2. H \in [Nat \X Nat -> Nat] /\ 0 \in Nat
    BY <1>1
<1> HIDE DEF H
<1>3. PICK g : Follows(g, Nat, 0, H)
    BY <1>2, RecursionExists
<1> DEFINE f == [k \in 1..n |-> g[k - 1]]
<1>4. ASSUME NEW k \in 1..n PROVE f[k] = IF k = 1 THEN 0 ELSE f[k - 1] + L[k - 1]
    <2>1. CASE k = 1
        <3>1. g[k - 1] = g[0]
            BY <2>1
        <3> QED BY <1>3, <2>1, <3>1 DEF Follows
    <2>2. CASE k # 1
        <3> DEFINE j == k - 2
        <3>1. j \in Nat /\ j + 1 = k - 1 /\ k - 1 \in 1..n /\ (k - 1) - 1 = j
            BY <1>1, <2>2
        <3> HIDE DEF j
        <3>2. g[j + 1] = H[<<j, g[j]>>] /\ g[j] \in Nat
            BY <1>3, <3>1 DEF Follows
        <3>3. H[<<j, g[j]>>] = g[j] + L[k - 1]
            BY <3>1, <3>2 DEF H
        <3>4. f[k] = g[j + 1] /\ f[k - 1] = g[j]
            BY <3>1
        <3> QED BY <2>2, <3>2, <3>3, <3>4
    <2> QED BY <2>1, <2>2
<1>5. \A k \in 1..n : k # 1 => L[k - 1] = Layout[e][k - 1][1]
    BY <1>1 DEF L
<1>6. f = [k \in 1..n |-> IF k = 1 THEN 0 ELSE f[k - 1] + Layout[e][k - 1][1]]
    BY <1>4, <1>5
<1> HIDE DEF f
<1>7. Offset(e) = [k \in 1..n |-> IF k = 1 THEN 0 ELSE Offset(e)[k - 1] + Layout[e][k - 1][1]]
    BY <1>6 DEF Offset, n
<1> QED BY <1>7 DEF n

(* Laid end to end, the fields of the drawing are where hyrisc_decode      *)
(* takes them from.                                                        *)
LayoutPlaced(e) ==
    /\ \A k \in 1..Len(Layout[e]) :
           \/ Layout[e][k][2] = "unused"
           \/ k = 1 /\ Layout[e][k] = <<8, "opcode">> /\ Offset(e)[k] = 0
           \/ k = 2 /\ Layout[e][k] = <<2, "encoding">> /\ Offset(e)[k] = 8
           \/ /\ Layout[e][k][2] \in DOMAIN Fields(e)
              /\ Place[Layout[e][k][2]] = <<Offset(e)[k], Layout[e][k][1]>>
    /\ 1 \in 1..Len(Layout[e]) /\ Layout[e][1][2] = "opcode"
    /\ 2 \in 1..Len(Layout[e]) /\ Layout[e][2][2] = "encoding"
    /\ \A f \in DOMAIN Fields(e) : \E k \in 1..Len(Layout[e]) : Layout[e][k][2] = f

(* The drawing has the opcode, the encoding and the fields, in their places. *)
LEMMA LayoutPlaced0 == LayoutPlaced(0)
<1> DEFINE L == Layout[0]
           O == Offset(0)
<1>1. /\ L[1] = <<8, "opcode">>
      /\ L[2] = <<2, "encoding">>
      /\ L[3] = <<5, "unused">>
      /\ L[4] = <<16, "unused">>
      /\ L[5] = <<1, "unused">>
      /\ Len(L) = 5
    BY DEF Layout
<1>2. \A k \in 1..5 : O[k] = IF k = 1 THEN 0 ELSE O[k - 1] + L[k - 1][1]
    BY <1>1, OffsetUnfolds
<1> HIDE DEF L, O
<1>3. O[1] = 0
    BY <1>1, <1>2
<1>4. O[2] = 8
    BY <1>1, <1>2, <1>3
<1>5. DOMAIN Fields(0) = {}
    BY DEF Fields
<1>6. Len(L) = 5 /\ \A k \in 1..5 : k = 1 \/ k = 2 \/ k = 3 \/ k = 4 \/ k = 5
    BY <1>1
<1> QED BY <1>1, <1>3, <1>4, <1>5, <1>6 DEF LayoutPlaced, L, O

LEMMA LayoutPlaced1 == LayoutPlaced(1)
<1> DEFINE L == Layout[1]
           O == Offset(1)
<1>1. /\ L[1] = <<8, "opcode">>
      /\ L[2] = <<2, "encoding">>
      /\ L[3] = <<5, "fieldx">>
      /\ L[4] = <<16, "imm16">>
      /\ L[5] = <<1, "unused">>
      /\ Len(L) = 5
    BY DEF Layout
<1>2. \A k \in 1..5 : O[k] = IF k = 1 THEN 0 ELSE O[k - 1] + L[k - 1][1]
    BY <1>1, OffsetUnfolds
<1> HIDE DEF L, O
<1>3. O[1] = 0
    BY <1>1, <1>2
<1>4. O[2] = 8
    BY <1>1, <1>2, <1>3
<1>5. O[3] = 10
    BY <1>1, <1>2, <1>4
<1>6. O[4] = 15
    BY <1>1, <1>2, <1>5
<1>7. DOMAIN Fields(1) = {"fieldx", "imm16"}
    BY DEF Fields
<1>8. /\ Place["fieldx"] = <<10, 5>>
      /\ Place["imm16"] = <<15, 16>>
    BY DEF Place
<1>9. Len(L) = 5 /\ \A k \in 1..5 : k = 1 \/ k = 2 \/ k = 3 \/ k = 4 \/ k = 5
    BY <1>1
<1> QED BY <1>1, <1>3, <1>4, <1>5, <1>6, <1>7, <1>8, <1>9 DEF LayoutPlaced, L, O

LEMMA LayoutPlaced2 == LayoutPlaced(2)
<1> DEFINE L == Layout[2]
           O == Offset(2)
<1>1. /\ L[1] = <<8, "opcode">>
      /\ L[2] = <<2, "encoding">>
      /\ L[3] = <<5, "fieldx">>
      /\ L[4] = <<5, "fieldy">>
      /\ L[5] = <<8, "imm8">>
      /\ L[6] = <<4, "unused">>
      /\ Len(L) = 6
    BY DEF Layout
<1>2. \A k \in 1..6 : O[k] = IF k = 1 THEN 0 ELSE O[k - 1] + L[k - 1][1]
    BY <1>1, OffsetUnfolds
<1> HIDE DEF L, O
<1>3. O[1] = 0
    BY <1>1, <1>2
<1>4. O[2] = 8
    BY <1>1, <1>2, <1>3
<1>5. O[3] = 10
    BY <1>1, <1>2, <1>4
<1>6. O[4] = 15
    BY <1>1, <1>2, <1>5
<1>7. O[5] = 20
    BY <1>1, <1>2, <1>6
<1>8. DOMAIN Fields(2) = {"fieldx", "fieldy", "imm8"}
    BY DEF Fields
<1>9. /\ Place["fieldx"] = <<10, 5>>
      /\ Place["fieldy"] = <<15, 5>>
      /\ Place["imm8"] = <<20, 8>>
    BY DEF Place
<1>10. Len(L) = 6 /\ \A k \in 1..6 : k = 1 \/ k = 2 \/ k = 3 \/ k = 4 \/ k = 5 \/ k = 6
    BY <1>1
<1> QED BY <1>1, <1>3, <1>4, <1>5, <1>6, <1>7, <1>8, <1>9, <1>10 DEF LayoutPlaced, L, O

LEMMA LayoutPlaced3 == LayoutPlaced(3)
<1> DEFINE L == Layout[3]
           O == Offset(3)
<1>1. /\ L[1] = <<8, "opcode">>
      /\ L[2] = <<2, "encoding">>
      /\ L[3] = <<5, "fieldx">>
      /\ L[4] = <<5, "fieldy">>
      /\ L[5] = <<5, "fieldz">>
      /\ L[6] = <<5, "fieldw">>
      /\ L[7] = <<2, "size">>
      /\ Len(L) = 7
    BY DEF Layout
<1>2. \A k \in 1..7 : O[k] = IF k = 1 THEN 0 ELSE O[k - 1] + L[k - 1][1]
    BY <1>1, OffsetUnfolds
<1> HIDE DEF L, O
<1>3. O[1] = 0
    BY <1>1, <1>2
<1>4. O[2] = 8
    BY <1>1, <1>2, <1>3
<1>5. O[3] = 10
    BY <1>1, <1>2, <1>4
<1>6. O[4] = 15
    BY <1>1, <1>2, <1>5
<1>7. O[5] = 20
    BY <1>1, <1>2, <1>6
<1>8. O[6] = 25
    BY <1>1, <1>2, <1>7
<1>9. O[7] = 30
    BY <1>1, <1>2, <1>8
<1>10. DOMAIN Fields(3) = {"fieldx", "fieldy", "fieldz", "fieldw", "size"}
    BY DEF Fields
<1>11. /\ Place["fieldx"] = <<10, 5>>
      /\ Place["fieldy"] = <<15, 5>>
      /\ Place["fieldz"] = <<20, 5>>
      /\ Place["fieldw"] = <<25, 5>>
      /\ Place["size"] = <<30, 2>>
    BY DEF Place
<1>12. Len(L) = 7 /\ \A k \in 1..7 : k = 1 \/ k = 2 \/ k = 3 \/ k = 4 \/ k = 5 \/ k = 6 \/ k = 7
    BY <1>1
<1> QED BY <1>1, <1>3, <1>4, <1>5, <1>6, <1>7, <1>8, <1>9, <1>10, <1>11,
          <1>12 DEF LayoutPlaced, L, O

(* Whatever was decoded before, each latch holds the bits the drawing of   *)
(* the encodings gives it, and the others are 0, for every word.           *)
THEOREM LatchesFollowLayoutHolds == Spec => []LatchesFollowLayout
<1>1. DecoderFollows => LatchesFollowLayout
    <2> SUFFICES ASSUME DecoderFollows PROVE LatchesFollowLayout
        OBVIOUS
    <2> DEFINE e == BITS(instruction, 8, 2)
               named == {k \in 1..Len(Layout[e]) : Layout[e][k][2] \in LatchNames}
    <2>1. /\ decoder["opcode"] = BITS(instruction, 0, 8)
          /\ decoder["encoding"] = e /\ e \in 0..3
          /\ \A f \in DOMAIN Place :
                 decoder[f] = IF f \in DOMAIN Fields(e)
                              THEN BITS(instruction, Place[f][1], Place[f][2]) ELSE 0
        BY DecodedLatches DEF DecoderFollows
    <2> HIDE DEF e
    <2>2. LayoutPlaced(e)
        BY <2>1, LayoutPlaced0, LayoutPlaced1, LayoutPlaced2, LayoutPlaced3
    <2>3. DOMAIN Fields(e) \subseteq DOMAIN Place
        BY <2>1, FieldsPlaced
    <2>4. LatchNames = DOMAIN Place \cup {"opcode", "encoding"}
        BY DEF LatchNames, Place
    <2>5. ASSUME NEW k \in named
          PROVE  decoder[Layout[e][k][2]] = BITS(instruction, Offset(e)[k], Layout[e][k][1])
        <3>1. CASE k = 1 /\ Layout[e][k] = <<8, "opcode">> /\ Offset(e)[k] = 0
            BY <2>1, <3>1
        <3>2. CASE k = 2 /\ Layout[e][k] = <<2, "encoding">> /\ Offset(e)[k] = 8
            BY <2>1, <3>2 DEF e
        <3>3. CASE /\ Layout[e][k][2] \in DOMAIN Fields(e)
                   /\ Place[Layout[e][k][2]] = <<Offset(e)[k], Layout[e][k][1]>>
            BY <2>1, <2>3, <3>3
        <3>4. Layout[e][k][2] # "unused" /\ k \in 1..Len(Layout[e])
            BY DEF LatchNames
        <3> QED BY <2>2, <3>1, <3>2, <3>3, <3>4 DEF LayoutPlaced
    <2>6. ASSUME NEW f \in LatchNames \ {Layout[e][k][2] : k \in named} PROVE decoder[f] = 0
        <3>1. f # "opcode" /\ f # "encoding" /\ f \notin DOMAIN Fields(e)
            BY <2>2 DEF LayoutPlaced, LatchNames
        <3> QED BY <2>1, <2>4, <3>1
    <2> QED BY <2>5, <2>6 DEF LatchesFollowLayout, e
<1> QED BY <1>1, DecoderFollowsHolds, PTL
-----------------------------------------------------------------------------
(* Mode, use of the size and encoding of a row, and the form of its case.  *)
Kinds ==
    {<<"2R", "none", 3, "Y">>, <<"2R", "load_store", 3, "Y">>, <<"1R", "none", 3, "One">>,
     <<"1R", "load_store", 3, "One">>, <<"1R", "inc_dec", 3, "Size">>,
     <<"RI5", "none", 3, "Y">>, <<"NONE", "none", 3, "None">>,
     <<"RIXM", "load_store", 3, "M">>, <<"RIXS", "load_store", 3, "S">>,
     <<"3R", "none", 3, "R">>, <<"2RI8", "none", 2, "I8">>, <<"RI16", "none", 1, "I16">>,
     <<"I16", "branch", 1, "I16">>, <<"I16", "none", 1, "I16">>,
     <<"IXML", "none", 3, "M">>, <<"IXSH", "none", 3, "S">>, <<"NONE", "none", 3, "One">>}

(* A row of hyrisc_opc_info prints what a case of hyrisc_execute does. *)
Corresponds(r, c) ==
    /\ r.name = c[2]
    /\ <<r.mode, r.sizes, r.encoding, c[3]>> \in Kinds
    /\ r.mode # "1R" => (c[2] \in {"sext", "load", "store"} <=> r.sizes = "load_store")
    /\ (c[2] = "b") <=> (r.sizes = "branch")
    /\ c[2] = "b" => c[1] \in {\hae, \haf}
    /\ r.mode \in {"IXML", "IXSH"} \/ (r.mode = "NONE" /\ c[3] = "One") => r.conditional = TRUE
    /\ c[3] = "None" => r.conditional = FALSE
    /\ c[2] = "sext" => c[3] = "Y"
    /\ c[2] \in {"load", "store"} => c[3] # "Y"

(* Each part of hyrisc_opc_info against the cases of hyrisc_execute: rows  *)
(* and cases with the same number correspond.                              *)
LEMMA MoveRowsCorrespond ==
    \A r \in MoveRows : \A c \in OpcodeTable :
        c[1] = r.opcode /\ r.opcode \notin Disagree => Corresponds(r, c)
BY DEF MoveRows, Row, OpcodeTable, Disagree, Moved, SizeIgnored, Corresponds, Kinds

LEMMA MemoryRowsCorrespond ==
    \A r \in MemoryRows : \A c \in OpcodeTable :
        c[1] = r.opcode /\ r.opcode \notin Disagree => Corresponds(r, c)
BY DEF MemoryRows, Row, OpcodeTable, Disagree, Moved, SizeIgnored, Corresponds, Kinds

LEMMA ArithmeticRowsCorrespond ==
    \A r \in ArithmeticRows : \A c \in OpcodeTable :
        c[1] = r.opcode /\ r.opcode \notin Disagree => Corresponds(r, c)
BY DEF ArithmeticRows, Row, OpcodeTable, Disagree, Moved, SizeIgnored, Corresponds, Kinds

LEMMA JumpRowsCorrespond ==
    \A r \in JumpRows : \A c \in OpcodeTable :
        c[1] = r.opcode /\ r.opcode \notin Disagree => Corresponds(r, c)
BY DEF JumpRows, Row, OpcodeTable, Disagree, Moved, SizeIgnored, Corresponds, Kinds

(* No row has the number n. *)
Misses(rows, n) == \A r \in rows : r.opcode # n

(* A number no row has is not one of the entries that the rows are made of. *)
LEMMA RowMissing ==
    ASSUME NEW mode, NEW sizes, NEW conditional, NEW encoding, NEW entries, NEW n,
           Misses(Row(mode, sizes, conditional, encoding, entries), n)
    PROVE  \A x \in entries : x[1] # n
<1> SUFFICES ASSUME NEW x \in entries PROVE x[1] # n
    OBVIOUS
<1>1. [opcode |-> x[1], name |-> x[2], mode |-> mode, sizes |-> sizes,
       conditional |-> conditional, encoding |-> encoding]
      \in Row(mode, sizes, conditional, encoding, entries)
    BY DEF Row
<1> QED BY <1>1 DEF Misses

(* The numbers in each part of hyrisc_opc_info. *)
LEMMA MoveRowsHas ==
    ASSUME NEW n, Misses(MoveRows, n)
    PROVE  n \notin {\hff, \hc6, \hc5} \cup {\hda, \hc4, \hc3} \cup {\hdb, \h9d, \h9c}
                    \cup {\hc2} \cup {\hc0, \hbf} \cup {\hc1} \cup {\h9f, \h9e} \cup {\hbe}
                    \cup {\h8f}
<1> DEFINE E1 == {<<\hff, "mov">>, <<\hc6, "not">>, <<\hc5, "neg">>}
           E2 == {<<\hda, "cmp">>, <<\hc4, "sext">>, <<\hc3, "zext">>}
           E3 == {<<\hdb, "cmpz">>, <<\h9d, "push">>, <<\h9c, "pop">>}
           E4 == {<<\hc2, "rst">>}
           E5 == {<<\hc0, "inc">>, <<\hbf, "dec">>}
           E6 == {<<\hc1, "rst">>}
           E7 == {<<\h9f, "push">>, <<\h9e, "pop">>}
           E8 == {<<\hbe, "tst">>}
           E9 == {<<\h8f, "nop">>}
<1>1. MoveRows = Row("2R", "none", FALSE, 3, E1)
             \cup Row("2R", "load_store", FALSE, 3, E2)
             \cup Row("1R", "none", FALSE, 3, E3)
             \cup Row("1R", "load_store", FALSE, 3, E4)
             \cup Row("1R", "inc_dec", FALSE, 3, E5)
             \cup Row("RRNG", "load_store", FALSE, 3, E6)
             \cup Row("RRNG", "none", FALSE, 3, E7)
             \cup Row("RI5", "none", FALSE, 3, E8)
             \cup Row("NONE", "none", FALSE, 3, E9)
    BY DEF MoveRows
<1> HIDE DEF E1, E2, E3, E4, E5, E6, E7, E8, E9
<1>2. /\ Misses(Row("2R", "none", FALSE, 3, E1), n)
      /\ Misses(Row("2R", "load_store", FALSE, 3, E2), n)
      /\ Misses(Row("1R", "none", FALSE, 3, E3), n)
      /\ Misses(Row("1R", "load_store", FALSE, 3, E4), n)
      /\ Misses(Row("1R", "inc_dec", FALSE, 3, E5), n)
      /\ Misses(Row("RRNG", "load_store", FALSE, 3, E6), n)
      /\ Misses(Row("RRNG", "none", FALSE, 3, E7), n)
      /\ Misses(Row("RI5", "none", FALSE, 3, E8), n)
      /\ Misses(Row("NONE", "none", FALSE, 3, E9), n)
    BY <1>1 DEF Misses
<1>3. n \notin {\hff, \hc6, \hc5}
    <2>1. \A x \in E1 : x[1] # n
        BY <1>2, RowMissing
    <2> QED BY <2>1 DEF E1
<1>4. n \notin {\hda, \hc4, \hc3}
    <2>1. \A x \in E2 : x[1] # n
        BY <1>2, RowMissing
    <2> QED BY <2>1 DEF E2
<1>5. n \notin {\hdb, \h9d, \h9c}
    <2>1. \A x \in E3 : x[1] # n
        BY <1>2, RowMissing
    <2> QED BY <2>1 DEF E3
<1>6. n \notin {\hc2}
    <2>1. \A x \in E4 : x[1] # n
        BY <1>2, RowMissing
    <2> QED BY <2>1 DEF E4
<1>7. n \notin {\hc0, \hbf}
    <2>1. \A x \in E5 : x[1] # n
        BY <1>2, RowMissing
    <2> QED BY <2>1 DEF E5
<1>8. n \notin {\hc1}
    <2>1. \A x \in E6 : x[1] # n
        BY <1>2, RowMissing
    <2> QED BY <2>1 DEF E6
<1>9. n \notin {\h9f, \h9e}
    <2>1. \A x \in E7 : x[1] # n
        BY <1>2, RowMissing
    <2> QED BY <2>1 DEF E7
<1>10. n \notin {\hbe}
    <2>1. \A x \in E8 : x[1] # n
        BY <1>2, RowMissing
    <2> QED BY <2>1 DEF E8
<1>11. n \notin {\h8f}
    <2>1. \A x \in E9 : x[1] # n
        BY <1>2, RowMissing
    <2> QED BY <2>1 DEF E9
<1> QED BY <1>3, <1>4, <1>5, <1>6, <1>7, <1>8, <1>9, <1>10, <1>11

LEMMA MemoryRowsHas ==
    ASSUME NEW n, Misses(MemoryRows, n)
    PROVE  n \notin {\hfc} \cup {\hfb} \cup {\hfa} \cup {\hf9} \cup {\hf8} \cup {\hf7}
<1> DEFINE E1 == {<<\hfc, "load">>}
           E2 == {<<\hfb, "load">>}
           E3 == {<<\hfa, "store">>}
           E4 == {<<\hf9, "store">>}
           E5 == {<<\hf8, "lea">>}
           E6 == {<<\hf7, "lea">>}
<1>1. MemoryRows = Row("RIXM", "load_store", FALSE, 3, E1)
             \cup Row("RIXS", "load_store", FALSE, 3, E2)
             \cup Row("IXMR", "load_store", FALSE, 3, E3)
             \cup Row("IXSR", "load_store", FALSE, 3, E4)
             \cup Row("RIXM", "none", FALSE, 3, E5)
             \cup Row("RIXS", "none", FALSE, 3, E6)
    BY DEF MemoryRows
<1> HIDE DEF E1, E2, E3, E4, E5, E6
<1>2. /\ Misses(Row("RIXM", "load_store", FALSE, 3, E1), n)
      /\ Misses(Row("RIXS", "load_store", FALSE, 3, E2), n)
      /\ Misses(Row("IXMR", "load_store", FALSE, 3, E3), n)
      /\ Misses(Row("IXSR", "load_store", FALSE, 3, E4), n)
      /\ Misses(Row("RIXM", "none", FALSE, 3, E5), n)
      /\ Misses(Row("RIXS", "none", FALSE, 3, E6), n)
    BY <1>1 DEF Misses
<1>3. n \notin {\hfc}
    <2>1. \A x \in E1 : x[1] # n
        BY <1>2, RowMissing
    <2> QED BY <2>1 DEF E1
<1>4. n \notin {\hfb}
    <2>1. \A x \in E2 : x[1] # n
        BY <1>2, RowMissing
    <2> QED BY <2>1 DEF E2
<1>5. n \notin {\hfa}
    <2>1. \A x \in E3 : x[1] # n
        BY <1>2, RowMissing
    <2> QED BY <2>1 DEF E3
<1>6. n \notin {\hf9}
    <2>1. \A x \in E4 : x[1] # n
        BY <1>2, RowMissing
    <2> QED BY <2>1 DEF E4
<1>7. n \notin {\hf8}
    <2>1. \A x \in E5 : x[1] # n
        BY <1>2, RowMissing
    <2> QED BY <2>1 DEF E5
<1>8. n \notin {\hf7}
    <2>1. \A x \in E6 : x[1] # n
        BY <1>2, RowMissing
    <2> QED BY <2>1 DEF E6
<1> QED BY <1>3, <1>4, <1>5, <1>6, <1>7, <1>8

LEMMA ArithmeticRowsHas ==
    ASSUME NEW n, Misses(ArithmeticRows, n)
    PROVE  n \notin {\hef, \hea, \he5, \he0, \hcf, \hcc, \hc9, \hbd, \hbb, \hb9, \hb7}
                    \cup {\hee, \hec, \he9, \he7, \he4, \he2, \hdf, \hdd, \hce, \hcb, \hc8}
                    \cup {\hfe, \hfd, \hed, \heb, \he8, \he6, \he3, \he1, \hde, \hdc, \hd8,
                          \hcd, \hca, \hc7, \hbc, \hba, \hb8, \hb6}
                    \cup {\hd9}
<1> DEFINE E1 == {<<\hef, "addu">>, <<\hea, "subu">>, <<\he5, "mulu">>, <<\he0, "divu">>,
                  <<\hcf, "and">>, <<\hcc, "or">>, <<\hc9, "xor">>, <<\hbd, "lsl">>,
                  <<\hbb, "lsr">>, <<\hb9, "asl">>, <<\hb7, "asr">>}
           E2 == {<<\hee, "addu">>, <<\hec, "adds">>, <<\he9, "subu">>, <<\he7, "subs">>,
                  <<\he4, "mulu">>, <<\he2, "muls">>, <<\hdf, "divu">>, <<\hdd, "divs">>,
                  <<\hce, "and">>, <<\hcb, "or">>, <<\hc8, "xor">>}
           E3 == {<<\hfe, "li">>, <<\hfd, "lui">>, <<\hed, "addu">>, <<\heb, "adds">>,
                  <<\he8, "subu">>, <<\he6, "subs">>, <<\he3, "mulu">>, <<\he1, "muls">>,
                  <<\hde, "divu">>, <<\hdc, "divs">>, <<\hd8, "cmp.s">>, <<\hcd, "and">>,
                  <<\hca, "or">>, <<\hc7, "xor">>, <<\hbc, "lsl">>, <<\hba, "lsr">>,
                  <<\hb8, "asl">>, <<\hb6, "asr">>}
           E4 == {<<\hd9, "cmp.b">>}
<1>1. ArithmeticRows = Row("3R", "none", FALSE, 3, E1)
             \cup Row("2RI8", "none", FALSE, 2, E2)
             \cup Row("RI16", "none", FALSE, 1, E3)
             \cup Row("RI8", "none", FALSE, 2, E4)
    BY DEF ArithmeticRows
<1> HIDE DEF E1, E2, E3, E4
<1>2. /\ Misses(Row("3R", "none", FALSE, 3, E1), n)
      /\ Misses(Row("2RI8", "none", FALSE, 2, E2), n)
      /\ Misses(Row("RI16", "none", FALSE, 1, E3), n)
      /\ Misses(Row("RI8", "none", FALSE, 2, E4), n)
    BY <1>1 DEF Misses
<1>3. n \notin {\hef, \hea, \he5, \he0, \hcf, \hcc, \hc9, \hbd, \hbb, \hb9, \hb7}
    <2>1. \A x \in E1 : x[1] # n
        BY <1>2, RowMissing
    <2> QED BY <2>1 DEF E1
<1>4. n \notin {\hee, \hec, \he9, \he7, \he4, \he2, \hdf, \hdd, \hce, \hcb, \hc8}
    <2>1. \A x \in E2 : x[1] # n
        BY <1>2, RowMissing
    <2> QED BY <2>1 DEF E2
<1>5. n \notin {\hfe, \hfd, \hed, \heb, \he8, \he6, \he3, \he1, \hde, \hdc, \hd8, \hcd,
                \hca, \hc7, \hbc, \hba, \hb8, \hb6}
    <2>1. \A x \in E3 : x[1] # n
        BY <1>2, RowMissing
    <2> QED BY <2>1 DEF E3
<1>6. n \notin {\hd9}
    <2>1. \A x \in E4 : x[1] # n
        BY <1>2, RowMissing
    <2> QED BY <2>1 DEF E4
<1> QED BY <1>3, <1>4, <1>5, <1>6

LEMMA JumpRowsHas ==
    ASSUME NEW n, Misses(JumpRows, n)
    PROVE  n \notin {\haf, \hae} \cup {\had, \haa} \cup {\hac, \ha9} \cup {\hab, \ha8}
                    \cup {\ha7, \ha6}
<1> DEFINE E1 == {<<\haf, "b">>, <<\hae, "b">>}
           E2 == {<<\had, "jal">>, <<\haa, "call">>}
           E3 == {<<\hac, "jal">>, <<\ha9, "call">>}
           E4 == {<<\hab, "jal">>, <<\ha8, "call">>}
           E5 == {<<\ha7, "rtl">>, <<\ha6, "ret">>}
<1>1. JumpRows = Row("I16", "branch", TRUE, 1, E1)
             \cup Row("I16", "none", TRUE, 1, E2)
             \cup Row("IXML", "none", TRUE, 3, E3)
             \cup Row("IXSH", "none", TRUE, 3, E4)
             \cup Row("NONE", "none", TRUE, 3, E5)
    BY DEF JumpRows
<1> HIDE DEF E1, E2, E3, E4, E5
<1>2. /\ Misses(Row("I16", "branch", TRUE, 1, E1), n)
      /\ Misses(Row("I16", "none", TRUE, 1, E2), n)
      /\ Misses(Row("IXML", "none", TRUE, 3, E3), n)
      /\ Misses(Row("IXSH", "none", TRUE, 3, E4), n)
      /\ Misses(Row("NONE", "none", TRUE, 3, E5), n)
    BY <1>1 DEF Misses
<1>3. n \notin {\haf, \hae}
    <2>1. \A x \in E1 : x[1] # n
        BY <1>2, RowMissing
    <2> QED BY <2>1 DEF E1
<1>4. n \notin {\had, \haa}
    <2>1. \A x \in E2 : x[1] # n
        BY <1>2, RowMissing
    <2> QED BY <2>1 DEF E2
<1>5. n \notin {\hac, \ha9}
    <2>1. \A x \in E3 : x[1] # n
        BY <1>2, RowMissing
    <2> QED BY <2>1 DEF E3
<1>6. n \notin {\hab, \ha8}
    <2>1. \A x \in E4 : x[1] # n
        BY <1>2, RowMissing
    <2> QED BY <2>1 DEF E4
<1>7. n \notin {\ha7, \ha6}
    <2>1. \A x \in E5 : x[1] # n
        BY <1>2, RowMissing
    <2> QED BY <2>1 DEF E5
<1> QED BY <1>3, <1>4, <1>5, <1>6, <1>7

(* hyrisc_opc_info has a row for every other case of hyrisc_execute. *)
LEMMA RowExists == \A n \in Legal \ Disagree : \E r \in Rows : r.opcode = n
<1> SUFFICES ASSUME NEW n, \A r \in Rows : r.opcode # n, n \notin Disagree PROVE n \notin Legal
    OBVIOUS
<1>1. /\ Misses(MoveRows, n) /\ Misses(MemoryRows, n)
      /\ Misses(ArithmeticRows, n) /\ Misses(JumpRows, n)
    BY DEF Rows, Misses
<1>2. ASSUME NEW c \in OpcodeTable, c[1] = n PROVE FALSE
    BY <1>1, <1>2, MoveRowsHas, MemoryRowsHas, ArithmeticRowsHas, JumpRowsHas
        DEF Disagree, Moved, SizeIgnored, OpcodeTable
<1> QED BY <1>2 DEF Legal

(* The case of a legal opcode is the one with its number. *)
LEMMA CaseInTable == \A n \in Legal : Case(n) \in OpcodeTable /\ Case(n)[1] = n
<1> SUFFICES ASSUME NEW n \in Legal PROVE Case(n) \in OpcodeTable /\ Case(n)[1] = n
    OBVIOUS
<1>1. \E c \in OpcodeTable : c[1] = n
    BY DEF Legal
<1> QED BY <1>1 DEF Case

(* The two rows that belong to such an opcode. *)
LEMMA TablesCorrespond ==
    ASSUME NEW n \in Legal \ Disagree
    PROVE  OpcInfo(n) \in Rows /\ OpcInfo(n).opcode = n /\ Corresponds(OpcInfo(n), Case(n))
<1>1. \E r \in Rows : r.opcode = n
    BY RowExists
<1>2. OpcInfo(n) \in Rows /\ OpcInfo(n).opcode = n
    BY <1>1 DEF OpcInfo
<1>3. Case(n) \in OpcodeTable /\ Case(n)[1] = n
    BY CaseInTable
<1> QED BY <1>2, <1>3, MoveRowsCorrespond, MemoryRowsCorrespond, ArithmeticRowsCorrespond,
          JumpRowsCorrespond DEF Rows

(* Where they correspond, the latches the CPU reads are those printed, and *)
(* are among those that the encoding of the row writes.                    *)
LEMMA ReadsAreShown ==
    ASSUME NEW n, NEW r, Corresponds(r, Case(n)), Case(n)[1] = n, r.opcode = n
    PROVE  /\ Index(r) = ExecutedIndex(n)
           /\ Reads(n) = Shown(r)
           /\ Reads(n) \subseteq DOMAIN Fields(r.encoding)
           /\ r.mode = "RI5" => "fieldy" \in DOMAIN Fields(r.encoding)
<1> DEFINE K(mode, sizes, encoding, form) ==
               r.mode = mode /\ r.sizes = sizes /\ r.encoding = encoding /\ Case(n)[3] = form
<1>1. CASE K("2R", "none", 3, "Y")
    BY <1>1 DEF Corresponds, Index, ExecutedIndex, Reads, Shown, Registers, Immediates,
        ShowsSize, ShowsCondition, Fields
<1>2. CASE K("2R", "load_store", 3, "Y")
    <2>1. Case(n)[2] = "sext"
        BY <1>2 DEF Corresponds
    <2>2. Reads(n) = {"fieldx", "fieldy", "size"}
        BY <1>2, <2>1 DEF Reads
    <2>3. Shown(r) = {"fieldx", "fieldy", "size"}
        BY <1>2 DEF Shown, Registers, Immediates, ShowsSize, ShowsCondition
    <2>4. Reads(n) \subseteq DOMAIN Fields(r.encoding)
        BY <1>2, <2>2 DEF Fields
    <2>5. Index(r) = ExecutedIndex(n)
        BY <1>2, <2>1 DEF Index, ExecutedIndex
    <2> QED BY <1>2, <2>2, <2>3, <2>4, <2>5
<1>3. CASE K("1R", "none", 3, "One")
    BY <1>3 DEF Corresponds, Index, ExecutedIndex, Reads, Shown, Registers, Immediates,
        ShowsSize, ShowsCondition, Fields
<1>4. CASE K("1R", "load_store", 3, "One")
    BY <1>4 DEF Corresponds, Index, ExecutedIndex, Reads, Shown, Registers, Immediates,
        ShowsSize, ShowsCondition, Fields
<1>5. CASE K("1R", "inc_dec", 3, "Size")
    BY <1>5 DEF Corresponds, Index, ExecutedIndex, Reads, Shown, Registers, Immediates,
        ShowsSize, ShowsCondition, Fields
<1>7. CASE K("RI5", "none", 3, "Y")
    BY <1>7 DEF Corresponds, Index, ExecutedIndex, Reads, Shown, Registers, Immediates,
        ShowsSize, ShowsCondition, Fields
<1>8. CASE K("NONE", "none", 3, "None")
    BY <1>8 DEF Corresponds, Index, ExecutedIndex, Reads, Shown, Registers, Immediates,
        ShowsSize, ShowsCondition, Fields
<1>9. CASE K("RIXM", "load_store", 3, "M")
    <2>1. Case(n)[2] \in {"load", "store"}
        BY <1>9 DEF Corresponds
    <2>2. Reads(n) = {"fieldx", "fieldy", "fieldz", "fieldw", "size"}
        BY <1>9, <2>1 DEF Reads
    <2>3. Shown(r) = {"fieldx", "fieldy", "fieldz", "fieldw", "size"}
        BY <1>9 DEF Shown, Registers, Immediates, ShowsSize, ShowsCondition
    <2>4. Reads(n) \subseteq DOMAIN Fields(r.encoding)
        BY <1>9, <2>2 DEF Fields
    <2>5. Index(r) = ExecutedIndex(n)
        BY <1>9, <2>1 DEF Index, ExecutedIndex
    <2> QED BY <1>9, <2>2, <2>3, <2>4, <2>5
<1>10. CASE K("RIXS", "load_store", 3, "S")
    <2>1. Case(n)[2] \in {"load", "store"}
        BY <1>10 DEF Corresponds
    <2>2. Reads(n) = {"fieldx", "fieldy", "fieldz", "fieldw", "size"}
        BY <1>10, <2>1 DEF Reads
    <2>3. Shown(r) = {"fieldx", "fieldy", "fieldz", "fieldw", "size"}
        BY <1>10 DEF Shown, Registers, Immediates, ShowsSize, ShowsCondition
    <2>4. Reads(n) \subseteq DOMAIN Fields(r.encoding)
        BY <1>10, <2>2 DEF Fields
    <2>5. Index(r) = ExecutedIndex(n)
        BY <1>10, <2>1 DEF Index, ExecutedIndex
    <2> QED BY <1>10, <2>2, <2>3, <2>4, <2>5
<1>11. CASE K("3R", "none", 3, "R")
    BY <1>11 DEF Corresponds, Index, ExecutedIndex, Reads, Shown, Registers, Immediates,
        ShowsSize, ShowsCondition, Fields
<1>12. CASE K("2RI8", "none", 2, "I8")
    BY <1>12 DEF Corresponds, Index, ExecutedIndex, Reads, Shown, Registers, Immediates,
        ShowsSize, ShowsCondition, Fields
<1>13. CASE K("RI16", "none", 1, "I16")
    BY <1>13 DEF Corresponds, Index, ExecutedIndex, Reads, Shown, Registers, Immediates,
        ShowsSize, ShowsCondition, Fields
<1>14. CASE K("I16", "branch", 1, "I16")
    <2>1. n \in {\hae, \haf} /\ (n % 2 = 1 <=> n = \haf)
        BY <1>14 DEF Corresponds
    <2>2. Index(r) = ExecutedIndex(n)
        <3>1. Index(r) = IF n % 2 = 1 THEN "s" ELSE "u"
            BY <1>14 DEF Index
        <3>2. ExecutedIndex(n) = IF n = \haf THEN "s" ELSE "u"
            BY <1>14 DEF ExecutedIndex, Corresponds
        <3> QED BY <2>1, <3>1, <3>2
    <2>3. /\ Reads(n) = Shown(r)
          /\ Reads(n) \subseteq DOMAIN Fields(r.encoding)
          /\ r.mode = "RI5" => "fieldy" \in DOMAIN Fields(r.encoding)
        BY <1>14 DEF Corresponds, Reads, Shown, Registers, Immediates, ShowsSize, ShowsCondition,
            Fields
    <2> QED BY <2>2, <2>3
<1>15. CASE K("I16", "none", 1, "I16")
    BY <1>15 DEF Corresponds, Index, ExecutedIndex, Reads, Shown, Registers, Immediates,
        ShowsSize, ShowsCondition, Fields
<1>16. CASE K("IXML", "none", 3, "M")
    BY <1>16 DEF Corresponds, Index, ExecutedIndex, Reads, Shown, Registers, Immediates,
        ShowsSize, ShowsCondition, Fields
<1>17. CASE K("IXSH", "none", 3, "S")
    BY <1>17 DEF Corresponds, Index, ExecutedIndex, Reads, Shown, Registers, Immediates,
        ShowsSize, ShowsCondition, Fields
<1>18. CASE K("NONE", "none", 3, "One")
    BY <1>18 DEF Corresponds, Index, ExecutedIndex, Reads, Shown, Registers, Immediates,
        ShowsSize, ShowsCondition, Fields
<1> QED BY <1>1, <1>2, <1>3, <1>4, <1>5, <1>7, <1>8, <1>9, <1>10, <1>11, <1>12, <1>13,
          <1>14, <1>15, <1>16, <1>17, <1>18 DEF Corresponds, Kinds

(* The other rows that have a case print another name, or a size for a     *)
(* compare or a reset of two registers.                                    *)
Differs(r, c) ==
    \/ r.name # c[2]
    \/ /\ r.mode \in {"2R", "RRNG"} /\ r.sizes = "load_store"
       /\ c[2] \in {"cmp", "rst"} /\ c[3] = "Y"

LEMMA MoveRowsDiffer ==
    \A r \in MoveRows : \A c \in OpcodeTable :
        c[1] = r.opcode /\ r.opcode \in Disagree => Differs(r, c)
BY DEF MoveRows, Row, OpcodeTable, Disagree, Moved, SizeIgnored, Differs

LEMMA MemoryRowsDiffer ==
    \A r \in MemoryRows : \A c \in OpcodeTable :
        c[1] = r.opcode /\ r.opcode \in Disagree => Differs(r, c)
BY DEF MemoryRows, Row, OpcodeTable, Disagree, Moved, SizeIgnored, Differs

LEMMA ArithmeticRowsDiffer ==
    \A r \in ArithmeticRows : \A c \in OpcodeTable :
        c[1] = r.opcode /\ r.opcode \in Disagree => Differs(r, c)
BY DEF ArithmeticRows, Row, OpcodeTable, Disagree, Moved, SizeIgnored, Differs

LEMMA JumpRowsDiffer ==
    \A r \in JumpRows : \A c \in OpcodeTable :
        c[1] = r.opcode /\ r.opcode \in Disagree => Differs(r, c)
BY DEF JumpRows, Row, OpcodeTable, Disagree, Moved, SizeIgnored, Differs

(* So a legal opcode of Disagree is printed with another name or with a    *)
(* size that the CPU does not read.                                        *)
LEMMA DisagreeDiffers ==
    ASSUME NEW n \in Legal \cap Disagree
    PROVE  \/ OpcInfo(n).name # Case(n)[2]
           \/ "size" \in Shown(OpcInfo(n)) /\ "size" \notin Reads(n)
<1>1. Case(n) \in OpcodeTable /\ Case(n)[1] = n
    BY CaseInTable
<1>2. CASE \E r \in Rows : r.opcode = n
    <2> DEFINE row == OpcInfo(n)
    <2>1. row \in Rows /\ row.opcode = n
        BY <1>2 DEF OpcInfo
    <2> HIDE DEF row
    <2>2. Differs(row, Case(n))
        BY <1>1, <2>1, MoveRowsDiffer, MemoryRowsDiffer, ArithmeticRowsDiffer, JumpRowsDiffer
            DEF Rows
    <2>3. ASSUME row.name = Case(n)[2] PROVE "size" \in Shown(row) /\ "size" \notin Reads(n)
        <3>1. /\ row.mode \in {"2R", "RRNG"} /\ row.sizes = "load_store"
              /\ Case(n)[2] \in {"cmp", "rst"} /\ Case(n)[3] = "Y"
            BY <2>2, <2>3 DEF Differs
        <3>2. "size" \in Shown(row)
            BY <3>1 DEF Shown, ShowsSize
        <3>3. "size" \notin Reads(n)
            BY <3>1 DEF Reads
        <3> QED BY <3>2, <3>3
    <2> QED BY <2>3 DEF row
<1>3. CASE ~ \E r \in Rows : r.opcode = n
    <2>1. OpcInfo(n) = Bad(n)
        BY <1>3 DEF OpcInfo
    <2>2. Bad(n).name = "<bad>"
        <3> DEFINE bad == [opcode |-> n, name |-> "<bad>", mode |-> "NONE", sizes |-> "none",
                           conditional |-> FALSE, encoding |-> 0]
        <3>1. Row("NONE", "none", FALSE, 0, {<<n, "<bad>">>}) = {bad}
            BY DEF Row
        <3>2. Bad(n) = bad
            BY <3>1 DEF Bad
        <3> QED BY <3>2
    <2>3. \A c \in OpcodeTable : c[2] # "<bad>"
        BY DEF OpcodeTable
    <2> QED BY <1>1, <2>1, <2>2, <2>3
<1> QED BY <1>2, <1>3

(* tst: the low 5 bits of the 16 that the disassembler masks. *)
LEMMA LowBits ==
    ASSUME NEW w \in Instruction PROVE BITS(w, 15, 16) % 32 = BITS(w, 15, 5)
<1>1. /\ BITS(w, 15, 16) = w[15] + 2 * BITS(w, 16, 15)
      /\ BITS(w, 16, 15) = w[16] + 2 * BITS(w, 17, 14)
      /\ BITS(w, 17, 14) = w[17] + 2 * BITS(w, 18, 13)
      /\ BITS(w, 18, 13) = w[18] + 2 * BITS(w, 19, 12)
      /\ BITS(w, 19, 12) = w[19] + 2 * BITS(w, 20, 11)
    <2>1. \A b, l \in Nat : b + l + 1 <= 32 => BITS(w, b, l + 1) = w[b] + 2 * BITS(w, b + 1, l)
        BY BITSStep
    <2> QED BY <2>1
<1>2. /\ BITS(w, 15, 5) = w[15] + 2 * BITS(w, 16, 4)
      /\ BITS(w, 16, 4) = w[16] + 2 * BITS(w, 17, 3)
      /\ BITS(w, 17, 3) = w[17] + 2 * BITS(w, 18, 2)
      /\ BITS(w, 18, 2) = w[18] + 2 * BITS(w, 19, 1)
      /\ BITS(w, 19, 1) = w[19] + 2 * BITS(w, 20, 0)
    <2>1. \A b, l \in Nat : b + l + 1 <= 32 => BITS(w, b, l + 1) = w[b] + 2 * BITS(w, b + 1, l)
        BY BITSStep
    <2> QED BY <2>1
<1>3. BITS(w, 20, 0) = 0
    BY BITSStep
<1>4. BITS(w, 15, 5) \in 0..31
    BY FieldTypes
<1>5. /\ w[15] \in {0, 1} /\ w[16] \in {0, 1} /\ w[17] \in {0, 1}
      /\ w[18] \in {0, 1} /\ w[19] \in {0, 1}
    BY DEF Instruction, BitNumbers
<1>6. BITS(w, 20, 11) \in Int
    BY BITSNumber
<1>7. BITS(w, 15, 16) = BITS(w, 15, 5) + 32 * BITS(w, 20, 11)
    BY <1>1, <1>2, <1>3, <1>5, <1>6
<1>8. \A x \in 0..31 : \A q \in Int : (x + 32 * q) % 32 = x
    OBVIOUS
<1> QED BY <1>4, <1>6, <1>7, <1>8

(* Every word in the encoding of its opcode is executed as it is printed,  *)
(* unless its opcode is one of Disagree, and none of those is: the tables  *)
(* of src/disas.c and of hyrisc.hpp agree on exactly the others, and so do *)
(* the places of the fields.                                               *)
THEOREM DisassemblesTheRestHolds == Spec => []DisassemblesTheRest
<1>1. DecoderFollows => DisassemblesTheRest
    <2> DEFINE n == decoder.opcode
               row == OpcInfo(n)
               w == instruction
               text == Text(w)
    <2> SUFFICES ASSUME DecoderFollows, n \in Legal, decoder.encoding = row.encoding,
                        ~(row.conditional /\ decoder.fieldx >= 16)
                 PROVE  TextIsExecuted <=> n \notin Disagree
        BY DEF DisassemblesTheRest
    <2>0. w \in Instruction
        BY DEF DecoderFollows
    <2>1. /\ decoder["opcode"] = BITS(w, 0, 8)
          /\ decoder["encoding"] = BITS(w, 8, 2)
          /\ \A f \in DOMAIN Place :
                 decoder[f] = IF f \in DOMAIN Fields(BITS(w, 8, 2))
                              THEN BITS(w, Place[f][1], Place[f][2]) ELSE 0
          /\ DOMAIN Fields(BITS(w, 8, 2)) \subseteq DOMAIN Place
        BY DecodedLatches, FieldsPlaced DEF DecoderFollows
    <2>2. BITS(w, 0, 8) = n
        BY <2>1
    <2>3. /\ text.name = row.name /\ text.index = Index(row)
          /\ text.fields = [f \in Shown(row) |-> ShownValue(row, w, f)]
        BY <2>2 DEF Text
    <2>4. TextIsExecuted <=> /\ text.name = Case(n)[2] /\ text.index = ExecutedIndex(n)
                             /\ DOMAIN text.fields = Reads(n)
                             /\ \A f \in Reads(n) : text.fields[f] = decoder[f]
        BY DEF TextIsExecuted
    <2> HIDE DEF row, n, w, text
    <2>5. ASSUME n \notin Disagree PROVE TextIsExecuted
        <3>1. Corresponds(row, Case(n)) /\ row.opcode = n /\ Case(n)[1] = n
            BY <2>5, TablesCorrespond, CaseInTable DEF row
        <3>2. /\ Index(row) = ExecutedIndex(n)
              /\ Reads(n) = Shown(row)
              /\ Reads(n) \subseteq DOMAIN Fields(row.encoding)
            BY <3>1, ReadsAreShown
        <3>3. ASSUME NEW f \in Reads(n) PROVE decoder[f] = ShownValue(row, w, f)
            <4>1. f \in DOMAIN Fields(row.encoding) /\ f \in DOMAIN Place
                  /\ decoder[f] = BITS(w, Place[f][1], Place[f][2])
                BY <2>1, <3>2 DEF row
            <4>2. CASE f = "fieldx"
                <5>1. decoder[f] = BITS(w, 10, 5)
                    BY <4>1, <4>2 DEF Place
                <5>2. ~(row.conditional /\ BITS(w, 10, 5) >= 16)
                    BY <5>1, <4>2 DEF row
                <5> QED BY <4>2, <5>1, <5>2 DEF ShownValue
            <4>3. CASE f = "fieldy"
                <5>1. decoder[f] = BITS(w, 15, 5)
                    BY <4>1, <4>3 DEF Place
                <5>2. BITS(w, 15, 16) % 32 = BITS(w, 15, 5)
                    BY <2>0, LowBits
                <5> QED BY <4>3, <5>1, <5>2 DEF ShownValue
            <4>4. CASE f = "fieldz"
                BY <4>1, <4>4 DEF Place, ShownValue
            <4>5. CASE f = "fieldw"
                BY <4>1, <4>5 DEF Place, ShownValue
            <4>6. CASE f = "size"
                BY <4>1, <4>6 DEF Place, ShownValue
            <4>7. CASE f = "imm8"
                BY <4>1, <4>7 DEF Place, ShownValue
            <4>8. CASE f = "imm16"
                BY <4>1, <4>8 DEF Place, ShownValue
            <4> QED BY <4>1, <4>2, <4>3, <4>4, <4>5, <4>6, <4>7, <4>8 DEF Place
        <3>4. row.name = Case(n)[2]
            BY <3>1 DEF Corresponds
        <3> QED BY <2>3, <2>4, <3>2, <3>3, <3>4
    <2>6. ASSUME n \in Disagree PROVE ~TextIsExecuted
        <3>1. row.name # Case(n)[2] \/ ("size" \in Shown(row) /\ "size" \notin Reads(n))
            BY <2>6, DisagreeDiffers DEF row
        <3>2. DOMAIN text.fields = Shown(row)
            BY <2>3
        <3> QED BY <2>3, <2>4, <3>1, <3>2
    <2> QED BY <2>5, <2>6
<1> QED BY <1>1, DecoderFollowsHolds, PTL
=============================================================================
