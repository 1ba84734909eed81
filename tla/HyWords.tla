------------------------------ MODULE HyWords ------------------------------
(***************************************************************************)
(* The machine words of the hyrisc CPU (src/hyrisc/types.hpp): a word is   *)
(* four bytes of ByteBits bits.  The program is built with ByteBits = 8    *)
(* (a 32-bit word); every other module is parameterised by the width, so   *)
(* that TLC can explore whole data paths with 1- and 2-bit bytes while the *)
(* theorems hold for every width.                                          *)
(***************************************************************************)
EXTENDS Integers

(* The powers of 2, as the recursive function that the provers can unfold. *)
Pow2[n \in Nat] == IF n = 0 THEN 1 ELSE 2 * Pow2[n - 1]

CONSTANTS
    ByteBits,   (* bits in a byte: 8 in the program *)
    ByteMod     (* 2 to the power of ByteBits, the number of bytes: 256 in the program *)

ASSUME WordsAssumption ==
    /\ ByteBits \in Nat \ {0}
    /\ ByteMod \in Nat \ {0, 1}
    /\ ByteMod = Pow2[ByteBits]

WordBits == 4 * ByteBits
HalfMod  == ByteMod * ByteMod
WordMod  == HalfMod * HalfMod

Byte == 0..(ByteMod - 1)
Half == 0..(HalfMod - 1)
Word == 0..(WordMod - 1)
BitIndices == 0..(WordBits - 1)

(* Unsigned arithmetic wraps around at the width of the word. *)
Wrap(x) == x % WordMod

Bit(w, i) == (w \div Pow2[i]) % 2

(* The word whose bit i is f[i].  It is given as a set, the singleton of   *)
(* that word, so that its type is evident.                                 *)
WithBits(f) == {t \in Word : \A i \in BitIndices : Bit(t, i) = f[i]}

(* Byte number i of a word, the least significant one being number 0. *)
Lane(w, i) == (w \div <<1, ByteMod, HalfMod, HalfMod * ByteMod>>[i + 1]) % ByteMod

(* The word made of four bytes, little-endian. *)
Assemble(b0, b1, b2, b3) == b0 + ByteMod * (b1 + ByteMod * (b2 + ByteMod * b3))

(* The value of a 16-bit immediate read as a two's complement number. *)
SignedHalf(h) == IF 2 * h >= HalfMod THEN h - HalfMod ELSE h

SignedWord(w) == IF 2 * w >= WordMod THEN w - WordMod ELSE w
=============================================================================
