------------------------------ MODULE HyDecode ------------------------------
(***************************************************************************)
(* hyrisc_decode (src/hyrisc/hyrisc.hpp): from the bits of an instruction  *)
(* word to the latches of the decoder, which stay from one instruction to  *)
(* the next; and, for every opcode, which of the latches hyrisc_execute    *)
(* reads.  A word is the function from bit numbers to bits, for 32 bits    *)
(* are more than TLC's integers have.  HyIsa abstracts this module as the  *)
(* constant Decode, a function of the word alone.                          *)
(***************************************************************************)
EXTENDS Integers, Sequences

CONSTANTS
    Words,      (* bound: the instruction words fetched *)
    PowerOn     (* what the uninitialised latches may hold *)

BitNumbers == 0..31

Imm16 == 0..(256 * 256 - 1)

Latches ==
    [opcode : 0..255, encoding : 0..3,
     fieldx : 0..31, fieldy : 0..31, fieldz : 0..31, fieldw : 0..31,
     imm8 : 0..255, imm16 : Imm16, size : 0..3]

LatchNames == {"opcode", "encoding", "fieldx", "fieldy", "fieldz", "fieldw",
               "imm8", "imm16", "size"}

ASSUME DecodeAssumption ==
    /\ Words \subseteq [BitNumbers -> {0, 1}]
    /\ PowerOn \subseteq Latches

VARIABLES
    instruction,    (* the instruction latch *)
    decoder         (* the latches of the decoder *)

vars == <<instruction, decoder>>

(* The fields that name a register stay inside the register file: r[32].   *)
TypeOK == instruction \in Words /\ decoder \in Latches

(* BITS(b, l): the number in the l bits of w that start at bit b. *)
BITS(w, b, l) ==
    LET from[i \in b..(b + l)] == IF i = b + l THEN 0 ELSE w[i] + 2 * from[i + 1]
    IN  from[b]

MemsetSkipped(latches) == latches     \* mutant of Memset
Memset(latches) == [f \in LatchNames |-> 0]

(* Mutant of Fields: field x is one bit too wide. *)
FieldsWideX(e) ==
    CASE e = 3 -> [fieldx |-> <<10, 6>>, fieldy |-> <<15, 5>>, fieldz |-> <<20, 5>>,
                   fieldw |-> <<25, 5>>, size |-> <<30, 2>>]
      [] e = 2 -> [fieldx |-> <<10, 6>>, fieldy |-> <<15, 5>>, imm8 |-> <<20, 8>>]
      [] e = 1 -> [fieldx |-> <<10, 6>>, imm16 |-> <<15, 16>>]
      [] e = 0 -> <<>>

(* The latches each encoding writes, with the first bit and the width. *)
Fields(e) ==
    CASE e = 3 -> [fieldx |-> <<10, 5>>, fieldy |-> <<15, 5>>, fieldz |-> <<20, 5>>,
                   fieldw |-> <<25, 5>>, size |-> <<30, 2>>]
      [] e = 2 -> [fieldx |-> <<10, 5>>, fieldy |-> <<15, 5>>, imm8 |-> <<20, 8>>]
      [] e = 1 -> [fieldx |-> <<10, 5>>, imm16 |-> <<15, 16>>]
      [] e = 0 -> <<>>

(* The latches after hyrisc_decode of w. *)
Decoded(latches, w) ==
    LET fields == Fields(BITS(w, 8, 2))
    IN  [f \in LatchNames |->
            CASE f = "opcode" -> BITS(w, 0, 8)
              [] f = "encoding" -> BITS(w, 8, 2)
              [] f \in DOMAIN fields -> BITS(w, fields[f][1], fields[f][2])
              [] OTHER -> Memset(latches)[f]]

(* The first instruction after the power-on has been decoded. *)
Init == instruction \in Words /\ decoder \in {Decoded(p, instruction) : p \in PowerOn}

Next == \E w \in Words : instruction' = w /\ decoder' = Decoded(decoder, w)

Spec == Init /\ [][Next]_vars
-----------------------------------------------------------------------------
(* hyrisc_opcodes_t and the cases of hyrisc_execute: the number of an      *)
(* opcode, the operation and the form of its operands, as in HyIsa; every  *)
(* other number is illegal.                                                *)
OpcodeTable ==
    {<<\hff, "mov", "Y">>, <<\hfe, "li", "I16">>, <<\hfd, "lui", "I16">>,
     <<\hfc, "load", "M">>, <<\hfb, "load", "S">>, <<\hfa, "load", "FA">>,
     <<\hf9, "load", "FS">>, <<\hf8, "store", "M">>, <<\hf7, "store", "S">>,
     <<\hf6, "store", "FA">>, <<\hf5, "store", "FS">>, <<\hf4, "lea", "M">>,
     <<\hf3, "lea", "S">>, <<\hf2, "lea", "FA">>, <<\hf1, "lea", "FS">>,
     <<\hef, "addu", "R">>, <<\hee, "addu", "I8">>, <<\hed, "addu", "I16">>,
     <<\hec, "adds", "I8">>, <<\heb, "adds", "I16">>, <<\hea, "subu", "R">>,
     <<\he9, "subu", "I8">>, <<\he8, "subu", "I16">>, <<\he7, "subs", "I8">>,
     <<\he6, "subs", "I16">>, <<\he5, "mulu", "R">>, <<\he4, "mulu", "I8">>,
     <<\he3, "mulu", "I16">>, <<\he2, "muls", "I8">>, <<\he1, "muls", "I16">>,
     <<\he0, "divu", "R">>, <<\hdf, "divu", "I8">>, <<\hde, "divu", "I16">>,
     <<\hdd, "divs", "I8">>, <<\hdc, "divs", "I16">>, <<\hdb, "cmpz", "One">>,
     <<\hda, "cmp", "Y">>, <<\hd9, "cmp", "I16">>, <<\hd8, "cmp", "I16">>,
     <<\hcf, "and", "R">>, <<\hce, "and", "I8">>, <<\hcd, "and", "I16">>,
     <<\hcc, "or", "R">>, <<\hcb, "or", "I8">>, <<\hca, "or", "I16">>,
     <<\hc9, "xor", "R">>, <<\hc8, "xor", "I8">>, <<\hc7, "xor", "I16">>,
     <<\hc6, "not", "Y">>, <<\hc5, "neg", "Y">>, <<\hc4, "sext", "Y">>,
     <<\hc2, "rst", "One">>, <<\hc1, "rst", "Y">>, <<\hc0, "inc", "Size">>,
     <<\hbf, "dec", "Size">>, <<\hbe, "tst", "Y">>, <<\hbd, "lsl", "R">>,
     <<\hbc, "lsl", "I16">>, <<\hbb, "lsr", "R">>, <<\hba, "lsr", "I16">>,
     <<\hb9, "asl", "R">>, <<\hb8, "asl", "I16">>, <<\hb7, "asr", "R">>,
     <<\hb6, "asr", "I16">>, <<\haf, "b", "I16">>, <<\hae, "b", "I16">>,
     <<\had, "jal", "I16">>, <<\hac, "jal", "M">>, <<\hab, "jal", "S">>,
     <<\haa, "call", "I16">>, <<\ha9, "call", "M">>, <<\ha8, "call", "S">>,
     <<\ha7, "rtl", "One">>, <<\ha6, "ret", "One">>, <<\h9d, "push", "One">>,
     <<\h9c, "pop", "One">>, <<\h8f, "nop", "None">>, <<\h45, "break", "None">>}

Legal == {row[1] : row \in OpcodeTable}
Case(n) == CHOOSE row \in OpcodeTable : row[1] = n

(* The latches the case of a legal opcode reads; the condition of a branch *)
(* is field x.                                                             *)
Reads(n) ==
    LET name == Case(n)[2]
        form == Case(n)[3]
    IN  CASE form = "None" -> {}
          [] form = "One"  -> {"fieldx"}
          [] form = "Size" -> {"fieldx", "size"}
          [] form = "Y"    -> {"fieldx", "fieldy"} \cup (IF name = "sext" THEN {"size"} ELSE {})
          [] form = "R"    -> {"fieldx", "fieldy", "fieldz"}
          [] form = "I8"   -> {"fieldx", "fieldy", "imm8"}
          [] form = "I16"  -> {"fieldx", "imm16"}
          [] OTHER -> {"fieldx", "fieldy", "fieldz", "fieldw"}
                          \cup (IF name \in {"load", "store"} THEN {"size"} ELSE {})
-----------------------------------------------------------------------------
(* The encodings as the table above hyrisc_decode draws them, all 32 bits  *)
(* from the first: how many, and of what.  Encoding 0, "Encoding 1" in the *)
(* table, is drawn with a condition and an immediate, and not used.        *)
Layout ==
    [e \in 0..3 |->
        CASE e = 0 -> <<<<8, "opcode">>, <<2, "encoding">>, <<5, "unused">>, <<16, "unused">>,
                        <<1, "unused">>>>
          [] e = 1 -> <<<<8, "opcode">>, <<2, "encoding">>, <<5, "fieldx">>, <<16, "imm16">>,
                        <<1, "unused">>>>
          [] e = 2 -> <<<<8, "opcode">>, <<2, "encoding">>, <<5, "fieldx">>, <<5, "fieldy">>,
                        <<8, "imm8">>, <<4, "unused">>>>
          [] e = 3 -> <<<<8, "opcode">>, <<2, "encoding">>, <<5, "fieldx">>, <<5, "fieldy">>,
                        <<5, "fieldz">>, <<5, "fieldw">>, <<2, "size">>>>]

(* The first bit of each of them. *)
Offset(e) ==
    LET first[k \in 1..Len(Layout[e])] == IF k = 1 THEN 0 ELSE first[k - 1] + Layout[e][k - 1][1]
    IN  first

(* Whatever was decoded before, each latch holds the bits the drawing of   *)
(* the encodings gives it, and the latches that the encoding of this word  *)
(* has no bits for are 0: hyrisc_execute reads some of them (cmp.b, tst,   *)
(* words whose encoding does not fit their opcode), and must not see an    *)
(* operand of an earlier instruction (hyrisc_decode).                      *)
LatchesFollowLayout ==
    LET e == BITS(instruction, 8, 2)
        named == {k \in 1..Len(Layout[e]) : Layout[e][k][2] \in LatchNames}
    IN  /\ \A k \in named :
               decoder[Layout[e][k][2]] = BITS(instruction, Offset(e)[k], Layout[e][k][1])
        /\ \A f \in LatchNames \ {Layout[e][k][2] : k \in named} : decoder[f] = 0

(* The instruction table: opcode 0xd9 is "cmp.b r0, i8", in encoding 3.    *)
CompareByteComparesByte ==
    decoder.opcode = \hd9 /\ decoder.encoding = 2 =>
        \E f \in Reads(\hd9) \ {"fieldx"} : decoder[f] = BITS(instruction, 20, 8)
=============================================================================
