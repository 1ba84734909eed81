------------------------------ MODULE HyDisas ------------------------------
(***************************************************************************)
(* The disassembler (src/disas.c): it has its own copy of the opcode table *)
(* and of the positions of the fields, and prints the fields its table     *)
(* says an opcode has, whatever the encoding of the word.  What it prints  *)
(* is the name, how the index is combined and the fields with their        *)
(* values; punctuation and the names of registers are left out.            *)
(***************************************************************************)
EXTENDS HyDecode

Row(mode, sizes, conditional, encoding, entries) ==
    {[opcode |-> e[1], name |-> e[2], mode |-> mode, sizes |-> sizes,
      conditional |-> conditional, encoding |-> encoding] : e \in entries}

(* hyrisc_opc_info: operand mode, use of the size, condition, encoding. *)
MoveRows ==
    Row("2R", "none", FALSE, 3, {<<\hff, "mov">>, <<\hc6, "not">>, <<\hc5, "neg">>})
    \cup Row("2R", "load_store", FALSE, 3,
             {<<\hda, "cmp">>, <<\hc4, "sext">>, <<\hc3, "zext">>})
    \cup Row("1R", "none", FALSE, 3, {<<\hdb, "cmpz">>, <<\h9d, "push">>, <<\h9c, "pop">>})
    \cup Row("1R", "load_store", FALSE, 3, {<<\hc2, "rst">>})
    \cup Row("1R", "inc_dec", FALSE, 3, {<<\hc0, "inc">>, <<\hbf, "dec">>})
    \cup Row("RRNG", "load_store", FALSE, 3, {<<\hc1, "rst">>})
    \cup Row("RRNG", "none", FALSE, 3, {<<\h9f, "push">>, <<\h9e, "pop">>})
    \cup Row("RI5", "none", FALSE, 3, {<<\hbe, "tst">>})
    \cup Row("NONE", "none", FALSE, 3, {<<\h8f, "nop">>})

MemoryRows ==
    Row("RIXM", "load_store", FALSE, 3, {<<\hfc, "load">>})
    \cup Row("RIXS", "load_store", FALSE, 3, {<<\hfb, "load">>})
    \cup Row("IXMR", "load_store", FALSE, 3, {<<\hfa, "store">>})
    \cup Row("IXSR", "load_store", FALSE, 3, {<<\hf9, "store">>})
    \cup Row("RIXM", "none", FALSE, 3, {<<\hf8, "lea">>})
    \cup Row("RIXS", "none", FALSE, 3, {<<\hf7, "lea">>})

ArithmeticRows ==
    Row("3R", "none", FALSE, 3,
        {<<\hef, "addu">>, <<\hea, "subu">>, <<\he5, "mulu">>, <<\he0, "divu">>,
         <<\hcf, "and">>, <<\hcc, "or">>, <<\hc9, "xor">>,
         <<\hbd, "lsl">>, <<\hbb, "lsr">>, <<\hb9, "asl">>, <<\hb7, "asr">>})
    \cup Row("2RI8", "none", FALSE, 2,
        {<<\hee, "addu">>, <<\hec, "adds">>, <<\he9, "subu">>, <<\he7, "subs">>,
         <<\he4, "mulu">>, <<\he2, "muls">>, <<\hdf, "divu">>, <<\hdd, "divs">>,
         <<\hce, "and">>, <<\hcb, "or">>, <<\hc8, "xor">>})
    \cup Row("RI16", "none", FALSE, 1,
        {<<\hfe, "li">>, <<\hfd, "lui">>,
         <<\hed, "addu">>, <<\heb, "adds">>, <<\he8, "subu">>, <<\he6, "subs">>,
         <<\he3, "mulu">>, <<\he1, "muls">>, <<\hde, "divu">>, <<\hdc, "divs">>,
         <<\hd8, "cmp.s">>, <<\hcd, "and">>, <<\hca, "or">>, <<\hc7, "xor">>,
         <<\hbc, "lsl">>, <<\hba, "lsr">>, <<\hb8, "asl">>, <<\hb6, "asr">>})
    \cup Row("RI8", "none", FALSE, 2, {<<\hd9, "cmp.b">>})

JumpRows ==
    Row("I16", "branch", TRUE, 1, {<<\haf, "b">>, <<\hae, "b">>})
    \cup Row("I16", "none", TRUE, 1, {<<\had, "jal">>, <<\haa, "call">>})
    \cup Row("IXML", "none", TRUE, 3, {<<\hac, "jal">>, <<\ha9, "call">>})
    \cup Row("IXSH", "none", TRUE, 3, {<<\hab, "jal">>, <<\ha8, "call">>})
    \cup Row("NONE", "none", TRUE, 3, {<<\ha7, "rtl">>, <<\ha6, "ret">>})

Rows == MoveRows \cup MemoryRows \cup ArithmeticRows \cup JumpRows

(* Every other entry of the table is "<bad>", without operands. *)
Bad(n) == CHOOSE row \in Row("NONE", "none", FALSE, 0, {<<n, "<bad>">>}) : TRUE

OpcInfo(n) ==
    IF n \in {row.opcode : row \in Rows} THEN CHOOSE row \in Rows : row.opcode = n ELSE Bad(n)

(* print_insn_hyrisc: the registers of each mode, and its immediate. *)
Registers(row) ==
    CASE row.mode = "NONE" -> {}
      [] row.mode \in {"1R", "RI16", "I16", "RI8"} -> {"fieldx"}
      [] row.mode \in {"2R", "RRNG", "RI5", "2RI8"} -> {"fieldx", "fieldy"}
      [] row.mode = "3R" -> {"fieldx", "fieldy", "fieldz"}
      [] row.mode \in {"RIXM", "RIXS", "IXMR", "IXSR"} -> {"fieldx", "fieldy", "fieldz", "fieldw"}
      [] row.mode \in {"IXML", "IXSH"} -> {"fieldy", "fieldz", "fieldw"}

Immediates(row) ==
    {f \in {"imm8", "imm16"} :
        row.mode \in IF f = "imm8" THEN {"2RI8", "RI8"} ELSE {"RI16", "I16"}}

(* The modes that print the size, for the use of it that they look for,    *)
(* and the condition.                                                      *)
ShowsSize(row) ==
    \/ row.mode = "NONE" /\ ~row.conditional /\ row.sizes \in {"load_store", "inc_dec"}
    \/ row.mode = "1R" /\ row.sizes = "inc_dec"
    \/ row.mode \in {"2R", "RRNG", "RIXM", "RIXS", "IXMR", "IXSR"} /\ row.sizes = "load_store"

ShowsCondition(row) == row.conditional /\ row.mode \in {"NONE", "IXML", "IXSH"}

Shown(row) ==
    Registers(row) \cup Immediates(row)
                  \cup (IF ShowsSize(row) THEN {"size"} ELSE {})
                  \cup (IF ShowsCondition(row) THEN {"fieldx"} ELSE {})

(* HYRISC_DIS_FIELDX and the others: where the disassembler takes a field  *)
(* from.  tst masks the 16-bit immediate; the names of the conditions from *)
(* 16 on are all "cc", the name of condition 3.                            *)
ShownValue(row, w, f) ==
    CASE f = "fieldx" -> LET x == BITS(w, 10, 5)
                         IN  IF row.conditional /\ x >= 16 THEN 3 ELSE x
      [] f = "fieldy" /\ row.mode = "RI5" -> BITS(w, 15, 16) % 32
      [] f = "fieldy" -> BITS(w, 15, 5)
      [] f = "fieldz" -> BITS(w, 20, 5)
      [] f = "fieldw" -> BITS(w, 25, 5)
      [] f = "size"   -> BITS(w, 30, 2)
      [] f = "imm8"   -> BITS(w, 20, 8)
      [] f = "imm16"  -> BITS(w, 15, 16)

(* Mutant of Index: the modes of jumps and calls are swapped. *)
IndexSwapped(row) ==
    CASE row.mode \in {"RIXM", "IXMR", "IXSH"} -> "*"
      [] row.mode \in {"RIXS", "IXSR", "IXML"} -> ":"
      [] row.sizes = "branch" -> IF row.opcode % 2 = 1 THEN "s" ELSE "u"
      [] OTHER -> ""

(* The sign between the parts of an address, or the letter of a branch. *)
Index(row) ==
    CASE row.mode \in {"RIXM", "IXMR", "IXML"} -> "*"
      [] row.mode \in {"RIXS", "IXSR", "IXSH"} -> ":"
      [] row.sizes = "branch" -> IF row.opcode % 2 = 1 THEN "s" ELSE "u"
      [] OTHER -> ""

(* What is printed for a word. *)
Text(w) ==
    LET row == OpcInfo(BITS(w, 0, 8))
    IN  [name |-> row.name, index |-> Index(row),
         fields |-> [f \in Shown(row) |-> ShownValue(row, w, f)]]
-----------------------------------------------------------------------------
(* What hyrisc_execute does with the decoded instruction, in the same form. *)
ExecutedIndex(n) ==
    CASE Case(n)[3] = "M" -> "*"
      [] Case(n)[3] = "S" -> ":"
      [] Case(n)[3] = "FA" -> "+"
      [] Case(n)[3] = "FS" -> "-"
      [] Case(n)[2] = "b" -> IF n = \haf THEN "s" ELSE "u"
      [] OTHER -> ""

(* The text of the last instruction names the operation the CPU executes,  *)
(* and shows the latches it reads with the values they have, and no other. *)
TextIsExecuted ==
    LET text == Text(instruction)
        n == decoder.opcode
    IN  /\ text.name = Case(n)[2] /\ text.index = ExecutedIndex(n)
        /\ DOMAIN text.fields = Reads(n)
        /\ \A f \in Reads(n) : text.fields[f] = decoder[f]

(* The opcodes the disassembler and the CPU disagree on.  Loads and stores *)
(* with a fixed offset, store and lea moved when those were added, and     *)
(* break has no row.  The sizes of compare and reset are printed and not   *)
(* looked at: 0xd8 "cmp.s", 0xda and 0xc1 work on whole registers; 0xd9    *)
(* "cmp.b" also takes its operand from I16, not from the 8-bit immediate.  *)
Moved == \hf1..\hfa
SizeIgnored == {\hd8, \hd9, \hda, \hc1}
Disagree == Moved \cup SizeIgnored \cup {\h45}

(* A word in the encoding of its opcode is executed as the disassembler    *)
(* prints it for every legal opcode but those, and for none of those, up   *)
(* to the conditions it has no names for (hyrisc_opc_info and              *)
(* print_insn_hyrisc against hyrisc_decode and hyrisc_execute).            *)
DisassemblesTheRest ==
    LET row == OpcInfo(decoder.opcode)
    IN  /\ decoder.opcode \in Legal
        /\ decoder.encoding = row.encoding
        /\ ~(row.conditional /\ decoder.fieldx >= 16)
        => (TextIsExecuted <=> decoder.opcode \notin Disagree)
=============================================================================
