----------------------------- MODULE MCHyDecode -----------------------------
(***************************************************************************)
(* Instruction words for the decoder and the disassembler.  The payload,   *)
(* bits 10 to 31, is one of a few numbers in which neighbouring fields     *)
(* differ.                                                                 *)
(***************************************************************************)
EXTENDS HyDisas

WordOf(opcode, encoding, payload) ==
    [i \in BitNumbers |->
        CASE i < 8 -> (opcode \div 2^i) % 2
          [] i \in 8..9 -> (encoding \div 2^(i - 8)) % 2
          [] OTHER -> (payload \div 2^(i - 10)) % 2]

Payloads == {0, 2^22 - 1, 1398101, 2796202, 1234567, 3037000, 21 * 1024, 992}

(* Four opcodes in every encoding. *)
MCWords == {WordOf(o, e, p) : o \in {\hfc, \hd9, \hbe, \h8f}, e \in 0..3, p \in Payloads}

(* Every opcode in the encoding of its row of the disassembler's table. *)
MCAllOpcodes ==
    {WordOf(n, OpcInfo(n).encoding, (n * 75329 + k * 1048573) % 2^22) :
        n \in 0..255, k \in 0..1}

MCAllWords == MCWords \cup MCAllOpcodes

MCPowerOn ==
    {[opcode |-> 255, encoding |-> 3, fieldx |-> 31, fieldy |-> 31, fieldz |-> 31,
      fieldw |-> 31, imm8 |-> 255, imm16 |-> 65535, size |-> 3]}
=============================================================================
