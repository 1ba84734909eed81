---------------------------- MODULE MCHyAluUnit ----------------------------
(* Model-checking instance of HyAluUnit: bytes of ByteBits bits. *)
EXTENDS HyAluUnit
=============================================================================
