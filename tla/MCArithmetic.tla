---------------------------- MODULE MCArithmetic ----------------------------
(* One pair of registers, bytes of two bits, words of four. *)
EXTENDS Arithmetic

MCRegisters == {0, 1}

=============================================================================
