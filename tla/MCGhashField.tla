---------------------------- MODULE MCGhashField ----------------------------
(***************************************************************************)
(* GF(2^4): two words of two bits, x^4 + x + 1.  The constant added for a  *)
(* bit shifted out stands for 1 + x, its two highest bits.                 *)
(***************************************************************************)
EXTENDS GhashField

FieldPolynomial == {4, 1, 0}

=============================================================================
