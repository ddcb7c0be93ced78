--------------------------- MODULE MCDerIntegers ----------------------------
(***************************************************************************)
(* Values for the constants of DerIntegers.                                *)
(***************************************************************************)
EXTENDS DerIntegers

\* Zero, the limits of the high bit, and the largest.
Edges == {0, 1, 127, 128, 255}
=============================================================================
