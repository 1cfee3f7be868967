------------------------- MODULE MCPartialFindLoop -------------------------
(***************************************************************************)
(* Every haystack and needle of up to MaxHay and MaxNeedle bytes over two  *)
(* byte values.                                                            *)
(***************************************************************************)
EXTENDS PartialFindLoop

CONSTANTS a, b

MCByte == {a, b}
=============================================================================
