---------------------------- MODULE MCReadToken ----------------------------
(***************************************************************************)
(* Two byte values, so that line ends, empty lines and a boundary that     *)
(* overlaps itself run into each other; the stream is long enough for a    *)
(* request with one part.                                                  *)
(***************************************************************************)
EXTENDS ReadToken

CONSTANTS a, b

MCByte == {a, b}
MCLine == <<a, b>>
MCBoundary == <<a, a>>
=============================================================================
