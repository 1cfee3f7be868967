------------------------------ MODULE MCStream ------------------------------
(***************************************************************************)
(* A small instance of Stream: one connection whose script does anything,  *)
(* and one, for the buffers the first leaves in the pool, whose script     *)
(* waits for a peer that sends nothing or goes away.                       *)
(***************************************************************************)
EXTENDS Stream

MCTexts == <<2, 0>>
MCNeeds == <<2, 1>>
MCInput == <<2, 0>>
=============================================================================
