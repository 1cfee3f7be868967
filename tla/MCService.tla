----------------------------- MODULE MCService -----------------------------
(***************************************************************************)
(* A small instance of Service: one more file than descriptors, so that a  *)
(* number is reused while events are pending.                              *)
(***************************************************************************)
EXTENDS Service

CONSTANTS d1, d2

MCFds == {d1, d2}
=============================================================================
