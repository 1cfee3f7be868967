---------------------------- MODULE MCHttpServer ----------------------------
(***************************************************************************)
(* Small instances of HttpServer.                                          *)
(***************************************************************************)
EXTENDS HttpServer

CONSTANTS d1, d2

MCFds == {d1, d2}
MCOne == {d1}
Plain == [body |-> "none", keep |-> TRUE]
Post == [body |-> "sized", keep |-> TRUE]
Last == [body |-> "none", keep |-> FALSE]
Untyped == [body |-> "untyped", keep |-> TRUE]
Unbounded == [body |-> "unbounded", keep |-> TRUE]
MCShapes == {Post, Last, Untyped, Unbounded}
MCShort == {Post, Last}
=============================================================================
