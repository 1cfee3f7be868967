------------------------------ MODULE MCBuffer ------------------------------
(***************************************************************************)
(* Small instances of Buffer: two byte values, blocks of 2 and 6 bytes, so *)
(* that a buffer grows while it holds data, is drained and refilled, and is *)
(* dropped by the pool.                                                    *)
(***************************************************************************)
EXTENDS Buffer

CONSTANTS a, b

MCBytes == {a, b}
MCPayloads == {<< >>, <<a>>, <<b>>, <<a, b>>}
MCPairs == {<<a>>, <<a, a>>}
=============================================================================
