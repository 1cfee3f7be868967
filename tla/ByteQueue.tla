----------------------------- MODULE ByteQueue -----------------------------
(***************************************************************************)
(* What a Buffer of src/buffer.cc promises to the code that uses it: a     *)
(* first-in first-out queue of bytes.  Every call is visible through       *)
(* `call', the kind of the last call and the bytes it took in or handed    *)
(* out; where the bytes live, when memory grows and when the positions are *)
(* reset is not.                                                           *)
(***************************************************************************)
EXTENDS Naturals, Sequences

CONSTANT Bytes

VARIABLES
    q,      \* the bytes put and not yet taken, oldest first
    call    \* the last call: [kind, bytes]

Calls == [kind : {"put", "take", "peek", "drop", "none"}, bytes : Seq(Bytes)]

Init == q = << >> /\ call = [kind |-> "none", bytes |-> << >>]

Put == call'.kind = "put" /\ q' = q \o call'.bytes

Take == call'.kind = "take" /\ q = call'.bytes \o q'

Peek ==
    /\ call'.kind = "peek"
    /\ q' = q
    /\ Len(call'.bytes) <= Len(q)
    /\ call'.bytes = SubSeq(q, 1, Len(call'.bytes))

Drop == call'.kind = "drop" /\ q' = << >>

Idle == call'.kind = "none" /\ q' = q

Next == call' \in Calls /\ (Put \/ Take \/ Peek \/ Drop \/ Idle)

Spec == Init /\ [][Next]_<<q, call>>
=============================================================================
