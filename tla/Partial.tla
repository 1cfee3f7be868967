------------------------------ MODULE Partial ------------------------------
(***************************************************************************)
(* Searching a buffer for a delimiter that may not have arrived in full.   *)
(* Positions count from 0 as in the source; h[p+1] is the byte at p.       *)
(***************************************************************************)
EXTENDS Integers, Sequences

\* what is left of h at p agrees with d as far as both go
PartialAt(h, d, p) == \A i \in 1 .. Len(d) : p + i <= Len(h) => h[p + i] = d[i]

\* the whole of d is at p
OccursAt(h, d, p) == PartialAt(h, d, p) /\ p + Len(d) <= Len(h)

\* what v8h::partial_find returns, searching from an offset: the first
\* position that may still become an occurrence, the end if there is none
IsFirstPartial(h, d, from, p) ==
    /\ p \in from .. Len(h)
    /\ PartialAt(h, d, p)
    /\ \A r \in from .. p - 1 : ~PartialAt(h, d, r)

FirstPartialFromNext(h, d, from) ==                           \* mutant
    CHOOSE p \in from + 1 .. Len(h) : IsFirstPartial(h, d, from + 1, p)

FirstPartial(h, d, from) == CHOOSE p \in from .. Len(h) : IsFirstPartial(h, d, from, p)

\* Buffer::partial_find, for a delimiter that is not empty
PartialFind(h, d, offset) == IF offset >= Len(h) THEN Len(h) ELSE FirstPartial(h, d, offset)

\* Buffer.isFound
IsFoundOffByOne(h, d, last) == last + Len(d) < Len(h)         \* mutant

IsFound(h, d, last) == last + Len(d) <= Len(h)
=============================================================================
