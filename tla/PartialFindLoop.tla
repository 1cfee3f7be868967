--------------------------- MODULE PartialFindLoop ---------------------------
(***************************************************************************)
(* The two loops of v8h::partial_find in src/algorithm.cc, one comparison  *)
(* of bytes a step.  haystack is the pointer of that name, first the       *)
(* number of bytes first1 and first2 are beyond their starts.              *)
(***************************************************************************)
EXTENDS Partial

CONSTANTS
    Byte,       \* byte values
    MaxHay,     \* bound: bytes of the haystack
    MaxNeedle   \* bound: bytes of the needle

ASSUME LoopAssumption == MaxHay \in Nat /\ MaxNeedle \in Nat \ {0}

VARIABLES
    hay,        \* the haystack, possibly empty
    needle,     \* the needle: Buffer::partial_find never passes an empty one
    haystack,   \* offset of the attempt, 0 .. Len(hay)
    first,      \* bytes of the attempt that agreed
    result      \* what was returned, or -1 while it runs

vars == <<hay, needle, haystack, first, result>>

Init ==
    /\ \E n \in 0 .. MaxHay : hay \in [1 .. n -> Byte]
    /\ \E n \in 1 .. MaxNeedle : needle \in [1 .. n -> Byte]
    /\ haystack = 0 /\ first = 0 /\ result = -1

Inside == result = -1 /\ haystack < Len(hay)

\* *first1 == *first2
Agree == hay[haystack + first + 1] = needle[first + 1]

StepToNeedleEnd ==                                            \* mutant
    /\ Inside /\ Agree
    /\ first + 1 # Len(needle)
    /\ first' = first + 1
    /\ UNCHANGED <<hay, needle, haystack, result>>

\* one byte more agrees, and neither side has ended
Step ==
    /\ Inside /\ Agree
    /\ haystack + first + 1 # Len(hay) /\ first + 1 # Len(needle)
    /\ first' = first + 1
    /\ UNCHANGED <<hay, needle, haystack, result>>

FoundNeedleOnly ==                                            \* mutant
    /\ Inside /\ Agree
    /\ first + 1 = Len(needle)
    /\ result' = haystack
    /\ UNCHANGED <<hay, needle, haystack, first>>

\* one side has ended
Found ==
    /\ Inside /\ Agree
    /\ haystack + first + 1 = Len(hay) \/ first + 1 = Len(needle)
    /\ result' = haystack
    /\ UNCHANGED <<hay, needle, haystack, first>>

AdvancePastPrefix ==                                          \* mutant
    /\ Inside /\ ~Agree
    /\ haystack' = haystack + (IF first = 0 THEN 1 ELSE first)
    /\ first' = 0
    /\ UNCHANGED <<hay, needle, result>>

\* ++haystack: the next attempt starts one byte on, from the needle's start
Advance ==
    /\ Inside /\ ~Agree
    /\ haystack' = haystack + 1
    /\ first' = 0
    /\ UNCHANGED <<hay, needle, result>>

NotFound ==
    /\ result = -1 /\ haystack = Len(hay)
    /\ result' = Len(hay)
    /\ UNCHANGED <<hay, needle, haystack, first>>

Done == result # -1 /\ UNCHANGED vars

Next == Step \/ Found \/ Advance \/ NotFound \/ Done

Spec == Init /\ [][Next]_vars

FairSpec == Spec /\ WF_vars(Step \/ Found \/ Advance \/ NotFound)

-----------------------------------------------------------------------------
(* Properties. *)

TypeOK ==
    /\ hay \in Seq(Byte) /\ needle \in Seq(Byte) /\ needle # << >>
    /\ haystack \in 0 .. Len(hay)
    /\ first \in Nat
    /\ result \in Int

\* The loops never dereference first1 at the end of the haystack or first2 at the
\* end of the needle, whatever the two hold.
NoOverread == Inside => haystack + first < Len(hay) /\ first < Len(needle)

\* What the loops return is the first position whose tail agrees with the needle as
\* far as both go: the naive restart one byte on skips no overlapping attempt.
ReturnsFirstPartial == result # -1 => IsFirstPartial(hay, needle, 0, result)

\* The search always returns.
Returns == <>(result # -1)
=============================================================================
