------------------------ MODULE PartialFindLoopProofs ------------------------
(***************************************************************************)
(* The loops of v8h::partial_find are right for every haystack and needle. *)
(***************************************************************************)
EXTENDS PartialFindLoop, TLAPS

\* The bytes compared so far agree, and every earlier attempt met a difference.
LoopInv ==
    /\ TypeOK
    /\ NoOverread
    /\ \A i \in 1 .. first : hay[haystack + i] = needle[i]
    /\ \A p \in 0 .. haystack - 1 : ~PartialAt(hay, needle, p)
    /\ result # -1 => IsFirstPartial(hay, needle, 0, result)
    /\ result = -1 => (haystack = Len(hay) => first = 0)

LEMMA LoopInitial == Init => LoopInv
<1> SUFFICES ASSUME Init PROVE LoopInv
  OBVIOUS
<1>1. hay \in Seq(Byte) /\ needle \in Seq(Byte) /\ Len(needle) > 0
  BY LoopAssumption DEF Init
<1>2. TypeOK
  BY <1>1 DEF Init, TypeOK
<1> QED
  BY <1>1, <1>2 DEF Init, LoopInv, NoOverread, Inside

LEMMA LoopStep == LoopInv /\ [Next]_vars => LoopInv'
<1> SUFFICES ASSUME LoopInv, [Next]_vars PROVE LoopInv'
  OBVIOUS
<1> USE DEF LoopInv, TypeOK, NoOverread, Inside
<1>1. CASE Step
  <2>1. \A i \in 1 .. first + 1 : hay[haystack + i] = needle[i]
    BY <1>1 DEF Step, Agree
  <2> QED
    BY <1>1, <2>1 DEF Step
<1>2. CASE Found
  <2>1. PartialAt(hay, needle, haystack)
    BY <1>2 DEF Found, Agree, PartialAt
  <2>2. IsFirstPartial(hay, needle, 0, haystack)
    BY <2>1, <1>2 DEF Found, IsFirstPartial
  <2> QED
    BY <1>2, <2>2 DEF Found
<1>3. CASE Advance
  <2>1. ~PartialAt(hay, needle, haystack)
    <3>1. /\ first + 1 \in 1 .. Len(needle)
          /\ haystack + (first + 1) <= Len(hay)
          /\ hay[haystack + (first + 1)] # needle[first + 1]
      BY <1>3 DEF Advance, Agree
    <3> QED
      BY <3>1 DEF PartialAt
  <2>2. \A p \in 0 .. haystack : ~PartialAt(hay, needle, p)
    BY <2>1
  <2> QED
    BY <1>3, <2>2 DEF Advance
<1>4. CASE NotFound
  <2>1. PartialAt(hay, needle, Len(hay))
    BY DEF PartialAt
  <2>2. IsFirstPartial(hay, needle, 0, Len(hay))
    BY <2>1, <1>4 DEF NotFound, IsFirstPartial
  <2> QED
    BY <1>4, <2>2 DEF NotFound
<1>5. CASE Done
  BY <1>5 DEF Done, vars
<1>6. CASE UNCHANGED vars
  BY <1>6 DEF vars
<1> QED
  BY <1>1, <1>2, <1>3, <1>4, <1>5, <1>6 DEF Next

LEMMA LoopInvariant == Spec => []LoopInv
  BY LoopInitial, LoopStep, PTL DEF Spec

\* For every haystack and needle the loops return the first position whose tail
\* agrees with the needle as far as both go.
THEOREM ReturnsFirstPartialAlways == Spec => []ReturnsFirstPartial
<1>1. LoopInv => ReturnsFirstPartial
  BY DEF LoopInv, ReturnsFirstPartial
<1> QED
  BY <1>1, LoopInvariant, PTL

\* The counters of the loops stay in the ranges their C types stand for.
THEOREM TypeCorrect == Spec => []TypeOK
<1>1. LoopInv => TypeOK
  BY DEF LoopInv
<1> QED
  BY <1>1, LoopInvariant, PTL

\* They never dereference a pointer at or beyond the end of its buffer.
THEOREM NeverOverreads == Spec => []NoOverread
<1>1. LoopInv => NoOverread
  BY DEF LoopInv
<1> QED
  BY <1>1, LoopInvariant, PTL

\* One comparison more of the attempt, the next attempt, or the result.
Nearer ==
    \/ haystack' = haystack /\ first' = first + 1 /\ first' < Len(needle) /\ result' = -1
    \/ haystack' = haystack + 1 /\ haystack' <= Len(hay) /\ result' = -1
    \/ result = -1 /\ result' \in 0 .. Len(hay)

\* What Returns rests on: every step is one of finitely many, as an attempt makes fewer
\* comparisons than the needle has bytes and there are no more attempts than the haystack
\* has.
THEOREM SearchGetsNearer == Spec => [][Nearer]_vars
<1>1. LoopInv /\ [Next]_vars => [Nearer]_vars
  <2> SUFFICES ASSUME LoopInv, Next PROVE Nearer \/ UNCHANGED vars
    OBVIOUS
  <2> USE DEF LoopInv, TypeOK, NoOverread, Inside, Nearer
  <2>1. CASE Step
    BY <2>1 DEF Step
  <2>2. CASE Found \/ NotFound
    BY <2>2 DEF Found, NotFound
  <2>3. CASE Advance
    BY <2>3 DEF Advance
  <2> QED
    BY <2>1, <2>2, <2>3 DEF Next, Done
<1> QED
  BY <1>1, LoopInvariant, PTL DEF Spec
=============================================================================
