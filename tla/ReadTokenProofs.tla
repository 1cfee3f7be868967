-------------------------- MODULE ReadTokenProofs --------------------------
(***************************************************************************)
(* The parser is right for every boundary, every stream and every way the  *)
(* peer and the network cut the stream into chunks.                        *)
(***************************************************************************)
EXTENDS ReadToken, SequenceTheorems, WellFoundedInduction, TLAPS

-----------------------------------------------------------------------------
(* The search. *)

LEMMA LeastElement ==
    ASSUME NEW T, T \subseteq Nat, T # {}
    PROVE  \E x \in T : \A y \in T : x <= y
<1>1. \E x \in T : \A y \in T : ~(<<y, x>> \in OpToRel(<, Nat))
  BY NatLessThanWellFounded, WFMin
<1>2. PICK x \in T : \A y \in T : ~(<<y, x>> \in OpToRel(<, Nat))
  BY <1>1
<1>3. \A y \in T : ~(y < x)
  BY <1>2 DEF OpToRel
<1> QED
  BY <1>3

\* There is always a first partial position, and FirstPartial is it.
LEMMA FirstPartialExists ==
    ASSUME NEW S, NEW h \in Seq(S), NEW d \in Seq(S), NEW from \in 0 .. Len(h)
    PROVE  IsFirstPartial(h, d, from, FirstPartial(h, d, from))
<1> DEFINE T == {p \in from .. Len(h) : PartialAt(h, d, p)}
<1>1. PartialAt(h, d, Len(h))
  BY DEF PartialAt
<1>2. T # {} /\ T \subseteq Nat
  BY <1>1
<1>3. PICK p \in T : \A r \in T : p <= r
  BY <1>2, LeastElement
<1>4. IsFirstPartial(h, d, from, p)
  BY <1>3 DEF IsFirstPartial
<1> QED
  BY <1>3, <1>4 DEF FirstPartial

\* Buffer::partial_find returns a position of the buffer, at or after the offset,
\* where the delimiter may be, and skips only positions where it cannot be.
LEMMA PartialFindFacts ==
    ASSUME NEW S, NEW h \in Seq(S), NEW d \in Seq(S), NEW offset \in 0 .. Len(h)
    PROVE  /\ PartialFind(h, d, offset) \in offset .. Len(h)
           /\ PartialAt(h, d, PartialFind(h, d, offset))
           /\ \A r \in offset .. PartialFind(h, d, offset) - 1 : ~PartialAt(h, d, r)
<1>1. CASE offset = Len(h)
  BY <1>1 DEF PartialFind, PartialAt
<1>2. CASE offset < Len(h)
  BY <1>2, FirstPartialExists DEF PartialFind, IsFirstPartial
<1> QED
  BY <1>1, <1>2

\* A search resumed where the last one stopped keeps everything before it ruled out.
LEMMA SearchGoesOn ==
    ASSUME NEW S, NEW h \in Seq(S), NEW d \in Seq(S), NEW from \in 0 .. Len(h),
           \A r \in 0 .. from - 1 : ~PartialAt(h, d, r)
    PROVE  /\ PartialFind(h, d, from) \in 0 .. Len(h)
           /\ PartialAt(h, d, PartialFind(h, d, from))
           /\ \A r \in 0 .. PartialFind(h, d, from) - 1 : ~PartialAt(h, d, r)
<1> DEFINE p == PartialFind(h, d, from)
<1>1. p \in from .. Len(h) /\ PartialAt(h, d, p)
      /\ \A r \in from .. p - 1 : ~PartialAt(h, d, r)
  BY PartialFindFacts
<1> HIDE DEF p
<1>2. ASSUME NEW r \in 0 .. p - 1 PROVE ~PartialAt(h, d, r)
  <2>1. r \in 0 .. from - 1 \/ r \in from .. p - 1
    BY <1>1
  <2> QED
    BY <1>1, <2>1
<1>3. p \in 0 .. Len(h) /\ PartialAt(h, d, p) /\ \A r \in 0 .. p - 1 : ~PartialAt(h, d, r)
  BY <1>1, <1>2
<1> QED
  BY <1>3 DEF p

\* A position ruled out stays ruled out when more bytes arrive.
LEMMA MismatchIsStable ==
    ASSUME NEW S, NEW h \in Seq(S), NEW d \in Seq(S), NEW chunk \in Seq(S),
           NEW p \in Nat, ~PartialAt(h, d, p)
    PROVE  ~PartialAt(h \o chunk, d, p)
<1>1. PICK i \in 1 .. Len(d) : p + i <= Len(h) /\ h[p + i] # d[i]
  BY DEF PartialAt
<1>2. p + i <= Len(h \o chunk) /\ (h \o chunk)[p + i] = h[p + i]
  BY <1>1
<1> QED
  BY <1>1, <1>2 DEF PartialAt

-----------------------------------------------------------------------------
(* The reader. *)

TokenInv ==
    /\ TypeOK
    /\ Resumable
    /\ at \in Searching /\ phase # "check" => PartialAt(buf, DelimOf[at], last)
    /\ at \in Searching /\ phase = "found" => IsFound(buf, DelimOf[at], last)
    /\ at \in Searching /\ phase = "idle" => ~IsFound(buf, DelimOf[at], last)
    /\ at = "pair" /\ phase = "found" => Len(buf) >= 2
    /\ at = "done" => phase = "idle" /\ buf = << >>

LEMMA DelimTypes ==
    ASSUME NEW x \in Searching PROVE DelimOf[x] \in Seq(Byte) /\ Len(DelimOf[x]) \in Nat \ {0}
<1>1. Line \in Seq(Byte) /\ Len(Line) = 2 /\ Boundary \in Seq(Byte) /\ Len(Boundary) \in Nat \ {0}
  BY ReadTokenAssumption
<1>2. Line \o Line \in Seq(Byte) /\ Len(Line \o Line) = Len(Line) + Len(Line)
  <2> DEFINE l == Line
  <2>1. l \in Seq(Byte)
    BY <1>1
  <2> HIDE DEF l
  <2>2. l \o l \in Seq(Byte) /\ Len(l \o l) = Len(l) + Len(l)
    BY <2>1, ConcatProperties
  <2> QED
    BY <2>2 DEF l
<1>3. x = "boundary" \/ x = "header" \/ x = "end"
  BY DEF Searching
<1>4. /\ DelimOf["boundary"] = Boundary /\ DelimOf["header"] = Line \o Line
      /\ DelimOf["end"] = Line
  BY DEF DelimOf
<1>5. CASE x = "boundary"
  BY <1>1, <1>4, <1>5
<1>6. CASE x = "header"
  <2>1. DelimOf[x] = Line \o Line
    BY <1>4, <1>6
  <2> QED
    BY <1>1, <1>2, <2>1
<1>7. CASE x = "end"
  <2>1. DelimOf[x] = Line
    BY <1>4, <1>7
  <2>2. Line \in Seq(Byte) /\ Len(Line) \in Nat \ {0}
    BY <1>1
  <2> QED
    BY <2>1, <2>2, Zenon
<1> QED
  BY <1>3, <1>5, <1>6, <1>7

LEMMA TokenInitial == Init => TokenInv
  BY DEF Init, TokenInv, TypeOK, Resumable, Searching

\* A callback at a delimiter takes no more than there is.
LEMMA DelimiterInside ==
    ASSUME TokenInv, phase = "found", at \in Searching
    PROVE  /\ ToDelimiter \in 0 .. Len(buf)
           /\ OccursAt(buf, DelimOf[at], last)
           /\ \A p \in 0 .. last - 1 : ~PartialAt(buf, DelimOf[at], p)
<1>1. DelimOf[at] \in Seq(Byte) /\ Len(DelimOf[at]) \in Nat
  BY DelimTypes
<1>2. last \in 0 .. Len(buf) /\ last + Len(DelimOf[at]) <= Len(buf) /\ Len(buf) \in Nat
  BY DEF TokenInv, TypeOK, IsFound
<1>3. ToDelimiter \in 0 .. Len(buf)
  BY <1>1, <1>2 DEF ToDelimiter
<1> QED
  BY <1>2, <1>3 DEF TokenInv, Resumable, OccursAt

\* What each callback takes and what it asks for next.
LEMMA CallbackTakes ==
    ASSUME TokenInv, Callback
    PROVE  /\ phase = "found"
           /\ at \in Searching \cup {"pair"}
           /\ \E n \in 0 .. Len(buf) :
                 /\ at \in Searching => n = ToDelimiter
                 /\ at = "pair" => n = 2
                 /\ \/ at # "end" /\ Take(n, After(n), at') /\ at' \in Searching \cup {"pair"}
                    \/ at = "end" /\ Take(n, << >>, "done")
                 /\ at' = CASE at = "boundary" -> "pair"
                            [] at = "pair" -> IF SubSeq(buf, 1, 2) = Line THEN "header" ELSE "end"
                            [] at = "header" -> "boundary"
                            [] at = "end" -> "done"
<1>1. CASE BoundaryFound
  <2>1. phase = "found" /\ at = "boundary" /\ Take(ToDelimiter, After(ToDelimiter), "pair")
    BY <1>1 DEF BoundaryFound
  <2>2. at' = "pair" /\ ToDelimiter \in 0 .. Len(buf)
    BY <2>1, DelimiterInside DEF Take, Searching
  <2> QED
    BY <2>1, <2>2 DEF Searching
<1>2. CASE PairFound
  <2> DEFINE next == IF SubSeq(buf, 1, 2) = Line THEN "header" ELSE "end"
  <2>1. phase = "found" /\ at = "pair" /\ Take(2, After(2), next)
    BY <1>2 DEF PairFound
  <2>2. at' = next /\ 2 \in 0 .. Len(buf)
    BY <2>1 DEF Take, TokenInv, TypeOK
  <2>3. next \in Searching
    BY DEF Searching
  <2> HIDE DEF next
  <2>4. Take(2, After(2), at')
    BY <2>1, <2>2
  <2> QED
    BY <2>1, <2>2, <2>3, <2>4 DEF Searching, next
<1>3. CASE HeaderFound
  <2>1. phase = "found" /\ at = "header" /\ Take(ToDelimiter, After(ToDelimiter), "boundary")
    BY <1>3 DEF HeaderFound
  <2>2. at' = "boundary" /\ ToDelimiter \in 0 .. Len(buf)
    BY <2>1, DelimiterInside DEF Take, Searching
  <2> QED
    BY <2>1, <2>2 DEF Searching
<1>4. CASE EndFound
  <2>1. phase = "found" /\ at = "end" /\ Take(ToDelimiter, << >>, "done")
    BY <1>4 DEF EndFound
  <2>2. at' = "done" /\ ToDelimiter \in 0 .. Len(buf)
    BY <2>1, DelimiterInside DEF Take, Searching
  <2> QED
    BY <2>1, <2>2 DEF Searching
<1> QED
  BY <1>1, <1>2, <1>3, <1>4 DEF Callback

LEMMA AfterFacts ==
    ASSUME NEW n \in 0 .. Len(buf), buf \in Seq(Byte)
    PROVE  /\ After(n) \in Seq(Byte) /\ Len(After(n)) = Len(buf) - n
           /\ \A i \in 1 .. Len(buf) - n : After(n)[i] = buf[n + i]
  BY DEF After

LEMMA TokenStep == TokenInv /\ [Next]_vars => TokenInv'
<1> SUFFICES ASSUME TokenInv, [Next]_vars PROVE TokenInv'
  OBVIOUS
<1>0. at \in Searching => DelimOf[at] \in Seq(Byte) /\ Len(DelimOf[at]) > 0
  BY DelimTypes
<1>1. CASE Receive
  <2> USE DEF TokenInv, TypeOK, Resumable
  <2>1. PICK n \in 1 .. MaxChunk : \E chunk \in [1 .. n -> Byte] :
           buf' = buf \o chunk /\ stream' = stream \o chunk
    BY <1>1 DEF Receive
  <2> n \in Nat
    BY <2>1, ReadTokenAssumption
  <2>2. PICK chunk \in [1 .. n -> Byte] : buf' = buf \o chunk /\ stream' = stream \o chunk
    BY <2>1
  <2> chunk \in Seq(Byte)
    OBVIOUS
  <2>3. at \in Searching => \A p \in 0 .. last - 1 : ~PartialAt(buf', DelimOf[at], p)
    BY <1>0, <2>2, MismatchIsStable
  <2>4. /\ buf' \in Seq(Byte) /\ stream' \in Seq(Byte)
        /\ Len(buf') >= Len(buf)
    BY <2>2
  <2> QED
    BY <1>1, <2>3, <2>4 DEF Receive
<1>2. CASE Check
  <2> USE DEF TokenInv, TypeOK, Resumable
  <2>1. /\ last' \in 0 .. Len(buf)
        /\ PartialAt(buf, DelimOf[at], last')
        /\ \A p \in 0 .. last' - 1 : ~PartialAt(buf, DelimOf[at], p)
    BY <1>0, <1>2, SearchGoesOn DEF Check
  <2>2. phase' = IF IsFound(buf, DelimOf[at], last') THEN "found" ELSE "idle"
    BY <1>2 DEF Check
  <2>3. "pair" \notin Searching /\ "done" \notin Searching
    BY DEF Searching
  <2> QED
    BY <1>2, <2>1, <2>2, <2>3 DEF Check, IsFound
<1>3. CASE CheckSize
  BY <1>3 DEF CheckSize, TokenInv, TypeOK, Resumable, Searching
<1>4. CASE Callback
  <2>1. PICK n \in 0 .. Len(buf) :
           \/ at # "end" /\ Take(n, After(n), at') /\ at' \in Searching \cup {"pair"}
           \/ at = "end" /\ Take(n, << >>, "done")
    BY <1>4, CallbackTakes
  <2>2. buf \in Seq(Byte) /\ stream' = stream /\ last' = 0
    BY <2>1 DEF TokenInv, TypeOK, Take
  <2>3. CASE at # "end"
    <3>1. /\ buf' = After(n) /\ at' \in Searching \cup {"pair"}
          /\ phase' = IF at' = "done" THEN "idle" ELSE "check"
      BY <2>1, <2>3 DEF Take
    <3>2. phase' = "check" /\ at' # "done"
      BY <3>1 DEF Searching
    <3> QED
      BY <2>2, <3>1, <3>2, AfterFacts DEF TokenInv, TypeOK, Resumable
  <2>4. CASE at = "end"
    <3>1. buf' = << >> /\ at' = "done" /\ phase' = "idle"
      BY <2>1, <2>4 DEF Take
    <3> QED
      BY <2>2, <3>1 DEF TokenInv, TypeOK, Resumable, Searching
  <2> QED
    BY <2>3, <2>4
<1>5. CASE UNCHANGED vars
  BY <1>5 DEF vars, TokenInv, TypeOK, Resumable
<1> QED
  BY <1>1, <1>2, <1>3, <1>4, <1>5 DEF Next

LEMMA TokenInvariant == Spec => []TokenInv
  BY TokenInitial, TokenStep, PTL DEF Spec

\* The parser's state is always well formed: in particular `last' never points
\* beyond the buffer, though a callback has just shortened it.
THEOREM TypeCorrect == Spec => []TypeOK
<1>1. TokenInv => TypeOK
  BY DEF TokenInv
<1> QED
  BY <1>1, TokenInvariant, PTL

\* A search resumed after any chunk has skipped no occurrence, not even one whose
\* bytes came in different chunks.
THEOREM ResumesSafely == Spec => []Resumable
<1>1. TokenInv => Resumable
  BY DEF TokenInv
<1> QED
  BY <1>1, TokenInvariant, PTL

\* The test isFound makes is exact: it holds just when the delimiter is there.
THEOREM FoundExactly == Spec => []FoundIffPresent
<1>1. TokenInv => FoundIffPresent
  <2> SUFFICES ASSUME TokenInv, at \in Searching, phase # "check"
               PROVE  (phase = "found") <=>
                         \E p \in 0 .. Len(buf) : OccursAt(buf, DelimOf[at], p)
    BY DEF FoundIffPresent
  <2>0. Len(buf) \in Nat /\ last \in 0 .. Len(buf) /\ Len(DelimOf[at]) \in Nat
    BY DelimTypes DEF TokenInv, TypeOK
  <2>1. ASSUME phase = "found" PROVE OccursAt(buf, DelimOf[at], last)
    BY <2>1, DelimiterInside
  <2>2. ASSUME NEW p \in 0 .. Len(buf), OccursAt(buf, DelimOf[at], p) PROVE phase = "found"
    <3>1. p >= last
      BY <2>0, <2>2 DEF OccursAt, Resumable, TokenInv
    <3>2. last + Len(DelimOf[at]) <= Len(buf)
      BY <2>0, <2>2, <3>1 DEF OccursAt
    <3> QED
      BY <3>2 DEF IsFound, TokenInv, TypeOK
  <2> QED
    BY <2>0, <2>1, <2>2
<1> QED
  BY <1>1, TokenInvariant, PTL

-----------------------------------------------------------------------------
(* What was taken.  The buffer is what is left of the stream, so what the    *)
(* search says of the buffer is said of the stream from there on; and what   *)
(* lies before is settled, whatever arrives.                                 *)

Kinds == Searching \cup {"pair"}
Takings == [at : Kinds, from : Nat, to : Nat]
Start == IF taken = << >> THEN 0 ELSE taken[Len(taken)].to

RestOf(h, s, n) == Len(s) = n + Len(h) /\ \A i \in 1 .. Len(h) : h[i] = s[n + i]

TakenOK ==
    /\ taken \in Seq(Takings)
    /\ \A k \in 1 .. Len(taken) : taken[k].from <= taken[k].to /\ taken[k].to <= Len(stream)

TakenInv == TakenOK /\ FirstOccurrence /\ Parsed

\* An occurrence in what has arrived stays one, and none appears there.
LEMMA OccursStable ==
    ASSUME NEW S, NEW h \in Seq(S), NEW d \in Seq(S), NEW chunk \in Seq(S), NEW p \in Nat,
           p + Len(d) <= Len(h)
    PROVE  OccursAt(h \o chunk, d, p) <=> OccursAt(h, d, p)
<1> DEFINE g == h \o chunk
<1>1. Len(g) = Len(h) + Len(chunk) /\ Len(chunk) \in Nat
      /\ \A i \in 1 .. Len(d) : p + i <= Len(h) /\ g[p + i] = h[p + i]
  OBVIOUS
<1> HIDE DEF g
<1>2. OccursAt(g, d, p) <=> OccursAt(h, d, p)
  BY <1>1 DEF OccursAt, PartialAt
<1> QED
  BY <1>2 DEF g

\* An occurrence in the rest of a stream is one in the stream.
LEMMA OccursInStream ==
    ASSUME NEW S, NEW h \in Seq(S), NEW s \in Seq(S), NEW d \in Seq(S),
           NEW n \in Nat, NEW p \in Nat, RestOf(h, s, n), p + Len(d) <= Len(h)
    PROVE  OccursAt(s, d, n + p) <=> OccursAt(h, d, p)
<1>1. ASSUME NEW i \in 1 .. Len(d) PROVE s[(n + p) + i] = h[p + i]
  <2>1. Len(d) \in Nat /\ Len(h) \in Nat
    BY LenProperties
  <2>2. PICK j : j = p + i
    OBVIOUS
  <2>3. j \in 1 .. Len(h) /\ (n + p) + i = n + j
    BY <2>1, <2>2
  <2>4. h[j] = s[n + j]
    BY <2>3 DEF RestOf
  <2> QED
    BY <2>2, <2>3, <2>4
<1>2. (n + p) + Len(d) <= Len(s)
  BY DEF RestOf
<1> QED
  BY <1>1, <1>2 DEF OccursAt, PartialAt

\* Part of what has arrived is the same part when more has.
LEMMA SettledPart ==
    ASSUME NEW S, NEW h \in Seq(S), NEW chunk \in Seq(S),
           NEW m \in Nat \ {0}, NEW n \in Nat, n <= Len(h)
    PROVE  SubSeq(h \o chunk, m, n) = SubSeq(h, m, n)
<1> DEFINE g == h \o chunk
<1>1. g \in Seq(S) /\ Len(g) >= n /\ \A i \in 1 .. n : g[i] = h[i]
  OBVIOUS
<1> HIDE DEF g
<1>2. /\ SubSeq(g, m, n) = [i \in 1 .. 1 + n - m |-> g[i + m - 1]]
      /\ SubSeq(h, m, n) = [i \in 1 .. 1 + n - m |-> h[i + m - 1]]
  BY <1>1
<1>3. \A i \in 1 .. 1 + n - m : g[i + m - 1] = h[i + m - 1]
  BY <1>1
<1>4. SubSeq(g, m, n) = SubSeq(h, m, n)
  BY <1>2, <1>3
<1> QED
  BY <1>4 DEF g

\* What arrives is appended to the stream and to what is left of it.
LEMMA RestGrows ==
    ASSUME NEW S, NEW h \in Seq(S), NEW s \in Seq(S), NEW chunk \in Seq(S),
           NEW n \in Nat, RestOf(h, s, n)
    PROVE  RestOf(h \o chunk, s \o chunk, n)
<1> DEFINE g == h \o chunk
           r == s \o chunk
<1>1. Len(s) = n + Len(h) /\ Len(g) = Len(h) + Len(chunk) /\ Len(r) = Len(s) + Len(chunk)
      /\ Len(h) \in Nat /\ Len(chunk) \in Nat
  <2>1. Len(s) = n + Len(h)
    BY DEF RestOf
  <2>2. Len(g) = Len(h) + Len(chunk) /\ Len(r) = Len(s) + Len(chunk)
    BY ConcatProperties
  <2> QED
    BY <2>1, <2>2
<1>2. ASSUME NEW i \in 1 .. Len(h) PROVE g[i] = r[n + i]
  <2>1. g[i] = h[i] /\ n + i \in 1 .. Len(s) /\ r[n + i] = s[n + i]
    BY <1>1
  <2> QED
    BY <2>1 DEF RestOf
<1>3. ASSUME NEW i \in 1 .. Len(chunk) PROVE g[Len(h) + i] = r[n + (Len(h) + i)]
  <2>1. g[Len(h) + i] = chunk[i]
    BY <1>1
  <2>3. r[Len(s) + i] = chunk[i]
    BY <1>1
  <2>2. Len(s) + i = n + (Len(h) + i)
    BY <1>1
  <2> QED
    BY <2>1, <2>2, <2>3
<1> HIDE DEF g, r
<1>4. ASSUME NEW i \in 1 .. Len(g) PROVE g[i] = r[n + i]
  <2>1. CASE i <= Len(h)
    BY <1>1, <1>2, <2>1
  <2>2. CASE i > Len(h)
    <3>1. i - Len(h) \in 1 .. Len(chunk) /\ Len(h) + (i - Len(h)) = i
      BY <1>1, <2>2
    <3> QED
      BY <1>3, <3>1
  <2> QED
    BY <1>1, <2>1, <2>2
<1>5. RestOf(g, r, n)
  BY <1>1, <1>4 DEF RestOf
<1> QED
  BY <1>5 DEF g, r

\* Two bytes of a sequence.
LEMMA PairOf ==
    ASSUME NEW S, NEW h \in Seq(S), NEW m \in Nat, m + 2 <= Len(h)
    PROVE  SubSeq(h, m + 1, m + 2) = <<h[m + 1], h[m + 2]>>
<1>1. /\ SubSeq(h, m + 1, m + 2) \in Seq(S) /\ Len(SubSeq(h, m + 1, m + 2)) = 2
      /\ SubSeq(h, m + 1, m + 2)[1] = h[m + 1] /\ SubSeq(h, m + 1, m + 2)[2] = h[m + 2]
  <2>1. PICK k, l : k = m + 1 /\ l = m + 2
    OBVIOUS
  <2>2. k \in Int /\ l \in Int /\ k <= l /\ l - k + 1 = 2 /\ \A i \in k .. l : i \in 1 .. Len(h)
    BY <2>1, LenProperties
  <2>6. \A i \in k .. l : h[i] \in S
    BY <2>2, ElementOfSeq
  <2>3. /\ SubSeq(h, k, l) \in Seq(S) /\ Len(SubSeq(h, k, l)) = 2
        /\ \A i \in 1 .. 2 : SubSeq(h, k, l)[i] = h[k + i - 1]
    BY <2>2, <2>6, SubSeqProperties
  <2>4. k + 1 - 1 = m + 1 /\ k + 2 - 1 = m + 2 /\ 1 \in 1 .. 2 /\ 2 \in 1 .. 2
    BY <2>1
  <2>5. SubSeq(h, k, l)[1] = h[m + 1] /\ SubSeq(h, k, l)[2] = h[m + 2]
    BY <2>3, <2>4
  <2> QED
    BY <2>1, <2>3, <2>5
<1>2. PICK r : r = SubSeq(h, m + 1, m + 2)
  OBVIOUS
<1>3. PICK x, y : x = h[m + 1] /\ y = h[m + 2]
  OBVIOUS
<1>4. r \in Seq(S) /\ Len(r) = 2 /\ r[1] = x /\ r[2] = y
  BY <1>1, <1>2, <1>3
<1>5. r = <<x, y>>
  BY ONLY <1>4
<1> QED
  BY <1>2, <1>3, <1>5

LEMMA RestTypes ==
    ASSUME TokenInv, TakenInv
    PROVE  /\ Start \in Nat /\ Start <= Len(stream)
           /\ at # "done" => RestOf(buf, stream, Start) /\ Len(stream) - Len(buf) = Start
<1>1. Len(taken) \in Nat /\ Len(stream) \in Nat /\ Len(buf) \in Nat
  BY DEF TakenInv, TakenOK, TokenInv, TypeOK
<1>2. taken # << >> => taken[Len(taken)].to \in Nat /\ taken[Len(taken)].to <= Len(stream)
  <2>1. taken # << >> => Len(taken) \in 1 .. Len(taken)
    BY <1>1, EmptySeq DEF TakenInv, TakenOK
  <2>2. \A k \in 1 .. Len(taken) : taken[k].to \in Nat
    <3>1. taken \in Seq(Takings)
      BY DEF TakenInv, TakenOK
    <3>2. \A k \in 1 .. Len(taken) : taken[k] \in Takings
      BY <3>1, ElementOfSeq
    <3> QED
      BY <3>2 DEF Takings
  <2>3. \A k \in 1 .. Len(taken) : taken[k].to <= Len(stream)
    BY DEF TakenInv, TakenOK
  <2> QED
    BY <2>1, <2>2, <2>3
<1>3. Start \in Nat /\ Start <= Len(stream)
  BY <1>1, <1>2 DEF Start
<1>4. at # "done" => RestOf(buf, stream, Start)
  BY DEF TakenInv, Parsed, RestOf, Start
<1> QED
  BY <1>1, <1>3, <1>4 DEF RestOf

LEMMA TakenInitial == Init => TakenInv
<1> SUFFICES ASSUME Init PROVE TakenInv
  OBVIOUS
<1>1. taken = << >> /\ stream = << >> /\ buf = << >> /\ at = "boundary"
  BY DEF Init
<1> QED
  BY <1>1 DEF TakenInv, TakenOK, FirstOccurrence, Parsed

\* What was taken is settled: no chunk that arrives changes what it means.
LEMMA TakenReceive ==
    ASSUME TokenInv, TakenInv, Receive PROVE TakenInv'
<1>1. PICK n \in 1 .. MaxChunk : \E chunk \in [1 .. n -> Byte] :
         buf' = buf \o chunk /\ stream' = stream \o chunk
  BY DEF Receive
<1>2. PICK chunk \in [1 .. n -> Byte] : buf' = buf \o chunk /\ stream' = stream \o chunk
  BY <1>1
<1>3. chunk \in Seq(Byte)
  BY <1>1, <1>2, ReadTokenAssumption
<1>4. taken' = taken /\ at' = at /\ at # "done"
  BY DEF Receive
<1>5. /\ stream \in Seq(Byte) /\ buf \in Seq(Byte)
      /\ taken \in Seq(Takings)
  BY DEF TokenInv, TypeOK, TakenInv, TakenOK
<1>6. /\ Len(stream') = Len(stream) + Len(chunk)
      /\ \A i \in 1 .. Len(stream) : stream'[i] = stream[i]
      /\ \A i \in 1 .. Len(chunk) : stream'[Len(stream) + i] = chunk[i]
  BY <1>2, <1>3, <1>5
<1>7. /\ Len(buf') = Len(buf) + Len(chunk)
      /\ \A i \in 1 .. Len(buf') :
            buf'[i] = IF i <= Len(buf) THEN buf[i] ELSE chunk[i - Len(buf)]
  BY <1>2, <1>3, <1>5
<1>8. ASSUME NEW k \in 1 .. Len(taken)
      PROVE  /\ taken[k] \in Takings
             /\ taken[k].from <= taken[k].to /\ taken[k].to <= Len(stream)
  <2>1. taken[k] \in Takings
    BY <1>5, ElementOfSeq
  <2>2. taken[k].from <= taken[k].to /\ taken[k].to <= Len(stream)
    BY DEF TakenInv, TakenOK
  <2> QED
    BY <2>1, <2>2
<1>9. TakenOK'
  <2>1. Len(stream') >= Len(stream) /\ Len(stream) \in Nat /\ Len(stream') \in Nat
    BY <1>3, <1>5, <1>6
  <2>2. ASSUME NEW k \in 1 .. Len(taken)
        PROVE  taken[k].from <= taken[k].to /\ taken[k].to <= Len(stream')
    BY <1>8, <2>1 DEF Takings
  <2> QED
    BY <1>4, <1>5, <2>2 DEF TakenOK
<1>10. FirstOccurrence'
  <2> SUFFICES ASSUME NEW k \in 1 .. Len(taken), taken[k].at \in Searching
               PROVE  LET t == taken[k]
                          d == DelimOf[t.at]
                      IN  /\ t.from <= t.to - Len(d)
                          /\ OccursAt(stream', d, t.to - Len(d))
                          /\ \A p \in t.from .. t.to - Len(d) - 1 : ~OccursAt(stream', d, p)
    BY <1>4 DEF FirstOccurrence, DelimOf
  <2>1. PICK t : t = taken[k]
    OBVIOUS
  <2>2. PICK d : d = DelimOf[t.at]
    OBVIOUS
  <2>3. /\ t.from <= t.to - Len(d)
        /\ OccursAt(stream, d, t.to - Len(d))
        /\ \A p \in t.from .. t.to - Len(d) - 1 : ~OccursAt(stream, d, p)
    BY <2>1, <2>2 DEF TakenInv, FirstOccurrence
  <2>4. d \in Seq(Byte) /\ Len(d) \in Nat /\ t.from \in Nat /\ t.to \in Nat /\ t.to <= Len(stream)
    BY <1>8, <2>1, <2>2, DelimTypes DEF Takings
  <2>5. \A p \in Nat : p <= t.to - Len(d) =>
           (OccursAt(stream', d, p) <=> OccursAt(stream, d, p))
    <3> SUFFICES ASSUME NEW p \in Nat, p <= t.to - Len(d)
                 PROVE  OccursAt(stream', d, p) <=> OccursAt(stream, d, p)
      OBVIOUS
    <3>1. p + Len(d) <= Len(stream)
      BY <1>5, <2>4
    <3> QED
      BY <1>2, <1>3, <1>5, <2>4, <3>1, OccursStable
  <2>6. OccursAt(stream', d, t.to - Len(d))
    BY <2>3, <2>4, <2>5
  <2>7. \A p \in t.from .. t.to - Len(d) - 1 : ~OccursAt(stream', d, p)
    BY <2>3, <2>4, <2>5
  <2> QED
    BY <2>1, <2>2, <2>3, <2>6, <2>7
<1>11. Parsed'
  <2>1. ASSUME NEW k \in 1 .. Len(taken)
        PROVE  SubSeq(stream', taken[k].from + 1, taken[k].to) =
                  SubSeq(stream, taken[k].from + 1, taken[k].to)
    <3>1. PICK m, n1 : m = taken[k].from + 1 /\ n1 = taken[k].to
      OBVIOUS
    <3>2. m \in Nat \ {0} /\ n1 \in Nat /\ n1 <= Len(stream)
      BY <1>8, <3>1 DEF Takings
    <3>3. SubSeq(stream \o chunk, m, n1) = SubSeq(stream, m, n1)
      BY <1>3, <1>5, <3>2, SettledPart
    <3> QED
      BY <1>2, <3>1, <3>3
  <2>2. ASSUME NEW k \in 1 .. Len(taken) PROVE Follower(stream', taken[k]) = Follower(stream, taken[k])
    BY <1>4, <2>1 DEF Follower
  <2>3. Start' = Start /\ Start \in Nat /\ RestOf(buf, stream, Start)
    BY <1>4, RestTypes DEF Start
  <2>4. RestOf(buf', stream', Start)
    BY <1>2, <1>3, <1>5, <2>3, RestGrows
  <2>5. taken # << >> => Len(taken) \in 1 .. Len(taken)
    BY <1>5, EmptySeq
  <2>6. \A k \in 1 .. Len(taken) : k # 1 => k - 1 \in 1 .. Len(taken)
    BY <1>5
  <2> QED
    BY <1>4, <2>2, <2>3, <2>4, <2>5, <2>6 DEF TakenInv, Parsed, Start, RestOf
<1> QED
  BY <1>9, <1>10, <1>11 DEF TakenInv

\* What a callback takes starts where the last one ended, ends where its search says,
\* and leaves the rest of the stream for what is read next.
LEMMA TakenCallback ==
    ASSUME TokenInv, TakenInv, Callback PROVE TakenInv'
<1>1. PICK n \in 0 .. Len(buf) :
         /\ at \in Searching => n = ToDelimiter
         /\ at = "pair" => n = 2
         /\ \/ at # "end" /\ Take(n, After(n), at') /\ at' \in Searching \cup {"pair"}
            \/ at = "end" /\ Take(n, << >>, "done")
         /\ at' = CASE at = "boundary" -> "pair"
                    [] at = "pair" -> IF SubSeq(buf, 1, 2) = Line THEN "header" ELSE "end"
                    [] at = "header" -> "boundary"
                    [] at = "end" -> "done"
  BY CallbackTakes
<1>2. phase = "found" /\ at \in Kinds /\ at # "done"
  BY CallbackTakes DEF Kinds, Searching
<1>3. /\ stream \in Seq(Byte) /\ buf \in Seq(Byte) /\ taken \in Seq(Takings)
      /\ Len(buf) \in Nat /\ Len(stream) \in Nat /\ Len(taken) \in Nat
  BY DEF TokenInv, TypeOK, TakenInv, TakenOK
<1>4. PICK start : start = Start
  OBVIOUS
<1>5. /\ start \in Nat /\ start <= Len(stream)
      /\ RestOf(buf, stream, start) /\ Len(stream) - Len(buf) = start
  BY <1>2, <1>4, RestTypes
<1>6. PICK t : t = [at |-> at, from |-> start, to |-> start + n]
  OBVIOUS
<1>7. /\ taken' = Append(taken, t) /\ stream' = stream
      /\ at # "end" => buf' = After(n)
      /\ at = "end" => at' = "done"
  BY <1>1, <1>5, <1>6 DEF Take
<1>8. t \in Takings /\ t.from <= t.to /\ t.to <= Len(stream)
  BY <1>2, <1>3, <1>5, <1>6 DEF Takings, RestOf
<1>9. /\ taken' \in Seq(Takings) /\ Len(taken') = Len(taken) + 1
      /\ \A k \in 1 .. Len(taken) : taken'[k] = taken[k]
      /\ taken'[Len(taken) + 1] = t
  BY <1>3, <1>7, <1>8, AppendProperties
<1>10. TakenOK'
  <2>1. \A k \in 1 .. Len(taken) : taken[k].from <= taken[k].to /\ taken[k].to <= Len(stream)
    BY DEF TakenInv, TakenOK
  <2>2. \A k \in 1 .. Len(taken') : k \in 1 .. Len(taken) \/ k = Len(taken) + 1
    BY <1>3, <1>9
  <2>3. ASSUME NEW k \in 1 .. Len(taken')
        PROVE  taken'[k].from <= taken'[k].to /\ taken'[k].to <= Len(stream)
    BY <1>8, <1>9, <2>1, <2>2
  <2> QED
    BY <1>7, <1>9, <2>3 DEF TakenOK
<1>11. FirstOccurrence'
  <2>1. ASSUME t.at \in Searching
        PROVE  LET d == DelimOf[t.at]
               IN  /\ t.from <= t.to - Len(d)
                   /\ OccursAt(stream, d, t.to - Len(d))
                   /\ \A p \in t.from .. t.to - Len(d) - 1 : ~OccursAt(stream, d, p)
    <3>1. PICK d : d = DelimOf[at]
      OBVIOUS
    <3>2. at \in Searching /\ d \in Seq(Byte) /\ Len(d) \in Nat
      BY <1>6, <2>1, <3>1, DelimTypes
    <3>3. /\ last \in Nat /\ n = last + Len(d) /\ n <= Len(buf)
          /\ OccursAt(buf, d, last) /\ \A p \in 0 .. last - 1 : ~PartialAt(buf, d, p)
      BY <1>1, <1>2, <3>1, <3>2, DelimiterInside DEF ToDelimiter, TokenInv, TypeOK
    <3>4. t.at = at /\ t.from = start /\ t.to - Len(d) = start + last
      BY <1>5, <1>6, <3>2, <3>3
    <3>5. OccursAt(stream, d, start + last)
      BY <1>3, <1>5, <3>2, <3>3, OccursInStream
    <3>6. ASSUME NEW p \in start .. start + last - 1 PROVE ~OccursAt(stream, d, p)
      <4>1. PICK q \in 0 .. last - 1 : p = start + q
        <5>1. p - start \in 0 .. last - 1 /\ p = start + (p - start)
          BY <1>5, <3>3
        <5> QED
          BY <5>1
      <4>2. ~OccursAt(buf, d, q) /\ q + Len(d) <= Len(buf) /\ q \in Nat
        BY <1>3, <3>2, <3>3 DEF OccursAt
      <4> QED
        BY <1>3, <1>5, <3>2, <4>1, <4>2, OccursInStream
    <3> QED
      BY <1>5, <3>1, <3>3, <3>4, <3>5, <3>6
  <2>2. \A k \in 1 .. Len(taken') : k \in 1 .. Len(taken) \/ k = Len(taken) + 1
    BY <1>3, <1>9
  <2>3. ASSUME NEW k \in 1 .. Len(taken')
        PROVE  LET x == taken'[k]
                   d == DelimOf[x.at]
               IN  x.at \in Searching =>
                      /\ x.from <= x.to - Len(d)
                      /\ OccursAt(stream', d, x.to - Len(d))
                      /\ \A p \in x.from .. x.to - Len(d) - 1 : ~OccursAt(stream', d, p)
    <3>1. CASE k \in 1 .. Len(taken)
      BY <1>7, <1>9, <3>1 DEF TakenInv, FirstOccurrence
    <3>2. CASE k = Len(taken) + 1
      BY <1>7, <1>9, <2>1, <3>2
    <3> QED
      BY <2>2, <3>1, <3>2
  <2> QED
    BY <2>3 DEF FirstOccurrence, DelimOf
<1>12. Parsed'
  <2>1. \A k \in 1 .. Len(taken') : k \in 1 .. Len(taken) \/ k = Len(taken) + 1
    BY <1>3, <1>9
  <2>2. taken # << >> => Len(taken) \in 1 .. Len(taken)
    BY <1>3, EmptySeq
  <2>3. ASSUME NEW k \in 1 .. Len(taken) PROVE Follower(stream', taken'[k]) = Follower(stream, taken[k])
    BY <1>7, <1>9
  <2>4. Follower(stream, t) = at'
    <3>1. SubSeq(stream, start + 1, start + 2) = SubSeq(buf, 1, 2) \/ at # "pair"
      <4> SUFFICES ASSUME at = "pair" PROVE SubSeq(stream, start + 1, start + 2) = SubSeq(buf, 1, 2)
        OBVIOUS
      <4>1. n = 2 /\ Len(buf) >= 2
        BY <1>1, <1>3
      <4>2. Len(stream) >= start + 2
        BY <1>3, <1>5, <4>1
      <4>3. buf[1] = stream[start + 1] /\ buf[2] = stream[start + 2]
        BY <1>3, <1>5, <4>1 DEF RestOf
      <4>4. SubSeq(buf, 1, 2) = <<buf[1], buf[2]>>
        <5>1. 0 + 2 <= Len(buf) /\ buf \in Seq(Byte) /\ 0 \in Nat
          BY <1>3, <4>1
        <5>2. SubSeq(buf, 0 + 1, 0 + 2) = <<buf[0 + 1], buf[0 + 2]>>
          BY <5>1, PairOf
        <5> QED
          BY <5>2
      <4>5. SubSeq(stream, start + 1, start + 2) = <<stream[start + 1], stream[start + 2]>>
        BY <1>3, <1>5, <4>2, PairOf
      <4> QED
        BY <4>3, <4>4, <4>5
    <3>2. t.at = at /\ t.from = start /\ t.to = start + n
      BY <1>6
    <3> QED
      BY <1>1, <1>2, <1>7, <3>1, <3>2 DEF Follower, Kinds, Searching
  <2>5. start = IF Len(taken) + 1 = 1 THEN 0 ELSE taken'[Len(taken)].to
    BY <1>3, <1>4, <1>9, <2>2, EmptySeq DEF Start
  <2>6. at = IF Len(taken) + 1 = 1 THEN "boundary" ELSE Follower(stream, taken[Len(taken)])
    BY <1>3, EmptySeq DEF TakenInv, Parsed
  <2>7. ASSUME NEW k \in 1 .. Len(taken')
        PROVE  /\ taken'[k].from = IF k = 1 THEN 0 ELSE taken'[k-1].to
               /\ taken'[k].at = IF k = 1 THEN "boundary" ELSE Follower(stream', taken'[k-1])
               /\ taken'[k].at = "pair" => taken'[k].to = taken'[k].from + 2
    <3>1. CASE k \in 1 .. Len(taken)
      <4>1. k # 1 => k - 1 \in 1 .. Len(taken)
        BY <1>3, <3>1
      <4>2. /\ taken[k].from = IF k = 1 THEN 0 ELSE taken[k-1].to
            /\ taken[k].at = IF k = 1 THEN "boundary" ELSE Follower(stream, taken[k-1])
            /\ taken[k].at = "pair" => taken[k].to = taken[k].from + 2
        BY <3>1 DEF TakenInv, Parsed
      <4> QED
        BY <1>9, <2>3, <3>1, <4>1, <4>2
    <3>2. CASE k = Len(taken) + 1
      <4>1. k - 1 = Len(taken) /\ taken'[k] = t
        BY <1>3, <1>9, <3>2
      <4>2. k # 1 => Len(taken) \in 1 .. Len(taken)
        BY <1>3, <3>2
      <4>3. k # 1 => Follower(stream', taken'[k-1]) = Follower(stream, taken[Len(taken)])
        BY <2>3, <4>1, <4>2
      <4> QED
        BY <1>1, <1>5, <1>6, <2>5, <2>6, <3>2, <4>1, <4>3
    <3> QED
      BY <2>1, <3>1, <3>2
  <2>8. at' = IF taken' = << >> THEN "boundary" ELSE Follower(stream', taken'[Len(taken')])
    <3>1. taken' # << >>
      BY <1>3, <1>9
    <3>2. Follower(stream', taken'[Len(taken')]) = Follower(stream, t)
      BY <1>7, <1>9
    <3> QED
      BY <2>4, <3>1, <3>2
  <2>9. at' # "done" => /\ Len(stream) = start + n + Len(buf')
                        /\ \A i \in 1 .. Len(buf') : buf'[i] = stream[start + n + i]
    <3> SUFFICES ASSUME at' # "done"
                 PROVE  /\ Len(stream) = start + n + Len(buf')
                        /\ \A i \in 1 .. Len(buf') : buf'[i] = stream[start + n + i]
      OBVIOUS
    <3>1. buf' = After(n)
      BY <1>7
    <3>2. Len(buf') = Len(buf) - n /\ \A i \in 1 .. Len(buf) - n : buf'[i] = buf[n + i]
      BY <1>3, <3>1, AfterFacts
    <3>3. ASSUME NEW i \in 1 .. Len(buf) - n PROVE buf[n + i] = stream[start + n + i]
      <4>1. n + i \in 1 .. Len(buf) /\ start + n + i = start + (n + i)
        BY <1>3, <1>5
      <4> QED
        BY <1>5, <4>1 DEF RestOf
    <3>4. Len(stream) = start + n + Len(buf')
      <4>1. PICK l : l = Len(buf')
        OBVIOUS
      <4>2. Len(stream) = start + Len(buf) /\ l = Len(buf) - n
        BY <1>5, <3>2, <4>1 DEF RestOf
      <4> QED
        BY <1>3, <1>5, <4>1, <4>2
    <3>5. \A i \in 1 .. Len(buf') : buf'[i] = stream[start + n + i]
      BY <3>2, <3>3
    <3> QED
      BY <3>4, <3>5
  <2>10. taken' # << >> /\ taken'[Len(taken')].to = start + n
    BY <1>3, <1>6, <1>9
  <2>11. at' # "done" =>
            LET first == IF taken' = << >> THEN 0 ELSE taken'[Len(taken')].to
            IN  /\ Len(stream') = first + Len(buf')
                /\ \A i \in 1 .. Len(buf') : buf'[i] = stream'[first + i]
    BY <1>7, <2>9, <2>10
  <2> QED
    BY <2>7, <2>8, <2>11 DEF Parsed
<1> QED
  BY <1>10, <1>11, <1>12 DEF TakenInv

LEMMA TakenStep == TokenInv /\ TakenInv /\ [Next]_vars => TakenInv'
<1> SUFFICES ASSUME TokenInv, TakenInv, [Next]_vars PROVE TakenInv'
  OBVIOUS
<1>1. CASE Receive
  BY <1>1, TakenReceive
<1>2. CASE Callback
  BY <1>2, TakenCallback
<1>3. ASSUME Check \/ CheckSize \/ UNCHANGED vars PROVE TakenInv'
  <2>1. UNCHANGED <<at, buf, stream, taken>>
    BY <1>3 DEF Check, CheckSize, vars
  <2> QED
    BY <2>1 DEF TakenInv, TakenOK, FirstOccurrence, Parsed, DelimOf
<1> QED
  BY <1>1, <1>2, <1>3 DEF Next

LEMMA TakenInvariant == Spec => []TakenInv
  BY TakenInitial, TakenStep, TokenInvariant, PTL DEF Spec

\* Every delimiter the parser stops at is the first one in the stream after what it
\* had taken, however the network cut the stream.
THEOREM TokensEndFirst == Spec => []FirstOccurrence
<1>1. TakenInv => FirstOccurrence
  BY DEF TakenInv
<1> QED
  BY <1>1, TakenInvariant, PTL

\* Boundaries, pairs, headers and the end are read where the stream has them, each
\* from where the last one ended: no chunk makes the parser lose its place.
THEOREM ParsesStream == Spec => []Parsed
<1>1. TakenInv => Parsed
  BY DEF TakenInv
<1> QED
  BY <1>1, TakenInvariant, PTL
=============================================================================
