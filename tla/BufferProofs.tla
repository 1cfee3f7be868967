---------------------------- MODULE BufferProofs ----------------------------
(***************************************************************************)
(* The bookkeeping of a buffer, for every block size, payload and width of *)
(* size_t.                                                                 *)
(***************************************************************************)
EXTENDS Buffer, SequenceTheorems, TLAPS

Geometry == [cursor : Size, size : Size, used : Size, reserve : 1 .. MaxReserve]
Cells == Bytes \cup {Junk}

\* the fields wrap together
Framed(h) == Wrap(h.cursor + h.size) = h.used

-----------------------------------------------------------------------------
(* The private helpers. *)

LEMMA ModFacts ==
    /\ SizeMod \in Nat /\ MaxReserve \in Nat /\ RecvChunk \in Nat /\ IntWidth \in Nat
    /\ 2 * MaxReserve + RecvChunk < SizeMod /\ 0 < MaxReserve
    /\ InitialReserve \in 1 .. MaxReserve
  BY SizesAssumption

LEMMA WrapType == \A x, y \in Size : Wrap(x + y) \in Size
  BY ModFacts DEF Wrap, Size

LEMMA WrapSmall == \A x \in Size : Wrap(x) = x
  BY ModFacts DEF Wrap, Size

\* Addition wraps the same whichever end of the live bytes it is applied to.
LEMMA WrapShift ==
    ASSUME NEW c \in Size, NEW s \in Size, NEW n \in Size
    PROVE  /\ Wrap(c + Wrap(s + n)) = Wrap(Wrap(c + s) + n)
           /\ n <= s => Wrap(Wrap(c + n) + (s - n)) = Wrap(c + s)
  BY ModFacts DEF Wrap, Size

LEMMA PayloadFacts ==
    ASSUME NEW b \in Payloads
    PROVE  b \in Seq(Bytes) /\ b \in Seq(Cells) /\ Len(b) \in Size
           /\ Len(b) + MaxReserve < SizeMod
<1>1. b \in Seq(Bytes) /\ Len(b) \in Nat
  BY BytesAssumption
<1>2. b \in Seq(Cells)
  BY <1>1, SeqMonotonic DEF Cells
<1> QED
  BY <1>1, <1>2, SizesAssumption DEF Size

LEMMA FreshFacts == Fresh \in Geometry /\ WellFormed(Fresh) /\ Framed(Fresh)
  BY ModFacts DEF Fresh, Geometry, Size, WellFormed, Framed, Wrap

LEMMA ClearFacts ==
    ASSUME NEW h \in Geometry
    PROVE  /\ Clear(h) \in Geometry /\ WellFormed(Clear(h)) /\ Framed(Clear(h))
           /\ Clear(h).reserve = h.reserve
  BY ModFacts DEF Clear, Geometry, Size, WellFormed, Framed, Wrap

\* prepare() moves nothing: it only makes room.
LEMMA PreparedFacts ==
    ASSUME NEW h \in Geometry, NEW n \in Size, NEW p \in Prepared(h, n)
    PROVE  /\ p \in Geometry
           /\ p.cursor = h.cursor /\ p.size = h.size /\ p.used = h.used
           /\ p.reserve >= h.reserve /\ Wrap(h.used + n) <= p.reserve
<1>1. PICK s \in Holding(h, n) : p = [h EXCEPT !.reserve = s]
  BY DEF Prepared
<1>2. s \in h.reserve .. MaxReserve /\ Wrap(h.used + n) <= s
  BY <1>1 DEF Holding, Tripled
<1> QED
  BY <1>1, <1>2, ModFacts DEF Geometry

\* ... and makes enough of it, unless used + n wraps.
LEMMA PreparedHolds ==
    ASSUME NEW h \in Geometry, WellFormed(h), NEW n \in Size, n + MaxReserve < SizeMod,
           NEW p \in Prepared(h, n)
    PROVE  p.used + n <= p.reserve /\ WellFormed(p)
  BY PreparedFacts, ModFacts DEF Geometry, WellFormed, Wrap, Size

LEMMA CommitFields ==
    ASSUME NEW h \in Geometry, NEW n
    PROVE  Commit(h, n).cursor = h.cursor /\ Commit(h, n).size = Wrap(h.size + n)
  BY DEF Commit, Geometry

LEMMA CommitFacts ==
    ASSUME NEW h \in Geometry, NEW n \in Size
    PROVE  /\ Commit(h, n) \in Geometry
           /\ Commit(h, n).reserve = h.reserve
           /\ Framed(h) => Framed(Commit(h, n))
           /\ WellFormed(h) /\ h.used + n <= h.reserve => WellFormed(Commit(h, n))
<1> DEFINE s == Wrap(h.size + n)
           u == Wrap(h.used + n)
           k == Commit(h, n)
<1>1. /\ h.cursor \in Size /\ h.size \in Size /\ h.used \in Size
      /\ h.reserve \in 1 .. MaxReserve
  BY DEF Geometry
<1>2. s \in Size /\ u \in Size
  BY <1>1, WrapType
<1>3. /\ k \in Geometry
      /\ k.cursor = h.cursor /\ k.size = s /\ k.used = u /\ k.reserve = h.reserve
  BY <1>2 DEF Commit, Geometry
<1>4. Framed(h) => Framed(k)
  BY <1>1, <1>3, WrapShift DEF Framed
<1>5. ASSUME WellFormed(h), h.used + n <= h.reserve PROVE WellFormed(k)
  <2>1. s = h.size + n /\ u = h.used + n
    BY <1>1, <1>5, ModFacts DEF WellFormed, Wrap, Size
  <2> QED
    BY <1>1, <1>3, <1>5, <2>1 DEF WellFormed, Size
<1> QED
  BY <1>3, <1>4, <1>5

LEMMA ConsumeFacts ==
    ASSUME NEW h \in Geometry, NEW n \in Size
    PROVE  /\ Consume(h, n) \in Geometry
           /\ Consume(h, n).reserve = h.reserve
           /\ Framed(h) => Framed(Consume(h, n))
           /\ WellFormed(h) => WellFormed(Consume(h, n))
<1> DEFINE k == Consume(h, n)
<1>0. /\ h.cursor \in Size /\ h.size \in Size /\ h.used \in Size
      /\ h.reserve \in 1 .. MaxReserve
  BY DEF Geometry
<1>1. CASE n < h.size
  <2>1. Wrap(h.cursor + n) \in Size /\ h.size - n \in Size
    <3>1. Wrap(h.cursor + n) \in Size
      BY <1>0, WrapType
    <3>2. h.size - n \in Size
      BY <1>0, <1>1, ModFacts DEF Size
    <3> QED
      BY <3>1, <3>2
  <2>2. /\ k \in Geometry
        /\ k.cursor = Wrap(h.cursor + n) /\ k.size = h.size - n
        /\ k.used = h.used /\ k.reserve = h.reserve
    BY <1>1, <2>1 DEF Consume, Geometry
  <2>3. Framed(h) => Framed(k)
    <3>1. n <= h.size
      BY <1>0, <1>1 DEF Size
    <3> QED
      BY <1>0, <2>2, <3>1, WrapShift DEF Framed
  <2>4. ASSUME WellFormed(h) PROVE WellFormed(k)
    <3>1. Wrap(h.cursor + n) = h.cursor + n
      BY <1>0, <1>1, <2>4, ModFacts DEF WellFormed, Wrap, Size
    <3> QED
      BY <1>0, <1>1, <2>2, <2>4, <3>1 DEF WellFormed, Size
  <2> QED
    BY <2>2, <2>3, <2>4
<1>2. CASE ~(n < h.size)
  BY <1>2, ClearFacts DEF Consume
<1> QED
  BY <1>1, <1>2

LEMMA PokedType ==
    ASSUME TypeOK, NEW h \in Geometry, NEW b \in Seq(Cells)
    PROVE  Poked(h, b) \in [0 .. h.reserve - 1 -> Cells]
  BY DEF TypeOK, Poked, Geometry, Size, Cells

LEMMA PeekedType ==
    ASSUME TypeOK, NEW n \in Size
    PROVE  Peeked(g, n) \in Seq(Cells) /\ Len(Peeked(g, n)) = n
<1>1. \A i \in 1 .. n : (IF g.cursor + i - 1 < g.reserve
                        THEN mem[g.cursor + i - 1] ELSE Junk) \in Cells
  BY DEF TypeOK, Cells, Size
<1>2. n \in Nat /\ Peeked(g, n) \in [1 .. n -> Cells]
  BY <1>1 DEF Peeked, Size
<1> QED
  BY <1>2, IsASeq, LenProperties

-----------------------------------------------------------------------------
(* Whatever scripts call. *)

\* what a call must leave true of the fields, given the values it leaves
Accounted(h, c) ==
    /\ h \in Geometry /\ Framed(h)
    /\ c => WellFormed(h)

FullInv == TypeOK /\ Accounted(g, clean)

\* what a call may do to the memory around the block
Within == fault' => ~clean \/ Excused

LEMMA FullInvFacts ==
    FullInv <=> /\ g \in Geometry /\ Framed(g)
                /\ mem \in [0 .. g.reserve - 1 -> Cells]
                /\ call.kind \in {"put", "take", "peek", "drop", "none",
                                  "readInt", "readBuffer", "ucs2", "raw", "self"}
                /\ clean \in BOOLEAN /\ fault \in BOOLEAN
                /\ clean => WellFormed(g)
  BY DEF FullInv, TypeOK, Accounted, Geometry, Cells

LEMMA FullInvPrimed ==
    ASSUME g' \in Geometry, Framed(g'),
           mem' \in [0 .. g'.reserve - 1 -> Cells],
           call'.kind \in {"put", "take", "peek", "drop", "none",
                           "readInt", "readBuffer", "ucs2", "raw", "self"},
           clean' \in BOOLEAN, fault' \in BOOLEAN,
           clean' => WellFormed(g')
    PROVE  FullInv'
  BY DEF FullInv, TypeOK, Accounted, Geometry, Cells

\* writing: bytes put at `used' of a prepared block, n of them committed
LEMMA Written ==
    ASSUME FullInv, ~fault, NEW h \in Geometry,
           h.reserve >= g.reserve, h.used = g.used, h.cursor = g.cursor, h.size = g.size,
           NEW n \in Size, NEW b \in Seq(Cells), NEW m \in Size,
           clean => g.used + m <= h.reserve, n <= m,
           g' = Commit(h, n), mem' = Poked(h, b), UNCHANGED clean,
           call'.kind \in {"put", "none", "ucs2"}
    PROVE  /\ fault' \in BOOLEAN => FullInv'
           /\ clean => InBlock(h, h.used, m)
<1>1. Framed(h) /\ (clean => WellFormed(h)) /\ clean \in BOOLEAN
      /\ h.used \in Nat /\ n \in Nat /\ m \in Nat /\ h.reserve \in Nat
  BY FullInvFacts, ModFacts DEF Framed, WellFormed, Geometry, Size
<1>2. g' \in Geometry /\ Framed(g') /\ g'.reserve = h.reserve
  BY <1>1, CommitFacts
<1>3. clean => WellFormed(g')
  BY <1>1, CommitFacts
<1>4. mem' \in [0 .. g'.reserve - 1 -> Cells]
  BY <1>2, PokedType DEF FullInv
<1>5. clean => InBlock(h, h.used, m)
  BY DEF InBlock
<1> QED
  BY <1>1, <1>2, <1>3, <1>4, <1>5, FullInvPrimed

\* the room prepare(m) makes, as Written needs it
LEMMA Room ==
    ASSUME FullInv, NEW m \in Size, m + MaxReserve < SizeMod, NEW h \in Prepared(g, m)
    PROVE  /\ h \in Geometry
           /\ h.reserve >= g.reserve /\ h.used = g.used
           /\ h.cursor = g.cursor /\ h.size = g.size
           /\ clean => g.used + m <= h.reserve
  BY FullInvFacts, PreparedFacts, PreparedHolds

LEMMA PutBytesStep ==
    ASSUME FullInv, ~fault, NEW b \in Payloads, PutBytes(b) PROVE FullInv' /\ Within
<1>1. PICK h \in Prepared(g, Len(b)) :
         /\ g' = Commit(h, Len(b)) /\ mem' = Poked(h, b)
         /\ fault' = ~InBlock(h, h.used, Len(b)) /\ call'.kind = "put" /\ UNCHANGED clean
  BY DEF PutBytes, Called
<1>2. b \in Seq(Cells) /\ Len(b) \in Size /\ Len(b) + MaxReserve < SizeMod /\ Len(b) <= Len(b)
  BY PayloadFacts DEF Size
<1>3. /\ fault' \in BOOLEAN => FullInv'
      /\ clean => InBlock(h, h.used, Len(b))
  BY <1>1, <1>2, Room, Written
<1>4. fault' \in BOOLEAN /\ (fault' => ~clean)
  BY <1>1, <1>3 DEF InBlock
<1> QED
  BY <1>3, <1>4 DEF Within

\* room made and bytes put there without being counted
LEMMA Uncounted ==
    ASSUME FullInv, ~fault, NEW h \in Geometry,
           h.reserve >= g.reserve, h.used = g.used, h.cursor = g.cursor, h.size = g.size,
           NEW b \in Seq(Cells), NEW m \in Nat, clean => g.used + m <= h.reserve,
           g' = h, mem' = Poked(h, b), UNCHANGED clean,
           fault' \in {FALSE, ~InBlock(h, h.used, m)},
           call'.kind = "none"
    PROVE  FullInv' /\ Within
<1>1. Framed(h) /\ (clean => WellFormed(h)) /\ clean \in BOOLEAN
  BY FullInvFacts, ModFacts DEF Framed, WellFormed, Geometry, Size
<1>2. mem' \in [0 .. g'.reserve - 1 -> Cells]
  BY PokedType DEF FullInv
<1>3. fault' \in BOOLEAN /\ (fault' => ~clean)
  BY <1>1 DEF InBlock
<1> QED
  BY <1>1, <1>2, <1>3, FullInvPrimed DEF Within

LEMMA ChunkFacts == RecvChunk \in Size /\ RecvChunk + MaxReserve < SizeMod
                    /\ << >> \in Seq(Cells) /\ <<Nul>> \in Seq(Cells)
                    /\ 1 \in Size /\ 1 + MaxReserve < SizeMod
<1>1. Nul \in Cells
  BY BytesAssumption DEF Cells
<1>2. RecvChunk >= 1
  BY SizesAssumption
<1> QED
  BY <1>1, <1>2, ModFacts DEF Size

LEMMA ReceiveStep == ASSUME FullInv, ~fault, Receive PROVE FullInv' /\ Within
<1>1. PICK h \in Prepared(g, RecvChunk), b \in Payloads :
         /\ Len(b) \in 1 .. Remain(h)
         /\ g' = Commit(h, Len(b)) /\ mem' = Poked(h, b)
         /\ fault' = ~InBlock(h, h.used, Remain(h)) /\ call'.kind = "put" /\ UNCHANGED clean
  BY DEF Receive, Called
<1>2. /\ h \in Geometry
      /\ h.reserve >= g.reserve /\ h.used = g.used
      /\ h.cursor = g.cursor /\ h.size = g.size
      /\ clean => g.used + RecvChunk <= h.reserve
  BY ChunkFacts, Room
<1>3. Remain(h) \in Size /\ (clean => g.used + Remain(h) <= h.reserve)
  BY <1>2, ModFacts DEF Remain, Wrap, Geometry, Size
<1>4. b \in Seq(Cells) /\ Len(b) \in Size /\ Len(b) <= Remain(h)
  BY <1>1, <1>3, PayloadFacts DEF Size
<1>5. /\ fault' \in BOOLEAN => FullInv'
      /\ clean => InBlock(h, h.used, Remain(h))
  BY <1>1, <1>2, <1>3, <1>4, Written
<1>6. fault' \in BOOLEAN /\ (fault' => ~clean)
  BY <1>1, <1>5 DEF InBlock
<1> QED
  BY <1>5, <1>6 DEF Within

LEMMA ReceiveEndStep == ASSUME FullInv, ~fault, ReceiveEnd PROVE FullInv' /\ Within
<1>1. PICK h \in Prepared(g, RecvChunk) :
         /\ g' = h /\ mem' = Poked(h, << >>) /\ call'.kind = "none"
         /\ UNCHANGED <<clean, fault>>
  BY DEF ReceiveEnd, Called
<1>2. RecvChunk \in Nat /\ << >> \in Seq(Cells)
  BY ChunkFacts, ModFacts
<1>3. /\ h \in Geometry
      /\ h.reserve >= g.reserve /\ h.used = g.used
      /\ h.cursor = g.cursor /\ h.size = g.size
      /\ clean => g.used + RecvChunk <= h.reserve
  BY ChunkFacts, Room
<1>4. fault' = FALSE
  BY <1>1, FullInvFacts
<1> QED
  BY <1>1, <1>2, <1>3, <1>4, Uncounted

\* the only call of the runtime's own that breaks the bookkeeping
LEMMA ReceiveFailsStep == ASSUME FullInv, ~fault, ReceiveFails PROVE FullInv' /\ Within
<1>1. PICK h \in Prepared(g, RecvChunk) :
         /\ g' = Commit(h, SizeMod - 1) /\ mem' = Poked(h, << >>) /\ clean' = FALSE
         /\ call'.kind = "drop" /\ UNCHANGED fault
  BY DEF ReceiveFails, Called
<1>2. h \in Geometry /\ h.used = g.used /\ h.cursor = g.cursor /\ h.size = g.size
  BY ChunkFacts, Room
<1>3. Framed(h) /\ SizeMod - 1 \in Size
  BY <1>2, FullInvFacts, ModFacts DEF Framed, Size
<1>4. g' \in Geometry /\ Framed(g') /\ g'.reserve = h.reserve
  BY <1>1, <1>2, <1>3, CommitFacts
<1>5. mem' \in [0 .. g'.reserve - 1 -> Cells]
  BY <1>1, <1>2, <1>4, ChunkFacts, PokedType DEF FullInv
<1>6. clean' \in BOOLEAN /\ ~fault' /\ fault' \in BOOLEAN /\ (clean' => WellFormed(g'))
  BY <1>1, FullInvFacts
<1> QED
  BY <1>1, <1>4, <1>5, <1>6, FullInvPrimed DEF Within

LEMMA ZeroStep == ASSUME FullInv, ~fault, Zero PROVE FullInv' /\ Within
<1>1. PICK h \in Prepared(g, 1) :
         /\ g' = h /\ mem' = Poked(h, <<Nul>>) /\ call'.kind = "none"
         /\ fault' = ~InBlock(h, h.used, 1) /\ UNCHANGED clean
  BY DEF Zero, Called
<1> QED
  BY <1>1, ChunkFacts, Room, Uncounted

LEMMA PrepareStep ==
    ASSUME FullInv, ~fault, NEW n \in 0 .. MaxReserve, Prepare(n) PROVE FullInv' /\ Within
<1>1. PICK h \in Prepared(g, n) :
         /\ g' = h /\ mem' = Poked(h, << >>) /\ call'.kind = "none"
         /\ UNCHANGED <<clean, fault>>
  BY DEF Prepare, Called
<1>2. n \in Size /\ n \in Nat /\ n + MaxReserve < SizeMod
  BY ModFacts DEF Size
<1>3. /\ h \in Geometry
      /\ h.reserve >= g.reserve /\ h.used = g.used
      /\ h.cursor = g.cursor /\ h.size = g.size
      /\ clean => g.used + n <= h.reserve
  BY <1>2, Room
<1>4. fault' = FALSE
  BY <1>1, FullInvFacts
<1>5. << >> \in Seq(Cells)
  BY ChunkFacts
<1> QED
  BY <1>1, <1>2, <1>3, <1>4, <1>5, Uncounted

\* A call that moves no byte: what is left to know is what it makes of the fields.
LEMMA FieldsOnly ==
    ASSUME FullInv, UNCHANGED mem, g' \in Geometry, Framed(g'), g'.reserve = g.reserve,
           call'.kind \in {"put", "take", "peek", "drop", "none",
                           "readInt", "readBuffer", "ucs2", "raw", "self"},
           clean' \in BOOLEAN, fault' \in BOOLEAN,
           clean' => WellFormed(g')
    PROVE  FullInv'
  BY FullInvFacts, FullInvPrimed

LEMMA InBlockFacts ==
    ASSUME FullInv, clean, NEW n \in Nat, n <= g.size
    PROVE  InBlock(g, g.cursor, n)
  BY FullInvFacts, ModFacts DEF InBlock, WellFormed, Geometry, Size

LEMMA LeastFacts ==
    \A x, y \in Size : Least(x, y) \in Size /\ Least(x, y) <= x /\ Least(x, y) <= y
                       /\ Least(x, y) \in Nat
  BY ModFacts DEF Least, Size

LEMMA TakeStep ==
    ASSUME FullInv, ~fault, NEW n \in Size, n <= g.size,
           HandOut("take", n, Consume(g, n)), UNCHANGED clean
    PROVE  FullInv' /\ Within
<1>1. n \in Nat /\ g \in Geometry /\ Framed(g) /\ (clean => WellFormed(g)) /\ clean \in BOOLEAN
  BY FullInvFacts DEF Size
<1>2. g' = Consume(g, n) /\ fault' = ~InBlock(g, g.cursor, n) /\ call'.kind = "take"
      /\ UNCHANGED mem
  BY DEF HandOut, Called
<1>3. fault' \in BOOLEAN /\ (fault' => ~clean)
  BY <1>1, <1>2, InBlockFacts DEF InBlock
<1> QED
  BY <1>1, <1>2, <1>3, ConsumeFacts, FieldsOnly DEF Within

LEMMA SizeFacts == FullInv => g.size \in Size /\ g.cursor \in Size /\ g.used \in Size
  BY FullInvFacts DEF Geometry

LEMMA ReadUtf8Step == ASSUME FullInv, ~fault, NEW n \in Size, ReadUtf8(n) PROVE FullInv' /\ Within
  BY SizeFacts, LeastFacts, TakeStep DEF ReadUtf8

LEMMA SendBufferStep == ASSUME FullInv, ~fault, NEW n \in Size, SendBuffer(n) PROVE FullInv' /\ Within
  BY TakeStep DEF SendBuffer

LEMMA ConsumeStep == ASSUME FullInv, ~fault, NEW n \in Size, ConsumeBytes(n) PROVE FullInv' /\ Within
<1>1. g' = Consume(g, n) /\ call'.kind = "take" /\ UNCHANGED <<mem, clean, fault>>
  BY DEF ConsumeBytes, Called
<1>2. ~fault' /\ fault' \in BOOLEAN
  BY <1>1, FullInvFacts
<1> QED
  BY <1>1, <1>2, FullInvFacts, ConsumeFacts, FieldsOnly DEF Within

LEMMA SizeNat == Size \subseteq Nat
  BY ModFacts DEF Size

LEMMA PeekStep ==
    ASSUME FullInv, ~fault, NEW n \in Size, PeekUtf8(n) \/ PeekBuffer(n)
    PROVE  FullInv' /\ Within
<1>1. PICK m \in Size : /\ g' = g /\ Called("peek", Peeked(g, m)) /\ UNCHANGED <<mem, clean>>
                        /\ fault' = ~InBlock(g, g.cursor, m)
  BY SizeFacts, LeastFacts DEF PeekUtf8, PeekBuffer, HandOut
<1>2. call'.kind = "peek" /\ call'.bytes = Peeked(g, m)
  BY <1>1 DEF Called
<1>3. fault' \in BOOLEAN /\ clean' \in BOOLEAN
  BY <1>1, FullInvFacts DEF InBlock
<1>4. FullInv'
  BY <1>1, <1>2, <1>3, FullInvFacts, FieldsOnly
<1>5. CASE m <= g.size
  <2>1. clean => InBlock(g, g.cursor, m)
    BY <1>5, InBlockFacts, SizeNat
  <2> QED
    BY <1>1, <1>4, <2>1 DEF Within
<1>6. CASE m > g.size
  <2>1. Len(call'.bytes) = m
    BY <1>2, PeekedType DEF FullInv
  <2>2. Excused
    BY <1>2, <1>6, <2>1 DEF Excused
  <2> QED
    BY <1>4, <2>2 DEF Within
<1>7. m <= g.size \/ m > g.size
  BY SizeFacts DEF Size
<1> QED
  BY <1>4, <1>5, <1>6, <1>7

LEMMA ClearStep == ASSUME FullInv, ~fault, ClearBuffer PROVE FullInv' /\ Within
<1>1. g' = Clear(g) /\ clean' = TRUE /\ call'.kind = "drop" /\ UNCHANGED <<mem, fault>>
  BY DEF ClearBuffer, Called
<1>2. ~fault' /\ fault' \in BOOLEAN
  BY <1>1, FullInvFacts
<1> QED
  BY <1>1, <1>2, FullInvFacts, ClearFacts, FieldsOnly DEF Within

LEMMA RecycleStep == ASSUME FullInv, ~fault, Recycle PROVE FullInv' /\ Within
<1>1. clean' = TRUE /\ fault' = FALSE /\ call'.kind = "drop"
  BY FullInvFacts DEF Recycle, Called
<1>2. CASE g.reserve > ReserveLimit
  <2>1. g' = Fresh /\ mem' = [i \in 0 .. InitialReserve - 1 |-> Junk]
    BY <1>2 DEF Recycle
  <2>2. mem' \in [0 .. g'.reserve - 1 -> Cells]
    BY <2>1 DEF Fresh, Cells
  <2> QED
    BY <1>1, <2>1, <2>2, FreshFacts, FullInvPrimed DEF Within
<1>3. CASE ~(g.reserve > ReserveLimit)
  <2>1. g' = Clear(g) /\ UNCHANGED mem
    BY <1>3 DEF Recycle
  <2> QED
    BY <1>1, <2>1, FullInvFacts, ClearFacts, FieldsOnly DEF Within
<1> QED
  BY <1>2, <1>3

-----------------------------------------------------------------------------
(* The calls that break the bookkeeping. *)

\* read() and _read_buffer: the bytes handed out are committed a second time
LEMMA CommitStep ==
    ASSUME FullInv, UNCHANGED mem, NEW n \in Size, g' = Commit(g, n),
           clean' \in BOOLEAN, fault' \in BOOLEAN, Within,
           clean' => clean /\ g.used + n <= g.reserve,
           call'.kind \in {"readInt", "readBuffer", "raw"}
    PROVE  FullInv' /\ Within
  BY FullInvFacts, CommitFacts, FieldsOnly

LEMMA NothingRead ==
    FullInv /\ clean => g.used + 0 <= g.reserve /\ InBlock(g, g.cursor, 0)
  BY FullInvFacts, ModFacts DEF WellFormed, Geometry, Size, InBlock

LEMMA ReadIntStep == ASSUME FullInv, ~fault, ReadInt PROVE FullInv' /\ Within
<1> DEFINE n == Least(IntWidth, g.size)
<1>1. /\ g' = Commit(g, n) /\ fault' = ~InBlock(g, g.cursor, n) /\ UNCHANGED mem
      /\ call'.kind = "readInt" /\ clean' = (clean /\ n = 0)
  BY DEF ReadInt, HandOut, Called
<1>2. n \in Size /\ n \in Nat /\ n <= g.size
  BY SizeFacts, ModFacts DEF Least, Size
<1> HIDE DEF n
<1>3. /\ clean' \in BOOLEAN /\ fault' \in BOOLEAN
      /\ clean' => clean /\ g.used + n <= g.reserve
  BY <1>1, FullInvFacts, NothingRead DEF InBlock
<1>4. Within
  BY <1>1, <1>2, InBlockFacts DEF Within
<1> QED
  BY <1>1, <1>2, <1>3, <1>4, CommitStep

LEMMA ReadBufferStep ==
    ASSUME FullInv, ~fault, NEW n \in Size, ReadBuffer(n) PROVE FullInv' /\ Within
<1>1. /\ g' = Commit(g, n) /\ fault' = ~InBlock(g, g.cursor, n) /\ UNCHANGED mem
      /\ call'.kind = "readBuffer" /\ call'.bytes = Peeked(g, n) /\ clean' = (clean /\ n = 0)
  BY DEF ReadBuffer, HandOut, Called
<1>2. /\ clean' \in BOOLEAN /\ fault' \in BOOLEAN
      /\ clean' => clean /\ g.used + n <= g.reserve
  BY <1>1, FullInvFacts, NothingRead DEF InBlock
<1>3. Within
  <2>1. CASE n <= g.size
    BY <1>1, <2>1, InBlockFacts, SizeNat DEF Within
  <2>2. CASE n > g.size
    BY <1>1, <2>2, PeekedType DEF Within, Excused, FullInv
  <2> QED
    BY <2>1, <2>2, SizeFacts DEF Size
<1> QED
  BY <1>1, <1>2, <1>3, CommitStep

LEMMA CommitBytesStep == ASSUME FullInv, ~fault, NEW n \in Size, CommitBytes(n) PROVE FullInv' /\ Within
<1>1. /\ g' = Commit(g, n) /\ UNCHANGED <<mem, fault>> /\ call'.kind = "raw"
      /\ clean' = (clean /\ n <= Remain(g))
  BY DEF CommitBytes, Called
<1>2. clean /\ n <= Remain(g) => g.used + n <= g.reserve
  BY FullInvFacts, ModFacts DEF Remain, WellFormed, Geometry, Size, Wrap
<1>3. ~fault' /\ fault' \in BOOLEAN
  BY <1>1, FullInvFacts
<1> QED
  BY <1>1, <1>2, <1>3, FullInvFacts, CommitStep DEF Within

\* what is prepared holds the characters; only their NUL can fall outside
LEMMA WriteUcs2Step == ASSUME FullInv, ~fault, WriteUcs2 PROVE FullInv' /\ Within
<1>1. PICK b \in Payloads : /\ Len(b) % 2 = 0
                            /\ \E h \in Prepared(g, Len(b)) :
                                  /\ g' = Commit(h, Len(b) \div 2)
                                  /\ mem' = Poked(h, b \o <<Nul, Nul>>)
                                  /\ fault' = ~InBlock(h, h.used, Len(b) + 2)
                                  /\ Called("ucs2", b) /\ UNCHANGED clean
  BY DEF WriteUcs2
<1>2. PICK h \in Prepared(g, Len(b)) :
         /\ g' = Commit(h, Len(b) \div 2) /\ mem' = Poked(h, b \o <<Nul, Nul>>)
         /\ fault' = ~InBlock(h, h.used, Len(b) + 2)
         /\ Called("ucs2", b) /\ UNCHANGED clean
  BY <1>1
<1>3. b \in Seq(Cells) /\ Len(b) \in Size /\ Len(b) + MaxReserve < SizeMod
  BY PayloadFacts
<1>4. Len(b) \div 2 \in Size /\ Len(b) \div 2 <= Len(b)
  BY <1>3, ModFacts DEF Size
<1>5. b \o <<Nul, Nul>> \in Seq(Cells)
  <2>1. <<Nul, Nul>> \in Seq(Cells)
    BY BytesAssumption DEF Cells
  <2> QED
    BY <1>3, <2>1, ConcatProperties
<1>6. call'.kind = "ucs2" /\ call'.bytes = b
  BY <1>2 DEF Called
<1>7. /\ fault' \in BOOLEAN => FullInv'
      /\ clean => InBlock(h, h.used, Len(b))
  BY <1>2, <1>3, <1>4, <1>5, <1>6, Room, Written
<1>8. h.used = g.used /\ g'.reserve = h.reserve
  BY <1>2, <1>3, <1>4, Room, CommitFacts
<1>9. fault' \in BOOLEAN /\ Within
  BY <1>2, <1>6, <1>7, <1>8 DEF Within, Excused, InBlock
<1> QED
  BY <1>7, <1>9

LEMMA WriteSelfStep == ASSUME FullInv, ~fault, WriteSelf PROVE FullInv' /\ Within
<1> DEFINE Outside(h) == ~InBlock(h, h.used, g.size) \/ ~InBlock(g, g.cursor, g.size)
           Faults(h) == fault' \in {Outside(h), Outside(h) \/ h.reserve > g.reserve}
           Rest(h) == /\ g' = Commit(h, g.size) /\ mem' = Poked(h, Peeked(g, g.size))
                      /\ Called("self", << >>) /\ UNCHANGED clean
<1>0. \E h \in Prepared(g, g.size) : Rest(h) /\ Faults(h)
  BY Zenon DEF WriteSelf
<1>1. PICK h \in Prepared(g, g.size) :
         /\ g' = Commit(h, g.size) /\ mem' = Poked(h, Peeked(g, g.size))
         /\ Faults(h)
         /\ call'.kind = "self" /\ UNCHANGED clean
  <2> HIDE DEF Faults
  <2> QED
    BY <1>0 DEF Called
<1>2. /\ h \in Geometry /\ g.size \in Size /\ Peeked(g, g.size) \in Seq(Cells)
      /\ h.used = g.used /\ h.cursor = g.cursor /\ h.size = g.size
      /\ h.reserve >= g.reserve
  BY SizeFacts, FullInvFacts, PreparedFacts, PeekedType DEF FullInv
<1>3. clean => g.size + MaxReserve < SizeMod
  BY FullInvFacts, ModFacts DEF WellFormed, Geometry, Size
<1>4. clean => h.used + g.size <= h.reserve /\ WellFormed(h)
  BY <1>2, <1>3, FullInvFacts, PreparedHolds
<1>5. Framed(h)
  BY <1>2, FullInvFacts DEF Framed
<1>6. g' \in Geometry /\ Framed(g') /\ g'.reserve = h.reserve /\ (clean => WellFormed(g'))
  BY <1>1, <1>2, <1>4, <1>5, CommitFacts
<1>7. mem' \in [0 .. g'.reserve - 1 -> Cells]
  BY <1>1, <1>2, <1>6, PokedType DEF FullInv
<1>8. clean \in BOOLEAN
  BY FullInvFacts
<1>9. fault' \in BOOLEAN
  <2>1. (h.reserve > g.reserve) \in BOOLEAN
    BY <1>2, FullInvFacts, SMT DEF Geometry
  <2> QED
    BY <1>1, <2>1
<1>10. clean' \in BOOLEAN /\ (clean' => WellFormed(g'))
  BY <1>1, <1>6, <1>8
<1>11. Within
  <2>1. clean => InBlock(h, h.used, g.size)
    BY <1>4 DEF InBlock
  <2>2. clean => InBlock(g, g.cursor, g.size)
    BY SizeFacts, InBlockFacts DEF Size
  <2> HIDE DEF Outside
  <2>3. fault' /\ clean => Outside(h) \/ h.reserve > g.reserve
    BY <1>1
  <2>4. clean => ~Outside(h)
    BY <2>1, <2>2 DEF Outside
  <2> QED
    BY <1>1, <1>6, <2>3, <2>4 DEF Within, Excused
<1> QED
  BY <1>1, <1>6, <1>7, <1>9, <1>10, <1>11, FullInvPrimed

-----------------------------------------------------------------------------
(* The theorems. *)

LEMMA FullInitial == Init => FullInv
<1> SUFFICES ASSUME Init PROVE FullInv
  OBVIOUS
<1>1. mem \in [0 .. g.reserve - 1 -> Cells]
  BY DEF Init, Fresh, Cells
<1> QED
  BY <1>1, FreshFacts, FullInvFacts DEF Init

LEMMA QueueCallStep == ASSUME FullInv, ~fault, QueueCall PROVE FullInv' /\ Within
<1>1. CASE WriteText \/ WriteInt \/ WriteBuffer
  BY <1>1, PutBytesStep DEF WriteText, WriteInt, WriteBuffer
<1>2. CASE Receive \/ ReceiveEnd \/ ReceiveFails \/ Zero \/ ClearBuffer
  BY <1>2, ReceiveStep, ReceiveEndStep, ReceiveFailsStep, ZeroStep, ClearStep
<1>3. CASE \E n \in Size : ReadUtf8(n) \/ PeekUtf8(n) \/ ConsumeBytes(n) \/ SendBuffer(n)
  BY <1>3, ReadUtf8Step, PeekStep, ConsumeStep, SendBufferStep
<1>4. CASE \E n \in 0 .. g.size : PeekBuffer(n)
  <2>1. 0 .. g.size \subseteq Size
    BY SizeFacts, ModFacts DEF Size
  <2> QED
    BY <1>4, <2>1, PeekStep
<1>5. CASE \E n \in 0 .. MaxReserve : Prepare(n)
  BY <1>5, PrepareStep
<1> QED
  BY <1>1, <1>2, <1>3, <1>4, <1>5 DEF QueueCall

LEMMA RawCallStep == ASSUME FullInv, ~fault, RawCall PROVE FullInv' /\ Within
<1>1. CASE ReadInt \/ WriteUcs2 \/ WriteSelf
  BY <1>1, ReadIntStep, WriteUcs2Step, WriteSelfStep
<1>2. CASE \E n \in Size : ReadBuffer(n) \/ CommitBytes(n) \/ PeekBuffer(n)
  BY <1>2, ReadBufferStep, CommitBytesStep, PeekStep
<1> QED
  BY <1>1, <1>2 DEF RawCall

LEMMA FullStep == FullInv /\ [NextAll]_vars => FullInv' /\ [fault' => ~clean \/ Excused]_vars
<1> SUFFICES ASSUME FullInv, [NextAll]_vars
             PROVE  FullInv' /\ [fault' => ~clean \/ Excused]_vars
  OBVIOUS
<1>1. CASE NextAll
  BY <1>1, QueueCallStep, RawCallStep, RecycleStep DEF NextAll, Within
<1>2. CASE UNCHANGED vars
  BY <1>2, FullInvFacts, FullInvPrimed DEF vars
<1> QED
  BY <1>1, <1>2

LEMMA FullInvAlways == FullSpec => []FullInv
  BY FullInitial, FullStep, PTL DEF FullSpec

\* Whatever the scripts call, the fields stay size_t values and the block keeps the
\* length reserve says.
THEOREM TypeCorrect == FullSpec => []TypeOK
<1>1. FullInv => TypeOK
  BY DEF FullInv
<1> QED
  BY <1>1, FullInvAlways, PTL

\* Whatever the scripts call, size and used move together modulo 2^w, through the
\* reads that commit and through the -1 of a failed recv.
THEOREM FramingAlways == FullSpec => []Framing
<1>1. FullInv => Framing
  BY FullInvFacts DEF Framing, Framed
<1> QED
  BY <1>1, FullInvAlways, PTL

\* Until a call breaks the bookkeeping, the live bytes end at used and lie in the
\* block, and a drained buffer starts again at its beginning.
THEOREM SoundAlways == FullSpec => []Sound
<1>1. FullInv => Sound
  BY FullInvFacts DEF Sound
<1> QED
  BY <1>1, FullInvAlways, PTL

\* Whatever scripts call, an access outside the block of a sound buffer is the NUL
\* of writeUcs2, a copy of more than there is, or a self write that moved the block.
THEOREM ContainedAlways == FullSpec => Contained
  BY FullInitial, FullStep, PTL DEF FullSpec, Contained

\* The runtime's own calls on a sound buffer are none of the three.
LEMMA QueueCallSafe ==
    ASSUME FullInv, ~fault, clean, QueueCall PROVE ~Excused
<1>0. ASSUME call'.kind \in {"put", "take", "drop", "none"} PROVE ~Excused
  BY <1>0 DEF Excused
<1>1. CASE WriteText \/ WriteInt \/ WriteBuffer
  <2>1. PICK b \in Payloads : PutBytes(b)
    BY <1>1 DEF WriteText, WriteInt, WriteBuffer
  <2>2. call'.kind = "put"
    BY <2>1 DEF PutBytes, Called
  <2> QED
    BY <1>0, <2>2
<1>2. CASE Receive \/ Zero \/ ClearBuffer \/ ReceiveEnd \/ ReceiveFails
  <2>1. (\E b \in Payloads : Called("put", b)) \/ Called("drop", << >>) \/ Called("none", << >>)
    BY <1>2, Zenon DEF Receive, Zero, ClearBuffer, ReceiveEnd, ReceiveFails
  <2> QED
    BY <1>0, <2>1 DEF Called
<1>3. CASE \E n \in Size : ReadUtf8(n) \/ ConsumeBytes(n) \/ SendBuffer(n)
  <2>1. \E bytes : Called("take", bytes)
    BY <1>3, Zenon DEF ReadUtf8, ConsumeBytes, SendBuffer, HandOut
  <2> QED
    BY <1>0, <2>1 DEF Called
<1>4. ASSUME NEW n \in Size, n <= g.size, HandOut("peek", n, g) PROVE ~Excused
  <2>1. call'.kind = "peek" /\ Len(call'.bytes) = n
    BY <1>4, PeekedType DEF HandOut, Called, FullInv
  <2> QED
    BY <1>4, <2>1, SizeFacts DEF Excused, Size
<1>5. CASE \E n \in Size : PeekUtf8(n)
  BY <1>4, <1>5, SizeFacts, LeastFacts DEF PeekUtf8
<1>6. CASE \E n \in 0 .. g.size : PeekBuffer(n)
  <2>1. 0 .. g.size \subseteq Size /\ \A n \in 0 .. g.size : n <= g.size
    BY SizeFacts, ModFacts DEF Size
  <2> QED
    BY <1>4, <1>6, <2>1 DEF PeekBuffer
<1>7. CASE \E n \in 0 .. MaxReserve : Prepare(n)
  BY <1>7 DEF Prepare, Called, Excused
<1> QED
  BY <1>1, <1>2, <1>3, <1>5, <1>6, <1>7 DEF QueueCall

LEMMA NoFaultStep == FullInv /\ NoFault /\ [Next]_vars => FullInv' /\ NoFault'
<1> SUFFICES ASSUME FullInv, ~fault, [Next]_vars PROVE FullInv' /\ ~fault'
  BY DEF NoFault
<1>1. FullInv'
  <2>1. [NextAll]_vars
    BY DEF Next, NextAll
  <2> QED
    BY <2>1, FullStep
<1>3. CASE clean /\ QueueCall
  BY <1>1, <1>3, QueueCallStep, QueueCallSafe DEF Within
<1>4. CASE Recycle
  BY <1>1, <1>4 DEF Recycle
<1>5. CASE UNCHANGED vars
  BY <1>1, <1>5 DEF vars
<1> QED
  BY <1>3, <1>4, <1>5 DEF Next

\* As the runtime uses a buffer, no memcpy, recv or String::New leaves the block,
\* for every payload and every sequence of growing, draining and recycling.
THEOREM NoFaultAlways == Spec => []NoFault
<1>1. Init => FullInv /\ NoFault
  BY FullInitial DEF Init, NoFault
<1> QED
  BY <1>1, NoFaultStep, PTL DEF Spec

-----------------------------------------------------------------------------
(* The buffer is a queue of bytes. *)

\* the live bytes, oldest first
Live == Peeked(g, g.size)

\* nothing the runtime may read is memory that no call has written
QueueInv == FullInv /\ ~fault /\ (clean => Live \in Seq(Bytes))

LEMMA WholeFacts ==
    ASSUME FullInv, clean
    PROVE  /\ g.cursor \in Nat /\ g.size \in Nat /\ g.used \in Nat /\ g.reserve \in Nat
           /\ g.cursor + g.size = g.used /\ g.used <= g.reserve /\ g.reserve <= MaxReserve
           /\ g.size \in Size /\ (g.size = 0 => g.cursor = 0)
  BY FullInvFacts, ModFacts DEF WellFormed, Geometry, Size

\* what the first n live bytes are
LEMMA PeekedFacts ==
    ASSUME FullInv, clean, NEW n \in 0 .. g.size
    PROVE  /\ n \in Size
           /\ Peeked(g, n) \in Seq(Cells) /\ Len(Peeked(g, n)) = n
           /\ \A i \in 1 .. n : Peeked(g, n)[i] = mem[g.cursor + i - 1]
<1>1. n \in Nat /\ n \in Size
  BY WholeFacts, ModFacts DEF Size
<1>2. \A i \in 1 .. n : g.cursor + i - 1 < g.reserve
  BY <1>1, WholeFacts
<1>3. \A i \in 1 .. n : Peeked(g, n)[i] = mem[g.cursor + i - 1]
  BY <1>1, <1>2 DEF Peeked
<1> QED
  BY <1>1, <1>3, PeekedType DEF FullInv

\* ... and the same of the next state
LEMMA PeekedWhole ==
    FullInv /\ clean => \A n \in 0 .. g.size :
         /\ Peeked(g, n) \in Seq(Cells) /\ Len(Peeked(g, n)) = n
         /\ \A i \in 1 .. n : Peeked(g, n)[i] = mem[g.cursor + i - 1]
  BY PeekedFacts

LEMMA PeekedFactsPrimed ==
    (FullInv /\ clean => \A n \in 0 .. g.size :
         /\ Peeked(g, n) \in Seq(Cells) /\ Len(Peeked(g, n)) = n
         /\ \A i \in 1 .. n : Peeked(g, n)[i] = mem[g.cursor + i - 1])'
  BY PeekedWhole, PTL

LEMMA SeqOfBytes ==
    ASSUME NEW s \in Seq(Cells), \A i \in 1 .. Len(s) : s[i] \in Bytes
    PROVE  s \in Seq(Bytes)
<1>1. Len(s) \in Nat /\ s = [i \in 1 .. Len(s) |-> s[i]]
  BY LenProperties
<1> QED
  BY <1>1, IsASeq

\* growing the block and writing behind the live bytes moves none of them
LEMMA PokedKeeps ==
    ASSUME FullInv, clean, NEW h \in Geometry, h.reserve >= g.reserve, h.used = g.used,
           NEW b \in Seq(Cells), mem' = Poked(h, b)
    PROVE  /\ \A i \in 0 .. g.used - 1 : mem'[i] = mem[i]
           /\ \A i \in 1 .. Len(b) : g.used + i <= h.reserve => mem'[g.used + i - 1] = b[i]
<1>1. h.reserve \in Nat
  BY DEF Geometry
<1>2. ASSUME NEW i \in 0 .. g.used - 1 PROVE mem'[i] = mem[i]
  <2>1. i \in 0 .. h.reserve - 1 /\ i < g.reserve /\ ~(i >= h.used)
    BY <1>1, WholeFacts
  <2> QED
    BY <2>1 DEF Poked
<1>3. ASSUME NEW i \in 1 .. Len(b), g.used + i <= h.reserve
      PROVE  mem'[g.used + i - 1] = b[i]
  <2>1. /\ g.used + i - 1 \in 0 .. h.reserve - 1
        /\ g.used + i - 1 >= h.used /\ g.used + i - 1 < h.used + Len(b)
        /\ (g.used + i - 1) - h.used + 1 = i
    BY <1>1, <1>3, WholeFacts, LenProperties
  <2> QED
    BY <2>1 DEF Poked
<1> QED
  BY <1>2, <1>3

\* bytes put behind the live ones
LEMMA LivePut ==
    ASSUME FullInv, clean, Live \in Seq(Bytes), NEW h \in Geometry,
           h.reserve >= g.reserve, h.used = g.used, h.cursor = g.cursor, h.size = g.size,
           NEW b \in Seq(Bytes), g.used + Len(b) <= h.reserve, FullInv', clean',
           g' = Commit(h, Len(b)), mem' = Poked(h, b)
    PROVE  Live' = Live \o b
<1>1. b \in Seq(Cells) /\ Len(b) \in Nat
  BY SeqMonotonic, LenProperties DEF Cells
<1>2. g'.cursor = g.cursor /\ g'.size = g.size + Len(b)
  <2>1. g.size + Len(b) < SizeMod /\ h.reserve \in 1 .. MaxReserve
    BY <1>1, WholeFacts, ModFacts DEF Geometry
  <2>2. Wrap(g.size + Len(b)) = g.size + Len(b)
    BY <1>1, <2>1, WholeFacts, ModFacts DEF Wrap
  <2> QED
    BY <2>2, CommitFields
<1>3. /\ Live \in Seq(Cells) /\ Len(Live) = g.size
      /\ \A i \in 1 .. g.size : Live[i] = mem[g.cursor + i - 1]
  <2>1. g.size \in 0 .. g.size
    BY WholeFacts
  <2> QED
    BY <2>1, PeekedFacts DEF Live
<1>4. /\ Live' \in Seq(Cells) /\ Len(Live') = g'.size
      /\ \A i \in 1 .. g'.size : Live'[i] = mem'[g'.cursor + i - 1]
  <2>1. g'.size \in 0 .. g'.size
    BY <1>1, <1>2, WholeFacts
  <2> QED
    BY <2>1, PeekedFactsPrimed DEF Live
<1>5. /\ Live \o b \in Seq(Cells) /\ Len(Live \o b) = g.size + Len(b)
      /\ \A i \in 1 .. g.size + Len(b) :
            (Live \o b)[i] = IF i <= g.size THEN Live[i] ELSE b[i - g.size]
  <2>1. /\ Live \o b \in Seq(Cells) /\ Len(Live \o b) = Len(Live) + Len(b)
        /\ \A i \in 1 .. Len(Live) + Len(b) :
              (Live \o b)[i] = IF i <= Len(Live) THEN Live[i] ELSE b[i - Len(Live)]
    BY <1>1, <1>3, ConcatProperties
  <2> QED
    BY <1>3, <2>1
<1>6. ASSUME NEW i \in 1 .. g.size + Len(b) PROVE Live'[i] = (Live \o b)[i]
  <2>1. Live'[i] = mem'[g.cursor + i - 1]
    BY <1>2, <1>4
  <2>2. CASE i <= g.size
    <3>1. g.cursor + i - 1 \in 0 .. g.used - 1 /\ i \in 1 .. g.size
      BY <1>1, <2>2, WholeFacts
    <3> QED
      BY <1>1, <1>3, <1>5, <2>1, <2>2, <3>1, PokedKeeps
  <2>3. CASE ~(i <= g.size)
    <3>1. /\ i - g.size \in 1 .. Len(b) /\ g.used + (i - g.size) <= h.reserve
          /\ g.used + (i - g.size) - 1 = g.cursor + i - 1
      <4>1. g.cursor \in Nat /\ g.size \in Nat /\ Len(b) \in Nat /\ h.reserve \in Int
            /\ g.cursor + g.size = g.used
        BY <1>1, WholeFacts DEF Geometry
      <4> QED
        BY <2>3, <4>1
    <3>2. mem'[g.used + (i - g.size) - 1] = b[i - g.size]
      BY <1>1, <3>1, PokedKeeps
    <3> QED
      BY <1>5, <2>1, <2>3, <3>1, <3>2
  <2> QED
    BY <2>2, <2>3
<1> QED
  <2>1. Len(Live') = Len(Live \o b) /\ \A i \in 1 .. Len(Live') : Live'[i] = (Live \o b)[i]
    BY <1>2, <1>4, <1>5, <1>6
  <2> QED
    BY <1>4, <1>5, <2>1, SeqEqual

\* room made behind the live bytes, whatever is left there
LEMMA LiveKept ==
    ASSUME FullInv, clean, Live \in Seq(Bytes), NEW h \in Geometry,
           h.reserve >= g.reserve, h.used = g.used, h.cursor = g.cursor, h.size = g.size,
           NEW b \in Seq(Cells), g' = h, mem' = Poked(h, b)
    PROVE  Live' = Live
<1>1. \A i \in 1 .. g.size :
         /\ g.cursor + i - 1 < g.reserve /\ g.cursor + i - 1 < h.reserve
         /\ mem'[g.cursor + i - 1] = mem[g.cursor + i - 1]
  <2>1. \A i \in 1 .. g.size : g.cursor + i - 1 \in 0 .. g.used - 1
    BY WholeFacts
  <2> QED
    <3>1. g.reserve \in Nat /\ h.reserve \in Nat /\ g.cursor \in Nat /\ g.size \in Nat
          /\ g.used <= g.reserve /\ g.cursor + g.size = g.used
      BY WholeFacts DEF Geometry
    <3>2. \A i \in 0 .. g.used - 1 : mem'[i] = mem[i]
      BY PokedKeeps
    <3> QED
      BY <2>1, <3>1, <3>2
<1> QED
  BY <1>1 DEF Live, Peeked

\* bytes taken from the front
LEMMA LiveTaken ==
    ASSUME FullInv, clean, Live \in Seq(Bytes), NEW n \in 0 .. g.size,
           FullInv', clean', g' = Consume(g, n), UNCHANGED mem
    PROVE  /\ Live = Peeked(g, n) \o Live'
           /\ Peeked(g, n) \in Seq(Bytes) /\ Live' \in Seq(Bytes)
<1>1. /\ Live \in Seq(Cells) /\ Len(Live) = g.size
      /\ \A i \in 1 .. g.size : Live[i] = mem[g.cursor + i - 1]
  <2>1. g.size \in 0 .. g.size
    BY WholeFacts
  <2> QED
    BY <2>1, PeekedFacts DEF Live
<1>2. /\ Peeked(g, n) \in Seq(Cells) /\ Len(Peeked(g, n)) = n
      /\ \A i \in 1 .. n : Peeked(g, n)[i] = mem[g.cursor + i - 1]
  BY PeekedFacts
<1>3. g'.size = g.size - n /\ (n < g.size => g'.cursor = g.cursor + n)
  <2>1. CASE n < g.size
    BY <2>1, WholeFacts, ModFacts DEF Consume, Wrap
  <2>2. CASE n = g.size
    BY <2>2, WholeFacts DEF Consume, Clear
  <2> QED
    BY <2>1, <2>2, WholeFacts
<1>4. /\ Live' \in Seq(Cells) /\ Len(Live') = g'.size
      /\ \A i \in 1 .. g'.size : Live'[i] = mem'[g'.cursor + i - 1]
  <2>1. g'.size \in 0 .. g'.size
    BY <1>3, WholeFacts
  <2> QED
    BY <2>1, PeekedFactsPrimed DEF Live
<1>5. \A i \in 1 .. g.size - n : Live'[i] = Live[n + i]
  <2> SUFFICES ASSUME NEW i \in 1 .. g.size - n PROVE Live'[i] = Live[n + i]
    OBVIOUS
  <2>1. n + i \in 1 .. g.size /\ n < g.size
        /\ (g.cursor + n) + i - 1 = g.cursor + (n + i) - 1
    BY WholeFacts
  <2>2. Live'[i] = mem'[g'.cursor + i - 1] /\ g'.cursor = g.cursor + n
    BY <1>3, <1>4, <2>1
  <2>3. Live[n + i] = mem[g.cursor + (n + i) - 1]
    BY <1>1, <2>1
  <2> QED
    BY <2>1, <2>2, <2>3
<1>6. /\ Peeked(g, n) \o Live' \in Seq(Cells) /\ Len(Peeked(g, n) \o Live') = g.size
      /\ \A i \in 1 .. g.size : (Peeked(g, n) \o Live')[i]
                                  = IF i <= n THEN Peeked(g, n)[i] ELSE Live'[i - n]
  <2> DEFINE s == Peeked(g, n)
             t == Live'
  <2>1. s \in Seq(Cells) /\ t \in Seq(Cells) /\ Len(s) = n /\ Len(t) = g.size - n
    BY <1>2, <1>3, <1>4
  <2> HIDE DEF s, t
  <2>2. /\ s \o t \in Seq(Cells) /\ Len(s \o t) = Len(s) + Len(t)
        /\ \A i \in 1 .. Len(s) + Len(t) :
              (s \o t)[i] = IF i <= Len(s) THEN s[i] ELSE t[i - Len(s)]
    BY <2>1, ConcatProperties
  <2>3. n + (g.size - n) = g.size
    BY WholeFacts
  <2> QED
    BY <2>1, <2>2, <2>3 DEF s, t
<1>7. ASSUME NEW i \in 1 .. g.size PROVE Live[i] = (Peeked(g, n) \o Live')[i]
  <2>1. CASE i <= n
    <3>1. i \in 1 .. n
      BY <2>1, WholeFacts
    <3> QED
      BY <1>1, <1>2, <1>6, <2>1, <3>1
  <2>2. CASE ~(i <= n)
    <3>1. i - n \in 1 .. g.size - n /\ n + (i - n) = i
      BY <2>2, WholeFacts
    <3> QED
      BY <1>5, <1>6, <2>2, <3>1
  <2> QED
    BY <2>1, <2>2
<1>8. \A i \in 1 .. g.size : Live[i] \in Bytes
  BY <1>1, ElementOfSeq
<1>9. \A i \in 1 .. n : Peeked(g, n)[i] \in Bytes
  <2> SUFFICES ASSUME NEW i \in 1 .. n PROVE Peeked(g, n)[i] \in Bytes
    OBVIOUS
  <2>1. i \in 1 .. g.size
    BY WholeFacts
  <2> QED
    BY <1>1, <1>2, <1>8, <2>1
<1>10. \A i \in 1 .. g.size - n : Live'[i] \in Bytes
  <2> SUFFICES ASSUME NEW i \in 1 .. g.size - n PROVE Live'[i] \in Bytes
    OBVIOUS
  <2>1. n + i \in 1 .. g.size
    BY WholeFacts
  <2> QED
    BY <1>5, <1>8, <2>1
<1>11. Live = Peeked(g, n) \o Live'
  BY <1>1, <1>6, <1>7, SeqEqual
<1>12. Peeked(g, n) \in Seq(Bytes)
  BY <1>2, <1>9, SeqOfBytes
<1>13. Live' \in Seq(Bytes)
  BY <1>3, <1>4, <1>10, SeqOfBytes
<1> QED
  BY <1>11, <1>12, <1>13

-----------------------------------------------------------------------------
(* Each call is a step of the queue. *)

QueueState == IF clean THEN Live ELSE << >>

LEMMA QueueDefinition ==
    /\ Queue!Init <=> QueueState = << >> /\ call = [kind |-> "none", bytes |-> << >>]
    /\ Queue!Put <=> call'.kind = "put" /\ QueueState' = QueueState \o call'.bytes
    /\ Queue!Take <=> call'.kind = "take" /\ QueueState = call'.bytes \o QueueState'
    /\ Queue!Peek <=> /\ call'.kind = "peek" /\ QueueState' = QueueState
                      /\ Len(call'.bytes) <= Len(QueueState)
                      /\ call'.bytes = SubSeq(QueueState, 1, Len(call'.bytes))
    /\ Queue!Drop <=> call'.kind = "drop" /\ QueueState' = << >>
    /\ Queue!Idle <=> call'.kind = "none" /\ QueueState' = QueueState
    /\ Queue!Next <=> /\ call' \in Queue!Calls
                      /\ \/ Queue!Put \/ Queue!Take \/ Queue!Peek \/ Queue!Drop \/ Queue!Idle
  BY DEF Queue!Init, Queue!Put, Queue!Take, Queue!Peek, Queue!Drop, Queue!Idle, Queue!Next,
         QueueState, Live

QueueStep == Queue!Next /\ (clean' => Live' \in Seq(Bytes))

LEMMA CalledFacts ==
    ASSUME NEW kind \in {"put", "take", "peek", "drop", "none"}, NEW b \in Seq(Bytes),
           Called(kind, b)
    PROVE  call' \in Queue!Calls /\ call'.kind = kind /\ call'.bytes = b
  BY DEF Called, Queue!Calls

LEMMA PutIsStep ==
    ASSUME QueueInv, clean, FullInv', clean', NEW h \in Geometry,
           h.reserve >= g.reserve, h.used = g.used, h.cursor = g.cursor, h.size = g.size,
           NEW b \in Seq(Bytes), g.used + Len(b) <= h.reserve,
           g' = Commit(h, Len(b)), mem' = Poked(h, b), Called("put", b)
    PROVE  QueueStep
<1>1. Live \in Seq(Bytes) /\ FullInv
  BY DEF QueueInv
<1>2. Live' = Live \o b
  BY <1>1, LivePut
<1>3. Live' \in Seq(Bytes)
  BY <1>1, <1>2, ConcatProperties
<1>4. call' \in Queue!Calls /\ call'.kind = "put" /\ call'.bytes = b
  BY CalledFacts
<1> QED
  BY <1>2, <1>3, <1>4, QueueDefinition DEF QueueStep, QueueState

LEMMA PutBytesIsStep ==
    ASSUME QueueInv, clean, FullInv', NEW b \in Payloads, PutBytes(b) PROVE QueueStep
<1>1. PICK h \in Prepared(g, Len(b)) :
         /\ g' = Commit(h, Len(b)) /\ mem' = Poked(h, b) /\ Called("put", b) /\ UNCHANGED clean
  BY DEF PutBytes
<1>2. b \in Seq(Bytes) /\ Len(b) \in Size /\ Len(b) + MaxReserve < SizeMod
  BY PayloadFacts
<1> QED
  BY <1>1, <1>2, Room, PutIsStep DEF QueueInv

LEMMA ReceiveIsStep == ASSUME QueueInv, clean, FullInv', Receive PROVE QueueStep
<1>1. PICK h \in Prepared(g, RecvChunk), b \in Payloads :
         /\ Len(b) \in 1 .. Remain(h)
         /\ g' = Commit(h, Len(b)) /\ mem' = Poked(h, b) /\ Called("put", b) /\ UNCHANGED clean
  BY DEF Receive
<1>2. /\ h \in Geometry
      /\ h.reserve >= g.reserve /\ h.used = g.used
      /\ h.cursor = g.cursor /\ h.size = g.size
      /\ g.used + RecvChunk <= h.reserve
  BY ChunkFacts, Room DEF QueueInv
<1>3. b \in Seq(Bytes)
  BY PayloadFacts
<1>4. g.used + Len(b) <= h.reserve
  <2>1. g.used \in Nat /\ h.reserve \in 1 .. MaxReserve /\ Len(b) \in Nat
    BY <1>2, <1>3, WholeFacts, LenProperties DEF QueueInv, Geometry
  <2>2. Remain(h) = h.reserve - g.used
    BY <1>2, <2>1, ModFacts DEF Remain, Wrap
  <2> QED
    BY <1>1, <2>1, <2>2
<1> QED
  BY <1>1, <1>2, <1>3, <1>4, PutIsStep

\* room made: the bytes in the queue stay where they are
LEMMA RoomIsStep ==
    ASSUME QueueInv, clean, FullInv', NEW h \in Geometry,
           h.reserve >= g.reserve, h.used = g.used, h.cursor = g.cursor, h.size = g.size,
           NEW b \in Seq(Cells), g' = h, mem' = Poked(h, b), clean', Called("none", << >>)
    PROVE  QueueStep
<1>1. Live \in Seq(Bytes) /\ FullInv
  BY DEF QueueInv
<1>2. Live' = Live
  BY <1>1, LiveKept
<1>3. call' \in Queue!Calls /\ call'.kind = "none"
  BY EmptySeq, CalledFacts
<1> QED
  BY <1>1, <1>2, <1>3, QueueDefinition DEF QueueStep, QueueState

LEMMA MakingRoomIsStep ==
    ASSUME QueueInv, clean, FullInv',
           ReceiveEnd \/ Zero \/ \E n \in 0 .. MaxReserve : Prepare(n)
    PROVE  QueueStep
<1>1. \E n \in Size, b \in Seq(Cells) : \E h \in Prepared(g, n) :
         /\ n + MaxReserve < SizeMod
         /\ g' = h /\ mem' = Poked(h, b) /\ clean' /\ Called("none", << >>)
  <2>1. CASE ReceiveEnd
    BY <2>1, ChunkFacts DEF ReceiveEnd
  <2>2. CASE Zero
    BY <2>2, ChunkFacts DEF Zero
  <2>3. ASSUME NEW n \in 0 .. MaxReserve, Prepare(n)
        PROVE  \E b \in Seq(Cells), h \in Prepared(g, n) :
                  /\ n \in Size /\ n + MaxReserve < SizeMod
                  /\ g' = h /\ mem' = Poked(h, b) /\ clean' /\ Called("none", << >>)
    <3>1. n \in Size /\ n + MaxReserve < SizeMod
      BY ModFacts DEF Size
    <3> QED
      BY <2>3, <3>1, ChunkFacts DEF Prepare
  <2> QED
    BY <2>1, <2>2, <2>3
<1> QED
  BY <1>1, Room, RoomIsStep DEF QueueInv

LEMMA TakeIsStep ==
    ASSUME QueueInv, clean, FullInv', clean', NEW n \in 0 .. g.size,
           g' = Consume(g, n), UNCHANGED mem, Called("take", Peeked(g, n))
    PROVE  QueueStep
<1>1. /\ Live = Peeked(g, n) \o Live'
      /\ Peeked(g, n) \in Seq(Bytes) /\ Live' \in Seq(Bytes)
  BY LiveTaken DEF QueueInv
<1>2. call' \in Queue!Calls /\ call'.kind = "take" /\ call'.bytes = Peeked(g, n)
  BY <1>1, CalledFacts
<1> QED
  BY <1>1, <1>2, QueueDefinition DEF QueueStep, QueueState

\* consume() of more than there is takes all there is
LEMMA ConsumeAll ==
    ASSUME QueueInv, clean, NEW n \in Size
    PROVE  /\ Least(n, g.size) \in 0 .. g.size
           /\ Consume(g, n) = Consume(g, Least(n, g.size))
<1>1. n \in Nat /\ g.size \in Nat
  BY WholeFacts DEF QueueInv, Size
<1>2. CASE n < g.size
  BY <1>1, <1>2 DEF Least
<1>3. CASE ~(n < g.size)
  BY <1>1, <1>3 DEF Least, Consume
<1> QED
  BY <1>2, <1>3

LEMMA TakingIsStep ==
    ASSUME QueueInv, clean, FullInv', NEW n \in Size,
           ReadUtf8(n) \/ ConsumeBytes(n) \/ SendBuffer(n)
    PROVE  QueueStep
<1>1. /\ Least(n, g.size) \in 0 .. g.size
      /\ Consume(g, n) = Consume(g, Least(n, g.size))
  BY ConsumeAll
<1>2. CASE ReadUtf8(n)
  BY <1>1, <1>2, TakeIsStep DEF ReadUtf8, HandOut
<1>3. CASE ConsumeBytes(n)
  BY <1>1, <1>3, TakeIsStep DEF ConsumeBytes
<1>4. CASE SendBuffer(n)
  <2>1. n \in 0 .. g.size
    BY <1>4, WholeFacts DEF SendBuffer, Size, QueueInv
  <2> QED
    BY <1>4, <2>1, TakeIsStep DEF SendBuffer, HandOut
<1> QED
  BY <1>2, <1>3, <1>4

\* peeking hands out a prefix and leaves the queue
LEMMA PeekIsStep ==
    ASSUME QueueInv, clean, NEW n \in 0 .. g.size,
           g' = g, UNCHANGED mem, clean', Called("peek", Peeked(g, n))
    PROVE  QueueStep
<1>1. /\ Live \in Seq(Cells) /\ Len(Live) = g.size
      /\ \A i \in 1 .. g.size : Live[i] = mem[g.cursor + i - 1]
  <2>1. g.size \in 0 .. g.size
    BY WholeFacts DEF QueueInv
  <2> QED
    BY <2>1, PeekedFacts DEF Live, QueueInv
<1>2. /\ Peeked(g, n) \in Seq(Cells) /\ Len(Peeked(g, n)) = n
      /\ \A i \in 1 .. n : Peeked(g, n)[i] = mem[g.cursor + i - 1]
  BY PeekedFacts DEF QueueInv
<1>3. \A i \in 1 .. n : i \in 1 .. g.size
  BY WholeFacts DEF QueueInv
<1>4. \A i \in 1 .. n : Live[i] \in Bytes
  <2>1. Live \in Seq(Bytes)
    BY DEF QueueInv
  <2> QED
    BY <1>1, <1>3, <2>1, ElementOfSeq
<1>5. Peeked(g, n) \in Seq(Bytes)
  <2>1. \A i \in 1 .. n : Peeked(g, n)[i] \in Bytes
    BY <1>1, <1>2, <1>3, <1>4
  <2> QED
    BY <1>2, <2>1, SeqOfBytes
<1>6. Peeked(g, n) = SubSeq(Live, 1, n)
  <2>1. n \in Nat /\ n <= Len(Live)
    BY <1>1, WholeFacts DEF QueueInv
  <2>2. /\ SubSeq(Live, 1, n) \in Seq(Bytes)
        /\ Len(SubSeq(Live, 1, n)) = n
        /\ \A i \in 1 .. n : SubSeq(Live, 1, n)[i] = Live[i]
    <3>1. /\ SubSeq(Live, 1, n) \in Seq(Bytes)
          /\ Len(SubSeq(Live, 1, n)) = IF 1 <= n THEN n - 1 + 1 ELSE 0
          /\ \A i \in 1 .. n - 1 + 1 : SubSeq(Live, 1, n)[i] = Live[1 + i - 1]
      BY <1>4, <2>1, SubSeqProperties
    <3> QED
      BY <2>1, <3>1
  <2> QED
    BY <1>1, <1>2, <1>3, <1>5, <2>2, SeqEqual
<1>7. Live' = Live
  BY DEF Live, Peeked
<1>8. call' \in Queue!Calls /\ call'.kind = "peek" /\ call'.bytes = Peeked(g, n)
  BY <1>5, CalledFacts
<1>9. n <= g.size /\ Live \in Seq(Bytes)
  BY WholeFacts DEF QueueInv
<1> QED
  BY <1>1, <1>2, <1>6, <1>7, <1>8, <1>9, QueueDefinition DEF QueueStep, QueueState

LEMMA DropIsStep ==
    ASSUME QueueState' = << >>, Called("drop", << >>), clean' => Live' = << >>
    PROVE  QueueStep
<1>1. call' \in Queue!Calls /\ call'.kind = "drop" /\ << >> \in Seq(Bytes)
  BY EmptySeq, CalledFacts
<1> QED
  BY <1>1, QueueDefinition DEF QueueStep

LEMMA DroppingIsStep == ASSUME ReceiveFails \/ ClearBuffer \/ Recycle PROVE QueueStep
<1>1. Called("drop", << >>)
  BY DEF ReceiveFails, ClearBuffer, Recycle
<1>2. clean' => Live' = << >>
  <2>1. clean' => g'.size = 0
    BY DEF ReceiveFails, ClearBuffer, Recycle, Clear, Fresh
  <2>2. \A m : m = 0 => Peeked(g, m)' = << >>
    BY DEF Peeked
  <2> QED
    BY <2>1, <2>2 DEF Live
<1>3. QueueState' = << >>
  BY <1>2 DEF QueueState
<1> QED
  BY <1>1, <1>2, <1>3, DropIsStep

LEMMA QueueRefined ==
    QueueInv /\ [Next]_vars => [Queue!Next]_<<QueueState, call>> /\ QueueInv'
<1> SUFFICES ASSUME QueueInv, [Next]_vars
             PROVE  [Queue!Next]_<<QueueState, call>> /\ QueueInv'
  OBVIOUS
<1>1. FullInv' /\ ~fault'
  BY NoFaultStep DEF QueueInv, NoFault
<1>2. ASSUME QueueStep PROVE [Queue!Next]_<<QueueState, call>> /\ QueueInv'
  BY <1>1, <1>2 DEF QueueStep, QueueInv
<1>3. CASE clean /\ QueueCall
  <2>1. CASE WriteText \/ WriteInt \/ WriteBuffer
    BY <1>1, <1>2, <1>3, <2>1, PutBytesIsStep DEF WriteText, WriteInt, WriteBuffer
  <2>2. CASE Receive
    BY <1>1, <1>2, <1>3, <2>2, ReceiveIsStep
  <2>3. CASE ReceiveEnd \/ Zero \/ \E n \in 0 .. MaxReserve : Prepare(n)
    BY <1>1, <1>2, <1>3, <2>3, MakingRoomIsStep
  <2>4. CASE ReceiveFails \/ ClearBuffer
    BY <1>2, <2>4, DroppingIsStep
  <2>5. ASSUME NEW n \in Size, ReadUtf8(n) \/ ConsumeBytes(n) \/ SendBuffer(n)
        PROVE  QueueStep
    BY <1>1, <1>3, <2>5, TakingIsStep
  <2>6. ASSUME NEW n \in Size, PeekUtf8(n) PROVE QueueStep
    <3>1. Least(n, g.size) \in 0 .. g.size
      BY <1>3, ConsumeAll
    <3> QED
      BY <1>3, <2>6, <3>1, PeekIsStep DEF PeekUtf8, HandOut
  <2>7. ASSUME NEW n \in 0 .. g.size, PeekBuffer(n) PROVE QueueStep
    BY <1>1, <1>3, <2>7, PeekIsStep DEF PeekBuffer, HandOut
  <2> QED
    BY <1>2, <1>3, <2>1, <2>2, <2>3, <2>4, <2>5, <2>6, <2>7 DEF QueueCall
<1>4. CASE Recycle
  BY <1>2, <1>4, DroppingIsStep
<1>5. CASE UNCHANGED vars
  BY <1>1, <1>5 DEF vars, QueueState, Live, Peeked, QueueInv
<1> QED
  BY <1>3, <1>4, <1>5 DEF Next

\* In the runtime's hands a buffer of any size is a first-in first-out queue of
\* bytes: every call puts, takes, peeks at or drops exactly what the queue says.
THEOREM ImplementsQueue == Spec => QueueSpec
<1>1. Init => QueueInv /\ Queue!Init
  <2> SUFFICES ASSUME Init PROVE QueueInv /\ Queue!Init
    OBVIOUS
  <2>1. g.size = 0 /\ clean /\ ~fault /\ call = [kind |-> "none", bytes |-> << >>]
    BY DEF Init, Fresh
  <2>2. Live = << >>
    BY <2>1 DEF Live, Peeked
  <2> QED
    BY <2>1, <2>2, FullInitial, EmptySeq, QueueDefinition DEF QueueInv, QueueState
<1>2. QueueInv /\ [Next]_vars => [Queue!Next]_<<QueueState, call>>
  BY QueueRefined
<1>3. QueueInv /\ [Next]_vars => QueueInv'
  BY QueueRefined
<1> QED
  BY <1>1, <1>2, <1>3, PTL DEF Spec, QueueSpec, Queue!Spec, QueueState, Live
=============================================================================
