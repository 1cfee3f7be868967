------------------------------- MODULE Buffer -------------------------------
(***************************************************************************)
(* The growable byte buffer of src/buffer.cc: four size_t fields over one  *)
(* malloc'ed block.  The live bytes are mem[cursor .. cursor+size-1];      *)
(* `used' is where the next byte goes; the block grows by tripling and is  *)
(* never compacted, so the space before `cursor' comes back only when the  *)
(* buffer is drained (consume clears it then).                             *)
(*                                                                         *)
(* Next is the use the runtime in coffee/ makes of a buffer; NextAll adds  *)
(* the other operations scripts can call, which break its bookkeeping.     *)
(* Not modelled: sweep() (no caller), show() (output only) and a reserve   *)
(* of 0, for which prepare() never returns.                                *)
(***************************************************************************)
EXTENDS Integers, Sequences

CONSTANTS
    Bytes,          \* byte values
    Junk,           \* what malloc'ed memory holds before it is written
    Nul,            \* the byte zero() writes
    Payloads,       \* the byte strings one call may write
    IntWidth,       \* bytes of an int32, uint32, int64 or double
    RecvChunk,      \* what _read_buffer prepares before recv (8192)
    SizeMod,        \* 2^w for a size_t of w bits
    InitialReserve, \* reserve of a buffer the pool creates (512)
    ReserveLimit,   \* a larger buffer is not put back into the pool
    MaxReserve      \* bound: no block grows beyond it

ASSUME BytesAssumption == Junk \notin Bytes /\ Nul \in Bytes /\ Payloads \subseteq Seq(Bytes)
ASSUME SizesAssumption ==
    /\ IntWidth \in Nat /\ RecvChunk \in Nat \ {0} /\ ReserveLimit \in Nat
    /\ InitialReserve \in Nat \ {0}
    /\ MaxReserve \in Nat /\ InitialReserve <= MaxReserve
    /\ SizeMod \in Nat
    /\ 2 * MaxReserve + RecvChunk < SizeMod      \* the block is far from 2^w bytes long
    /\ \A b \in Payloads : Len(b) + MaxReserve < SizeMod

VARIABLES
    g,      \* [cursor, size, used, reserve]
    mem,    \* the block: mem[i] for i in 0 .. g.reserve-1
    call,   \* the last call: its kind and the bytes it took in or handed out
    clean,  \* history: no call has broken the bookkeeping since the last clear
    fault   \* an access fell outside the block

vars == <<g, mem, call, clean, fault>>

Size == 0 .. SizeMod - 1
Least(a, b) == IF a < b THEN a ELSE b

\* unsigned arithmetic of the source, for operands at most one wrap away
Wrap(x) == IF x < 0 THEN x + SizeMod ELSE IF x >= SizeMod THEN x - SizeMod ELSE x

-----------------------------------------------------------------------------
(* The private helpers, on the fields alone. *)

Fresh == [cursor |-> 0, size |-> 0, used |-> 0, reserve |-> InitialReserve]

Clear(h) == [cursor |-> 0, size |-> 0, used |-> 0, reserve |-> h.reserve]

CommitSizeOnly(h, n) == [h EXCEPT !.size = Wrap(@ + n)]       \* mutant

Commit(h, n) == [h EXCEPT !.size = Wrap(@ + n), !.used = Wrap(@ + n)]

ConsumeKeepingCursor(h, n) ==                                 \* mutant
    LET m == Least(n, h.size) IN [h EXCEPT !.cursor = Wrap(@ + m), !.size = @ - m]

Consume(h, n) == IF n < h.size
                 THEN [h EXCEPT !.cursor = Wrap(@ + n), !.size = @ - n]
                 ELSE Clear(h)

Remain(h) == Wrap(h.reserve - h.used)

\* the sizes prepare() runs through, reserve * 3 at a time
Tripled(r) == {s \in r .. MaxReserve : \E k \in 0 .. MaxReserve : s = r * 3^k}

HoldingSize(h, n) == {s \in Tripled(h.reserve) : Wrap(h.size + n) <= s}   \* mutant

Holding(h, n) == {s \in Tripled(h.reserve) : Wrap(h.used + n) <= s}

\* prepare(n): the first of these sizes that holds used + n
Prepared(h, n) == {[h EXCEPT !.reserve = s] :
                     s \in {t \in Holding(h, n) : \A u \in Holding(h, n) : t <= u}}

InBlock(h, at, n) == at + n <= h.reserve

\* n bytes from data(), whatever they are
Peeked(h, n) == [i \in 1 .. n |-> IF h.cursor + i - 1 < h.reserve
                                  THEN mem[h.cursor + i - 1] ELSE Junk]

PokedWithoutCopy(h, bytes) ==                                 \* mutant
    [i \in 0 .. h.reserve - 1 |->
        IF i >= h.used /\ i < h.used + Len(bytes) THEN bytes[i - h.used + 1]
        ELSE IF i < g.reserve /\ h.reserve = g.reserve THEN mem[i] ELSE Junk]

\* the block after realloc() to h.reserve and memcpy of bytes at h.used
Poked(h, bytes) ==
    [i \in 0 .. h.reserve - 1 |->
        IF i >= h.used /\ i < h.used + Len(bytes) THEN bytes[i - h.used + 1]
        ELSE IF i < g.reserve THEN mem[i] ELSE Junk]

Called(kind, bytes) == call' = [kind |-> kind, bytes |-> bytes]

-----------------------------------------------------------------------------
(* Writing. *)

\* write(data, n): prepare, memcpy, commit
PutBytes(bytes) ==
    \E h \in Prepared(g, Len(bytes)) :
        /\ g' = Commit(h, Len(bytes))
        /\ mem' = Poked(h, bytes)
        /\ fault' = ~InBlock(h, h.used, Len(bytes))
        /\ Called("put", bytes)
        /\ UNCHANGED clean

WriteText == \E b \in Payloads : PutBytes(b)                    \* UTF-8 or ASCII
WriteInt == \E b \in Payloads : Len(b) = IntWidth /\ PutBytes(b)
WriteBuffer == \E b \in Payloads : PutBytes(b)                  \* of another buffer

\* recv into everything prepare left free, at least RecvChunk bytes
Receive ==
    \E h \in Prepared(g, RecvChunk), b \in Payloads :
        /\ Len(b) \in 1 .. Remain(h)
        /\ g' = Commit(h, Len(b))
        /\ mem' = Poked(h, b)
        /\ fault' = ~InBlock(h, h.used, Remain(h))
        /\ Called("put", b)
        /\ UNCHANGED clean

\* recv returned 0: the peer has closed
ReceiveEnd ==
    \E h \in Prepared(g, RecvChunk) :
        /\ g' = h
        /\ mem' = Poked(h, << >>)
        /\ Called("none", << >>)
        /\ UNCHANGED <<clean, fault>>

\* recv returned -1, which as a size_t is > 0 and is committed
ReceiveFails ==
    \E h \in Prepared(g, RecvChunk) :
        /\ g' = Commit(h, SizeMod - 1)
        /\ mem' = Poked(h, << >>)
        /\ clean' = FALSE
        /\ Called("drop", << >>)
        /\ UNCHANGED fault

\* a NUL after the last byte, not counted
Zero ==
    \E h \in Prepared(g, 1) :
        /\ g' = h
        /\ mem' = Poked(h, <<Nul>>)
        /\ fault' = ~InBlock(h, h.used, 1)
        /\ Called("none", << >>)
        /\ UNCHANGED clean

Prepare(n) ==
    \E h \in Prepared(g, n) :
        /\ g' = h
        /\ mem' = Poked(h, << >>)
        /\ Called("none", << >>)
        /\ UNCHANGED <<clean, fault>>

-----------------------------------------------------------------------------
(* Reading. *)

\* hands out n bytes from data() and leaves the fields as h
HandOut(kind, n, h) ==
    /\ g' = h
    /\ fault' = ~InBlock(g, g.cursor, n)
    /\ Called(kind, Peeked(g, n))
    /\ UNCHANGED mem

ReadUtf8(n) == LET m == Least(n, g.size)
               IN  HandOut("take", m, Consume(g, m)) /\ UNCHANGED clean

PeekUtf8(n) == HandOut("peek", Least(n, g.size), g) /\ UNCHANGED clean

\* copies n bytes to another buffer; n is the caller's, not clamped
PeekBuffer(n) == HandOut("peek", n, g) /\ UNCHANGED clean

ConsumeBytes(n) ==
    /\ g' = Consume(g, n)
    /\ Called("take", Peeked(g, Least(n, g.size)))
    /\ UNCHANGED <<mem, clean, fault>>

\* the send loop: n bytes go out, then send blocks, fails or nothing is left
SendBuffer(n) == n <= g.size /\ HandOut("take", n, Consume(g, n)) /\ UNCHANGED clean

ClearBuffer ==
    /\ g' = Clear(g)
    /\ clean' = TRUE
    /\ Called("drop", << >>)
    /\ UNCHANGED <<mem, fault>>

\* back into the pool and out again: an oversized block is freed and a fresh
\* one made, any other is cleared
Recycle ==
    /\ IF g.reserve > ReserveLimit
       THEN g' = Fresh /\ mem' = [i \in 0 .. InitialReserve - 1 |-> Junk]
       ELSE g' = Clear(g) /\ UNCHANGED mem
    /\ clean' = TRUE
    /\ Called("drop", << >>)
    /\ UNCHANGED fault

-----------------------------------------------------------------------------
(* The operations that do not keep the queue. *)

\* read(dest, n) behind readInt32 and its like: commits what it should consume
ReadInt ==
    LET m == Least(IntWidth, g.size)
    IN  /\ HandOut("readInt", m, Commit(g, m))
        /\ clean' = (clean /\ m = 0)

ReadBuffer(n) == HandOut("readBuffer", n, Commit(g, n)) /\ clean' = (clean /\ n = 0)

\* two bytes a character are prepared; these and the two of a NUL are written
\* (String::Write with length -1), one a character is committed
WriteUcs2 ==
    \E b \in Payloads :
        /\ Len(b) % 2 = 0
        /\ \E h \in Prepared(g, Len(b)) :
              /\ g' = Commit(h, Len(b) \div 2)
              /\ mem' = Poked(h, b \o <<Nul, Nul>>)
              /\ fault' = ~InBlock(h, h.used, Len(b) + 2)
              /\ Called("ucs2", b)
              /\ UNCHANGED clean

CommitBytes(n) ==
    /\ g' = Commit(g, n)
    /\ clean' = (clean /\ n <= Remain(g))
    /\ Called("raw", << >>)
    /\ UNCHANGED <<mem, fault>>

\* writeBuffer of the buffer itself: the source address was taken before
\* prepare(), whose realloc() may move the block away from it
WriteSelf ==
    \E h \in Prepared(g, g.size) :
        /\ g' = Commit(h, g.size)
        /\ mem' = Poked(h, Peeked(g, g.size))
        /\ LET outside == ~InBlock(h, h.used, g.size) \/ ~InBlock(g, g.cursor, g.size)
           IN  fault' \in {outside, outside \/ h.reserve > g.reserve}
        /\ Called("self", << >>)
        /\ UNCHANGED clean

-----------------------------------------------------------------------------
Init ==
    /\ g = Fresh
    /\ mem = [i \in 0 .. InitialReserve - 1 |-> Junk]
    /\ call = [kind |-> "none", bytes |-> << >>]
    /\ clean = TRUE
    /\ fault = FALSE

QueueCall ==
    \/ WriteText \/ WriteInt \/ WriteBuffer
    \/ Receive \/ ReceiveEnd \/ ReceiveFails \/ Zero \/ ClearBuffer
    \/ \E n \in Size : ReadUtf8(n) \/ PeekUtf8(n) \/ ConsumeBytes(n) \/ SendBuffer(n)
    \/ \E n \in 0 .. g.size : PeekBuffer(n)
    \/ \E n \in 0 .. MaxReserve : Prepare(n)

RawCall ==
    \/ ReadInt \/ WriteUcs2 \/ WriteSelf
    \/ \E n \in Size : ReadBuffer(n) \/ CommitBytes(n) \/ PeekBuffer(n)

\* a failed receive is followed by the error callback, which gives the buffer up
Next == ~fault /\ ((clean /\ QueueCall) \/ Recycle)

NextAll == ~fault /\ (QueueCall \/ RawCall \/ Recycle)

Spec == Init /\ [][Next]_vars

FullSpec == Init /\ [][NextAll]_vars

-----------------------------------------------------------------------------
(* Properties. *)

TypeOK ==
    /\ g \in [cursor : Size, size : Size, used : Size, reserve : 1 .. MaxReserve]
    /\ mem \in [0 .. g.reserve - 1 -> Bytes \cup {Junk}]
    /\ call.kind \in {"put", "take", "peek", "drop", "none",
                     "readInt", "readBuffer", "ucs2", "raw", "self"}
    /\ clean \in BOOLEAN
    /\ fault \in BOOLEAN

WellFormed(h) ==
    /\ h.cursor + h.size = h.used
    /\ h.used <= h.reserve
    /\ h.size = 0 => h.cursor = 0

\* Until a call that breaks it, the live bytes end where the next byte goes, both
\* lie in the block, and a drained buffer has all its space back: consume() clears.
Sound == clean => WellFormed(g)

\* As the runtime uses a buffer, no call reads or writes outside the block: memcpy,
\* recv into remain() bytes and String::New all stay within what prepare() left.
NoFault == ~fault

\* Whatever scripts call, in any order, size and used move together, modulo 2^w:
\* even the reads that commit and the committed -1 of a failed recv keep this.
Framing == Wrap(g.cursor + g.size) = g.used

\* the three calls that reach past the live bytes of a sound buffer: more asked for
\* than there is, the NUL of writeUcs2, and a buffer written to itself that grows
Excused ==
    \/ call'.kind \in {"peek", "readBuffer"} /\ Len(call'.bytes) > g.size
    \/ call'.kind = "ucs2" /\ g.used + Len(call'.bytes) <= g'.reserve
    \/ call'.kind = "self" /\ g'.reserve > g.reserve

\* Whatever scripts call, in any order, an access outside the block is one of those
\* three, or comes after a call that broke the bookkeeping and before a clear or the
\* pool ended the damage: all the other calls stay in the block.
Contained == [][fault' => ~clean \/ Excused]_vars

\* A buffer in the runtime's hands is a FIFO of bytes: growing, clearing on drain,
\* partial sends and receives neither lose, repeat, reorder nor invent a byte.
Queue == INSTANCE ByteQueue WITH q <- IF clean THEN Peeked(g, g.size) ELSE << >>
QueueSpec == Queue!Spec

\* buffer.h:98-103, "read data to another buffer": reading takes no byte in, so the
\* source does not get longer by being read.
ReadNeverGrows == [][call'.kind = "readBuffer" => g'.size <= g.size]_vars

\* buffer.h:118-123, "Write UCS2 string": the whole string is in the buffer after it.
WritesWholeString == [][call'.kind = "ucs2" /\ clean => g'.size = g.size + Len(call'.bytes)]_vars
=============================================================================
