------------------------------ MODULE ReadToken ------------------------------
(***************************************************************************)
(* The multipart parser of coffee/net/http.coffee over Socket.readToken    *)
(* and readSize of coffee/core/socket.coffee: bytes arrive in chunks of    *)
(* any size; after each one the buffer is searched for a delimiter from    *)
(* where the last search stopped, and once it is there the callback gets   *)
(* the number of bytes up to its end.  The parser takes these bytes and    *)
(* asks for the next thing:                                                *)
(*                                                                         *)
(*   boundary, then two bytes; if they are a line end, a part's header up  *)
(*   to an empty line, and again a boundary; if not, what is left of the   *)
(*   last line, after which the request is processed.                      *)
(*                                                                         *)
(* That the last reader stays registered while the application answers,    *)
(* and the end of the connection, are HttpServer's.                        *)
(***************************************************************************)
EXTENDS Partial

CONSTANTS
    Byte,       \* byte values
    Line,       \* Client.boundaryDelim, the two bytes of a line end
    Boundary,   \* the boundary a request names, with its two dashes
    MaxChunk,   \* bound: bytes one recv returns
    MaxStream   \* bound: bytes received in all

ASSUME ReadTokenAssumption ==
    /\ Line \in Seq(Byte) /\ Len(Line) = 2
    /\ Boundary \in Seq(Byte) \ {<< >>}
    /\ MaxChunk \in Nat
    /\ MaxStream \in Nat

VARIABLES
    at,         \* what the parser reads: a delimiter, the two bytes, or no more
    buf,        \* the contents of the buffer
    last,       \* where the search goes on, a variable of readToken's closures
    phase,      \* "idle": waiting for input; "check": condition(); "found": callback()
    stream,     \* history: every byte received
    taken       \* history: what the callbacks took, from and to which byte of stream

vars == <<at, buf, last, phase, stream, taken>>

\* an empty line: Client.headerDelim
DelimOf == [boundary |-> Boundary, header |-> Line \o Line, end |-> Line]
Searching == {"boundary", "header", "end"}

Init ==
    /\ at = "boundary"
    /\ buf = << >> /\ last = 0 /\ phase = "check"
    /\ stream = << >> /\ taken = << >>

\* the input callback of readUntil: recv appends a chunk
Receive ==
    /\ phase = "idle" /\ at # "done"
    /\ \E n \in 1 .. MaxChunk : \E chunk \in [1 .. n -> Byte] :
          /\ Len(stream) + n <= MaxStream
          /\ buf' = buf \o chunk
          /\ stream' = stream \o chunk
    /\ phase' = "check"
    /\ UNCHANGED <<at, last, taken>>

\* condition() of readToken: go on searching, then isFound
Check ==
    /\ phase = "check" /\ at \in Searching
    /\ last' = PartialFind(buf, DelimOf[at], last)
    /\ phase' = IF IsFound(buf, DelimOf[at], last') THEN "found" ELSE "idle"
    /\ UNCHANGED <<at, buf, stream, taken>>

\* readSize's test, before it registers anything and after each chunk
CheckSize ==
    /\ phase = "check" /\ at = "pair"
    /\ phase' = IF Len(buf) >= 2 THEN "found" ELSE "idle"
    /\ UNCHANGED <<at, buf, last, stream, taken>>

\* the callback uses the first n bytes, leaves rest and asks for what is next
Take(n, rest, next) ==
    /\ taken' = Append(taken, [at |-> at, from |-> Len(stream) - Len(buf),
                                          to |-> Len(stream) - Len(buf) + n])
    /\ buf' = rest
    /\ at' = next
    /\ last' = 0
    /\ phase' = IF next = "done" THEN "idle" ELSE "check"
    /\ UNCHANGED stream

ToDelimiter == last + Len(DelimOf[at])        \* callback(last + deliBuffeSize)
After(n) == SubSeq(buf, n + 1, Len(buf))

BoundaryFoundUnconsumed ==                                    \* mutant
    /\ phase = "found" /\ at = "boundary"
    /\ Take(ToDelimiter, buf, "pair")

BoundaryFound ==
    /\ phase = "found" /\ at = "boundary"
    /\ Take(ToDelimiter, After(ToDelimiter), "pair")

PairFound ==
    /\ phase = "found" /\ at = "pair"
    /\ Take(2, After(2), IF SubSeq(buf, 1, 2) = Line THEN "header" ELSE "end")

HeaderFound ==
    /\ phase = "found" /\ at = "header"
    /\ Take(ToDelimiter, After(ToDelimiter), "boundary")

\* process() clears the buffer, with whatever came after the request
EndFound ==
    /\ phase = "found" /\ at = "end"
    /\ Take(ToDelimiter, << >>, "done")

Callback == BoundaryFound \/ PairFound \/ HeaderFound \/ EndFound

Next == Receive \/ Check \/ CheckSize \/ Callback

Spec == Init /\ [][Next]_vars

\* the thread runs what it has to run; nothing is assumed of the peer
FairSpec == Spec /\ WF_vars(Check \/ CheckSize \/ Callback)

-----------------------------------------------------------------------------
(* Properties. *)

TypeOK ==
    /\ at \in Searching \cup {"pair", "done"}
    /\ buf \in Seq(Byte) /\ stream \in Seq(Byte)
    /\ last \in 0 .. Len(buf)
    /\ phase \in {"idle", "check", "found"}

\* A search that goes on where the last one stopped misses nothing: no position
\* before `last' can still become an occurrence, whatever arrives.
Resumable ==
    at \in Searching => \A p \in 0 .. last - 1 : ~PartialAt(buf, DelimOf[at], p)

\* buffer.h:150-152, the contract of partialFindBuffer: pos + delimiter size is at
\* most the buffer's size exactly if the delimiter is in the buffer.
FoundIffPresent ==
    at \in Searching /\ phase # "check" =>
        ((phase = "found") <=> \E p \in 0 .. Len(buf) : OccursAt(buf, DelimOf[at], p))

\* However the stream is cut into chunks, what a callback takes ends at the first
\* occurrence, in the stream, of its delimiter after what was taken before.
FirstOccurrence == \A k \in 1 .. Len(taken) :
    LET t == taken[k]
        d == DelimOf[t.at]
    IN  t.at \in Searching =>
           /\ t.from <= t.to - Len(d)
           /\ OccursAt(stream, d, t.to - Len(d))
           /\ \A p \in t.from .. t.to - Len(d) - 1 : ~OccursAt(stream, d, p)

\* what is read after t, a matter of the stream s alone
Follower(s, t) ==
    CASE t.at = "boundary" -> "pair"
      [] t.at = "pair" -> IF SubSeq(s, t.from + 1, t.to) = Line THEN "header" ELSE "end"
      [] t.at = "header" -> "boundary"
      [] t.at = "end" -> "done"

\* The parser's way through a request is the stream's, not its chunks': each thing is
\* read from exactly where the last one ended, two bytes decide between header and end,
\* and the buffer is what of the stream was not taken, until process() clears it.
Parsed ==
    /\ \A k \in 1 .. Len(taken) :
          LET t == taken[k]
          IN  /\ t.from = IF k = 1 THEN 0 ELSE taken[k-1].to
              /\ t.at = IF k = 1 THEN "boundary" ELSE Follower(stream, taken[k-1])
              /\ t.at = "pair" => t.to = t.from + 2
    /\ at = IF taken = << >> THEN "boundary" ELSE Follower(stream, taken[Len(taken)])
    /\ at # "done" =>
          LET start == IF taken = << >> THEN 0 ELSE taken[Len(taken)].to
          IN  Len(stream) = start + Len(buf) /\ \A i \in 1 .. Len(buf) : buf[i] = stream[start + i]

\* A delimiter in the buffer is reported, without waiting for more input.
Reported ==
    (at \in Searching /\ \E p \in 0 .. Len(buf) : OccursAt(buf, DelimOf[at], p))
        ~> phase = "found"
=============================================================================
