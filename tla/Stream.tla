------------------------------- MODULE Stream -------------------------------
(***************************************************************************)
(* The Stream class of coffee/core/socket.coffee with the Socket functions *)
(* under it: connecting, readUntil, writeBuffer, writeUntil, and writeUtf8 *)
(* with its temporary buffers, over the BufferPool of core/buffer.coffee.  *)
(*                                                                         *)
(* A stream has one buffer for both directions, and its descriptor has one *)
(* callback: to ask for one thing is to give up what was asked for before. *)
(* Nothing warns a script that turns the direction too early, or writes    *)
(* again before the last write was confirmed; the log of a connection says *)
(* that one did, and the properties what holds as long as none does.  Once *)
(* data of both directions is mixed a script is only followed in what it   *)
(* has under way.                                                          *)
(*                                                                         *)
(* A callback makes any calls on the streams it knows: that of its event   *)
(* and those it opened.  Connections are numbered as they are opened and   *)
(* stand for their descriptors; modules Service and HttpServer have the    *)
(* reuse of descriptor numbers.                                            *)
(***************************************************************************)
EXTENDS Integers, Sequences

CONSTANTS
    MaxFiles,   \* bound: connections
    MaxBuffers, \* bound: buffers made
    TextSize,   \* pieces a text can be cut into
    MaxTexts,   \* bound: texts written to each stream
    MaxInput,   \* bound: pieces each peer sends
    Needs,      \* the pieces a read of each connection waits for
    Careless    \* connections whose scripts do not wait for their writes and reads

Files == 1 .. MaxFiles
Buffers == 1 .. MaxBuffers

ASSUME StreamAssumption ==
    /\ MaxFiles \in Nat /\ MaxBuffers \in Nat /\ TextSize \in Nat \ {0}
    /\ MaxTexts \in [Files -> Nat] /\ MaxInput \in [Files -> Nat]
    /\ Needs \in [Files -> Nat \ {0}]
    /\ Careless \subseteq Files

VARIABLES
    opened,     \* connections opened so far
    open,       \* those that are open
    peer,       \* the other ends: pieces sent, pieces the runtime has read, gone
    watch,      \* service.fds: the callback of a descriptor
    buf,        \* the buffer of a stream, 0 if there is no stream
    content,    \* what each buffer holds
    pool,       \* the free buffers
    made,       \* buffers made
    mode,       \* "waiting", "callback", "killed"
    mine,       \* streams the running script knows
    ready,      \* those of them whose read has called back
    log         \* history: what happened to each open connection

vars == <<opened, open, peer, watch, buf, content, pool, made, mode, mine, ready, log>>
script == <<mode, mine, ready>>
buffers == <<buf, content, pool, made>>

Input(f, i) == [by |-> "peer", file |-> f, n |-> i]
Own(f, i) == [by |-> "script", file |-> f, n |-> i]
Pieces == [by : {"peer", "script"}, file : Files, n : Nat]

NoWatch == [op |-> "none", buf |-> 0, n |-> 0]
NoPeer == [sent |-> 0, read |-> 0, gone |-> "no"]
NoLog == [written |-> 0,        \* pieces of text the script wrote
          sent |-> << >>,       \* what the kernel took
          taken |-> << >>,      \* what the script took as input
          told |-> << >>,       \* texts whose callback was called
          dropped |-> {},       \* texts whose callback was replaced
          mixed |-> FALSE,      \* turned while the buffer held the other direction's data
          overtaken |-> FALSE]  \* written to while a text waited in another buffer

Elements(s) == {s[i] : i \in DOMAIN s}
Rest(s, n) == SubSeq(s, n + 1, Len(s))
Has(s, by) == \E p \in Elements(s) : p.by = by
Holds(b, by) == Has(content[b], by)
Reset(f) == peer[f].gone = "reset"
WatchingBoth(f, op, b, n) ==                                  \* mutant
    watch' = IF watch[f].op = "read" /\ op = "write" THEN watch
             ELSE [watch EXCEPT ![f] = [op |-> op, buf |-> b, n |-> n]]

\* in_or_out: one callback, for one event
Watching(f, op, b, n) == watch' = [watch EXCEPT ![f] = [op |-> op, buf |-> b, n |-> n]]

-----------------------------------------------------------------------------
(* $bufferPool. *)

\* what push makes of the pool; a buffer that is too big or too many is freed
Pushed(free, b) == IF b \in Elements(free) THEN {free} ELSE {free, Append(free, b)}

Popped == IF pool = << >> THEN made + 1 ELSE pool[Len(pool)]
PoolLeft == IF pool = << >> THEN pool ELSE SubSeq(pool, 1, Len(pool) - 1)
Pop == /\ Popped \in Buffers
       /\ made' = IF pool = << >> THEN made + 1 ELSE made

-----------------------------------------------------------------------------
(* Peers and new connections. *)

PeerSends(f) ==
    /\ mode = "waiting" /\ f \in open
    /\ peer[f].gone = "no" /\ peer[f].sent < MaxInput[f]
    /\ peer' = [peer EXCEPT ![f].sent = @ + 1]
    /\ UNCHANGED <<opened, open, watch, buffers, script, log>>

PeerLeaves(f) ==
    /\ mode = "waiting" /\ f \in open
    /\ \/ peer[f].gone = "no" /\ peer' = [peer EXCEPT ![f].gone = "eof"]
       \/ ~Reset(f) /\ peer' = [peer EXCEPT ![f].gone = "reset", ![f].sent = peer[f].read]
    /\ UNCHANGED <<opened, open, watch, buffers, script, log>>

\* new Stream
Create(f) ==
    /\ Pop /\ pool' = PoolLeft
    /\ buf' = [buf EXCEPT ![f] = Popped]
    /\ content' = [content EXCEPT ![Popped] = << >>]
    /\ mode' = "callback" /\ mine' = {f} /\ ready' = {}

\* acceptTcp's callback makes a stream of the connection
Accept ==
    /\ mode = "waiting" /\ opened < MaxFiles
    /\ opened' = opened + 1 /\ open' = open \cup {opened + 1}
    /\ Create(opened + 1)
    /\ UNCHANGED <<peer, watch, log>>

\* a script makes a socket, sets its error callback and connects; that connect() may
\* fail at once is not looked at, the loop reports it
Connect ==
    /\ mode = "callback" /\ opened < MaxFiles
    /\ opened' = opened + 1 /\ open' = open \cup {opened + 1}
    /\ Watching(opened + 1, "connect", 0, 0)
    /\ UNCHANGED <<peer, buffers, script, log>>

\* it is connected: the callback makes a stream, another one each time it is called
Connected(f) ==
    /\ mode = "waiting" /\ f \in open /\ watch[f].op = "connect"
    /\ Create(f)
    /\ UNCHANGED <<opened, open, peer, watch, log>>

-----------------------------------------------------------------------------
(* Closing and errors. *)

ClosingPushing(f, free, contents) ==                          \* mutant
    /\ pool' \in Pushed(free, buf[f])
    /\ content' = IF buf[f] = 0 THEN contents ELSE [contents EXCEPT ![buf[f]] = << >>]
    /\ open' = open \ {f}
    /\ buf' = [buf EXCEPT ![f] = 0]
    /\ watch' = [watch EXCEPT ![f] = NoWatch]
    /\ peer' = [peer EXCEPT ![f] = NoPeer]
    /\ log' = [log EXCEPT ![f] = NoLog]

\* Stream.close: push the buffer, $del, ::close; before there is a stream, Socket.close.
\* The buffer is cleared when it is popped again, here already now; nothing else is
\* kept of a closed connection.
Closing(f, free, contents) ==
    /\ pool' \in IF buf[f] = 0 THEN {free} ELSE Pushed(free, buf[f])
    /\ content' = IF buf[f] = 0 THEN contents ELSE [contents EXCEPT ![buf[f]] = << >>]
    /\ open' = open \ {f}
    /\ buf' = [buf EXCEPT ![f] = 0]
    /\ watch' = [watch EXCEPT ![f] = NoWatch]
    /\ peer' = [peer EXCEPT ![f] = NoPeer]
    /\ log' = [log EXCEPT ![f] = NoLog]

\* the error callback, called by the loop
ErrorEvent(f) ==
    /\ mode = "waiting" /\ f \in open
    /\ watch[f] # NoWatch /\ Reset(f)
    /\ Closing(f, pool, content)
    /\ UNCHANGED <<opened, made, script>>

Known(f) == mode = "callback" /\ f \in mine \cap open

Close(f) ==
    /\ Known(f)
    /\ Closing(f, pool, content)
    /\ UNCHANGED <<opened, made, script>>

-----------------------------------------------------------------------------
(* Reading. *)

\* what is asked for replaces a pending write's callback
Dropped(f) == log[f].dropped \cup IF watch[f].op = "write" THEN {watch[f].n} ELSE {}

Reading(f) == /\ Known(f) /\ ~log[f].mixed
              /\ f \in Careless \/ (~Holds(buf[f], "script") /\ watch[f].op # "write")

\* readUntil: $in, then the condition, `n pieces are there'
ReadUntil(f, n) ==
    /\ Reading(f)
    /\ Watching(f, "read", buf[f], n)
    /\ ready' = IF Len(content[buf[f]]) >= n THEN ready \cup {f} ELSE ready
    /\ log' = [log EXCEPT ![f].mixed = @ \/ Holds(buf[f], "script"), ![f].dropped = Dropped(f)]
    /\ UNCHANGED <<opened, open, peer, buffers, mode, mine>>

\* readSize calls back without $in if there is enough
ReadSize(f, n) ==
    /\ Reading(f)
    /\ \/ Len(content[buf[f]]) < n /\ ReadUntil(f, n)
       \/ /\ Len(content[buf[f]]) >= n
          /\ ready' = ready \cup {f}
          /\ log' = [log EXCEPT ![f].mixed = @ \/ Holds(buf[f], "script")]
          /\ UNCHANGED <<opened, open, peer, watch, buffers, mode, mine>>

\* readUtf8, consume or clear, in a read's callback
Take(f) ==
    /\ Known(f) /\ f \in ready /\ ~log[f].mixed
    /\ \E n \in 1 .. Len(content[buf[f]]) :
          /\ log' = [log EXCEPT ![f].taken = @ \o SubSeq(content[buf[f]], 1, n)]
          /\ content' = [content EXCEPT ![buf[f]] = Rest(@, n)]
    /\ UNCHANGED <<opened, open, peer, watch, buf, pool, made, script>>

\* the input callback: recv into the buffer, then the condition; or -1, $triggerError
InputEvent(f) ==
    /\ mode = "waiting" /\ f \in open /\ watch[f].op = "read"
    /\ \/ /\ \E n \in 1 .. peer[f].sent - peer[f].read :
                LET b == watch[f].buf
                    new == content[b] \o [i \in 1 .. n |-> Input(f, peer[f].read + i)]
                IN  /\ peer' = [peer EXCEPT ![f].read = @ + n]
                    /\ content' = [content EXCEPT ![b] = new]
                    /\ IF Len(new) >= watch[f].n
                       THEN mode' = "callback" /\ mine' = {f} /\ ready' = {f}
                       ELSE UNCHANGED script
          /\ UNCHANGED <<open, watch, buf, pool, log>>
       \/ /\ peer[f].sent = peer[f].read /\ peer[f].gone # "no"
          /\ Closing(f, pool, content)
          /\ UNCHANGED script
    /\ UNCHANGED <<opened, made>>

-----------------------------------------------------------------------------
(* Writing. *)

\* a temporary buffer goes back to the pool, a stream's stays where it is
PushAny(f, b, free) == Pushed(free, b)                        \* mutant

PushTemporary(f, b, free) == IF b = buf[f] THEN {free} ELSE Pushed(free, b)

\* -1: the temporary buffer is pushed, then $triggerError; or SIGPIPE
SendFails(f, b, text, free) ==
    /\ Reset(f) /\ text # << >>
    /\ \/ /\ \E left \in PushTemporary(f, b, free) : Closing(f, left, content)
          /\ UNCHANGED mode
       \/ mode' = "killed" /\ pool' = free /\ UNCHANGED <<open, peer, watch, buf, content, log>>
    /\ UNCHANGED mine

SendingUnconsumed(f, b, text, n, r) ==                        \* mutant
    /\ content' = [content EXCEPT ![b] = IF n = Len(text) THEN << >> ELSE text]
    /\ log' = [log EXCEPT ![f] = [r EXCEPT !.sent = @ \o SubSeq(text, 1, n)]]

SendingOnce(f, b, text, n, r) ==                              \* mutant
    /\ content' = [content EXCEPT ![b] = << >>]
    /\ log' = [log EXCEPT ![f] = [r EXCEPT !.sent = @ \o SubSeq(text, 1, n)]]

\* the kernel takes the first n pieces; r is the log so far
Sending(f, b, text, n, r) ==
    /\ content' = [content EXCEPT ![b] = Rest(text, n)]
    /\ log' = [log EXCEPT ![f] = [r EXCEPT !.sent = @ \o SubSeq(text, 1, n)]]

\* writeBuffer: send; call back if nothing is left, else go on when there is room
WriteBuffer(f, b, text, k, free, least, r) ==
    /\ \/ SendFails(f, b, text, free)
       \/ /\ ~Reset(f) \/ text = << >>
          /\ Sending(f, b, text, Len(text), [r EXCEPT !.told = Append(@, k)])
          /\ Watching(f, "empty", 0, 0)
          /\ pool' \in PushTemporary(f, b, free)
          /\ mode' = "callback" /\ mine' = mine \cup {f}
          /\ UNCHANGED <<open, peer, buf>>
       \/ /\ ~Reset(f)
          /\ \E n \in least .. Len(text) - 1 : Sending(f, b, text, n, r)
          /\ Watching(f, "write", b, k)
          /\ pool' = free
          /\ UNCHANGED <<open, peer, buf, mode, mine>>
    /\ ready' = ready \ {f}

\* the next text, and the log with it if it goes behind what waits before it
Text(f) == [i \in 1 .. TextSize |-> Own(f, log[f].written + i)]
Number(f) == log[f].written \div TextSize + 1
Unsent(f) == {Own(f, i) : i \in 1 .. log[f].written} \ Elements(log[f].sent)
Written(f, before) ==
    [log[f] EXCEPT !.written = @ + TextSize,
                   !.dropped = Dropped(f),
                   !.mixed = @ \/ Has(before, "peer"),
                   !.overtaken = @ \/ ~(Unsent(f) \subseteq Elements(before))]

Writing(f) ==
    /\ Known(f) /\ ~log[f].mixed
    /\ log[f].written < MaxTexts[f] * TextSize
    /\ f \in Careless \/ (~Holds(buf[f], "peer") /\ watch[f].op # "write")

\* Stream.writeUtf8, writeInt32, writeBuffer: append to the buffer, startWriting
StreamWrite(f) ==
    /\ Writing(f)
    /\ WriteBuffer(f, buf[f], content[buf[f]] \o Text(f), Number(f), pool, 0,
                   Written(f, content[buf[f]]))
    /\ UNCHANGED <<opened, made>>

\* Socket.writeUtf8: a buffer from the pool, until the text is out
SocketWriteUtf8(f) ==
    /\ Writing(f)
    /\ Pop
    /\ WriteBuffer(f, Popped, Text(f), Number(f), PoolLeft, 0, Written(f, << >>))
    /\ UNCHANGED opened

\* writeUntil, with the text that is to go; again in its callback, that adds text
WriteUntil(f) ==
    /\ Writing(f)
    /\ content' = [content EXCEPT ![buf[f]] = @ \o Text(f)]
    /\ log' = [log EXCEPT ![f] = Written(f, content[buf[f]])]
    /\ Watching(f, "until", buf[f], 0)
    /\ ready' = ready \ {f}
    /\ UNCHANGED <<opened, open, peer, buf, pool, made, mode, mine>>

\* writeUntilOnce, with the condition that all is out: its callback is called, as long
\* as it stays registered, whenever the condition holds
WriteUntilOnce(f, b) ==
    /\ \/ SendFails(f, b, content[b], pool)
       \/ /\ ~Reset(f) \/ content[b] = << >>
          /\ Sending(f, b, content[b], Len(content[b]), log[f])
          /\ mode' = "callback" /\ mine' = {f}
          /\ UNCHANGED <<open, peer, watch, buf, pool>>
       \/ /\ ~Reset(f)
          /\ \E n \in 1 .. Len(content[b]) - 1 : Sending(f, b, content[b], n, log[f])
          /\ UNCHANGED <<open, peer, watch, buf, pool, mode, mine>>
    /\ UNCHANGED ready

OutputEventUntil(f) ==                                        \* mutant
    /\ mode = "waiting" /\ f \in open
    /\ watch[f].op = "until" /\ WriteUntilOnce(f, watch[f].buf)
    /\ UNCHANGED <<opened, made>>

\* the output callback; the empty one does nothing
OutputEvent(f) ==
    /\ mode = "waiting" /\ f \in open
    /\ LET w == watch[f]
       IN  \/ w.op = "write" /\ WriteBuffer(f, w.buf, content[w.buf], w.n, pool, 1, log[f])
           \/ w.op = "until" /\ WriteUntilOnce(f, w.buf)
    /\ UNCHANGED <<opened, made>>

-----------------------------------------------------------------------------
Return ==
    /\ mode = "callback"
    /\ mode' = "waiting" /\ mine' = {} /\ ready' = {}
    /\ UNCHANGED <<opened, open, peer, watch, buffers, log>>

\* SIGPIPE, or nothing is registered any more
Over ==
    /\ mode = "killed" \/ (mode = "waiting" /\ opened = MaxFiles /\ open = {})
    /\ UNCHANGED vars

Init ==
    /\ opened = 0 /\ open = {} /\ made = 0 /\ pool = << >>
    /\ peer = [f \in Files |-> NoPeer] /\ watch = [f \in Files |-> NoWatch]
    /\ buf = [f \in Files |-> 0] /\ content = [b \in Buffers |-> << >>]
    /\ mode = "callback" /\ mine = {} /\ ready = {}
    /\ log = [f \in Files |-> NoLog]

Script(f) ==
    \/ ReadUntil(f, Needs[f]) \/ ReadSize(f, Needs[f])
    \/ Take(f) \/ StreamWrite(f) \/ SocketWriteUtf8(f) \/ WriteUntil(f) \/ Close(f)

Next ==
    \/ Accept \/ Connect \/ Return \/ Over
    \/ \E f \in Files : \/ PeerSends(f) \/ PeerLeaves(f)
                        \/ Connected(f) \/ InputEvent(f) \/ OutputEvent(f) \/ ErrorEvent(f)
                        \/ Script(f)

Spec == Init /\ [][Next]_vars

\* the thread runs, and a peer that reads makes room again and again
FairSpec == Spec /\ WF_vars(Return) /\ \A f \in Files : SF_vars(OutputEvent(f))

-----------------------------------------------------------------------------
(* Properties. *)

Watches == [op : {"none", "connect", "read", "empty", "write", "until"},
            buf : 0 .. MaxBuffers, n : Nat]
Logs == [written : Nat, sent : Seq(Pieces), taken : Seq(Pieces), told : Seq(Nat),
         dropped : SUBSET Nat, mixed : BOOLEAN, overtaken : BOOLEAN]

TypeOK ==
    /\ opened \in 0 .. MaxFiles /\ open \subseteq 1 .. opened
    /\ peer \in [Files -> [sent : Nat, read : Nat, gone : {"no", "eof", "reset"}]]
    /\ watch \in [Files -> Watches]
    /\ buf \in [Files -> 0 .. MaxBuffers]
    /\ content \in [Buffers -> Seq(Pieces)]
    /\ pool \in Seq(Buffers) /\ made \in 0 .. MaxBuffers
    /\ mode \in {"waiting", "callback", "killed"}
    /\ mine \subseteq Files /\ ready \subseteq mine
    /\ log \in [Files -> Logs]

\* Though both directions share a buffer, a peer is sent nothing but texts written to
\* its own stream, and a script takes exactly the input of the stream's own peer, in
\* order and without a gap: until the script turns the stream while the buffer still
\* holds data of the other direction.
DirectionsApart == \A f \in open : ~log[f].mixed =>
    /\ \A p \in Elements(log[f].sent) : p.by = "script" /\ p.file = f
    /\ \A i \in DOMAIN log[f].taken : log[f].taken[i] = Input(f, i)

\* Texts go out whole and in the order they were written, whichever function wrote them
\* and however the kernel cuts them, and what is not sent yet is what the output
\* callback holds: unless a write overtakes text that waits in another buffer, or
\* (for what is not sent) a call replaced the callback of a pending write.
Waiting(f) == IF watch[f].op \in {"write", "until"} THEN content[watch[f].buf] ELSE << >>
InOrder == \A f \in open : ~log[f].mixed /\ ~log[f].overtaken =>
    /\ \A i \in DOMAIN log[f].sent : log[f].sent[i] = Own(f, i)
    /\ log[f].dropped = {} /\ mode # "killed" =>
          log[f].sent \o Waiting(f) = [i \in 1 .. log[f].written |-> Own(f, i)]

\* The callback of a write is called at most once, and only when the kernel has all of
\* its text.
Told == \A f \in open : ~log[f].mixed =>
    LET told == log[f].told
    IN  /\ \A i, j \in DOMAIN told : i < j => told[i] < told[j]
        /\ \A k \in Elements(told) :
              {Own(f, i) : i \in (k - 1) * TextSize + 1 .. k * TextSize} \subseteq Elements(log[f].sent)

\* A buffer has one owner: the stream it was popped for, the pending write it is
\* temporary for, or the pool, which has it once.
Owned(f) == {buf[f], watch[f].buf} \ {0}
Exclusive ==
    /\ \A f \in open : Owned(f) \cap Elements(pool) = {}
    /\ \A f, g \in open : f # g => Owned(f) \cap Owned(g) = {}
    /\ \A i, j \in DOMAIN pool : pool[i] = pool[j] => i = j

\* A pending write comes to its end: its callback is called, unless the script asks
\* for something else first, or the connection ends.
Pending(f, k) == mode # "killed" /\ watch[f].op = "write" /\ watch[f].n = k
Settled(f, k) == mode = "killed" \/ f \notin open \/ k \in Elements(log[f].told) \cup log[f].dropped
WritesEnd == \A f \in Files : \A k \in 1 .. MaxTexts[f] : Pending(f, k) ~> Settled(f, k)
=============================================================================
