----------------------------- MODULE HttpServer -----------------------------
(***************************************************************************)
(* The server of coffee/net/http.coffee over readUntil, readSize and       *)
(* writeBuffer of coffee/core/socket.coffee and the BufferPool of          *)
(* coffee/core/buffer.coffee.                                              *)
(*                                                                         *)
(* One buffer per client takes the request in and the answer out; service  *)
(* holds one callback per descriptor, so asking to write replaces the      *)
(* waiting read and a read callback that has fired stays until replaced.   *)
(* The thread runs a callback to its end before the next event: `todo' is  *)
(* what it has still to call, and only an empty one lets the loop go on.   *)
(* Connections are numbered as they are accepted, and a Client has the     *)
(* number of its connection.  What bytes say is reduced to pieces: a       *)
(* request is a head, its end, perhaps a body.  How multipart bodies are   *)
(* parsed is in ReadToken, and their boundary's buffer in no module.       *)
(*                                                                         *)
(* The loop's batches are single events here, but for what module Service  *)
(* shows they add: an answer made in another descriptor's callback finds   *)
(* an event of its connection behind it in the batch, which is delivered   *)
(* to whatever callback there is then.                                     *)
(***************************************************************************)
EXTENDS Integers, Sequences

CONSTANTS
    Fds,            \* descriptor numbers
    MaxFiles,       \* bound: connections accepted
    MaxRequests,    \* bound: requests of one connection
    Window,         \* pieces the kernel holds for a slow peer
    PoolLimit,      \* limit of the pool (100)
    Handlers,       \* what the application does with a request
    Shapes,         \* requests peers make: [body, keep], body one of Bodies
    Pipelining      \* whether a peer asks again before it is answered

\* what recvHeader and recvBody find: no Content-Length; one with a Content-Type, with
\* none, and with a multipart type that names no boundary
Bodies == {"none", "sized", "untyped", "unbounded"}
ShapeSet == [body : Bodies, keep : BOOLEAN]

ASSUME HttpAssumption ==
    /\ MaxFiles \in Nat /\ MaxRequests \in Nat /\ PoolLimit \in Nat
    /\ Window \in Nat \ {0}
    /\ Handlers \subseteq {"end", "flush", "later"}
    /\ Shapes \subseteq ShapeSet
    /\ Pipelining \in BOOLEAN

VARIABLES
    \* the kernel and the peers
    listening,  \* the listening socket is open
    opened,     \* connections accepted so far
    file,       \* the connection of a descriptor, 0 if it is closed
    wire,       \* pieces a peer sent and the server has not read
    out,        \* pieces the server sent and the peer has not read
    got,        \* pieces a peer read
    gone,       \* "no"; "eof": it sends no more; "reset"
    asking,     \* the rest of the request a peer is sending
    asked,      \* requests it began, and whether it asked to keep the connection
    \* the runtime and the server
    watch,      \* service.fds: the callback of a descriptor
    onError,    \* service.fds_error: the client to close, 0 if none
    client,     \* the Client objects
    content,    \* what each buffer holds
    pool,       \* the free buffers
    freed,      \* the buffers the pool closed
    behind,     \* descriptors with an event that waits in the batch behind a late answer
    \* the thread and the application
    todo,       \* calls the thread has still to make
    mode,       \* "running", or how the process ended
    pending,    \* how often the application will answer a request later
    misused     \* history: the application used a client that was closed

peers == <<listening, opened, wire, got, gone, asking, asked>>
vars == <<listening, opened, file, wire, out, got, gone, asking, asked, watch, onError,
          client, content, pool, freed, behind, todo, mode, pending, misused>>

Files == 1 .. MaxFiles
NoWatch == [op |-> "none", who |-> 0, last |-> 0]
NoClient == [fd |-> 0, buf |-> 0, keep |-> FALSE, body |-> "none", req |-> 0]
NoShape == [body |-> "none", keep |-> FALSE]
Answers == {"more", "answer"}

Pieces == [part : {"head", "end", "body"} \cup Answers, file : Files,
           req : 1 .. MaxRequests, shape : ShapeSet]
RequestOf(f, r, s) ==
    LET Piece(p) == [part |-> p, file |-> f, req |-> r, shape |-> s]
    IN  <<Piece("head"), Piece("end")>> \o (IF s.body = "none" THEN << >> ELSE <<Piece("body")>>)

Call(name, c, r) == [call |-> name, who |-> c, req |-> r]
Calls == [call : {"header", "process", "more", "answer", "flush", "end", "start", "close", "error"},
          who : Files, req : 0 .. MaxRequests]

Rest(s, n) == SubSeq(s, n + 1, Len(s))
Elements(s) == {s[i] : i \in DOMAIN s}
Least(a, b) == IF a < b THEN a ELSE b

\* the client's descriptor is still its own
Alive(c) == client[c] # NoClient /\ file[client[c].fd] = c

-----------------------------------------------------------------------------
(* Peers. *)

Answered(f) == \E i \in DOMAIN got[f] : got[f][i].part = "answer" /\ got[f][i].req = asked[f].n

\* What arrives while a script runs is read no earlier than what arrives after it.
Ask(f) ==
    /\ todo = << >> /\ asking[f] = << >> /\ asked[f].n < MaxRequests
    /\ Pipelining \/ asked[f].n = 0 \/ (asked[f].keep /\ Answered(f))
    /\ \E s \in Shapes :
          /\ asking' = [asking EXCEPT ![f] = RequestOf(f, asked[f].n + 1, s)]
          /\ asked' = [asked EXCEPT ![f] = [n |-> asked[f].n + 1, keep |-> s.keep]]
    /\ UNCHANGED <<wire, out, got, gone>>

Send(f) ==
    /\ todo = << >> /\ asking[f] # << >>
    /\ wire' = [wire EXCEPT ![f] = Append(@, Head(asking[f]))]
    /\ asking' = [asking EXCEPT ![f] = Tail(@)]
    /\ UNCHANGED <<out, got, gone, asked>>

Leave(f) ==
    /\ \/ gone[f] = "no" /\ gone' = [gone EXCEPT ![f] = "eof"] /\ UNCHANGED <<wire, out>>
       \/ /\ gone[f] # "reset" /\ gone' = [gone EXCEPT ![f] = "reset"]
          /\ wire' = [wire EXCEPT ![f] = << >>] /\ out' = [out EXCEPT ![f] = << >>]
    /\ UNCHANGED <<got, asking, asked>>

PeerReads(f) ==
    /\ out[f] # << >>
    /\ got' = [got EXCEPT ![f] = Append(@, Head(out[f]))]
    /\ out' = [out EXCEPT ![f] = Tail(@)]
    /\ UNCHANGED <<listening, opened, file, wire, gone, asking, asked, watch, onError,
                   client, content, pool, freed, behind, todo, mode, pending, misused>>

PeerActs ==
    /\ \E fd \in Fds : file[fd] # 0 /\ \/ gone[file[fd]] = "no" /\ (Ask(file[fd]) \/ Send(file[fd]))
                                       \/ Leave(file[fd])
    /\ UNCHANGED <<listening, opened, file, watch, onError, client, content, pool, freed, behind,
                   todo, mode, pending, misused>>

-----------------------------------------------------------------------------
(* Events of the loop. *)

Idle == todo = << >> /\ mode = "running"

\* new Client: $error, and $bufferPool.pop, which takes the buffer pushed last
SetErrorForgotten(fd, c) == UNCHANGED onError                 \* mutant

SetError(fd, c) == onError' = [onError EXCEPT ![fd] = c]

PoppedStays(s) == s                                           \* mutant

Popped(s) == IF s = << >> THEN s ELSE SubSeq(s, 1, Len(s) - 1)

\* the accept callback, new Client and its start(): a fresh search on an empty buffer
Accept(fd) ==
    /\ Idle /\ listening /\ opened < MaxFiles /\ file[fd] = 0
    /\ LET c == opened + 1
           b == IF pool = << >> THEN c ELSE pool[Len(pool)]
       IN  /\ opened' = c
           /\ file' = [file EXCEPT ![fd] = c]
           /\ SetError(fd, c)
           /\ watch' = [watch EXCEPT ![fd] = [op |-> "header", who |-> c, last |-> 0]]
           /\ client' = [client EXCEPT ![c] = [fd |-> fd, buf |-> b, keep |-> FALSE,
                                               body |-> "none", req |-> 0]]
           /\ content' = [content EXCEPT ![b] = << >>]
           /\ pool' = Popped(pool)
    /\ UNCHANGED <<listening, wire, out, got, gone, asking, asked, freed, behind, todo, mode,
                   pending, misused>>

\* accept returned -1: autoCloseOnError closes the listening socket for good
AcceptFails ==
    /\ Idle /\ listening
    /\ listening' = FALSE
    /\ UNCHANGED <<opened, file, wire, out, got, gone, asking, asked, watch, onError,
                   client, content, pool, freed, behind, todo, mode, pending, misused>>

SearchOrMinusOne(b, last) ==                                  \* mutant
    IF \E i \in last + 1 .. Len(b) : b[i].part = "end"
    THEN CHOOSE p \in last .. Len(b) - 1 :
            b[p + 1].part = "end" /\ \A i \in last + 1 .. p : b[i].part # "end"
    ELSE -1

\* partialFindBuffer for the header's delimiter, resumed at `last'
Search(b, last) ==
    IF \E i \in last + 1 .. Len(b) : b[i].part = "end"
    THEN CHOOSE p \in last .. Len(b) - 1 :
            b[p + 1].part = "end" /\ \A i \in last + 1 .. p : b[i].part # "end"
    ELSE Len(b)

\* an event that waited behind a late answer meets another callback, or another
\* connection that got the number
Delivered(fd) == behind' = behind \ {fd}

\* the input callback of readUntil: recv, then the condition; -1 also if there is nothing
Input(fd) ==
    /\ Idle /\ file[fd] # 0 /\ watch[fd].op \in {"header", "body"}
    /\ LET f == file[fd]
           c == watch[fd].who
           b == client[c].buf
       IN  \/ \E n \in 1 .. Len(wire[f]) :
                 LET new == content[b] \o SubSeq(wire[f], 1, n)
                     last == IF watch[fd].op = "header" THEN Search(new, watch[fd].last) ELSE 0
                 IN  /\ wire' = [wire EXCEPT ![f] = Rest(@, n)]
                     /\ content' = [content EXCEPT ![b] = new]
                     /\ watch' = [watch EXCEPT ![fd].last = last]
                     /\ todo' = IF last = Len(new) THEN << >>
                                ELSE IF watch[fd].op = "header" THEN <<Call("header", c, 0)>>
                                ELSE <<Call("process", c, 0)>>
           \/ /\ wire[f] = << >> /\ (gone[f] # "no" \/ fd \in behind)
              /\ todo' = <<Call("error", c, 0)>>
              /\ UNCHANGED <<wire, content, watch>>
    /\ Delivered(fd)
    /\ UNCHANGED <<listening, opened, file, out, got, gone, asking, asked, onError, client,
                   pool, freed, mode, pending, misused>>

\* the output callback goes on with writeBuffer; that of a finished one does nothing
Output(fd) ==
    /\ Idle /\ file[fd] # 0 /\ watch[fd].op \in {"flush", "end"}
    /\ Len(out[file[fd]]) < Window \/ fd \in behind
    /\ todo' = <<Call(watch[fd].op, watch[fd].who, 0)>>
    /\ Delivered(fd)
    /\ UNCHANGED <<peers, file, out, watch, onError, client, content, pool, freed, mode,
                   pending, misused>>

\* EPOLLERR or EPOLLHUP: the error callback, which is client.error()
ErrorEvent(fd) ==
    /\ Idle /\ file[fd] # 0 /\ watch[fd] # NoWatch
    /\ gone[file[fd]] = "reset" \/ fd \in behind
    /\ Delivered(fd)
    /\ \/ onError[fd] # 0 /\ todo' = <<Call("close", onError[fd], 0)>> /\ UNCHANGED mode
       \/ onError[fd] = 0 /\ mode' = "crashed" /\ UNCHANGED todo
    /\ UNCHANGED <<peers, file, out, watch, onError, client, content, pool, freed,
                   pending, misused>>

\* the answer left nothing to do, or closed the connection: undefined is called
LateEvent(fd) ==
    /\ Idle /\ fd \in behind
    /\ \/ watch[fd].op = "empty" /\ Delivered(fd) /\ UNCHANGED mode
       \/ watch[fd] = NoWatch /\ mode' = "crashed" /\ UNCHANGED behind
    /\ UNCHANGED <<peers, file, out, watch, onError, client, content, pool, freed, todo,
                   pending, misused>>

\* nothing is registered any more: run() returns
LoopEnds ==
    /\ Idle /\ behind = {} /\ ~listening /\ \A fd \in Fds : watch[fd] = NoWatch
    /\ mode' = "returned"
    /\ UNCHANGED <<peers, file, out, watch, onError, client, content, pool, freed, behind, todo,
                   pending, misused>>

\* epoll has an event for the descriptor's callback
Ready(fd) ==
    /\ file[fd] # 0 /\ watch[fd] # NoWatch
    /\ \/ gone[file[fd]] = "reset"
       \/ watch[fd].op \in {"header", "body"} /\ (wire[file[fd]] # << >> \/ gone[file[fd]] # "no")
       \/ watch[fd].op \in {"empty", "flush", "end"} /\ Len(out[file[fd]]) < Window

\* something else the application waited for is there: it answers, perhaps with an event
\* of the same connection behind it
Later ==
    /\ Idle
    /\ \E c \in Files, r \in 1 .. MaxRequests :
          /\ pending[c][r] > 0
          /\ pending' = [pending EXCEPT ![c][r] = @ - 1]
          /\ todo' = <<Call("answer", c, r), Call("end", c, r)>>
          /\ \/ UNCHANGED behind
             \/ Alive(c) /\ Ready(client[c].fd) /\ behind' = behind \cup {client[c].fd}
    /\ UNCHANGED <<peers, file, out, watch, onError, client, content, pool, freed, mode, misused>>

-----------------------------------------------------------------------------
(* What a callback goes on to do. *)

Doing(name) == mode = "running" /\ todo # << >> /\ Head(todo).call = name

\* a call the application makes: is the client it holds still open?
Judge(c) == misused' = (misused \/ ~Alive(c))

\* the callback of readToken: the header is consumed and parsed, recvBody or process;
\* without a Content-Type, match is called of undefined and leaves run()
Header ==
    /\ Doing("header")
    /\ LET c == Head(todo).who
           fd == client[c].fd
           b == client[c].buf
           n == watch[fd].last + 1
           e == content[b][n]
       IN  /\ content' = [content EXCEPT ![b] = Rest(@, n)]
           /\ client' = [client EXCEPT ![c].keep = e.shape.keep, ![c].body = e.shape.body,
                                       ![c].req = e.req]
           /\ \/ /\ e.shape.body = "sized" /\ Len(content[b]) = n
                 /\ watch' = [watch EXCEPT ![fd] = [op |-> "body", who |-> c, last |-> 0]]
                 /\ todo' = Tail(todo)
                 /\ UNCHANGED mode
              \/ /\ e.shape.body = "none" \/ (e.shape.body = "sized" /\ Len(content[b]) # n)
                 /\ todo' = <<Call("process", c, 0)>> \o Tail(todo)
                 /\ UNCHANGED <<watch, mode>>
              \/ /\ e.shape.body = "unbounded"
                 /\ todo' = <<Call("close", c, 0)>> \o Tail(todo)
                 /\ UNCHANGED <<watch, mode>>
              \/ /\ e.shape.body = "untyped"
                 /\ mode' = "thrown"
                 /\ UNCHANGED <<watch, todo>>
    /\ UNCHANGED <<peers, file, out, onError, pool, freed, behind, pending, misused>>

\* process(): what is left in the buffer goes, the application gets the request
Unclearing(b) == UNCHANGED content                            \* mutant

Clearing(b) == content' = [content EXCEPT ![b] = << >>]

Process ==
    /\ Doing("process")
    /\ LET c == Head(todo).who
           r == client[c].req
       IN  /\ Clearing(client[c].buf)
           /\ \/ /\ "end" \in Handlers
                 /\ todo' = <<Call("answer", c, r), Call("end", c, r)>> \o Tail(todo)
                 /\ UNCHANGED pending
              \/ /\ "flush" \in Handlers
                 /\ todo' = <<Call("more", c, r), Call("flush", c, r),
                              Call("answer", c, r), Call("end", c, r)>> \o Tail(todo)
                 /\ UNCHANGED pending
              \/ /\ "later" \in Handlers
                 /\ pending' = [pending EXCEPT ![c][r] = @ + 1]
                 /\ todo' = Tail(todo)
    /\ UNCHANGED <<peers, file, out, watch, onError, client, pool, freed, behind, mode, misused>>

\* client.write: a buffer the pool closed has no memory behind it
Write(part) ==
    /\ Doing(part)
    /\ LET c == Head(todo).who
           b == client[c].buf
           p == [part |-> part, file |-> c, req |-> Head(todo).req, shape |-> NoShape]
       IN  /\ IF b \in freed
              THEN mode' = "crashed" /\ UNCHANGED content
              ELSE content' = [content EXCEPT ![b] = Append(@, p)] /\ UNCHANGED mode
           /\ Judge(c)
    /\ todo' = Tail(todo)
    /\ UNCHANGED <<peers, file, out, watch, onError, client, pool, freed, behind, pending>>

\* the callback writeBuffer gets from flush and from end
Then(c) == IF Head(todo).call = "flush" THEN << >>
           ELSE <<Call(IF client[c].keep THEN "start" ELSE "close", c, 0)>>

\* writeBuffer: $out, then send what the kernel takes
WriteBuffer ==
    /\ Doing("flush") \/ Doing("end")
    /\ LET c == Head(todo).who
           fd == client[c].fd
           b == client[c].buf
           f == file[fd]
           text == content[b]
           n == IF f = 0 THEN 0 ELSE Least(Len(text), Window - Len(out[f]))
           Watching(op) == watch' = [watch EXCEPT ![fd] = [op |-> op, who |-> c, last |-> 0]]
           Sent == /\ out' = IF n = 0 THEN out ELSE [out EXCEPT ![f] = @ \o SubSeq(text, 1, n)]
                   /\ content' = [content EXCEPT ![b] = Rest(@, n)]
       IN  /\ Judge(c)
           /\ \/ /\ b \in freed
                 /\ mode' = "crashed"
                 /\ Watching("empty")
                 /\ UNCHANGED <<out, content, todo>>
              \/ /\ b \notin freed /\ n = Len(text)       \* all of it is out
                 /\ text # << >> => f # 0 /\ gone[f] # "reset"
                 /\ Watching("empty") /\ Sent
                 /\ todo' = Then(c) \o Tail(todo)
                 /\ UNCHANGED mode
              \/ /\ b \notin freed /\ n < Len(text)       \* EAGAIN
                 /\ f # 0 /\ gone[f] # "reset"
                 /\ Watching(Head(todo).call) /\ Sent
                 /\ todo' = Tail(todo)
                 /\ UNCHANGED mode
              \/ /\ b \notin freed /\ text # << >>        \* -1, or SIGPIPE
                 /\ f # 0 => gone[f] = "reset"
                 /\ Watching("empty")
                 /\ \/ UNCHANGED mode
                    \/ f # 0 /\ mode' = "killed"
                 /\ todo' = <<Call("error", c, 0)>> \o Tail(todo)
                 /\ UNCHANGED <<out, content>>
    /\ UNCHANGED <<listening, opened, file, wire, got, gone, asking, asked, onError, client,
                   pool, freed, behind, pending>>

StartWithoutIn ==                                             \* mutant
    /\ Doing("start")
    /\ Clearing(client[Head(todo).who].buf)
    /\ todo' = Tail(todo)
    /\ UNCHANGED <<peers, file, out, watch, onError, client, pool, freed, behind, mode, pending, misused>>

\* recvHeader of a client that goes on
Start ==
    /\ Doing("start")
    /\ LET c == Head(todo).who
       IN  /\ Clearing(client[c].buf)
           /\ watch' = [watch EXCEPT ![client[c].fd] = [op |-> "header", who |-> c, last |-> 0]]
    /\ todo' = Tail(todo)
    /\ UNCHANGED <<peers, file, out, onError, client, pool, freed, behind, mode, pending, misused>>

\* $triggerError: the error callback now registered for the descriptor, or an exception
TriggerError ==
    /\ Doing("error")
    /\ LET d == onError[client[Head(todo).who].fd]
       IN  \/ d # 0 /\ todo' = <<Call("close", d, 0)>> \o Tail(todo) /\ UNCHANGED mode
           \/ d = 0 /\ mode' = "thrown" /\ UNCHANGED todo
    /\ UNCHANGED <<peers, file, out, watch, onError, client, content, pool, freed, behind,
                   pending, misused>>

\* $bufferPool.push: not twice, and not over the limit or when the buffer is too big
Push(b) ==
    \/ b \in Elements(pool) /\ UNCHANGED <<pool, freed>>
    \/ /\ b \notin Elements(pool)
       /\ freed' = freed \cup {b}
       /\ UNCHANGED pool
    \/ /\ b \notin Elements(pool) \cup freed /\ Len(pool) <= PoolLimit
       /\ pool' = Append(pool, b)
       /\ UNCHANGED freed

\* Client.close: push the buffer, $del, ::close; what the kernel still holds for the
\* peer is lost if the server left something unread
Close ==
    /\ Doing("close")
    /\ LET c == Head(todo).who
           fd == client[c].fd
           f == file[fd]
       IN  /\ Push(client[c].buf)
           /\ watch' = [watch EXCEPT ![fd] = NoWatch]
           /\ onError' = [onError EXCEPT ![fd] = 0]
           /\ file' = [file EXCEPT ![fd] = 0]
           /\ IF f # 0 /\ wire[f] # << >>
              THEN out' = [out EXCEPT ![f] = << >>]
              ELSE UNCHANGED out
    /\ todo' = Tail(todo)
    /\ UNCHANGED <<peers, client, content, behind, mode, pending, misused>>

Stopped == mode # "running" /\ UNCHANGED vars

-----------------------------------------------------------------------------
Init ==
    /\ listening = TRUE /\ opened = 0
    /\ file = [fd \in Fds |-> 0]
    /\ wire = [f \in Files |-> << >>] /\ out = [f \in Files |-> << >>]
    /\ got = [f \in Files |-> << >>] /\ gone = [f \in Files |-> "no"]
    /\ asking = [f \in Files |-> << >>] /\ asked = [f \in Files |-> [n |-> 0, keep |-> TRUE]]
    /\ watch = [fd \in Fds |-> NoWatch] /\ onError = [fd \in Fds |-> 0]
    /\ client = [c \in Files |-> NoClient]
    /\ content = [b \in Files |-> << >>] /\ pool = << >> /\ freed = {} /\ behind = {}
    /\ todo = << >> /\ mode = "running" /\ misused = FALSE
    /\ pending = [c \in Files |-> [r \in 1 .. MaxRequests |-> 0]]

Script ==
    \/ Header \/ Process \/ Write("more") \/ Write("answer") \/ WriteBuffer
    \/ Start \/ TriggerError \/ Close

Next ==
    \/ PeerActs
    \/ \E f \in Files : PeerReads(f)
    \/ \E fd \in Fds : Accept(fd) \/ Input(fd) \/ Output(fd) \/ ErrorEvent(fd)
                      \/ LateEvent(fd)
    \/ AcceptFails \/ LoopEnds \/ Later \/ Script \/ Stopped

Spec == Init /\ [][Next]_vars

\* the thread runs, a ready descriptor's event is delivered in the end, and a peer
\* that waits for its answer reads
FairSpec ==
    /\ Spec
    /\ WF_vars(Script)
    /\ \A fd \in Fds : SF_vars(Input(fd)) /\ SF_vars(Output(fd))
    /\ \A f \in Files : WF_vars(PeerReads(f))

-----------------------------------------------------------------------------
(* Properties. *)

TypeOK ==
    /\ opened \in 0 .. MaxFiles /\ file \in [Fds -> 0 .. MaxFiles]
    /\ \A f \in Files : \A s \in {wire[f], out[f], got[f], asking[f], content[f]} : s \in Seq(Pieces)
    /\ gone \in [Files -> {"no", "eof", "reset"}]
    /\ asked \in [Files -> [n : 0 .. MaxRequests, keep : BOOLEAN]]
    /\ \A fd \in Fds : /\ watch[fd].op \in {"none", "header", "body", "empty", "flush", "end"}
                       /\ watch[fd].who \in 0 .. MaxFiles /\ watch[fd].last \in Nat
    /\ onError \in [Fds -> 0 .. MaxFiles]
    /\ client \in [Files -> [fd : Fds, buf : Files, keep : BOOLEAN, body : Bodies,
                             req : 0 .. MaxRequests] \cup {NoClient}]
    /\ pool \in Seq(Files) /\ freed \subseteq Files /\ behind \subseteq Fds /\ todo \in Seq(Calls)
    /\ mode \in {"running", "returned", "thrown", "crashed", "killed"}
    /\ pending \in [Files -> [1 .. MaxRequests -> Nat]]

\* Between two events every open connection waits for something, with a callback and
\* an error callback of its own client: a reused descriptor keeps nothing of the
\* connection before it, and no answer leaves only the empty write callback behind.
Attended == todo = << >> /\ mode = "running" /\ ~misused =>
    \A fd \in Fds : file[fd] # 0 => /\ watch[fd].op \notin {"none", "empty"} /\ watch[fd].who = file[fd]
                                    /\ onError[fd] = file[fd]

\* No two open clients share a buffer, and the pool holds none of theirs, none that it
\* closed and none twice.
ExclusiveBuffers == ~misused =>
    /\ \A c \in Files : Alive(c) =>
          /\ client[c].buf \notin Elements(pool) \cup freed
          /\ \A d \in Files \ {c} : Alive(d) => client[d].buf # client[c].buf
    /\ \A i, j \in DOMAIN pool : pool[i] = pool[j] => i = j
    /\ Elements(pool) \cap freed = {}

\* What a peer reads are answers to its own requests, in the order it asked: no piece
\* of a request, of another answer or of another connection's.
OwnAnswers == ~misused =>
    \A f \in Files : LET all == got[f] \o out[f]
                     IN  /\ \A i \in DOMAIN all : all[i].part \in Answers /\ all[i].file = f
                         /\ \A i, j \in DOMAIN all : i < j => all[i].req <= all[j].req

\* As long as the application uses no closed client (nor goes on with one whose flush
\* failed, which nothing tells it), there are two deaths a peer can bring about: undefined
\* is called for an event behind the late answer that closed its connection, and match
\* of undefined for a request with a length and no type.  It is never a missing error
\* callback, nor a buffer the pool closed.  SIGPIPE's is not counted.
DiesAsKnown == ~misused =>
    /\ mode = "crashed" => \E fd \in behind : file[fd] = 0 /\ watch[fd] = NoWatch
    /\ mode = "thrown" => Head(todo).call = "header" /\ client[Head(todo).who].body = "untyped"

\* A peer that has sent a whole request, one the server understands, and stays gets the
\* whole answer.
Waiting(f) == asked[f].n > 0 /\ asking[f] = << >> /\ ~Answered(f)
AnswersCome == \A f \in Files :
    Waiting(f) ~> (~Waiting(f) \/ gone[f] # "no" \/ mode # "running")
=============================================================================
