# A TLA+ development of v8h

v8h is a small node-like runtime: a C++ program that embeds V8 and gives scripts
an epoll event loop, sockets, byte buffers and files (`src/src/*.cc`), and a
library in CoffeeScript on top of it (`src/coffee/`), up to an HTTP server.
Everything runs in one thread. What is hard about it is not locks but order:
callbacks run between events of a batch that was fetched earlier, descriptor
numbers and buffers are reused, one byte buffer serves a whole connection in
both directions, and bytes come and go in pieces of any size.

Paths in this file are relative to the repository; line numbers are those of the
modelled commit.

## 1. Inventory

| Component | Where | State | Operations | What is hard |
|---|---|---|---|---|
| **Buffer** | `src/buffer.cc` | `cursor_`, `size_`, `used_`, `reserve_` and the block | write\*, read\*, peek\*, prepare, commit, consume, clear, zero; recv and send go through it (`src/socket.cc:203-240`) | growth while it holds data, the reset on drain, unsigned wrap, unclamped lengths, reads that commit |
| **partial_find** | `src/algorithm.cc:5-26` | two pointers | search for a delimiter that may be cut off | over-reading at the ends, overlaps |
| **Delimiter reader** | `coffee/core/socket.coffee:32-64` | resume position in a closure | readUntil, readSize, readToken | chunks of any size, resuming, repeating on the rest |
| **Service** | `src/service.cc`, `coffee/core/service.coffee` | `fds`, `fds_error`, `fds_number`, the batch, the kernel's interest list | in, out, del, error, run, `$runJS` | stale events, reused numbers, ignored epoll errors, when the loop ends, a failed wait taken for a count |
| **BufferPool** | `coffee/core/buffer.coffee:1-24` | the free buffers, a mark on each | push, pop | ownership, the limit |
| **Socket** | `coffee/core/socket.coffee`, `src/socket.cc` | none of its own: closures registered with Service | accept, connect, readUntil, readSize, writeBuffer, writeUntil, writeUtf8, close | one callback a descriptor, partial sends, temporary buffers, callbacks that fire again |
| **Stream** | `coffee/core/socket.coffee:157-210` | a descriptor and one buffer | read, take, write, writeUntil, close, for clients and servers | both directions share a buffer; a call replaces the one before |
| **HTTP server** | `coffee/net/http.coffee` | a Client per connection | accept, header, body, process, write, flush, end, close | keep-alive, errors inside calls of the application, late answers |
| **require and start-up** | `coffee/core/startup.coffee`, `src/system.cc:19-63`, `src/v8h.cc` | `requiredFiles` with in-progress marks, `$currentDir`, the global `exports` | require, main | loops, names, scripts that throw, globals that change under a script |
| **System, File** | `src/system.cc`, `src/file.cc` | none | load a script, read a file | reading in chunks |
| Console, Config, Logger, errors | `src/console.cc` ... | none worth naming | print | nothing |
| V8 bindings | `src/v8h_*.h`, `src/c.h` | the pointer from object to C++ half | forwarding | nothing |

How they interact: an HTTP `Client` calls the Socket functions with its
descriptor and its buffer; these register closures with the Service and move
bytes between the kernel and the Buffer; the Service's `run` fetches events and
calls the closures; a closure that finds its condition true calls back into the
Client, which calls the application, which calls the Client again. Every failure
ends in `$triggerError`, that is, in the error callback of the descriptor,
`Client.error`, which closes it and gives the buffer to the BufferPool.

What makes each component correct:

- *Buffer*: it is a FIFO of bytes; the positions stay inside the block.
- *partial_find, delimiter reader*: a delimiter is found where it first occurs,
  whatever the chunks; the parser on top of it goes the stream's way, not the chunks'.
- *Stream*: texts go out whole and in order, input comes in order, neither gets into
  the other; a write ends with its callback, once.
- *require*: a script runs once, unless it left null or undefined, and every name of it
  gives the same exports; relative names mean what the author of the script meant.
- *Service*: an event reaches the callback of the connection it was reported
  for; the tables and the kernel agree; `run` returns when nothing is left, and
  not before.
- *BufferPool and HTTP server*: a buffer has one owner; every open connection
  waits for something; a peer reads answers to its own requests and nothing
  else, and gets them.

`PROJECT.json` lists the hazards behind these at their lines.

## 2. Modules

```
ByteQueue  <-- refined by -- Buffer             MCBuffer           BufferProofs
Partial    <-- PartialFindLoop                  MCPartialFindLoop  PartialFindLoopProofs
Partial    <-- ReadToken                        MCReadToken        ReadTokenProofs
               Service                          MCService          ServiceProofs
               HttpServer                       MCHttpServer       HttpServerProofs <-- HttpAnswersProofs
               Stream                           MCStream           StreamProofs
               Require                          MCRequire          RequireProofs
```

**Buffer** has the four fields as the record `g` and the block as `mem`; the helpers
`Commit`, `Consume`, `Prepared`, ... are the private functions of the class on the
fields alone, and each operation is an action that applies them in the order of the
source. Fields are numbers modulo `SizeMod` (2^w); `Wrap` is the unsigned arithmetic.
`fault` records an access outside the block, at the place where the code makes it.
`clean` is history: no call has broken the bookkeeping since the last clear. `Next` is
the use the runtime makes of a buffer; `NextAll` adds the calls that break it: the reads
that commit (`ReadInt`, `ReadBuffer`), `WriteUcs2`, which also writes V8's terminating
NUL behind the bytes it prepared, a raw `commit`, peeking more than there is, writing a
buffer to itself. A failed `recv` commits -1 (`ReceiveFails`) in both. In `Next` the
buffer is given up after that, because `readUntil` runs the error callback, which pushes
it to the pool.

**ByteQueue** is what Buffer promises: Put, Take, Peek, Drop, and the bytes each
call moves. The refinement mapping reads the queue from the block: `q` is
`mem[cursor .. cursor+size-1]`.

**Partial** states what a delimiter search returns (`IsFirstPartial`), without an
algorithm. **PartialFindLoop** has the two pointer loops of the C++ function, one
comparison a step, and is shown to return that. **ReadToken** uses the statement. It
is the multipart parser: chunks arrive; `Check` searches from `last` for what the
parser reads (`at`), `CheckSize` waits for two bytes; then a callback takes what was
found and asks for the next thing. `BoundaryFound` asks for two bytes, `PairFound`
decides between a part's header and the end, `HeaderFound` goes back to the boundary,
and `EndFound` stands for the rest of the last line and `process()`, which clears the
buffer. `taken` is history: what each callback took, as positions in `stream`.

**Service** has the kernel's side (`file`: which open file a number stands for;
`interest`: what epoll watches) and the service's (`fds`, `fdsError`, `fdsNumber`). A
callback is represented by the file it was registered for, so "called for the wrong
connection" can be said. `Wait` fetches any set of reportable events, `Dispatch` takes
one and looks up its callback by number; while `mode` is "callback" the script makes any
number of calls. `Script` is a script with the library's discipline: error callback
first, close with `Socket.close`. It calls `$del` and close on descriptors of its own
(the event's and those it opened), but `$error`, `$in` and `$out` on any open one, as
`start()` and the `writeBuffer` of a late answer do from another connection's callback;
with `CrossClose` it also closes others' connections. `AnyScript` has no discipline at
all. `Run` chooses the loop: `driver` is "run", or "runJS" for `$runJS`, which never
ends, looks every event up in `fds` alone, and takes the -1 of a failed wait for a
count. What it dispatches then is `events[0]` as the last successful wait left it
(`slot`), or memory no wait has written (`Garbage`). `hit` is history: the files of
events that do not count, because they were closed while the event waited or an earlier
wait had reported it. `turned` is history: the files that were registered anew while
their event waited (`Waiting(fd)`).

**HttpServer** composes the Client, the Socket functions, the pool and the peers.
A request is two or three pieces (head, end, body), an answer one or two. `todo`
holds the calls a running callback has still to make: the loop delivers an event
only when it is empty, which is what one thread means; peers and the kernel move
in between. `watch[fd]` is the closure registered for a descriptor with the
search position it captured, and stays after it has fired, as in the code. The
application answers inside the request callback ("end"), in two parts ("flush"),
or from a later event ("later"). `misused` is history: the application used a
client that was closed before; the library has no way to tell it.

A request has a body or not, and keeps the connection or not (`Shapes`). The bodies
are the cases `recvHeader` and `recvBody` tell apart: none; one with a Content-Type;
one with none, which throws out of `run`; a multipart type that names no boundary,
which closes the connection. The buffer popped for a boundary is not modelled.

HttpServer delivers single events, not batches, except where that would hide
something. By Service's `Fresh`, what a callback does to descriptors of its own does
not change what another event of the batch reaches. A late answer does: it is made in
the callback of something else, and replaces the callback of its client's descriptor, or
closes it, while an event for that descriptor may wait in the same batch. `Later` puts
the descriptor in `behind` if epoll could have reported it (`Ready`), and the event is
then delivered to whatever is registered by then, also to another connection that got
the number: a read that finds nothing gets -1, a write goes on, and `LateEvent` is the
event that meets the callback of a finished write, or none, which calls undefined.

**Stream** composes Stream, the Socket functions below it and the pool. `watch[f]` is
the one callback of a descriptor: what was asked for, with the buffer it uses.
`content[b]` is a buffer as a sequence of pieces, each of which says who made it and
the how manieth it is, so that "the peer gets its own bytes back" and "out of order"
can be said; that a Buffer keeps the sequence is what BufferProofs proves. A text is
`TextSize` pieces, and the kernel takes any number of them at a time. The
running script knows the stream of its event and those it opened (`mine`), and may
take input from those whose read has called back (`ready`). Nothing in the code stops
a script from turning a stream around too early, so `Careless` scripts do, and
`log[f]` records that they did: `mixed` (data of the other direction was in the buffer),
`overtaken` (a text waited in another buffer), `dropped` (the callback of a write was
replaced). The properties say what holds until then. Once a connection is mixed, its
script is followed only in what it has under way. A connecting socket is given its
stream by `Connected`, again each time the callback fires, as in the code. A closed
stream's buffer is emptied when it is pushed instead of when it is popped. Events come
one at a time: a script here makes calls on streams of its own only, so by Service's
`Fresh` it does not change what another event reaches. Connections stand for their
descriptors: Service and HttpServer have the reuse of numbers.

**Require** has the cache under every name and real path, and the requires in progress
as a stack of the script, the name it was asked by and the `$currentDir` to go back
to. A script does anything between its calls: it requires any name, throws, and
catches what comes up from below. `Wrapped` is the first statement of the wrapper
around each script, which assigns the global `exports`; scripts in `Local` declare a
variable of that name, as the CoffeeScript compiler does for one that assigns it.
What a script leaves is known by the script, but `Besides` says which may also leave
null or undefined, by assigning `exports` (`Assign`) or by returning at their top level
(`Returned`), which the cache does not tell from no entry, or the number 1, which is the
mark. `ran`, `again` (run a second time), `failed`, `empty`, `ones` and `clobbered` are
history. `Boot` is what startup.js asks for.
Which files exist, and where names lead (`Real`), does not change.

The definitions marked `mutant` in a comment are plausible mistakes in the
definition they precede; `PROJECT.json` pairs each with the property that
notices it. No action uses one.

## 3. Runs

| Run | Instance | What it shows |
|---|---|---|
| `buffer_queue` | 2 byte values, blocks of 2 and 6 bytes, 16 = 2^w | under the runtime's calls: FIFO (`QueueSpec`), positions in order (`Sound`), no access outside (`NoFault`) |
| `buffer_all` | blocks of 1 and 3 bytes, 8 = 2^w | under all calls: `Framing`; `Contained`: an access outside the block is the NUL of `writeUcs2`, asking for more than there is or a buffer that grows while it is written to itself, or the bookkeeping was broken before |
| `buffer_read`, `buffer_ucs2` | as `buffer_all` | the two documented operations that do not do what buffer.h says (findings) |
| `service` | 2 descriptors, 3 files, batches of 2, cross-closing, calls on others' connections, either loop | the count and the interest list stay right; tables mirror the kernel; only events of files closed inside the batch, or dispatched again by `$runJS`, go astray, and only those of files registered anew get a callback for something else; every batch is worked off; `run` returns when everything is closed |
| `partial_find` | all haystacks to 6 and needles to 4 bytes | first partial occurrence, no over-read, termination |
| `read_token` | 2 byte values, chunks to 3, streams to 15 bytes, a line end that overlaps the boundary | each token ends at the first occurrence; the parser's way through a request (boundary, two bytes, header or end) is the stream's; a delimiter that is there is reported |
| `http_sync` | 1 descriptor used by 2 connections, 2 pipelined requests each | answers own and in order, whatever else has arrived |
| `http_later` | 2 descriptors, 2 connections, late and flushed answers | every connection attended, buffers exclusive, answers own and in order, and besides SIGPIPE two ways for a peer to end the process (section 5) and no third, until the application uses a closed client |
| `http_live` | 1 descriptor, 2 connections, 2 requests, flushed answers | every answer to a request the server understands is completed |
| `stream` | 2 connections, 3 buffers, 2 texts of 2 pieces, reads of 2 pieces, the first script careless | directions apart, texts in order, callbacks once and not before all is sent, one owner a buffer, pending writes end |
| `require` | 4 scripts in 3 directories, a relative name that is another file in each, a second absolute name | current directory, marks, a script that is run again had left null or undefined, one object a file, where the mark can get out; two scripts may leave null or 1 |

The bounds. A buffer must grow while it holds data, be drained, filled again and be too
big for the pool: that takes one tripling. A wrap must be possible: `SizeMod` is small,
but larger than any sum of legal lengths (`SizesAssumption`), as 2^32 and 2^64 are. A
descriptor number must be used again while its event waits: one file more than
descriptors, a batch of two. A delimiter must overlap itself, the others and the chunk
borders. In HttpServer a window of one piece makes every longer answer a partial send, a
pool limit of 0 makes the second push free its buffer, and two connections on one
descriptor make every reference that survives a close visible. In Stream a text of two
pieces can be cut, two texts can overtake each other, three buffers are a stream's, a
temporary one and another stream's, and the second connection, whose peer sends nothing,
is there to get the buffers the first left in the pool. In Require four scripts give a
loop through two others, a throw below a script that catches, and a name that is asked
for from three directories. `MaxBuffers`, `MaxTexts`, `MaxInput`, `TextSize`, `Needs`,
`MaxFiles`, `MaxRequests`, `MaxReserve`, `MaxStream`, `MaxHay` and `MaxNeedle` are
bounds of the models, not of the code.

Type invariants are checked by a run where no theorem has them for the run's actions
(`service`, `http_sync`, `stream`); those of Buffer, PartialFindLoop, ReadToken and
Require are theorems only.

Deadlock is checked where the system always has a step (`service`, `buffer_queue`,
`partial_find`, `require`). It is off in `buffer_all` and the two finding runs
(nothing is said after an access outside the block), `read_token` (the stream ends),
`http_*` (all peers have come and gone, and the server waits) and `stream` (a script
that asked for nothing more leaves a connection open to which nothing happens).

Fairness. The thread runs, so a callback is carried on to its end (`WF` on
`Dispatch`, `Return \/ Throw`, `Script`, `Check \/ CheckSize \/ Callback`). HttpServer asks
strong fairness of `Input(fd)` and `Output(fd)`: epoll is used level-triggered and
`run` calls every event it fetches, so a descriptor that is ready again and again
is served; it is disabled in between only while another callback runs. Stream asks
the same of `OutputEvent(f)`: a peer that reads makes room again and again, and one
that does not read is as good as one that is gone. A peer
that waits for its answer is assumed to read (`WF` on `PeerReads`); nothing is
assumed of its sending. Service's loop assumes nothing of the events.

## 4. Proofs

All theorems hold for every value of the constants that the named assumptions of
the modules allow.

- **BufferProofs.** `FullInv` is `TypeOK` plus `Accounted`: framing modulo 2^w, and well
  formed while clean. `Sound` alone is not inductive, because an unclean buffer must still
  be typed and framed for its next clear to make it clean. `Contained` is about a step: it
  needs `Sound` before the step to know that all calls but the three it excuses stay in
  the block. There is one lemma per call; the arithmetic is
  in `WrapShift`, `CommitFacts`, `ConsumeFacts`, `PreparedHolds`. `NoFaultAlways`
  is proved from the same invariant for the runtime's calls. From
  `SizesAssumption`: a block is never within a factor of two of 2^w bytes.
  `ImplementsQueue` is the refinement: every call of the runtime is a step of
  ByteQueue. It needs one thing more, that the live bytes are bytes some call has
  written (`QueueInv`); then there are three facts about the block, `LivePut`,
  `LiveKept` and `LiveTaken` (what is appended, what growing leaves alone, what is
  taken from the front, the reset on drain included), and a lemma for each kind of
  call.
- **ServiceProofs.** `AnyInv` (types, `Watched`, `CountMatches`) is inductive for any
  script. `OwnInv` adds `Mirrors`, `Fresh`, that batch events are one a descriptor, that
  `events[0]` is one event (`Singular`), that a crash was hit, and `Apart`: while a
  callback runs, events waiting in the batch for a descriptor the script knows are of
  files already closed. Without `Apart`, `Fresh` is not inductive: `$del` and close on a
  known descriptor would change what an event finds. `$in` and `$out` may be called on
  any, and then the event's file is in `turned`, and the callback is still of that file.
  `OwnersNeverCrash` follows for `~CrossClose` and `run`: `hit` stays empty.
  `BatchShrinks` is the part of `BatchDrains` that is safety: a batch is finite and not
  empty while the loop goes through it (`BatchInv`), each turn takes one event, no
  callback adds or drops any, and the loop waits again only when none is left.
- **PartialFindLoopProofs.** `LoopInv`: the bytes compared so far agree, and every
  earlier position disagrees within both strings. `SearchGetsNearer` is the part of
  `Returns` that is safety: an attempt makes fewer comparisons than the needle has bytes,
  and there are no more attempts than the haystack has.
- **ReadTokenProofs.** `TokenInv`: the resume position is in the buffer, no
  position before it can become an occurrence (`MismatchIsStable`: appending
  cannot mend a mismatch), and in phase "found" it is an occurrence.
  `FirstOccurrence` follows from `TokenInv` and what `Callback` records.
  `Parsed` adds `TakenInv`: what the callbacks took are adjacent parts of the stream,
  each decided by what was taken before it (`Follower`), and the buffer is the rest; that
  two bytes which decided keep their place however much arrives is `PairOf`.
- **RequireProofs.** The invariant is in three parts. `StackInv`: the scripts in
  progress differ from one another, and each frame's `saved` is the directory of
  the frame below, which is what makes `DirOfRunning` survive an exception from any
  depth. `ExportsInv`: a script in progress that shares the global `exports` finds its
  own object there, or what it left beside one, unless it was clobbered. `HistoryInv`:
  what has no entry in the cache has not run or left none (`empty`), which is what
  `RunsOnce` rests on, and what failed or left the number 1 (`ones`) is not running.
- **HttpServerProofs.** For any number of descriptors, connections and requests,
  pipelined or not, with any mixture of handlers. `Inv` holds whatever the application
  does: types, how much the kernel holds, that a callback is of a client of its
  descriptor, and what a callback may still have to call (`PlanOK`: the end of an
  answer comes last, the library's own calls come alone). `Disciplined` holds until the
  application uses a closed client. None of the three properties is inductive alone:
  `Attended` says nothing while a callback runs, so `Served` adds when a descriptor may
  have the callback of a write that is over (its client is `Finishing`); that the
  client finishes rests on `Steady` (all calls are of one client, and those the library
  makes find it open); that `close` gives a buffer back once, and that a failed read finds
  an error callback, rest on both. `DeathsExplained` needs them to rule out the
  other deaths, and one step more: an event calls undefined only if it waited behind a late
  answer (`behind`), because every open connection is served.
- **HttpAnswersProofs.** `OwnAnswers`, over the ownership of HttpServerProofs, for
  constants with `InTurn`: if peers pipeline, the application answers while it is called.
  With both pipelining and late answers the code mixes input and output (section 5) and
  the theorem would be false, so this hypothesis is exactly what the two runs that check
  `OwnAnswers` have between them. `Talks` says what a connection's buffer holds: while it
  is read, pieces of requests from the client's own on, in order with what still comes;
  while it is written, pieces of the answer to the client's request; and that
  what was sent is of requests up to that one. It is not inductive alone. `Orderly` says
  what the thread still calls while an answer is written. `Found` says that the search
  stopped at the end of a request, so that the request that is counted is the one that
  is consumed. For late answers, which are the one way to write to a client that waits for
  input, `Paced` goes through what a connection can be at when its peer waits: resting,
  hearing a request, taking its body, keeping it for later, or replying; it gives `Prompt`:
  a late answer is to the client's own request and finds the buffer empty. That another
  connection's step disturbs none of this is `ExclusiveBuffers` in the form of
  `Disciplined`, which is why a script that used a closed client is excepted. All this
  is kept while the process runs; afterwards peers only read what was sent, and `Owned` is
  what remains.
- **StreamProofs.** In four parts. Ownership: `Inv` says of each connection what its
  buffer and its callback may be (`FileOK`), of the pool that it has free buffers once
  (`FreeList`), and of two connections that they share none (`Apart`); `Exclusive`
  follows. The two directions: `AllSides` says that until a connection is mixed its
  stream's buffer holds either text of its own script, with all input it received taken,
  or exactly the input that comes next. It builds on ownership: that a write to one
  stream leaves the others' buffers alone is `Apart`, and that an output event sends
  text and not input is known only from whose buffer a callback holds. Texts: `InOrder`
  and `Told` follow from `AllTexts`, over both of these. `Ordered`: what is sent is a
  beginning of all that was written, and what the output callback holds is the rest, as
  is text in the stream's own buffer. `InOrder` alone is not inductive: it does not say
  that a write which finds text in the stream's buffer, with no callback left for it,
  goes behind exactly that, nor that a pending write from a temporary buffer leaves no
  text in the stream's. `Confirmed`: the texts whose callbacks were called are out and
  in order, and the one a callback waits for comes after them and is out or in the
  callback's buffer. The lemmas on sequences say what a partial send moves (`CutInTwo`,
  `ElementsOfCut`), what a text more makes of what was there (`NextText`,
  `NumberOfText`), and that nothing waits if every piece written is among those sent
  (`AllSent`). Of TextSize it is assumed only that a text has a piece. Progress:
  `WritesLessen` is the part of `WritesEnd` that is safety. From ownership, no other
  connection touches the buffer of a pending write, its own script only takes from it or
  drops the callback, and each output event sends some of it.

Every safety invariant the runs check is stated by a theorem. Only model-checked: all
liveness (`BatchDrains`, `ClosedEndsRun`, `Returns`, `Reported`, `AnswersCome`,
`WritesEnd`), which the provers cannot handle under fairness; what is proved of it is
the measure that falls, for `BatchDrains`, `Returns` and `WritesEnd`, and that the last
step is due, for `ClosedEndsRun` (`NothingOpenEndsRun`) and, by `FoundIffPresent`, for
`Reported`.

## 5. What the code does that its documentation does not say

`readInt32` and its like, and `_readBuffer`, commit the bytes they hand out
instead of consuming them (`src/buffer.cc:151`, `:259`). `writeUcs2` commits half
of what it writes (`src/buffer.cc:307`). Both are findings with a run.

The models keep these, for which no document says otherwise.

- Buffer and Socket: `writeUcs2` writes a terminating NUL that may lie behind the block
  (`src/buffer.cc:306`); a failed `recv` is committed as 2^w - 1 bytes
  (`src/socket.cc:232-237`); a failed accept closes the listening socket
  (`coffee/core/socket.coffee:137,147`); writing to a connection that was reset may
  kill the process with SIGPIPE (`src/socket.cc:210`) (`killed` in HttpServer).
- Service: an interrupted `epoll_wait` ends `run` (`src/service.cc:245`), and makes
  `$runJS` dispatch an old event once more, to whoever has its number now
  (`coffee/core/service.coffee:32`).
- HTTP: what arrives while the application works on a late answer is read into the
  buffer the answer is written to, so a peer that does not wait may get its own bytes
  back, and its request may be handed to the application twice
  (`coffee/core/socket.coffee:33`, `coffee/net/http.coffee:94`; `OwnAnswers` is
  therefore checked for late answers to peers that wait, and for pipelining peers that
  are answered at once); a request that arrives with the one before it is cleared away
  (`coffee/net/http.coffee:90`). A request with a Content-Length and no Content-Type
  throws out of `run`, and one with a multipart type but no boundary is closed
  unanswered (`coffee/net/http.coffee:61-65`). An event that waits in a batch behind the
  late answer that closes its connection calls undefined (`src/service.cc:257-261`).
  These two ends of the process are what `DiesAsKnown` allows. After a failed `flush`,
  which closes the client and tells nobody, the application's `end()` writes to a closed
  client (`coffee/net/http.coffee:97-100`): that counts as misuse.
- Stream: it is half-duplex, and does not say so: a write before all input was taken
  sends the input back, a read before all text went out takes the text for input
  (`coffee/core/socket.coffee:159`); a second write replaces the callback of the
  first, and one through a temporary buffer overtakes it (`:101`); the callbacks of
  `writeUntil` (`:96`) and of `connectTcp` (`:130`) are called again until something
  replaces them, and the second makes another stream on the same descriptor.
- require: after a script threw, every later require of it reports a loop
  (`coffee/core/startup.coffee:29`); asked for by its real path it returns the mark, 1,
  instead (`:57`); one that leaves null or undefined is run again by the next require
  (`:23,57`), and one that exports the number 1 is taken for a loop; a script that fills
  the global `exports` and then requires another that does so returns the other's object
  (`src/system.cc:32`); an absolute name on the command line is a ReferenceError
  (`coffee/core/startup.coffee:83`).

These are facts about one call, which a test shows as well as a model; no property is
about them: a buffer made with reserve 0 never returns from its first write
(`src/buffer.cc:85`); `readBuffer()` without a size passes undefined as one
(`coffee/core/buffer.coffee:31`); a Content-Length that is no number, and
one more boundary buffer popped for each multipart request than is given back
(`coffee/net/http.coffee:55,66`); `readInt64` waits for four bytes and reads
eight, and `readDouble` calls itself (`coffee/core/socket.coffee:75`); a script longer
than the room its loader prepared loses its end (`src/system.cc:34`), and one that does
not compile is run all the same (`Uncompilable` in Require).

## 6. Not modelled

`sweep` and `show` of Buffer, a reserve of 0, and a buffer used after `close`; the
fixed-size reads of Socket (each is `readSize` with a constant); accepting on Unix
sockets, whose callback calls a function that does not exist; addresses and socket
options; deleting the service object, `trigger(fd)` and the getter of a callback, which
nothing calls; the content of headers; `File` and the rest of `System`, which wrap
single system calls; the console, the configuration and the logger, which print; the
V8 bindings, macros without state.

## 7. Plan

Done, in this order: Buffer and its queue; Service; partial_find and the reader;
HttpServer; `$runJS`; Require; Stream with `writeUntil`, temporary buffers and
connecting; the proofs above, of every invariant the runs check. What is left to do:

1. *HttpServer*: the part of `AnswersCome` that is safety: a peer that waits always has
   a callback registered that will go on with its request or its answer.
