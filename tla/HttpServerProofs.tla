-------------------------- MODULE HttpServerProofs --------------------------
(***************************************************************************)
(* The HTTP server, for any number of descriptors, connections and         *)
(* requests, whatever the application does: values keep to their sets; and *)
(* until it uses a client that was closed, every connection is attended,   *)
(* every buffer has one owner and a process that dies does so in one of    *)
(* two known ways.                                                         *)
(***************************************************************************)
EXTENDS HttpServer, SequenceTheorems, WellFoundedInduction, TLAPS

Watches == [op : {"none", "header", "body", "empty", "flush", "end"},
            who : 0 .. MaxFiles, last : Nat]
Clients == [fd : Fds, buf : Files, keep : BOOLEAN, body : Bodies, req : 0 .. MaxRequests]
Streams == [Files -> Seq(Pieces)]

-----------------------------------------------------------------------------
(* What holds whatever the application does. *)

PeersOK ==
    /\ wire \in Streams /\ got \in Streams /\ asking \in Streams
    /\ gone \in [Files -> {"no", "eof", "reset"}]
    /\ asked \in [Files -> [n : 0 .. MaxRequests, keep : BOOLEAN]]

\* The kernel takes no more than there is room for.
OutOK == out \in Streams /\ \A f \in Files : Len(out[f]) <= Window

KernelOK ==
    /\ opened \in 0 .. MaxFiles
    /\ file \in [Fds -> 0 .. MaxFiles] /\ \A fd \in Fds : file[fd] <= opened

\* There is a Client for each connection accepted so far, with a buffer of that time.
ClientOK ==
    /\ client \in [Files -> Clients \cup {NoClient}]
    /\ \A c \in Files : /\ c <= opened => client[c] \in Clients /\ client[c].buf <= opened
                        /\ c > opened => client[c] = NoClient

\* A callback is of a client and for that client's descriptor.
WatchOK ==
    /\ watch \in [Fds -> Watches]
    /\ \A fd \in Fds : watch[fd].op # "none" =>
          LET c == watch[fd].who
          IN  /\ c \in 1 .. opened /\ client[c].fd = fd
              /\ watch[fd].op = "body" => client[c].req > 0

ErrorOK == onError \in [Fds -> 0 .. MaxFiles] /\ \A fd \in Fds : onError[fd] <= opened

BufferOK ==
    /\ content \in Streams
    /\ pool \in Seq(Files) /\ \A i \in DOMAIN pool : pool[i] <= opened
    /\ freed \subseteq Files /\ \A b \in freed : b <= opened

\* The calls a callback has still to make: all but the first are the application's, the
\* end of the answer is the last, and what the library does comes alone but for errors.
PlanOK(s) ==
    /\ s \in Seq(Calls)
    /\ \A i \in 1 .. Len(s) :
          /\ s[i].who <= opened
          /\ i > 1 => s[i].call \in {"flush", "answer", "end"}
          /\ s[i].call = "end" => i = Len(s)
          /\ s[i].call \in {"header", "process", "start"} => Len(s) = 1
          /\ s[i].call = "process" => client[s[i].who].req > 0
          /\ s[i].call \in {"more", "answer"} => s[i].req > 0
          /\ s[i].call = "header" /\ mode = "running" =>
                LET c == s[i].who
                IN  watch[client[c].fd].last < Len(content[client[c].buf])

ThreadOK ==
    /\ PlanOK(todo)
    /\ mode \in {"running", "returned", "thrown", "crashed", "killed"}
    /\ misused \in BOOLEAN
    /\ pending \in [Files -> [1 .. MaxRequests -> Nat]]
    /\ \A c \in Files, r \in 1 .. MaxRequests : pending[c][r] > 0 => c <= opened

Inv == /\ PeersOK /\ OutOK /\ KernelOK /\ ClientOK /\ WatchOK /\ ErrorOK /\ BufferOK
       /\ ThreadOK

-----------------------------------------------------------------------------
(* What holds until the application uses a client that was closed. *)

\* A connection's descriptor has the callback and the error callback of its client; the
\* callback of a write that is over, or was flushed, is about to be replaced.
Finishing(c) ==
    /\ todo # << >>
    /\ \/ todo[Len(todo)].call = "end" /\ todo[Len(todo)].who = c
       \/ todo[1].call \in {"start", "close", "error"} /\ todo[1].who = c

Served(fd) ==
    IF file[fd] = 0
    THEN watch[fd] = NoWatch /\ onError[fd] = 0
    ELSE /\ client[file[fd]].fd = fd
         /\ watch[fd].op # "none" /\ watch[fd].who = file[fd] /\ onError[fd] = file[fd]
         /\ watch[fd].op \in {"empty", "flush"} => Finishing(file[fd])

\* One client is worked on, to its end, and what the library does for it finds it open.
Steady ==
    /\ \A i \in 1 .. Len(todo) : todo[i].who = todo[1].who
    /\ todo # << >> =>
          /\ todo[Len(todo)].call \notin {"more", "answer", "flush"}
          /\ todo[1].call \in {"header", "process", "start", "close", "error"} => Alive(todo[1].who)

Disciplined ==
    /\ \A fd \in Fds : Served(fd)
    /\ Steady
    /\ ExclusiveBuffers

\* What the process died of: an event for nobody behind a late answer, or a request with
\* a length and no type.
Explained ==
    /\ mode = "crashed" => \E fd \in behind : file[fd] = 0 /\ watch[fd] = NoWatch
    /\ mode = "thrown" => Head(todo).call = "header" /\ client[Head(todo).who].body = "untyped"

FullInv == Inv /\ behind \subseteq Fds /\ (~misused => Disciplined /\ Explained)

-----------------------------------------------------------------------------
(* Sequences. *)

LEMMA LeastElement ==
    ASSUME NEW T, T \subseteq Nat, T # {}
    PROVE  \E x \in T : \A y \in T : x <= y
<1>1. \E x \in T : \A y \in T : ~(<<y, x>> \in OpToRel(<, Nat))
  BY NatLessThanWellFounded, WFMin
<1>2. PICK x \in T : \A y \in T : ~(<<y, x>> \in OpToRel(<, Nat))
  BY <1>1
<1>3. \A y \in T : ~(y < x)
  BY <1>2 DEF OpToRel
<1> QED
  BY <1>3

LEMMA TakeFacts ==
    ASSUME NEW s \in Seq(Pieces), NEW n \in 0 .. Len(s)
    PROVE  /\ Rest(s, n) \in Seq(Pieces) /\ SubSeq(s, 1, n) \in Seq(Pieces)
           /\ Len(SubSeq(s, 1, n)) = n
  BY SubSeqProperties DEF Rest

LEMMA TailFacts ==
    ASSUME NEW S, NEW s \in Seq(S), s # << >>
    PROVE  /\ Tail(s) \in Seq(S) /\ Len(Tail(s)) = Len(s) - 1 /\ Len(s) \in Nat \ {0}
           /\ \A i \in 1 .. Len(s) - 1 : Tail(s)[i] = s[i + 1]
           /\ Head(s) = s[1] /\ s[1] \in S
           /\ Len(s) = 1 => Tail(s) = << >>
<1>1. Len(s) \in Nat \ {0} /\ Head(s) = s[1]
  BY EmptySeq, LenProperties
<1>2. 1 \in 1 .. Len(s)
  BY <1>1
<1>3. s[1] \in S
  BY <1>2, ElementOfSeq
<1>4. /\ Tail(s) \in Seq(S) /\ Len(Tail(s)) = Len(s) - 1
      /\ \A i \in 1 .. Len(s) - 1 : Tail(s)[i] = s[i + 1]
  BY <1>1, HeadTailProperties
<1>5. Len(s) = 1 => Tail(s) = << >>
  <2> HAVE Len(s) = 1
  <2>1. Len(Tail(s)) = 0
    BY <1>4
  <2> DEFINE r == Tail(s)
  <2>2. r \in Seq(S) /\ Len(r) = 0
    BY <1>4, <2>1
  <2> HIDE DEF r
  <2>3. r = << >>
    BY <2>2, EmptySeq
  <2> QED
    BY <2>3 DEF r
<1> QED
  BY <1>1, <1>3, <1>4, <1>5

LEMMA FrontFacts ==
    ASSUME NEW S, NEW s \in Seq(S), s # << >>
    PROVE  LET t == SubSeq(s, 1, Len(s) - 1)
           IN  t \in Seq(S) /\ Len(t) = Len(s) - 1 /\ \A i \in 1 .. Len(s) - 1 : t[i] = s[i]
<1>1. Len(s) \in Nat \ {0}
  BY EmptySeq, LenProperties
<1>2. \A i \in 1 .. Len(s) : s[i] \in S
  BY ElementOfSeq
<1>3. \A i \in 1 .. Len(s) - 1 : s[i] \in S
  BY <1>1, <1>2
<1> DEFINE n == Len(s) - 1
           t == SubSeq(s, 1, n)
<1>4. n \in Nat
  BY <1>1
<1> HIDE DEF n
<1>5. /\ t \in Seq(S) /\ Len(t) = IF 1 <= n THEN n - 1 + 1 ELSE 0
      /\ \A i \in 1 .. n - 1 + 1 : t[i] = s[1 + i - 1]
  BY <1>3, <1>4, SubSeqProperties DEF n
<1> HIDE DEF t
<1>6. Len(t) = n
  BY <1>4, <1>5
<1>7. \A i \in 1 .. n : i \in 1 .. n - 1 + 1 /\ 1 + i - 1 = i
  BY <1>4
<1>8. \A i \in 1 .. n : t[i] = s[i]
  BY <1>5, <1>7
<1> QED
  BY <1>5, <1>6, <1>8 DEF n, t

\* the first of a sequence replaced
LEMMA SwapFacts ==
    ASSUME NEW S, NEW s \in Seq(S), s # << >>, NEW x \in S
    PROVE  LET t == <<x>> \o Tail(s)
           IN  /\ t \in Seq(S) /\ Len(t) = Len(s) /\ t # << >> /\ t[1] = x
               /\ \A i \in 2 .. Len(s) : t[i] = s[i]
<1> DEFINE r == Tail(s)
           t == <<x>> \o r
<1>1. /\ r \in Seq(S) /\ Len(r) = Len(s) - 1 /\ Len(s) \in Nat \ {0}
      /\ \A i \in 1 .. Len(s) - 1 : r[i] = s[i + 1]
  BY TailFacts
<1> HIDE DEF r
<1>2. <<x>> \in Seq(S) /\ Len(<<x>>) = 1 /\ <<x>>[1] = x
  OBVIOUS
<1>3. /\ t \in Seq(S) /\ Len(t) = 1 + Len(r)
      /\ \A i \in 1 .. 1 + Len(r) : t[i] = IF i <= 1 THEN <<x>>[i] ELSE r[i - 1]
  BY <1>1, <1>2, ConcatProperties
<1> HIDE DEF t
<1>4. Len(t) = Len(s) /\ t[1] = x /\ t # << >>
  BY <1>1, <1>2, <1>3, EmptySeq
<1>5. ASSUME NEW i \in 2 .. Len(s) PROVE t[i] = s[i]
  <2>1. i \in 1 .. 1 + Len(r) /\ ~(i <= 1) /\ i - 1 \in 1 .. Len(s) - 1 /\ (i - 1) + 1 = i
    BY <1>1
  <2> QED
    BY <1>1, <1>3, <2>1
<1> QED
  BY <1>3, <1>4, <1>5 DEF t, r

-----------------------------------------------------------------------------
(* The plan of a callback. *)

LEMMA PlanEmpty == ASSUME todo' = << >> PROVE PlanOK(todo)'
<1>1. todo' \in Seq(Calls) /\ Len(todo') = 0
  BY EmptySeq
<1> QED
  BY <1>1 DEF PlanOK

Rests == {"flush", "end", "close", "error"}

LEMMA PlanOne ==
    ASSUME NEW c \in Files, c <= opened', NEW r \in 0 .. MaxRequests,
           NEW name \in {"header", "process", "start"} \cup Rests, todo' = <<Call(name, c, r)>>,
           name = "process" => client'[c].req > 0,
           name = "header" => watch'[client'[c].fd].last < Len(content'[client'[c].buf])
    PROVE  PlanOK(todo)'
<1>1. /\ todo' \in Seq(Calls) /\ Len(todo') = 1
      /\ todo'[1] = [call |-> name, who |-> c, req |-> r]
  BY DEF Call, Calls, Rests
<1>2. \A i \in 1 .. Len(todo') : i = 1
  BY <1>1
<1> QED
  BY <1>1, <1>2 DEF PlanOK, Rests

\* the application's calls for an answer
LEMMA PlanAnswer ==
    ASSUME NEW c \in Files, c <= opened', NEW r \in 1 .. MaxRequests,
           \/ todo' = <<Call("answer", c, r), Call("end", c, r)>>
           \/ todo' = <<Call("more", c, r), Call("flush", c, r), Call("answer", c, r), Call("end", c, r)>>
    PROVE  PlanOK(todo)'
<1>0. /\ Call("more", c, r) \in Calls /\ Call("flush", c, r) \in Calls
      /\ Call("answer", c, r) \in Calls /\ Call("end", c, r) \in Calls
      /\ r > 0
  BY HttpAssumption DEF Call, Calls
<1>1. CASE todo' = <<Call("answer", c, r), Call("end", c, r)>>
  <2>1. /\ todo' \in Seq(Calls) /\ Len(todo') = 2
        /\ todo'[1] = Call("answer", c, r) /\ todo'[2] = Call("end", c, r)
    BY <1>0, <1>1
  <2>2. \A i \in 1 .. Len(todo') : i = 1 \/ i = 2
    BY <2>1
  <2> QED
    BY <1>0, <2>1, <2>2 DEF PlanOK, Call
<1>2. CASE todo' = <<Call("more", c, r), Call("flush", c, r), Call("answer", c, r), Call("end", c, r)>>
  <2>1. /\ todo' \in Seq(Calls) /\ Len(todo') = 4
        /\ todo'[1] = Call("more", c, r) /\ todo'[2] = Call("flush", c, r)
        /\ todo'[3] = Call("answer", c, r) /\ todo'[4] = Call("end", c, r)
    BY <1>0, <1>2
  <2>2. \A i \in 1 .. Len(todo') : i = 1 \/ i = 2 \/ i = 3 \/ i = 4
    BY <2>1
  <2> QED
    BY <1>0, <2>1, <2>2 DEF PlanOK, Call
<1> QED
  BY <1>1, <1>2

\* the call that is made
LEMMA HeadFacts ==
    ASSUME Inv, todo # << >>
    PROVE  LET c == Head(todo).who
           IN  /\ todo \in Seq(Calls) /\ Head(todo) = todo[1] /\ todo[1] \in Calls
               /\ Len(todo) \in Nat \ {0} /\ 1 \in 1 .. Len(todo)
               /\ c \in Files /\ c <= opened /\ client[c] \in Clients /\ client[c] # NoClient
               /\ client[c].fd \in Fds /\ client[c].buf \in Files /\ client[c].buf <= opened
               /\ client[c].req \in 0 .. MaxRequests
<1>1. todo \in Seq(Calls)
  BY DEF Inv, ThreadOK, PlanOK
<1>2. Head(todo) = todo[1] /\ todo[1] \in Calls /\ Len(todo) \in Nat \ {0} /\ 1 \in 1 .. Len(todo)
  BY <1>1, TailFacts
<1>3. Head(todo).who \in Files /\ Head(todo).who <= opened
  BY <1>2 DEF Inv, ThreadOK, PlanOK, Calls
<1>4. client[Head(todo).who] \in Clients /\ client[Head(todo).who].buf <= opened
  BY <1>3 DEF Inv, ClientOK
<1>5. client[Head(todo).who] # NoClient
  BY <1>4 DEF Clients, NoClient, Files
<1> QED
  BY <1>1, <1>2, <1>3, <1>4, <1>5 DEF Clients

LEMMA PlanTail ==
    ASSUME Inv, todo # << >>, todo' = Tail(todo), opened' = opened
    PROVE  PlanOK(todo)'
<1>1. todo \in Seq(Calls)
  BY DEF Inv, ThreadOK, PlanOK
<1>2. /\ todo' \in Seq(Calls) /\ Len(todo') = Len(todo) - 1 /\ Len(todo) \in Nat
      /\ \A i \in 1 .. Len(todo) - 1 : todo'[i] = todo[i + 1]
  BY <1>1, TailFacts
<1>3. ASSUME NEW i \in 1 .. Len(todo')
      PROVE  /\ todo'[i].who <= opened'
             /\ todo'[i].call \in {"flush", "answer", "end"}
             /\ todo'[i].call = "end" => i = Len(todo')
             /\ todo'[i].call = "answer" => todo'[i].req > 0
  <2>1. i + 1 \in 1 .. Len(todo) /\ i + 1 > 1 /\ todo'[i] = todo[i + 1] /\ i \in Nat
    BY <1>2
  <2>2. PICK j \in 1 .. Len(todo) : j = i + 1
    BY <2>1
  <2>3. /\ todo[j].who <= opened /\ (j > 1 => todo[j].call \in {"flush", "answer", "end"})
        /\ todo[j].call = "end" => j = Len(todo)
        /\ todo[j].call = "answer" => todo[j].req > 0
    BY DEF Inv, ThreadOK, PlanOK
  <2>4. j > 1 /\ todo'[i] = todo[j]
    BY ONLY <2>1, <2>2
  <2>5. PICK m \in Nat : m = Len(todo) /\ Len(todo') = m - 1 /\ i + 1 = j /\ i \in Nat
    BY <1>2, <2>1, <2>2
  <2>6. j = m => i = Len(todo')
    BY ONLY <2>5
  <2> QED
    BY <2>3, <2>4, <2>5, <2>6
<1> QED
  BY <1>2, <1>3 DEF PlanOK

\* a call that leads to another before the rest
LEMMA PlanSwap ==
    ASSUME Inv, todo # << >>, opened' = opened, NEW c \in Files, c <= opened,
           NEW name \in {"start", "process", "close", "error"},
           todo' = <<Call(name, c, 0)>> \o Tail(todo),
           name \in {"start", "process"} => Len(todo) = 1,
           name = "process" => client'[c].req > 0
    PROVE  PlanOK(todo)'
<1> DEFINE x == Call(name, c, 0)
<1>1. todo \in Seq(Calls) /\ x \in Calls
  BY HttpAssumption DEF Inv, ThreadOK, PlanOK, Call, Calls
<1>2. /\ todo' \in Seq(Calls) /\ Len(todo') = Len(todo) /\ todo'[1] = x
      /\ \A i \in 2 .. Len(todo) : todo'[i] = todo[i]
  BY <1>1, SwapFacts
<1>3. ASSUME NEW i \in 2 .. Len(todo')
      PROVE  /\ todo'[i].who <= opened'
             /\ todo'[i].call \in {"flush", "answer", "end"}
             /\ todo'[i].call = "end" => i = Len(todo')
             /\ todo'[i].call = "answer" => todo'[i].req > 0
  <2>1. i \in 1 .. Len(todo) /\ i > 1 /\ todo'[i] = todo[i]
    BY <1>2
  <2> QED
    BY <1>2, <2>1 DEF Inv, ThreadOK, PlanOK
<1>4. \A i \in 1 .. Len(todo') : i = 1 \/ i \in 2 .. Len(todo')
  BY <1>1, <1>2, LenProperties
<1>5. x.call = name /\ x.who = c
  BY DEF Call
<1>6. /\ todo'[1].who <= opened'
      /\ todo'[1].call \notin {"end", "header", "more", "answer"}
      /\ todo'[1].call \in {"process", "start"} => Len(todo') = 1
      /\ todo'[1].call = "process" => client'[todo'[1].who].req > 0
  BY <1>2, <1>5
<1> HIDE DEF x
<1>7. ASSUME NEW i \in 1 .. Len(todo')
      PROVE  /\ todo'[i].who <= opened'
             /\ i > 1 => todo'[i].call \in {"flush", "answer", "end"}
             /\ todo'[i].call = "end" => i = Len(todo')
             /\ todo'[i].call \in {"header", "process", "start"} => Len(todo') = 1
             /\ todo'[i].call = "process" => client'[todo'[i].who].req > 0
             /\ todo'[i].call \in {"more", "answer"} => todo'[i].req > 0
             /\ todo'[i].call # "header"
  <2>1. CASE i = 1
    BY <1>6, <2>1
  <2>2. CASE i \in 2 .. Len(todo')
    BY <1>3, <2>2
  <2> QED
    BY <1>4, <2>1, <2>2
<1> QED
  BY <1>2, <1>7 DEF PlanOK

-----------------------------------------------------------------------------
(* What holds whatever the application does is kept: the peers' actions. *)

LEMMA SameCore ==
    ASSUME Inv, UNCHANGED <<opened, file, watch, onError, client, content, pool, freed, todo,
                            mode, pending, misused>>
    PROVE  (KernelOK /\ ClientOK /\ WatchOK /\ ErrorOK /\ BufferOK /\ ThreadOK)'
<1>1. PlanOK(todo)'
  BY DEF Inv, ThreadOK, PlanOK
<1> QED
  BY <1>1 DEF Inv, KernelOK, ClientOK, WatchOK, ErrorOK, BufferOK, ThreadOK

LEMMA RequestFacts ==
    ASSUME NEW f \in Files, NEW r \in 1 .. MaxRequests, NEW s \in ShapeSet
    PROVE  RequestOf(f, r, s) \in Seq(Pieces)
<1> DEFINE Piece(p) == [part |-> p, file |-> f, req |-> r, shape |-> s]
<1>1. Piece("head") \in Pieces /\ Piece("end") \in Pieces /\ Piece("body") \in Pieces
  BY DEF Pieces
<1>2. RequestOf(f, r, s) = <<Piece("head"), Piece("end")>>
                              \o (IF s.body = "none" THEN << >> ELSE <<Piece("body")>>)
  BY DEF RequestOf
<1> HIDE DEF Piece
<1>3. /\ <<Piece("head"), Piece("end")>> \in Seq(Pieces)
      /\ (IF s.body = "none" THEN << >> ELSE <<Piece("body")>>) \in Seq(Pieces)
  BY <1>1
<1> QED
  BY <1>2, <1>3, ConcatProperties

LEMMA PeerActsInv == ASSUME Inv, PeerActs PROVE Inv'
<1>1. PICK fd \in Fds : file[fd] # 0 /\ \/ gone[file[fd]] = "no" /\ (Ask(file[fd]) \/ Send(file[fd]))
                                        \/ Leave(file[fd])
  BY DEF PeerActs
<1> DEFINE f == file[fd]
<1>2. f \in Files
  BY <1>1, HttpAssumption DEF Inv, KernelOK, Files
<1>3. (KernelOK /\ ClientOK /\ WatchOK /\ ErrorOK /\ BufferOK /\ ThreadOK)'
  BY SameCore DEF PeerActs
<1> HIDE DEF f
<1>4. CASE Ask(f)
  <2>1. PICK s \in Shapes :
           /\ asking' = [asking EXCEPT ![f] = RequestOf(f, asked[f].n + 1, s)]
           /\ asked' = [asked EXCEPT ![f] = [n |-> asked[f].n + 1, keep |-> s.keep]]
    BY <1>4 DEF Ask
  <2>2. asked[f] \in [n : 0 .. MaxRequests, keep : BOOLEAN] /\ asked[f].n < MaxRequests
    BY <1>2, <1>4 DEF Ask, Inv, PeersOK
  <2>3. asked[f].n + 1 \in 1 .. MaxRequests /\ s \in ShapeSet /\ s.keep \in BOOLEAN
    BY <2>2, HttpAssumption DEF ShapeSet
  <2>4. RequestOf(f, asked[f].n + 1, s) \in Seq(Pieces)
    BY <1>2, <2>3, RequestFacts
  <2>5. PeersOK'
    BY <1>2, <1>4, <2>1, <2>3, <2>4 DEF Ask, Inv, PeersOK, Streams
  <2>6. OutOK'
    BY <1>4 DEF Ask, Inv, OutOK
  <2> QED
    BY <1>3, <2>5, <2>6 DEF Inv
<1>5. CASE Send(f)
  <2>1. asking[f] \in Seq(Pieces) /\ asking[f] # << >> /\ wire[f] \in Seq(Pieces)
    BY <1>2, <1>5 DEF Send, Inv, PeersOK, Streams
  <2>2. Head(asking[f]) \in Pieces /\ Tail(asking[f]) \in Seq(Pieces)
    BY <2>1, TailFacts
  <2>3. Append(wire[f], Head(asking[f])) \in Seq(Pieces)
    BY <2>1, <2>2, AppendProperties
  <2>4. PeersOK'
    BY <1>2, <1>5, <2>2, <2>3 DEF Send, Inv, PeersOK, Streams
  <2>5. OutOK'
    BY <1>5 DEF Send, Inv, OutOK
  <2> QED
    BY <1>3, <2>4, <2>5 DEF Inv
<1>6. CASE Leave(f)
  <2>1. << >> \in Seq(Pieces) /\ Len(<< >>) = 0 /\ 0 <= Window
    BY HttpAssumption
  <2>2. PeersOK'
    BY <1>2, <1>6, <2>1 DEF Leave, Inv, PeersOK, Streams
  <2>3. OutOK'
    BY <1>2, <1>6, <2>1 DEF Leave, Inv, OutOK, Streams
  <2> QED
    BY <1>3, <2>2, <2>3 DEF Inv
<1> QED
  BY <1>1, <1>4, <1>5, <1>6 DEF f

LEMMA PeerReadsInv == ASSUME Inv, NEW f \in Files, PeerReads(f) PROVE Inv'
<1>1. out[f] \in Seq(Pieces) /\ out[f] # << >> /\ got[f] \in Seq(Pieces) /\ Len(out[f]) <= Window
  BY DEF PeerReads, Inv, PeersOK, OutOK, Streams
<1>2. /\ Head(out[f]) \in Pieces /\ Tail(out[f]) \in Seq(Pieces)
      /\ Len(Tail(out[f])) = Len(out[f]) - 1 /\ Len(out[f]) \in Nat
  BY <1>1, TailFacts
<1>3. Append(got[f], Head(out[f])) \in Seq(Pieces)
  BY <1>1, <1>2, AppendProperties
<1>4. PeersOK'
  BY <1>3 DEF PeerReads, Inv, PeersOK, Streams
<1>5. OutOK'
  <2>1. Len(Tail(out[f])) <= Window
    BY <1>1, <1>2, HttpAssumption
  <2> QED
    BY <1>2, <2>1 DEF PeerReads, Inv, OutOK, Streams
<1>6. (KernelOK /\ ClientOK /\ WatchOK /\ ErrorOK /\ BufferOK /\ ThreadOK)'
  BY SameCore DEF PeerReads
<1> QED
  BY <1>4, <1>5, <1>6 DEF Inv

-----------------------------------------------------------------------------
(* The events of the loop. *)

LEMMA SamePeers == ASSUME Inv, UNCHANGED <<wire, got, gone, asking, asked>> PROVE PeersOK'
  BY DEF Inv, PeersOK

LEMMA SameOut == ASSUME Inv, UNCHANGED out PROVE OutOK'
  BY DEF Inv, OutOK

LEMMA SameKernel == ASSUME Inv, UNCHANGED <<opened, file>> PROVE KernelOK'
  BY DEF Inv, KernelOK

LEMMA SameClient == ASSUME Inv, UNCHANGED <<opened, client>> PROVE ClientOK'
  BY DEF Inv, ClientOK

LEMMA SameWatch == ASSUME Inv, UNCHANGED <<opened, client, watch>> PROVE WatchOK'
  BY DEF Inv, WatchOK

LEMMA SameError == ASSUME Inv, UNCHANGED <<opened, onError>> PROVE ErrorOK'
  BY DEF Inv, ErrorOK

LEMMA SameBuffer == ASSUME Inv, UNCHANGED <<opened, content, pool, freed>> PROVE BufferOK'
  BY DEF Inv, BufferOK

LEMMA SameThread ==
    ASSUME Inv, PlanOK(todo)', UNCHANGED <<opened, pending>>, misused' \in BOOLEAN,
           mode' \in {"running", "returned", "thrown", "crashed", "killed"}
    PROVE  ThreadOK'
  BY DEF Inv, ThreadOK

\* an open connection whose callback is registered has a Client of its own
LEMMA WatchFacts ==
    ASSUME Inv, NEW fd \in Fds, watch[fd].op # "none"
    PROVE  /\ watch[fd] \in Watches
           /\ watch[fd].who \in Files /\ watch[fd].who <= opened
           /\ client[watch[fd].who] \in Clients /\ client[watch[fd].who].fd = fd
           /\ client[watch[fd].who] # NoClient
<1>1. watch[fd] \in Watches /\ watch[fd].who \in 1 .. opened /\ client[watch[fd].who].fd = fd
  BY DEF Inv, WatchOK
<1>2. watch[fd].who \in Files /\ watch[fd].who <= opened
  BY <1>1, HttpAssumption DEF Inv, KernelOK, Files
<1>3. client[watch[fd].who] \in Clients
  BY <1>2 DEF Inv, ClientOK
<1> QED
  BY <1>1, <1>2, <1>3, HttpAssumption DEF Clients, NoClient, Files

\* the search stops within the buffer or at its end
LEMMA SearchFacts ==
    ASSUME NEW b \in Seq(Pieces), NEW last \in Nat
    PROVE  /\ Search(b, last) \in 0 .. Len(b)
           /\ Search(b, last) # Len(b) => b[Search(b, last) + 1].part = "end"
<1> DEFINE Ends == {i \in last + 1 .. Len(b) : b[i].part = "end"}
<1>1. Len(b) \in Nat
  BY LenProperties
<1>2. CASE Ends = {}
  BY <1>1, <1>2 DEF Search
<1>3. CASE Ends # {}
  <2>1. Ends \subseteq Nat
    BY <1>1
  <2>2. PICK x \in Ends : \A y \in Ends : x <= y
    BY <1>3, <2>1, LeastElement
  <2>3. x - 1 \in last .. Len(b) - 1 /\ x = (x - 1) + 1 /\ b[x].part = "end"
    BY <1>1, <2>2
  <2>4. \A i \in last + 1 .. x - 1 : b[i].part # "end"
    <3> SUFFICES ASSUME NEW i \in last + 1 .. x - 1, b[i].part = "end" PROVE FALSE
      OBVIOUS
    <3>1. i \in Ends
      BY <1>1, <2>3
    <3> QED
      BY <2>2, <2>3, <3>1
  <2>5. \E p \in last .. Len(b) - 1 :
           b[p + 1].part = "end" /\ \A i \in last + 1 .. p : b[i].part # "end"
    BY <2>3, <2>4
  <2>6. Search(b, last) \in last .. Len(b) - 1 /\ b[Search(b, last) + 1].part = "end"
    BY <1>3, <2>5 DEF Search
  <2> QED
    BY <1>1, <2>6
<1> QED
  BY <1>2, <1>3

LEMMA AcceptInv == ASSUME Inv, NEW fd \in Fds, Accept(fd) PROVE Inv'
<1> DEFINE c == opened + 1
           b == IF pool = << >> THEN c ELSE pool[Len(pool)]
<1>1. /\ opened \in Nat /\ MaxFiles \in Nat /\ c \in Files /\ c > opened /\ c \in 0 .. MaxFiles
      /\ opened' = c /\ \A x \in Nat : x <= opened => x <= c
  BY HttpAssumption DEF Accept, Inv, KernelOK, Files
<1>2. pool \in Seq(Files) /\ Len(pool) \in Nat /\ \A i \in DOMAIN pool : pool[i] \in Files /\ pool[i] <= opened
  BY ElementOfSeq, LenProperties DEF Inv, BufferOK
<1>3. pool # << >> => Len(pool) \in DOMAIN pool
  BY <1>2, EmptySeq, LenProperties
<1>4. b \in Files /\ b <= c
  BY <1>1, <1>2, <1>3 DEF Files
<1> HIDE DEF c, b
<1>5. /\ file' = [file EXCEPT ![fd] = c]
      /\ onError' = [onError EXCEPT ![fd] = c]
      /\ watch' = [watch EXCEPT ![fd] = [op |-> "header", who |-> c, last |-> 0]]
      /\ client' = [client EXCEPT ![c] = [fd |-> fd, buf |-> b, keep |-> FALSE,
                                         body |-> "none", req |-> 0]]
      /\ content' = [content EXCEPT ![b] = << >>]
      /\ pool' = Popped(pool)
      /\ todo' = << >>
      /\ UNCHANGED <<wire, out, got, gone, asking, asked, freed, mode, pending, misused>>
  BY DEF Accept, Idle, SetError, c, b
<1>6. PeersOK' /\ OutOK'
  BY <1>5, SamePeers, SameOut
<1>7. KernelOK'
  BY <1>1, <1>5 DEF Inv, KernelOK
<1>8. [fd |-> fd, buf |-> b, keep |-> FALSE,
                                         body |-> "none", req |-> 0] \in Clients
  BY <1>4, HttpAssumption DEF Clients, Bodies
<1>9. ClientOK'
  <2>1. client' \in [Files -> Clients \cup {NoClient}]
    BY <1>5, <1>8 DEF Inv, ClientOK
  <2>2. ASSUME NEW x \in Files
        PROVE  /\ x <= opened' => client'[x] \in Clients /\ client'[x].buf <= opened'
               /\ x > opened' => client'[x] = NoClient
    <3>1. CASE x = c
      <4>1. client'[x] = [fd |-> fd, buf |-> b, keep |-> FALSE,
                                         body |-> "none", req |-> 0]
        BY <1>1, <1>5, <3>1 DEF Inv, ClientOK
      <4> QED
        BY <1>1, <1>4, <1>8, <3>1, <4>1
    <3>2. CASE x # c
      <4>1. client'[x] = client[x]
        BY <1>1, <1>5, <3>2 DEF Inv, ClientOK
      <4>2. x <= opened' => x <= opened
        BY <1>1, <3>2 DEF c, Files
      <4>3. x <= opened => client[x] \in Clients /\ client[x].buf <= opened
        BY DEF Inv, ClientOK
      <4>4. client[x] \in Clients => client[x].buf \in Nat
        BY DEF Clients, Files
      <4>5. x > opened' => x > opened
        BY <1>1 DEF c, Files
      <4>6. x > opened => client[x] = NoClient
        BY DEF Inv, ClientOK
      <4> QED
        BY <1>1, <4>1, <4>2, <4>3, <4>4, <4>5, <4>6
    <3> QED
      BY <3>1, <3>2
  <2> QED
    BY <2>1, <2>2 DEF ClientOK
<1>10. WatchOK'
  <2>1. watch' \in [Fds -> Watches]
    BY <1>1, <1>5 DEF Inv, WatchOK, Watches
  <2>2. ASSUME NEW g \in Fds, watch'[g].op # "none"
        PROVE  /\ watch'[g].who \in 1 .. opened' /\ client'[watch'[g].who].fd = g
               /\ watch'[g].op = "body" => client'[watch'[g].who].req > 0
    <3>1. CASE g = fd
      <4>1. watch'[g] = [op |-> "header", who |-> c, last |-> 0] /\ client'[c].fd = fd
        BY <1>1, <1>5, <3>1 DEF Inv, WatchOK, ClientOK
      <4> QED
        BY <1>1, <3>1, <4>1 DEF Files
    <3>2. CASE g # fd
      <4>1. watch'[g] = watch[g]
        BY <1>5, <3>2 DEF Inv, WatchOK
      <4>2. /\ watch[g].who \in 1 .. opened /\ client[watch[g].who].fd = g
            /\ watch[g].op = "body" => client[watch[g].who].req > 0
        BY <2>2, <4>1 DEF Inv, WatchOK
      <4>3. watch[g].who \in Files /\ watch[g].who # c /\ watch[g].who \in 1 .. opened'
        BY <1>1, <4>2 DEF Files
      <4>4. client'[watch[g].who] = client[watch[g].who]
        BY <1>5, <4>3 DEF Inv, ClientOK
      <4> QED
        BY <4>1, <4>2, <4>3, <4>4
    <3> QED
      BY <3>1, <3>2
  <2> QED
    BY <2>1, <2>2 DEF WatchOK
<1>11. ErrorOK'
  BY <1>1, <1>5 DEF Inv, ErrorOK
<1>12. BufferOK'
  <2>1. content' \in Streams
    BY <1>4, <1>5, EmptySeq DEF Inv, BufferOK, Streams
  <2>2. pool' \in Seq(Files) /\ \A i \in DOMAIN pool' : pool'[i] <= opened'
    <3>1. CASE pool = << >>
      BY <1>1, <1>2, <1>5, <3>1 DEF Popped
    <3>2. CASE pool # << >>
      <4>1. pool' = SubSeq(pool, 1, Len(pool) - 1)
        BY <1>5, <3>2 DEF Popped
      <4>3. /\ pool' \in Seq(Files) /\ Len(pool') = Len(pool) - 1
            /\ \A i \in 1 .. Len(pool) - 1 : pool'[i] = pool[i]
        BY <1>2, <3>2, <4>1, FrontFacts
      <4>4. \A i \in DOMAIN pool' : i \in 1 .. Len(pool) - 1 /\ i \in DOMAIN pool
        BY <1>2, <4>3, LenProperties
      <4>5. \A i \in DOMAIN pool' : pool'[i] \in Files /\ pool'[i] <= opened
        BY <1>2, <4>3, <4>4
      <4> QED
        BY <1>1, <4>3, <4>5 DEF Files
    <3> QED
      BY <3>1, <3>2
  <2>3. freed' \subseteq Files /\ \A x \in freed' : x <= opened'
    BY <1>1, <1>5 DEF Inv, BufferOK, Files
  <2> QED
    BY <2>1, <2>2, <2>3 DEF BufferOK
<1>13. ThreadOK'
  <2>1. PlanOK(todo)'
    BY <1>5, PlanEmpty
  <2>2. \A x \in Files, r \in 1 .. MaxRequests : pending'[x][r] > 0 => x <= opened'
    BY <1>1, <1>5 DEF Inv, ThreadOK, Files
  <2> QED
    BY <1>5, <2>1, <2>2 DEF Inv, ThreadOK
<1> QED
  BY <1>6, <1>7, <1>9, <1>10, <1>11, <1>12, <1>13 DEF Inv

LEMMA QuietInv == ASSUME Inv, AcceptFails \/ LoopEnds PROVE Inv'
<1>1. /\ todo' = << >>
      /\ UNCHANGED <<opened, file, wire, out, got, gone, asking, asked, watch, onError, client,
                     content, pool, freed, pending, misused>>
      /\ mode' \in {"running", "returned"}
  BY DEF AcceptFails, LoopEnds, Idle, peers
<1>2. ThreadOK'
  BY <1>1, PlanEmpty, SameThread DEF Inv, ThreadOK
<1> QED
  BY <1>1, <1>2, SamePeers, SameOut, SameKernel, SameClient, SameWatch, SameError, SameBuffer DEF Inv

LEMMA InputInv == ASSUME Inv, NEW fd \in Fds, Input(fd) PROVE Inv'
<1> DEFINE f == file[fd]
           c == watch[fd].who
           b == client[c].buf
<1>1. watch[fd].op \in {"header", "body"} /\ watch[fd].op # "none" /\ file[fd] # 0
  BY DEF Input
<1>2. /\ f \in Files /\ c \in Files /\ b \in Files /\ c <= opened
      /\ client[c].fd = fd /\ watch[fd] \in Watches
  <2>1. f \in Files
    BY <1>1, HttpAssumption DEF Inv, KernelOK, Files
  <2>2. /\ watch[fd] \in Watches /\ c \in Files /\ c <= opened
        /\ client[c] \in Clients /\ client[c].fd = fd
    BY <1>1, WatchFacts
  <2> QED
    BY <2>1, <2>2 DEF Clients
<1>3. UNCHANGED <<listening, opened, file, out, got, gone, asking, asked, onError, client,
                  pool, freed, mode, pending, misused>>
  BY DEF Input
<1>4. OutOK' /\ KernelOK' /\ ClientOK' /\ ErrorOK'
  BY <1>3, SameOut, SameKernel, SameClient, SameError
<1>5. \/ \E n \in 1 .. Len(wire[f]) :
            LET new == content[b] \o SubSeq(wire[f], 1, n)
                last == IF watch[fd].op = "header" THEN Search(new, watch[fd].last) ELSE 0
            IN  /\ wire' = [wire EXCEPT ![f] = Rest(@, n)]
                /\ content' = [content EXCEPT ![b] = new]
                /\ watch' = [watch EXCEPT ![fd].last = last]
                /\ todo' = IF last = Len(new) THEN << >>
                           ELSE IF watch[fd].op = "header" THEN <<Call("header", c, 0)>>
                           ELSE <<Call("process", c, 0)>>
      \/ /\ todo' = <<Call("error", c, 0)>>
         /\ UNCHANGED <<wire, content, watch>>
  BY DEF Input
<1> HIDE DEF f, c, b
<1>6. CASE todo' = <<Call("error", c, 0)>> /\ UNCHANGED <<wire, content, watch>>
  <2>1. PlanOK(todo)'
    BY <1>2, <1>3, <1>6, PlanOne, HttpAssumption DEF Rests
  <2>2. PeersOK' /\ WatchOK' /\ BufferOK'
    BY <1>3, <1>6, SamePeers, SameWatch, SameBuffer
  <2>3. ThreadOK'
    BY <1>3, <2>1, SameThread DEF Inv, ThreadOK
  <2> QED
    BY <1>4, <2>2, <2>3 DEF Inv
<1>7. ASSUME NEW n \in 1 .. Len(wire[f]), NEW new, new = content[b] \o SubSeq(wire[f], 1, n),
             NEW last, last = IF watch[fd].op = "header" THEN Search(new, watch[fd].last) ELSE 0,
             wire' = [wire EXCEPT ![f] = Rest(@, n)],
             content' = [content EXCEPT ![b] = new],
             watch' = [watch EXCEPT ![fd].last = last],
             todo' = IF last = Len(new) THEN << >>
                     ELSE IF watch[fd].op = "header" THEN <<Call("header", c, 0)>>
                     ELSE <<Call("process", c, 0)>>
      PROVE Inv'
  <2>1. /\ wire \in Streams /\ content \in Streams
        /\ wire[f] \in Seq(Pieces) /\ content[b] \in Seq(Pieces)
    BY <1>2 DEF Inv, PeersOK, BufferOK, Streams
  <2>2. n \in 0 .. Len(wire[f]) /\ Len(wire[f]) \in Nat
    BY <2>1, LenProperties
  <2>3. Rest(wire[f], n) \in Seq(Pieces) /\ SubSeq(wire[f], 1, n) \in Seq(Pieces)
    BY <2>1, <2>2, TakeFacts
  <2>4. new \in Seq(Pieces) /\ Len(new) \in Nat
    BY <1>7, <2>1, <2>3, ConcatProperties, LenProperties
  <2>5. last \in 0 .. Len(new)
    <3>1. watch[fd].last \in Nat
      BY <1>2 DEF Watches
    <3>2. Search(new, watch[fd].last) \in 0 .. Len(new)
      BY <2>4, <3>1, SearchFacts
    <3> QED
      BY <1>7, <2>4, <3>2
  <2>6. PeersOK'
    BY <1>2, <1>3, <1>7, <2>3 DEF Inv, PeersOK, Streams
  <2>7. watch'[fd] = [watch[fd] EXCEPT !.last = last] /\ \A g \in Fds \ {fd} : watch'[g] = watch[g]
    BY <1>7 DEF Inv, WatchOK
  <2>8. /\ watch'[fd] \in Watches /\ watch'[fd].op = watch[fd].op /\ watch'[fd].who = watch[fd].who
        /\ watch'[fd].last = last
    BY <1>2, <2>4, <2>5, <2>7 DEF Watches
  <2>9. WatchOK'
    <3>1. watch' \in [Fds -> Watches]
      BY <1>7, <2>7, <2>8 DEF Inv, WatchOK
    <3>2. \A g \in Fds : watch'[g].op = watch[g].op /\ watch'[g].who = watch[g].who
      BY <2>7, <2>8
    <3> QED
      BY <1>3, <3>1, <3>2 DEF Inv, WatchOK
  <2>10. BufferOK'
    BY <1>2, <1>3, <1>7, <2>4 DEF Inv, BufferOK, Streams
  <2>11. PlanOK(todo)'
    <3>1. CASE todo' = << >>
      BY <3>1, PlanEmpty
    <3>2. CASE todo' = <<Call("header", c, 0)>> /\ last # Len(new)
      <4>1. watch'[client'[c].fd].last < Len(content'[client'[c].buf])
        BY <1>2, <1>3, <1>7, <2>1, <2>4, <2>5, <2>8, <3>2 DEF Streams, b
      <4> QED
        BY <1>2, <1>3, <3>2, <4>1, PlanOne, HttpAssumption
    <3>3. CASE todo' = <<Call("process", c, 0)>> /\ watch[fd].op = "body"
      <4>1. client'[c].req > 0
        BY <1>3, <3>3 DEF Inv, WatchOK, c
      <4> QED
        BY <1>2, <1>3, <3>3, <4>1, PlanOne, HttpAssumption
    <3> QED
      BY <1>1, <1>7, <3>1, <3>2, <3>3
  <2>12. ThreadOK'
    BY <1>3, <2>11, SameThread DEF Inv, ThreadOK
  <2> QED
    BY <1>4, <2>6, <2>9, <2>10, <2>12 DEF Inv
<1> QED
  BY <1>5, <1>6, <1>7

LEMMA OutputInv == ASSUME Inv, NEW fd \in Fds, Output(fd) PROVE Inv'
<1>1. /\ watch[fd].op \in {"flush", "end"} /\ watch[fd].op # "none"
      /\ todo' = <<Call(watch[fd].op, watch[fd].who, 0)>>
      /\ UNCHANGED <<peers, file, out, watch, onError, client, content, pool, freed, mode,
                     pending, misused>>
  BY DEF Output
<1>2. PlanOK(todo)'
  BY <1>1, WatchFacts, PlanOne, HttpAssumption DEF peers, Rests
<1>3. ThreadOK'
  BY <1>1, <1>2, SameThread DEF Inv, ThreadOK, peers
<1> QED
  BY <1>1, <1>3, SamePeers, SameOut, SameKernel, SameClient, SameWatch, SameError, SameBuffer
  DEF Inv, peers

LEMMA ErrorEventInv == ASSUME Inv, NEW fd \in Fds, ErrorEvent(fd) PROVE Inv'
<1>1. /\ \/ onError[fd] # 0 /\ todo' = <<Call("close", onError[fd], 0)>>
         \/ todo' = << >>
      /\ mode' \in {mode, "crashed"}
      /\ UNCHANGED <<peers, file, out, watch, onError, client, content, pool, freed, pending, misused>>
  BY DEF ErrorEvent, Idle
<1>2. onError[fd] # 0 => onError[fd] \in Files /\ onError[fd] <= opened
  BY HttpAssumption DEF Inv, ErrorOK, Files
<1>3. PlanOK(todo)'
  BY <1>1, <1>2, PlanOne, PlanEmpty, HttpAssumption DEF peers, Rests
<1>4. ThreadOK'
  BY <1>1, <1>3, SameThread DEF Inv, ThreadOK, peers
<1> QED
  BY <1>1, <1>4, SamePeers, SameOut, SameKernel, SameClient, SameWatch, SameError, SameBuffer
  DEF Inv, peers

LEMMA LateEventInv == ASSUME Inv, NEW fd \in Fds, LateEvent(fd) PROVE Inv'
<1>1. /\ todo = << >> /\ todo' = << >> /\ mode' \in {mode, "crashed"}
      /\ UNCHANGED <<peers, file, out, watch, onError, client, content, pool, freed, pending, misused>>
  BY DEF LateEvent, Idle
<1>2. PlanOK(todo)'
  BY <1>1, PlanEmpty
<1>3. ThreadOK'
  BY <1>1, <1>2, SameThread DEF Inv, ThreadOK, peers
<1> QED
  BY <1>1, <1>3, SamePeers, SameOut, SameKernel, SameClient, SameWatch, SameError, SameBuffer
  DEF Inv, peers

LEMMA LaterInv == ASSUME Inv, Later PROVE Inv'
<1>1. /\ \E c \in Files, r \in 1 .. MaxRequests :
            /\ pending[c][r] > 0
            /\ pending' = [pending EXCEPT ![c][r] = @ - 1]
            /\ todo' = <<Call("answer", c, r), Call("end", c, r)>>
      /\ UNCHANGED <<peers, file, out, watch, onError, client, content, pool, freed, mode, misused>>
  BY DEF Later
<1>2. PICK c \in Files, r \in 1 .. MaxRequests :
            /\ pending[c][r] > 0
            /\ pending' = [pending EXCEPT ![c][r] = @ - 1]
            /\ todo' = <<Call("answer", c, r), Call("end", c, r)>>
  BY <1>1
<1>3. c <= opened /\ opened' = opened /\ pending[c] \in [1 .. MaxRequests -> Nat] /\ pending[c][r] \in Nat
  BY <1>1, <1>2 DEF Inv, ThreadOK, peers
<1>4. PlanOK(todo)'
  BY <1>2, <1>3, PlanAnswer
<1>5. /\ pending' \in [Files -> [1 .. MaxRequests -> Nat]]
      /\ \A x \in Files, y \in 1 .. MaxRequests : pending'[x][y] > 0 => x <= opened'
  <2>1. pending[c][r] - 1 \in Nat
    BY <1>2, <1>3
  <2>2. pending' = [pending EXCEPT ![c] = [pending[c] EXCEPT ![r] = pending[c][r] - 1]]
    BY <1>2
  <2>3. [pending[c] EXCEPT ![r] = pending[c][r] - 1] \in [1 .. MaxRequests -> Nat]
    BY <1>3, <2>1
  <2>4. ASSUME NEW x \in Files, NEW y \in 1 .. MaxRequests, pending'[x][y] > 0 PROVE x <= opened'
    <3>1. CASE x = c
      BY <1>3, <3>1
    <3>2. CASE x # c
      BY <1>3, <2>2, <2>4, <3>2 DEF Inv, ThreadOK
    <3> QED
      BY <3>1, <3>2
  <2> QED
    BY <2>2, <2>3, <2>4 DEF Inv, ThreadOK
<1>6. ThreadOK'
  BY <1>1, <1>4, <1>5 DEF Inv, ThreadOK
<1> QED
  BY <1>1, <1>6, SamePeers, SameOut, SameKernel, SameClient, SameWatch, SameError, SameBuffer
  DEF Inv, peers

-----------------------------------------------------------------------------
(* What a callback goes on to do. *)

\* what the library does for a request comes alone
LEMMA AloneFacts ==
    ASSUME Inv, todo # << >>, Head(todo).call \in {"header", "process", "start"}
    PROVE  Len(todo) = 1 /\ Tail(todo) = << >>
<1>1. todo \in Seq(Calls) /\ Head(todo) = todo[1] /\ 1 \in 1 .. Len(todo)
  BY HeadFacts
<1>2. Len(todo) = 1
  BY <1>1 DEF Inv, ThreadOK, PlanOK
<1> QED
  BY <1>1, <1>2, TailFacts

\* a client's descriptor gets another callback of that client
LEMMA RewatchFacts ==
    ASSUME Inv, UNCHANGED <<opened, client>>, NEW c \in Files, c <= opened, client[c].fd \in Fds,
           NEW op \in {"header", "empty", "flush", "end"},
           watch' = [watch EXCEPT ![client[c].fd] = [op |-> op, who |-> c, last |-> 0]]
    PROVE  WatchOK'
<1> DEFINE w == [op |-> op, who |-> c, last |-> 0]
<1>1. w \in Watches /\ w.op # "body" /\ w.who = c /\ c \in 1 .. opened
  BY DEF Watches, Files
<1> HIDE DEF w
<1>2. watch' = [watch EXCEPT ![client[c].fd] = w]
  BY DEF w
<1> QED
  BY <1>1, <1>2 DEF Inv, WatchOK

LEMMA RenewedFacts ==
    ASSUME NEW x \in Clients, NEW k \in BOOLEAN, NEW y \in Bodies, NEW q \in 1 .. MaxRequests
    PROVE  [x EXCEPT !.keep = k, !.body = y, !.req = q] \in Clients
<1>1. q \in 0 .. MaxRequests
  BY HttpAssumption
<1> QED
  BY <1>1 DEF Clients

LEMMA HeaderInv == ASSUME Inv, Header PROVE Inv'
<1> DEFINE c == Head(todo).who
           fd == client[c].fd
           b == client[c].buf
           n == watch[fd].last + 1
           e == content[b][n]
<1>1. /\ todo # << >> /\ Head(todo).call = "header" /\ mode = "running"
      /\ content' = [content EXCEPT ![b] = Rest(@, n)]
      /\ client' = [client EXCEPT ![c].keep = e.shape.keep, ![c].body = e.shape.body,
                                  ![c].req = e.req]
      /\ \/ /\ watch' = [watch EXCEPT ![fd] = [op |-> "body", who |-> c, last |-> 0]]
            /\ todo' = Tail(todo) /\ mode' = mode
         \/ /\ \/ todo' = <<Call("process", c, 0)>> \o Tail(todo)
               \/ todo' = <<Call("close", c, 0)>> \o Tail(todo)
            /\ UNCHANGED watch /\ mode' = mode
         \/ /\ UNCHANGED <<watch, todo>> /\ mode' = "thrown"
      /\ UNCHANGED <<peers, file, out, onError, pool, freed, pending, misused>>
  BY DEF Header, Doing
<1>2. /\ todo \in Seq(Calls) /\ Head(todo) = todo[1] /\ 1 \in 1 .. Len(todo)
      /\ c \in Files /\ c <= opened /\ client[c] \in Clients /\ fd \in Fds /\ b \in Files /\ b <= opened
  BY <1>1, HeadFacts
<1>3. Len(todo) = 1
  BY <1>1, AloneFacts
<1>4. watch[fd].last \in Nat /\ content[b] \in Seq(Pieces) /\ content \in Streams
  BY <1>2 DEF Inv, WatchOK, Watches, BufferOK, Streams
<1>5. watch[fd].last < Len(content[b])
  BY <1>1, <1>2 DEF Inv, ThreadOK, PlanOK
<1>6. n \in 1 .. Len(content[b]) /\ n \in 0 .. Len(content[b])
  BY <1>4, <1>5, LenProperties
<1>7. e \in Pieces /\ Rest(content[b], n) \in Seq(Pieces)
  BY <1>4, <1>6, ElementOfSeq, TakeFacts
<1>8. e.shape.keep \in BOOLEAN /\ e.shape.body \in Bodies /\ e.req \in 1 .. MaxRequests
  BY <1>7 DEF Pieces, ShapeSet
<1> HIDE DEF c, fd, b, n, e
<1> DEFINE d == [client[c] EXCEPT !.keep = e.shape.keep, !.body = e.shape.body, !.req = e.req]
<1>9. /\ client'[c] = d
      /\ \A x \in Files \ {c} : client'[x] = client[x]
      /\ client' \in [Files -> Clients \cup {NoClient}]
  <2>1. client \in [Files -> Clients \cup {NoClient}]
    BY DEF Inv, ClientOK
  <2>2. client' = [client EXCEPT ![c] = d]
    BY <1>1, <1>2, <2>1
  <2>3. d \in Clients
    BY <1>2, <1>8, RenewedFacts
  <2> HIDE DEF d
  <2> QED
    BY <1>2, <2>1, <2>2, <2>3
<1>10. /\ client'[c] \in Clients /\ client'[c].fd = fd /\ client'[c].buf = b
       /\ client'[c].req = e.req /\ client'[c].req > 0
  <2>1. d \in Clients
    BY <1>2, <1>8, RenewedFacts
  <2>2. d.fd = client[c].fd /\ d.buf = client[c].buf /\ d.req = e.req
    BY <1>2 DEF Clients
  <2>3. e.req > 0
    BY <1>8, HttpAssumption
  <2> HIDE DEF d
  <2> QED
    BY <1>9, <2>1, <2>2, <2>3 DEF fd, b
<1> HIDE DEF d
<1>11. opened' = opened
  BY <1>1 DEF peers
<1>12. ClientOK'
  <2>1. \A x \in Files : /\ x <= opened' => client'[x] \in Clients /\ client'[x].buf <= opened'
                         /\ x > opened' => client'[x] = NoClient
    <3> SUFFICES ASSUME NEW x \in Files
                 PROVE  /\ x <= opened => client'[x] \in Clients /\ client'[x].buf <= opened
                        /\ x > opened => client'[x] = NoClient
      BY <1>11
    <3>1. CASE x = c
      BY <1>2, <1>10, <3>1, HttpAssumption DEF Files, Inv, KernelOK
    <3>2. CASE x # c
      BY <1>9, <3>2 DEF Inv, ClientOK
    <3> QED
      BY <3>1, <3>2
  <2> QED
    BY <1>9, <2>1 DEF ClientOK
<1>13. WatchOK'
  <2>1. CASE UNCHANGED watch
    <3>1. ASSUME NEW g \in Fds, watch[g].op # "none"
          PROVE  /\ watch[g].who \in 1 .. opened /\ client'[watch[g].who].fd = g
                 /\ watch[g].op = "body" => client'[watch[g].who].req > 0
      <4>1. /\ watch[g].who \in 1 .. opened /\ client[watch[g].who].fd = g
            /\ watch[g].op = "body" => client[watch[g].who].req > 0
        BY <3>1 DEF Inv, WatchOK
      <4>2. watch[g].who \in Files
        BY <3>1, WatchFacts
      <4> QED
        BY <1>9, <1>10, <4>1, <4>2 DEF fd
    <3> QED
      BY <1>11, <2>1, <3>1 DEF Inv, WatchOK
  <2>2. CASE watch' = [watch EXCEPT ![fd] = [op |-> "body", who |-> c, last |-> 0]]
    <3>1. [op |-> "body", who |-> c, last |-> 0] \in Watches
      BY <1>2 DEF Watches, Files
    <3>2. /\ watch' \in [Fds -> Watches]
          /\ watch'[fd] = [op |-> "body", who |-> c, last |-> 0]
          /\ \A g \in Fds \ {fd} : watch'[g] = watch[g]
      BY <1>2, <2>2, <3>1 DEF Inv, WatchOK
    <3>3. ASSUME NEW g \in Fds, watch'[g].op # "none"
          PROVE  /\ watch'[g].who \in 1 .. opened /\ client'[watch'[g].who].fd = g
                 /\ watch'[g].op = "body" => client'[watch'[g].who].req > 0
      <4>1. CASE g = fd
        BY <1>2, <1>10, <3>2, <4>1 DEF Files
      <4>2. CASE g # fd
        <5>1. /\ watch[g].who \in 1 .. opened /\ client[watch[g].who].fd = g
              /\ watch[g].op = "body" => client[watch[g].who].req > 0
              /\ watch[g].who \in Files /\ watch'[g] = watch[g]
          BY <3>2, <3>3, <4>2, WatchFacts DEF Inv, WatchOK
        <5> QED
          BY <1>9, <1>10, <5>1 DEF fd
      <4> QED
        BY <4>1, <4>2
    <3> QED
      BY <1>11, <3>2, <3>3 DEF WatchOK
  <2> QED
    BY <1>1, <2>1, <2>2
<1>14. BufferOK'
  BY <1>1, <1>2, <1>4, <1>7, <1>11 DEF Inv, BufferOK, Streams
<1>15. ThreadOK'
  <2>1. PlanOK(todo)'
    <3>1. CASE todo' = Tail(todo)
      BY <1>1, <1>11, <3>1, PlanTail
    <3>2. CASE \/ todo' = <<Call("process", c, 0)>> \o Tail(todo)
               \/ todo' = <<Call("close", c, 0)>> \o Tail(todo)
      BY <1>1, <1>2, <1>3, <1>10, <1>11, <3>2, PlanSwap
    <3>3. CASE UNCHANGED todo /\ mode' = "thrown"
      <4>1. \A i \in 1 .. Len(todo) : i = 1
        BY <1>3
      <4>2. todo[1].call = "header"
        BY <1>1, <1>2
      <4> QED
        BY <1>2, <1>3, <1>11, <3>3, <4>1, <4>2 DEF PlanOK, Inv, ThreadOK
    <3> QED
      BY <1>1, <3>1, <3>2, <3>3
  <2> QED
    BY <1>1, <1>11, <2>1, SameThread DEF Inv, ThreadOK
<1>16. PeersOK' /\ OutOK' /\ KernelOK' /\ ErrorOK'
  BY <1>1, <1>11, SamePeers, SameOut, SameKernel, SameError DEF peers
<1> QED
  BY <1>12, <1>13, <1>14, <1>15, <1>16 DEF Inv

LEMMA ProcessInv == ASSUME Inv, Process PROVE Inv'
<1> DEFINE c == Head(todo).who
           r == client[c].req
           b == client[c].buf
<1>1. /\ todo # << >> /\ Head(todo).call = "process"
      /\ content' = [content EXCEPT ![b] = << >>]
      /\ \/ /\ todo' = <<Call("answer", c, r), Call("end", c, r)>> \o Tail(todo)
            /\ UNCHANGED pending
         \/ /\ todo' = <<Call("more", c, r), Call("flush", c, r),
                         Call("answer", c, r), Call("end", c, r)>> \o Tail(todo)
            /\ UNCHANGED pending
         \/ /\ pending' = [pending EXCEPT ![c][r] = @ + 1]
            /\ todo' = Tail(todo)
      /\ UNCHANGED <<peers, file, out, watch, onError, client, pool, freed, mode, misused>>
  BY DEF Process, Doing, Clearing
<1>2. /\ todo \in Seq(Calls) /\ Head(todo) = todo[1] /\ 1 \in 1 .. Len(todo)
      /\ c \in Files /\ c <= opened /\ b \in Files /\ r \in 0 .. MaxRequests
  BY <1>1, HeadFacts
<1>3. Tail(todo) = << >>
  BY <1>1, AloneFacts
<1>4. r \in 1 .. MaxRequests
  <2>1. r > 0
    BY <1>1, <1>2 DEF Inv, ThreadOK, PlanOK
  <2> QED
    BY <1>2, <2>1, HttpAssumption
<1> HIDE DEF c, r, b
<1>5. opened' = opened
  BY <1>1 DEF peers
<1>6. BufferOK'
  BY <1>1, <1>2, <1>5, EmptySeq DEF Inv, BufferOK, Streams
<1>7. PlanOK(todo)'
  <2>1. /\ <<Call("answer", c, r), Call("end", c, r)>> \o << >> = <<Call("answer", c, r), Call("end", c, r)>>
        /\ <<Call("more", c, r), Call("flush", c, r), Call("answer", c, r), Call("end", c, r)>> \o << >>
              = <<Call("more", c, r), Call("flush", c, r), Call("answer", c, r), Call("end", c, r)>>
    OBVIOUS
  <2> QED
    BY <1>1, <1>2, <1>3, <1>4, <1>5, <2>1, PlanAnswer, PlanEmpty
<1>8. /\ pending' \in [Files -> [1 .. MaxRequests -> Nat]]
      /\ \A x \in Files, y \in 1 .. MaxRequests : pending'[x][y] > 0 => x <= opened'
  <2>1. CASE UNCHANGED pending
    BY <1>5, <2>1 DEF Inv, ThreadOK
  <2>2. CASE pending' = [pending EXCEPT ![c][r] = @ + 1]
    <3>0. pending \in [Files -> [1 .. MaxRequests -> Nat]]
      BY DEF Inv, ThreadOK
    <3>1. pending[c] \in [1 .. MaxRequests -> Nat] /\ pending[c][r] + 1 \in Nat
      <4>1. pending[c] \in [1 .. MaxRequests -> Nat]
        BY <1>2, <3>0
      <4>2. pending[c][r] \in Nat
        BY <1>4, <4>1
      <4> QED
        BY <4>1, <4>2
    <3>2. pending' = [pending EXCEPT ![c] = [pending[c] EXCEPT ![r] = pending[c][r] + 1]]
      BY <2>2
    <3>3. [pending[c] EXCEPT ![r] = pending[c][r] + 1] \in [1 .. MaxRequests -> Nat]
      BY <3>1
    <3>4. ASSUME NEW x \in Files, NEW y \in 1 .. MaxRequests, pending'[x][y] > 0 PROVE x <= opened'
      <4>1. CASE x = c
        BY <1>2, <1>5, <4>1
      <4>2. CASE x # c
        BY <1>5, <3>2, <3>4, <4>2 DEF Inv, ThreadOK
      <4> QED
        BY <4>1, <4>2
    <3> QED
      BY <3>2, <3>3, <3>4 DEF Inv, ThreadOK
  <2> QED
    BY <1>1, <2>1, <2>2
<1>9. ThreadOK'
  BY <1>1, <1>7, <1>8 DEF Inv, ThreadOK
<1> QED
  BY <1>1, <1>5, <1>6, <1>9, SamePeers, SameOut, SameKernel, SameClient, SameWatch, SameError
  DEF Inv, peers

LEMMA WriteInv == ASSUME Inv, NEW part \in {"more", "answer"}, Write(part) PROVE Inv'
<1> DEFINE c == Head(todo).who
           b == client[c].buf
           p == [part |-> part, file |-> c, req |-> Head(todo).req, shape |-> NoShape]
<1>1. /\ todo # << >> /\ Head(todo).call = part
      /\ \/ mode' = "crashed" /\ UNCHANGED content
         \/ content' = [content EXCEPT ![b] = Append(@, p)] /\ UNCHANGED mode
      /\ misused' = (misused \/ ~Alive(c))
      /\ todo' = Tail(todo)
      /\ UNCHANGED <<peers, file, out, watch, onError, client, pool, freed, pending>>
  BY DEF Write, Doing, Judge
<1>2. /\ todo \in Seq(Calls) /\ Head(todo) = todo[1] /\ 1 \in 1 .. Len(todo) /\ todo[1] \in Calls
      /\ c \in Files /\ c <= opened /\ b \in Files
  BY <1>1, HeadFacts
<1>3. Head(todo).req \in 1 .. MaxRequests
  <2>1. todo[1].req > 0 /\ todo[1].req \in 0 .. MaxRequests
    BY <1>1, <1>2 DEF Inv, ThreadOK, PlanOK, Calls
  <2> QED
    BY <1>2, <2>1, HttpAssumption
<1>4. p \in Pieces
  BY <1>2, <1>3 DEF Pieces, Answers, NoShape, ShapeSet, Bodies
<1> HIDE DEF c, b, p
<1>5. opened' = opened
  BY <1>1 DEF peers
<1>6. BufferOK'
  <2>1. content[b] \in Seq(Pieces)
    BY <1>2 DEF Inv, BufferOK, Streams
  <2>2. Append(content[b], p) \in Seq(Pieces)
    BY <1>4, <2>1, AppendProperties
  <2>3. content' \in Streams
    BY <1>1, <1>2, <2>2 DEF Inv, BufferOK, Streams
  <2> QED
    BY <1>1, <1>5, <2>3 DEF Inv, BufferOK
<1>7. PlanOK(todo)'
  BY <1>1, <1>5, PlanTail
<1>8. misused' \in BOOLEAN
  BY <1>1 DEF Inv, ThreadOK, Alive
<1>9. ThreadOK'
  BY <1>1, <1>5, <1>7, <1>8, SameThread DEF Inv, ThreadOK
<1> QED
  BY <1>1, <1>5, <1>6, <1>9, SamePeers, SameOut, SameKernel, SameClient, SameWatch, SameError
  DEF Inv, peers

LEMMA StartInv == ASSUME Inv, Start PROVE Inv'
<1> DEFINE c == Head(todo).who
           fd == client[c].fd
           b == client[c].buf
<1>1. /\ todo # << >>
      /\ content' = [content EXCEPT ![b] = << >>]
      /\ watch' = [watch EXCEPT ![fd] = [op |-> "header", who |-> c, last |-> 0]]
      /\ todo' = Tail(todo)
      /\ UNCHANGED <<peers, file, out, onError, client, pool, freed, mode, pending, misused>>
  BY DEF Start, Doing, Clearing
<1>2. c \in Files /\ c <= opened /\ b \in Files /\ fd \in Fds /\ c \in 1 .. opened /\ c \in 0 .. MaxFiles
  BY <1>1, HeadFacts DEF Files
<1>3. opened' = opened
  BY <1>1 DEF peers
<1>4. BufferOK'
  BY <1>1, <1>2, <1>3, EmptySeq DEF Inv, BufferOK, Streams
<1>5. WatchOK'
  BY <1>1, <1>2, RewatchFacts DEF peers
<1>6. ThreadOK'
  BY <1>1, <1>3, PlanTail, SameThread DEF Inv, ThreadOK
<1> QED
  BY <1>1, <1>3, <1>4, <1>5, <1>6, SamePeers, SameOut, SameKernel, SameClient, SameError
  DEF Inv, peers

LEMMA TriggerErrorInv == ASSUME Inv, TriggerError PROVE Inv'
<1> DEFINE d == onError[client[Head(todo).who].fd]
<1>1. /\ todo # << >> /\ Head(todo).call = "error"
      /\ \/ d # 0 /\ todo' = <<Call("close", d, 0)>> \o Tail(todo) /\ UNCHANGED mode
         \/ mode' = "thrown" /\ UNCHANGED todo
      /\ UNCHANGED <<peers, file, out, watch, onError, client, content, pool, freed, pending, misused>>
  BY DEF TriggerError, Doing
<1>2. d \in 0 .. MaxFiles /\ d <= opened
  BY <1>1, HeadFacts DEF Inv, ErrorOK
<1>3. d # 0 => d \in Files
  BY <1>2, HttpAssumption DEF Files
<1> HIDE DEF d
<1>4. opened' = opened
  BY <1>1 DEF peers
<1>5. PlanOK(todo)'
  <2>1. CASE UNCHANGED todo
    BY <1>1, <2>1 DEF Inv, ThreadOK, PlanOK, peers
  <2>2. CASE d # 0 /\ todo' = <<Call("close", d, 0)>> \o Tail(todo)
    BY <1>1, <1>2, <1>3, <1>4, <2>2, PlanSwap
  <2> QED
    BY <1>1, <2>1, <2>2
<1>6. ThreadOK'
  BY <1>1, <1>4, <1>5, SameThread DEF Inv, ThreadOK
<1> QED
  BY <1>1, <1>4, <1>6, SamePeers, SameOut, SameKernel, SameClient, SameWatch, SameError, SameBuffer
  DEF Inv, peers

LEMMA CloseInv == ASSUME Inv, Close PROVE Inv'
<1> DEFINE c == Head(todo).who
           fd == client[c].fd
           f == file[fd]
           b == client[c].buf
<1>1. /\ todo # << >> /\ Push(b)
      /\ watch' = [watch EXCEPT ![fd] = NoWatch]
      /\ onError' = [onError EXCEPT ![fd] = 0]
      /\ file' = [file EXCEPT ![fd] = 0]
      /\ \/ f # 0 /\ out' = [out EXCEPT ![f] = << >>]
         \/ UNCHANGED out
      /\ todo' = Tail(todo)
      /\ UNCHANGED <<peers, client, content, mode, pending, misused>>
  BY DEF Close, Doing
<1>2. fd \in Fds /\ b \in Files /\ b <= opened
  BY <1>1, HeadFacts
<1> HIDE DEF c, fd, f, b
<1>3. opened' = opened /\ 0 \in 0 .. MaxFiles /\ 0 <= opened
  BY <1>1, HttpAssumption DEF peers, Inv, KernelOK
<1>4. OutOK'
  <2>1. << >> \in Seq(Pieces) /\ Len(<< >>) = 0 /\ 0 <= Window
    BY HttpAssumption
  <2>2. CASE UNCHANGED out
    BY <2>2, SameOut
  <2>3. CASE out' = [out EXCEPT ![f] = << >>]
    BY <2>1, <2>3 DEF Inv, OutOK, Streams
  <2> QED
    BY <1>1, <2>2, <2>3
<1>5. KernelOK' /\ ErrorOK'
  BY <1>1, <1>3 DEF Inv, KernelOK, ErrorOK
<1>6. WatchOK'
  <2>1. NoWatch \in Watches /\ NoWatch.op = "none"
    BY HttpAssumption DEF NoWatch, Watches
  <2> QED
    BY <1>1, <1>3, <2>1 DEF Inv, WatchOK
<1>7. BufferOK'
  <2>1. CASE UNCHANGED <<pool, freed>>
    BY <1>1, <1>3, <2>1 DEF Inv, BufferOK
  <2>2. CASE freed' = freed \cup {b} /\ UNCHANGED pool
    BY <1>1, <1>2, <1>3, <2>2 DEF Inv, BufferOK
  <2>3. CASE pool' = Append(pool, b) /\ UNCHANGED freed
    <3>1. pool \in Seq(Files) /\ \A i \in DOMAIN pool : pool[i] <= opened
      BY DEF Inv, BufferOK
    <3>2. /\ pool' \in Seq(Files) /\ Len(pool') = Len(pool) + 1 /\ Len(pool) \in Nat
          /\ \A i \in 1 .. Len(pool) : pool'[i] = pool[i]
          /\ pool'[Len(pool) + 1] = b
      BY <1>2, <2>3, <3>1, AppendProperties, LenProperties
    <3>3. \A i \in DOMAIN pool' : i = Len(pool) + 1 \/ i \in DOMAIN pool
      BY <3>1, <3>2, LenProperties
    <3>4. \A i \in DOMAIN pool' : pool'[i] <= opened'
      BY <1>2, <1>3, <3>1, <3>2, <3>3, LenProperties
    <3> QED
      BY <1>1, <1>3, <2>3, <3>2, <3>4 DEF Inv, BufferOK
  <2> QED
    BY <1>1, <2>1, <2>2, <2>3 DEF Push
<1>8. ThreadOK'
  BY <1>1, <1>3, PlanTail, SameThread DEF Inv, ThreadOK
<1> QED
  BY <1>1, <1>3, <1>4, <1>5, <1>6, <1>7, <1>8, SamePeers, SameClient DEF Inv, peers

\* what writeBuffer does to the thread: it goes on, with Then or an error, or stops
LEMMA WritePlan ==
    ASSUME Inv, todo # << >>, Head(todo).call \in {"flush", "end"}, UNCHANGED <<opened, client>>,
           \/ UNCHANGED todo
           \/ todo' = Tail(todo)
           \/ todo' = Then(Head(todo).who) \o Tail(todo)
           \/ todo' = <<Call("error", Head(todo).who, 0)>> \o Tail(todo)
    PROVE  PlanOK(todo)'
<1> DEFINE c == Head(todo).who
<1>1. /\ todo \in Seq(Calls) /\ Head(todo) = todo[1] /\ 1 \in 1 .. Len(todo) /\ Len(todo) \in Nat
      /\ c \in Files /\ c <= opened /\ todo[1] \in Calls
  BY HeadFacts
<1>2. CASE UNCHANGED todo
  <2>1. \A i \in 1 .. Len(todo) : todo[i].call # "header"
    <3>1. \A i \in 1 .. Len(todo) : i = 1 \/ i > 1
      BY <1>1
    <3> QED
      BY <1>1, <3>1 DEF Inv, ThreadOK, PlanOK
  <2>2. PlanOK(todo)
    BY DEF Inv, ThreadOK
  <2> QED
    BY <1>2, <2>1, <2>2 DEF PlanOK
<1>3. CASE todo' = Tail(todo)
  BY <1>3, PlanTail
<1>4. CASE todo' = <<Call("error", c, 0)>> \o Tail(todo)
  BY <1>1, <1>4, PlanSwap
<1>5. CASE todo' = Then(c) \o Tail(todo)
  <2>1. CASE Head(todo).call = "flush"
    <3>1. Then(c) = << >> /\ Tail(todo) \in Seq(Calls)
      BY <1>1, <2>1, TailFacts, EmptySeq DEF Then
    <3> QED
      BY <1>5, <3>1, PlanTail, ConcatEmptySeq
  <2>2. CASE Head(todo).call = "end"
    <3>1. Len(todo) = 1
      BY <1>1, <2>2 DEF Inv, ThreadOK, PlanOK
    <3>2. \/ Then(c) = <<Call("start", c, 0)>>
          \/ Then(c) = <<Call("close", c, 0)>>
      BY <2>2 DEF Then
    <3> QED
      BY <1>1, <1>5, <3>1, <3>2, PlanSwap
  <2> QED
    BY <2>1, <2>2
<1> QED
  BY <1>2, <1>3, <1>4, <1>5

LEMMA WriteBufferInv == ASSUME Inv, WriteBuffer PROVE Inv'
<1> DEFINE c == Head(todo).who
           fd == client[c].fd
           b == client[c].buf
           f == file[fd]
           text == content[b]
           n == IF f = 0 THEN 0 ELSE Least(Len(text), Window - Len(out[f]))
           Sent == /\ out' = IF n = 0 THEN out ELSE [out EXCEPT ![f] = @ \o SubSeq(text, 1, n)]
                   /\ content' = [content EXCEPT ![b] = Rest(@, n)]
<1>1. /\ todo # << >> /\ Head(todo).call \in {"flush", "end"}
      /\ misused' = (misused \/ ~Alive(c))
      /\ \E op \in {"empty", "flush", "end"} :
            watch' = [watch EXCEPT ![fd] = [op |-> op, who |-> c, last |-> 0]]
      /\ UNCHANGED <<out, content>> \/ Sent
      /\ mode' \in {mode, "crashed", "killed"}
      /\ \/ UNCHANGED todo
         \/ todo' = Tail(todo)
         \/ todo' = Then(c) \o Tail(todo)
         \/ todo' = <<Call("error", c, 0)>> \o Tail(todo)
      /\ UNCHANGED <<listening, opened, file, wire, got, gone, asking, asked, onError, client,
                     pool, freed, pending>>
  BY DEF WriteBuffer, Doing, Judge
<1>2. c \in Files /\ c <= opened /\ b \in Files /\ fd \in Fds
  BY <1>1, HeadFacts
<1>3. f \in 0 .. MaxFiles /\ (f # 0 => f \in Files) /\ text \in Seq(Pieces) /\ Len(text) \in Nat
  BY <1>2, HttpAssumption, LenProperties DEF Inv, KernelOK, Files, BufferOK, Streams
<1>4. f # 0 => out[f] \in Seq(Pieces) /\ Len(out[f]) \in Nat /\ Len(out[f]) <= Window
  BY <1>3, LenProperties DEF Inv, OutOK, Streams
<1>5. n \in 0 .. Len(text) /\ (f # 0 => Len(out[f]) + n <= Window)
  <2>1. CASE f = 0
    BY <1>3, <2>1
  <2>2. CASE f # 0
    <3> DEFINE l == Len(out[f])
               t == Len(text)
    <3>1. l \in Nat /\ l <= Window /\ Window \in Nat /\ t \in Nat /\ n = Least(t, Window - l)
      BY <1>3, <1>4, <2>2, HttpAssumption
    <3> HIDE DEF l, t, n
    <3>2. n \in 0 .. t /\ l + n <= Window
      BY <3>1 DEF Least
    <3> QED
      BY <3>2 DEF l, t
  <2> QED
    BY <2>1, <2>2
<1>6. /\ Rest(text, n) \in Seq(Pieces) /\ SubSeq(text, 1, n) \in Seq(Pieces)
      /\ Len(SubSeq(text, 1, n)) = n
  BY <1>3, <1>5, TakeFacts
<1> HIDE DEF c, fd, b, f, n
<1>7. OutOK'
  <2>1. CASE UNCHANGED out
    BY <2>1, SameOut
  <2>2. CASE f # 0 /\ out' = [out EXCEPT ![f] = @ \o SubSeq(text, 1, n)]
    <3> DEFINE more == SubSeq(text, 1, n)
               all == out[f] \o more
    <3>1. more \in Seq(Pieces) /\ Len(more) = n
      BY <1>6
    <3> HIDE DEF more
    <3>2. all \in Seq(Pieces) /\ Len(all) = Len(out[f]) + n
      BY <1>4, <2>2, <3>1, ConcatProperties
    <3>3. Len(all) <= Window
      BY <1>5, <2>2, <3>2
    <3>4. out' = [out EXCEPT ![f] = all]
      BY <2>2 DEF more
    <3> HIDE DEF all
    <3> QED
      BY <1>3, <2>2, <3>2, <3>3, <3>4 DEF Inv, OutOK, Streams
  <2>3. n # 0 => f # 0
    BY DEF n
  <2> QED
    BY <1>1, <2>1, <2>2, <2>3
<1>8. BufferOK'
  <2>1. CASE UNCHANGED content
    BY <1>1, <2>1, SameBuffer
  <2>2. CASE content' = [content EXCEPT ![b] = Rest(@, n)]
    BY <1>1, <1>2, <1>6, <2>2 DEF Inv, BufferOK, Streams
  <2> QED
    BY <1>1, <2>1, <2>2
<1>9. WatchOK'
  <2>1. PICK op \in {"empty", "flush", "end"} :
           watch' = [watch EXCEPT ![fd] = [op |-> op, who |-> c, last |-> 0]]
    BY <1>1
  <2> QED
    BY <1>1, <1>2, <2>1, RewatchFacts DEF fd
<1>10. PlanOK(todo)'
  BY <1>1, WritePlan DEF c
<1>11. misused' \in BOOLEAN /\ mode' \in {"running", "returned", "thrown", "crashed", "killed"}
  BY <1>1 DEF Inv, ThreadOK, Alive
<1>12. ThreadOK'
  BY <1>1, <1>10, <1>11, SameThread
<1> QED
  BY <1>1, <1>7, <1>8, <1>9, <1>12, SamePeers, SameKernel, SameClient, SameError DEF Inv

LEMMA InitInv == ASSUME Init PROVE Inv
<1>1. << >> \in Seq(Pieces) /\ << >> \in Seq(Files) /\ Len(<< >>) = 0 /\ << >> \in Seq(Calls)
  OBVIOUS
<1>2. PeersOK /\ OutOK
  BY <1>1, HttpAssumption DEF Init, PeersOK, OutOK, Streams
<1>3. KernelOK /\ ClientOK /\ ErrorOK
  BY HttpAssumption DEF Init, KernelOK, ClientOK, ErrorOK, Files
<1>4. WatchOK
  BY HttpAssumption DEF Init, WatchOK, NoWatch, Watches
<1>5. BufferOK
  BY <1>1 DEF Init, BufferOK, Streams
<1>6. PlanOK(todo)
  BY <1>1 DEF Init, PlanOK
<1>7. ThreadOK
  <2>1. \A x \in Files, r \in 1 .. MaxRequests : pending[x][r] = 0
    BY DEF Init
  <2>2. pending \in [Files -> [1 .. MaxRequests -> Nat]]
    BY DEF Init
  <2>3. mode = "running" /\ misused \in BOOLEAN
    BY DEF Init
  <2>4. \A x \in Files, r \in 1 .. MaxRequests : pending[x][r] > 0 => x <= opened
    BY <2>1
  <2> QED
    BY <1>6, <2>2, <2>3, <2>4 DEF ThreadOK
<1> QED
  BY <1>2, <1>3, <1>4, <1>5, <1>7 DEF Inv

LEMMA StepInv == ASSUME Inv, [Next]_vars PROVE Inv'
<1>1. CASE UNCHANGED vars
  <2>1. UNCHANGED <<opened, file, watch, onError, client, content, pool, freed, behind, todo, mode,
                    pending, misused, out, wire, got, gone, asking, asked>>
    BY <1>1 DEF vars
  <2> QED
    BY <2>1, SameCore, SamePeers, SameOut DEF Inv
<1>2. CASE PeerActs
  BY <1>2, PeerActsInv
<1>3. CASE \E f \in Files : PeerReads(f)
  BY <1>3, PeerReadsInv
<1>4. CASE \E fd \in Fds : Accept(fd) \/ Input(fd) \/ Output(fd) \/ ErrorEvent(fd) \/ LateEvent(fd)
  BY <1>4, AcceptInv, InputInv, OutputInv, ErrorEventInv, LateEventInv
<1>5. CASE AcceptFails \/ LoopEnds \/ Later
  BY <1>5, QuietInv, LaterInv
<1>6. CASE Script
  BY <1>6, HeaderInv, ProcessInv, WriteInv, WriteBufferInv, StartInv, TriggerErrorInv, CloseInv
  DEF Script
<1>7. CASE Stopped
  BY <1>1, <1>7 DEF Stopped
<1> QED
  BY <1>1, <1>2, <1>3, <1>4, <1>5, <1>6, <1>7 DEF Next

-----------------------------------------------------------------------------
(* What holds until the application uses a closed client is kept. *)

\* the clients keep their descriptors and buffers
ClientsKept == \A x \in Files : /\ client'[x].fd = client[x].fd /\ client'[x].buf = client[x].buf
                                /\ client'[x] = NoClient <=> client[x] = NoClient

LEMMA AliveKept ==
    ASSUME ClientsKept, UNCHANGED file, NEW c \in Files PROVE Alive(c)' <=> Alive(c)
  BY DEF ClientsKept, Alive

LEMMA BuffersKept ==
    ASSUME ExclusiveBuffers, ~misused, ClientsKept, UNCHANGED <<file, pool, freed>>
    PROVE  ExclusiveBuffers'
<1>1. \A c \in Files : Alive(c)' <=> Alive(c)
  BY AliveKept
<1> QED
  BY <1>1 DEF ExclusiveBuffers, ClientsKept

\* the client of an open descriptor is alive
LEMMA OpenFacts ==
    ASSUME Inv, Disciplined, NEW fd \in Fds, file[fd] # 0
    PROVE  file[fd] \in Files /\ client[file[fd]].fd = fd /\ Alive(file[fd])
<1>1. file[fd] \in Files /\ file[fd] <= opened
  BY HttpAssumption DEF Inv, KernelOK, Files
<1>2. client[file[fd]].fd = fd
  BY DEF Disciplined, Served
<1>3. client[file[fd]] # NoClient
  <2>1. client[file[fd]] \in Clients
    BY <1>1 DEF Inv, ClientOK
  <2> QED
    BY <2>1 DEF Clients, NoClient, Files
<1> QED
  BY <1>1, <1>2, <1>3 DEF Alive

\* only the client that is worked on is about to finish
LEMMA FinishFacts ==
    ASSUME Inv, Steady, todo # << >>
    PROVE  /\ Len(todo) \in 1 .. Len(todo) /\ todo[Len(todo)].who = Head(todo).who
           /\ todo[1] = Head(todo) /\ \A d : Finishing(d) => d = Head(todo).who
<1>1. Head(todo) = todo[1] /\ Len(todo) \in 1 .. Len(todo)
  BY HeadFacts
<1>2. todo[Len(todo)].who = todo[1].who
  BY <1>1 DEF Steady
<1> QED
  BY <1>1, <1>2 DEF Finishing

LEMMA EmptySteady == ASSUME todo' = << >> PROVE Steady'
<1>1. Len(todo') = 0
  OBVIOUS
<1> QED
  BY <1>1 DEF Steady

LEMMA OneSteady ==
    ASSUME NEW c, NEW r, NEW name, todo' = <<Call(name, c, r)>>,
           name \notin {"more", "answer", "flush"},
           name \in {"header", "process", "start", "close", "error"} => Alive(c)'
    PROVE  Steady'
<1>1. Len(todo') = 1 /\ todo'[1] = Call(name, c, r)
  OBVIOUS
<1>2. \A i \in 1 .. Len(todo') : i = 1
  BY <1>1
<1>3. Call(name, c, r).call = name /\ Call(name, c, r).who = c
  BY DEF Call
<1>4. Alive(todo[1].who)' <=> Alive(c)'
  BY <1>1, <1>3 DEF Alive
<1> QED
  BY <1>1, <1>2, <1>3, <1>4 DEF Steady

LEMMA AnswerSteady ==
    ASSUME NEW c, NEW r,
           \/ todo' = <<Call("answer", c, r), Call("end", c, r)>>
           \/ todo' = <<Call("more", c, r), Call("flush", c, r), Call("answer", c, r), Call("end", c, r)>>
    PROVE  Steady'
<1>1. CASE todo' = <<Call("answer", c, r), Call("end", c, r)>>
  <2>1. /\ Len(todo') = 2 /\ todo'[1].who = c /\ todo'[2].who = c
        /\ todo'[1].call = "answer" /\ todo'[2].call = "end"
    BY <1>1 DEF Call
  <2>2. \A i \in 1 .. Len(todo') : i = 1 \/ i = 2
    BY <2>1
  <2> QED
    BY <2>1, <2>2 DEF Steady
<1>2. CASE todo' = <<Call("more", c, r), Call("flush", c, r), Call("answer", c, r), Call("end", c, r)>>
  <2>1. /\ Len(todo') = 4 /\ todo'[1].who = c /\ todo'[2].who = c /\ todo'[3].who = c
        /\ todo'[4].who = c /\ todo'[1].call = "more" /\ todo'[4].call = "end"
    BY <1>2 DEF Call
  <2>2. \A i \in 1 .. Len(todo') : i = 1 \/ i = 2 \/ i = 3 \/ i = 4
    BY <2>1
  <2> QED
    BY <2>1, <2>2 DEF Steady
<1> QED
  BY <1>1, <1>2

\* after a call what is left, if anything, is the application's and ends the answer
LEMMA TailSteady ==
    ASSUME Inv, Steady, todo # << >>, todo' = Tail(todo), NEW c, c = Head(todo).who
    PROVE  Steady' /\ (Head(todo).call \in {"more", "answer", "flush"} => Finishing(c)')
<1>1. todo \in Seq(Calls) /\ Head(todo) = todo[1] /\ Len(todo) \in Nat \ {0} /\ todo[1].who = c
  BY HeadFacts
<1>2. /\ todo' \in Seq(Calls) /\ Len(todo') = Len(todo) - 1
      /\ \A i \in 1 .. Len(todo) - 1 : todo'[i] = todo[i + 1]
      /\ Len(todo) = 1 => todo' = << >>
  BY <1>1, TailFacts
<1>3. ASSUME NEW i \in 1 .. Len(todo')
      PROVE  todo'[i].who = c /\ todo'[i].call \in {"flush", "answer", "end"}
  <2>1. i + 1 \in 1 .. Len(todo) /\ i + 1 > 1 /\ todo'[i] = todo[i + 1]
    BY <1>1, <1>2
  <2> QED
    BY <1>1, <2>1 DEF Inv, ThreadOK, PlanOK, Steady
<1>4. CASE Len(todo) = 1
  <2>1. Head(todo).call \notin {"more", "answer", "flush"}
    BY <1>1, <1>4 DEF Steady
  <2> QED
    BY <1>2, <1>4, <2>1, EmptySteady
<1>5. CASE Len(todo) # 1
  <2>1. /\ Len(todo') \in 1 .. Len(todo') /\ 1 \in 1 .. Len(todo') /\ Len(todo') + 1 = Len(todo)
        /\ Len(todo') \in 1 .. Len(todo) - 1
    BY <1>1, <1>2, <1>5
  <2>2. todo'[Len(todo')] = todo[Len(todo)]
    BY <1>2, <2>1
  <2>3. todo'[Len(todo')].call = "end"
    BY <1>1, <1>3, <2>1, <2>2 DEF Steady
  <2>4. /\ todo'[Len(todo')].who = c /\ todo'[1].who = c
        /\ todo'[1].call \in {"flush", "answer", "end"}
    BY <1>3, <2>1
  <2>5. todo' # << >>
    BY <2>1
  <2> QED
    BY <1>3, <2>3, <2>4, <2>5 DEF Finishing, Steady
<1> QED
  BY <1>4, <1>5

\* a call of the library's before what is left
LEMMA SwapSteady ==
    ASSUME Inv, Steady, todo # << >>, NEW c \in Files, c = Head(todo).who, Alive(c)',
           NEW name \in {"process", "start", "close", "error"},
           todo' = <<Call(name, c, 0)>> \o Tail(todo)
    PROVE  Steady' /\ (name # "process" => Finishing(c)')
<1> DEFINE x == Call(name, c, 0)
<1>1. /\ todo \in Seq(Calls) /\ Head(todo) = todo[1] /\ Len(todo) \in Nat \ {0}
      /\ todo[1].who = c /\ x \in Calls
  BY HeadFacts, HttpAssumption DEF Call, Calls
<1>2. /\ Len(todo') = Len(todo) /\ todo'[1] = x /\ todo' # << >>
      /\ \A i \in 2 .. Len(todo) : todo'[i] = todo[i]
  BY <1>1, SwapFacts
<1>3. x.call = name /\ x.who = c
  BY DEF Call
<1> HIDE DEF x
<1>4. \A i \in 1 .. Len(todo) : i = 1 \/ i \in 2 .. Len(todo)
  BY <1>1
<1>5. \A i \in 1 .. Len(todo') : todo'[i].who = c
  BY <1>1, <1>2, <1>3, <1>4 DEF Steady
<1>6. todo'[Len(todo')].call \notin {"more", "answer", "flush"}
  <2>1. CASE Len(todo) = 1
    BY <1>2, <1>3, <2>1
  <2>2. CASE Len(todo) # 1
    <3>1. Len(todo) \in 2 .. Len(todo)
      BY <1>1, <2>2
    <3> QED
      BY <1>1, <1>2, <3>1 DEF Steady
  <2> QED
    BY <2>1, <2>2
<1>7. 1 \in 1 .. Len(todo') /\ todo'[1].who = c
  BY <1>1, <1>2, <1>3
<1>8. Steady'
  BY <1>5, <1>6, <1>7 DEF Steady, Alive
<1>9. name # "process" => Finishing(c)'
  BY <1>2, <1>3 DEF Finishing
<1> QED
  BY <1>8, <1>9

\* the callbacks stay, and what is about to finish is so still
LEMMA ServedKept ==
    ASSUME Inv, Disciplined, ClientsKept, UNCHANGED <<file, watch, onError>>,
           \A d \in Files : Finishing(d) => Finishing(d)'
    PROVE  \A g \in Fds : Served(g)'
<1> SUFFICES ASSUME NEW g \in Fds PROVE Served(g)'
  OBVIOUS
<1>1. Served(g)
  BY DEF Disciplined
<1>2. CASE file[g] = 0
  BY <1>1, <1>2 DEF Served
<1>3. CASE file[g] # 0
  <2>1. PICK d \in Files : d = file[g]
    BY <1>3, OpenFacts
  <2>2. client'[d].fd = g
    BY <1>1, <1>3, <2>1 DEF Served, ClientsKept
  <2>3. watch'[g].op \in {"empty", "flush"} => Finishing(d)'
    BY <1>1, <1>3, <2>1 DEF Served
  <2> QED
    BY <1>1, <1>3, <2>1, <2>2, <2>3 DEF Served, Finishing
<1> QED
  BY <1>2, <1>3

\* the client that is worked on gets another callback
LEMMA ServedAgain ==
    ASSUME Inv, Disciplined, ClientsKept, UNCHANGED <<file, onError>>, todo # << >>,
           NEW c \in Files, c = Head(todo).who, Alive(c), NEW op, op # "none",
           NEW fd \in Fds, fd = client[c].fd,
           watch' = [watch EXCEPT ![fd] = [op |-> op, who |-> c, last |-> 0]],
           op \in {"empty", "flush"} => Finishing(c)'
    PROVE  \A g \in Fds : Served(g)'
<1> SUFFICES ASSUME NEW g \in Fds PROVE Served(g)'
  OBVIOUS
<1>1. Served(g)
  BY DEF Disciplined
<1>2. /\ watch'[fd] = [op |-> op, who |-> c, last |-> 0]
      /\ g # fd => watch'[g] = watch[g]
  BY DEF Inv, WatchOK
<1>3. CASE g = fd
  <2>1. file'[g] = c /\ c # 0 /\ file[g] = c
    BY <1>3 DEF Alive, Files
  <2>2. onError'[g] = c /\ client'[c].fd = g
    BY <1>1, <1>3, <2>1 DEF Served, ClientsKept
  <2> QED
    BY <1>2, <1>3, <2>1, <2>2 DEF Served, Finishing
<1>4. CASE g # fd /\ file[g] = 0
  BY <1>1, <1>2, <1>4 DEF Served
<1>5. CASE g # fd /\ file[g] # 0
  <2>1. PICK d \in Files : d = file[g]
    BY <1>5, OpenFacts
  <2>2. client[d].fd = g /\ d # c
    BY <1>1, <1>5, <2>1 DEF Served
  <2>3. ~Finishing(d)
    BY <2>2, FinishFacts DEF Disciplined
  <2>4. client'[d].fd = g
    BY <2>2 DEF ClientsKept
  <2>5. watch[g].op \notin {"empty", "flush"}
    BY <1>1, <1>5, <2>1, <2>3 DEF Served
  <2> QED
    BY <1>1, <1>2, <1>5, <2>1, <2>4, <2>5 DEF Served
<1> QED
  BY <1>3, <1>4, <1>5

-----------------------------------------------------------------------------
(* The events keep it. *)

LEMMA SameDisciplined ==
    ASSUME Inv, Disciplined, ~misused,
           UNCHANGED <<file, watch, onError, client, pool, freed, todo>>
    PROVE  Disciplined'
<1>1. ClientsKept
  BY DEF ClientsKept
<1>2. \A d \in Files : Finishing(d) => Finishing(d)'
  BY DEF Finishing
<1>3. \A g \in Fds : Served(g)'
  BY <1>1, <1>2, ServedKept
<1>4. Steady'
  BY DEF Disciplined, Steady, Alive
<1>5. ExclusiveBuffers'
  BY <1>1, BuffersKept DEF Disciplined
<1> QED
  BY <1>3, <1>4, <1>5 DEF Disciplined

\* between two events nobody is about to finish
LEMMA IdleFacts ==
    ASSUME Inv, Disciplined, todo = << >>, NEW fd \in Fds, file[fd] # 0
    PROVE  /\ watch[fd].op \notin {"none", "empty", "flush"} /\ watch[fd].who = file[fd]
           /\ onError[fd] = file[fd]
<1>1. ~Finishing(file[fd])
  BY DEF Finishing
<1> QED
  BY <1>1 DEF Disciplined, Served

\* an event that changes neither descriptors nor buffers but for the search position
LEMMA EventDisciplined ==
    ASSUME Inv, Disciplined, ~misused, todo = << >>, Steady',
           \A g \in Fds : /\ watch'[g].op = watch[g].op /\ watch'[g].who = watch[g].who
                          /\ watch[g] = NoWatch => watch'[g] = NoWatch,
           UNCHANGED <<file, onError, client, pool, freed>>
    PROVE  Disciplined'
<1>1. ASSUME NEW g \in Fds PROVE Served(g)'
  <2>1. CASE file[g] = 0
    BY <2>1 DEF Disciplined, Served
  <2>2. CASE file[g] # 0
    <3>1. watch'[g].op \notin {"none", "empty", "flush"} /\ watch'[g].who = file[g] /\ onError[g] = file[g]
      BY <2>2, IdleFacts
    <3>2. client[file[g]].fd = g
      BY <2>2, OpenFacts
    <3> QED
      BY <2>2, <3>1, <3>2 DEF Served
  <2> QED
    BY <2>1, <2>2
<1>2. ClientsKept
  BY DEF ClientsKept
<1>3. ExclusiveBuffers'
  BY <1>2, BuffersKept DEF Disciplined
<1> QED
  BY <1>1, <1>3 DEF Disciplined

LEMMA InputDisciplined ==
    ASSUME Inv, Disciplined, ~misused, NEW fd \in Fds, Input(fd)
    PROVE  Disciplined'
<1>1. /\ todo = << >> /\ file[fd] # 0 /\ watch[fd].op \in {"header", "body"}
      /\ UNCHANGED <<file, onError, client, pool, freed, mode>>
      /\ \/ todo' = << >>
         \/ todo' = <<Call("header", watch[fd].who, 0)>>
         \/ todo' = <<Call("process", watch[fd].who, 0)>>
         \/ todo' = <<Call("error", watch[fd].who, 0)>>
      /\ UNCHANGED watch \/ \E last : watch' = [watch EXCEPT ![fd].last = last]
  BY DEF Input, Idle
<1>2. PICK c \in Files : c = watch[fd].who /\ Alive(c)
  BY <1>1, OpenFacts DEF Disciplined, Served
<1>3. Alive(c)'
  BY <1>1, <1>2 DEF Alive
<1>4. Steady'
  BY <1>1, <1>2, <1>3, EmptySteady, OneSteady
<1>5. \A g \in Fds : /\ watch'[g].op = watch[g].op /\ watch'[g].who = watch[g].who
                     /\ watch[g] = NoWatch => watch'[g] = NoWatch
  <2>1. CASE UNCHANGED watch
    BY <2>1
  <2>2. CASE \E last : watch' = [watch EXCEPT ![fd].last = last]
    <3>1. PICK last : watch' = [watch EXCEPT ![fd].last = last]
      BY <2>2
    <3>2. watch \in [Fds -> Watches]
      BY DEF Inv, WatchOK
    <3>3. watch'[fd] = [watch[fd] EXCEPT !.last = last] /\ \A g \in Fds \ {fd} : watch'[g] = watch[g]
      BY <3>1, <3>2
    <3>4. watch[fd] \in Watches
      BY <3>2
    <3>5. watch'[fd].op = watch[fd].op /\ watch'[fd].who = watch[fd].who
      BY <3>3, <3>4 DEF Watches
    <3>6. watch[fd] # NoWatch
      BY <1>1 DEF NoWatch
    <3> QED
      BY <3>3, <3>5, <3>6
  <2> QED
    BY <1>1, <2>1, <2>2
<1> QED
  BY <1>1, <1>4, <1>5, EventDisciplined DEF Disciplined

LEMMA OutputDisciplined ==
    ASSUME Inv, Disciplined, ~misused, NEW fd \in Fds, Output(fd)
    PROVE  Disciplined'
<1>1. /\ todo = << >> /\ file[fd] # 0 /\ watch[fd].op \in {"flush", "end"}
      /\ todo' = <<Call(watch[fd].op, watch[fd].who, 0)>>
      /\ UNCHANGED <<file, watch, onError, client, pool, freed, mode>>
  BY DEF Output, Idle
<1>2. watch[fd].op = "end"
  BY <1>1, IdleFacts
<1>3. Steady'
  BY <1>1, <1>2, OneSteady
<1> QED
  BY <1>1, <1>3, EventDisciplined DEF Disciplined

LEMMA ErrorEventDisciplined ==
    ASSUME Inv, Disciplined, ~misused, NEW fd \in Fds, ErrorEvent(fd)
    PROVE  Disciplined'
<1>1. /\ todo = << >> /\ file[fd] # 0
      /\ onError[fd] # 0 => todo' = <<Call("close", onError[fd], 0)>> /\ UNCHANGED mode
      /\ UNCHANGED <<file, watch, onError, client, pool, freed>>
  BY DEF ErrorEvent, Idle
<1>2. PICK c \in Files : c = onError[fd] /\ c = file[fd] /\ Alive(c)
  BY <1>1, IdleFacts, OpenFacts
<1>3. todo' = <<Call("close", c, 0)>> /\ UNCHANGED mode
  BY <1>1, <1>2
<1>4. Alive(c)'
  BY <1>1, <1>2 DEF Alive
<1>5. Steady'
  BY <1>3, <1>4, OneSteady
<1> QED
  BY <1>1, <1>3, <1>5, EventDisciplined DEF Disciplined

LEMMA LateEventDisciplined ==
    ASSUME Inv, Disciplined, ~misused, NEW fd \in Fds, LateEvent(fd)
    PROVE  Disciplined'
<1>1. UNCHANGED <<file, watch, onError, client, pool, freed, todo>>
  BY DEF LateEvent
<1> QED
  BY <1>1, SameDisciplined

LEMMA LaterDisciplined == ASSUME Inv, Disciplined, ~misused, Later PROVE Disciplined'
<1>1. /\ todo = << >>
      /\ \E c \in Files, r \in 1 .. MaxRequests : todo' = <<Call("answer", c, r), Call("end", c, r)>>
      /\ UNCHANGED <<file, watch, onError, client, pool, freed, mode>>
  BY DEF Later, Idle
<1>2. PICK c \in Files, r \in 1 .. MaxRequests : todo' = <<Call("answer", c, r), Call("end", c, r)>>
  BY <1>1
<1>3. Steady'
  BY <1>2, AnswerSteady
<1> QED
  BY <1>1, <1>3, EventDisciplined DEF Disciplined

\* the new client gets a descriptor of its own, and a buffer that is nobody's
LEMMA AcceptDisciplined ==
    ASSUME Inv, Disciplined, ~misused, NEW fd \in Fds, Accept(fd)
    PROVE  Disciplined'
<1>0. PICK c \in Files : c = opened + 1
  BY HttpAssumption DEF Accept, Inv, KernelOK, Files
<1>1. PICK b : b = IF pool = << >> THEN c ELSE pool[Len(pool)]
  OBVIOUS
<1>2. /\ todo = << >> /\ todo' = << >> /\ file[fd] = 0
      /\ file' = [file EXCEPT ![fd] = c]
      /\ onError' = [onError EXCEPT ![fd] = c]
      /\ watch' = [watch EXCEPT ![fd] = [op |-> "header", who |-> c, last |-> 0]]
      /\ client' = [client EXCEPT ![c] = [fd |-> fd, buf |-> b, keep |-> FALSE,
                                         body |-> "none", req |-> 0]]
      /\ pool' = Popped(pool)
      /\ UNCHANGED <<freed, mode, misused>>
  BY <1>0, <1>1 DEF Accept, Idle, SetError
<1>3. /\ client'[c] = [fd |-> fd, buf |-> b, keep |-> FALSE,
                                         body |-> "none", req |-> 0]
      /\ client'[c].fd = fd /\ client'[c].buf = b
      /\ \A d \in Files \ {c} : client'[d] = client[d]
  BY <1>2 DEF Inv, ClientOK
<1>4. /\ file'[fd] = c /\ \A g \in Fds \ {fd} : file'[g] = file[g]
      /\ onError'[fd] = c /\ \A g \in Fds \ {fd} : onError'[g] = onError[g]
      /\ watch'[fd] = [op |-> "header", who |-> c, last |-> 0]
      /\ \A g \in Fds \ {fd} : watch'[g] = watch[g]
  BY <1>2 DEF Inv, KernelOK, ErrorOK, WatchOK
<1>5. opened \in Nat /\ c \in Nat /\ c > opened /\ c # 0
  BY <1>0 DEF Inv, KernelOK, Files
<1>6. ASSUME NEW g \in Fds PROVE Served(g)'
  <2>1. CASE g = fd
    BY <1>3, <1>4, <1>5, <2>1 DEF Served
  <2>2. CASE g # fd /\ file[g] = 0
    BY <1>4, <2>2 DEF Served, Disciplined
  <2>3. CASE g # fd /\ file[g] # 0
    <3>1. PICK d \in Files : d = file[g]
      BY <2>3, OpenFacts
    <3>2. d # c
      BY <1>5, <3>1 DEF Inv, KernelOK
    <3>3. client'[d].fd = g
      BY <1>3, <2>3, <3>1, <3>2, OpenFacts
    <3>4. watch[g].op \notin {"none", "empty", "flush"} /\ watch[g].who = d /\ onError[g] = d
      BY <1>2, <2>3, <3>1, IdleFacts
    <3> QED
      BY <1>4, <2>3, <3>1, <3>3, <3>4 DEF Served
  <2> QED
    BY <2>1, <2>2, <2>3
<1>7. ASSUME NEW d \in Files \ {c}, Alive(d)'
      PROVE  Alive(d) /\ client[d].buf <= opened /\ client[d].buf \in Files
  <2>1. client[d] # NoClient /\ file'[client[d].fd] = d
    BY <1>3, <1>7 DEF Alive
  <2>2. client[d] \in Clients /\ d <= opened
    <3>1. d > opened => client[d] = NoClient
      BY DEF Inv, ClientOK
    <3>2. d <= opened
      BY <1>5, <2>1, <3>1 DEF Files
    <3> QED
      BY <3>2 DEF Inv, ClientOK
  <2>3. client[d].fd \in Fds /\ client[d].fd # fd
    BY <1>4, <2>1, <2>2 DEF Clients
  <2>4. file[client[d].fd] = d
    BY <1>4, <2>1, <2>3
  <2> QED
    BY <2>1, <2>2, <2>4 DEF Alive, Inv, ClientOK, Clients
<1>8. /\ b \notin Elements(pool') \cup freed
      /\ \A d \in Files \ {c} : Alive(d) /\ client[d].buf <= opened => client[d].buf # b
      /\ Elements(pool') \subseteq Elements(pool)
      /\ \A i, j \in DOMAIN pool' : pool'[i] = pool'[j] => i = j
  <2>1. pool \in Seq(Files)
    BY DEF Inv, BufferOK
  <2>2. CASE pool = << >>
    <3>1. b = c /\ pool' = << >>
      BY <1>1, <1>2, <2>2 DEF Popped
    <3>2. Elements(pool') = {} /\ DOMAIN pool' = {}
      BY <3>1 DEF Elements
    <3>3. c \notin freed
      BY <1>5 DEF Inv, BufferOK, Files
    <3>4. \A d \in Files \ {c} : client[d].buf <= opened => client[d].buf # b
      BY <1>5, <3>1
    <3> QED
      BY <3>1, <3>2, <3>3, <3>4
  <2>3. CASE pool # << >>
    <3> DEFINE m == Len(pool)
    <3>1. pool' = SubSeq(pool, 1, Len(pool) - 1)
      BY <1>2, <2>3 DEF Popped
    <3>2. /\ pool' \in Seq(Files) /\ Len(pool') = Len(pool) - 1
          /\ \A i \in 1 .. Len(pool) - 1 : pool'[i] = pool[i]
      BY <2>1, <2>3, <3>1, FrontFacts
    <3>3. m \in Nat \ {0} /\ DOMAIN pool = 1 .. m /\ DOMAIN pool' = 1 .. m - 1 /\ m \in DOMAIN pool
      BY <2>1, <2>3, <3>2, EmptySeq, LenProperties
    <3>4. \A i \in DOMAIN pool' : i \in DOMAIN pool /\ i # m /\ pool'[i] = pool[i]
      BY <3>2, <3>3
    <3>5. b = pool[m]
      BY <1>1, <2>3
    <3> HIDE DEF m
    <3>6. /\ \A i, j \in DOMAIN pool : pool[i] = pool[j] => i = j
          /\ Elements(pool) \cap freed = {}
          /\ \A d \in Files : Alive(d) => client[d].buf \notin Elements(pool)
      BY DEF Disciplined, ExclusiveBuffers
    <3>7. b \in Elements(pool) /\ b \notin Elements(pool') /\ Elements(pool') \subseteq Elements(pool)
      BY <3>3, <3>4, <3>5, <3>6 DEF Elements
    <3> QED
      BY <3>4, <3>6, <3>7
  <2> QED
    BY <2>2, <2>3
<1>9. ExclusiveBuffers'
  <2>1. ASSUME NEW d \in Files, Alive(d)'
        PROVE  client'[d].buf \notin Elements(pool') \cup freed
    BY <1>3, <1>7, <1>8, <2>1 DEF Disciplined, ExclusiveBuffers
  <2>2. ASSUME NEW d \in Files, NEW x \in Files \ {d}, Alive(d)', Alive(x)'
        PROVE  client'[d].buf # client'[x].buf
    <3>1. CASE d = c
      BY <1>3, <1>7, <1>8, <2>2, <3>1
    <3>2. CASE x = c
      BY <1>3, <1>7, <1>8, <2>2, <3>2
    <3>3. CASE d # c /\ x # c
      BY <1>3, <1>7, <2>2, <3>3 DEF Disciplined, ExclusiveBuffers
    <3> QED
      BY <3>1, <3>2, <3>3
  <2>3. Elements(pool') \cap freed = {}
    BY <1>8 DEF Disciplined, ExclusiveBuffers
  <2> QED
    BY <1>2, <1>8, <2>1, <2>2, <2>3 DEF ExclusiveBuffers
<1> QED
  BY <1>2, <1>6, <1>9, EmptySteady DEF Disciplined

-----------------------------------------------------------------------------
(* What a callback goes on to do keeps it. *)

\* a call that is none of the application's is of a client that is alive, and finds
\* nobody about to finish unless it is that client
LEMMA OwnFacts ==
    ASSUME Inv, Disciplined, todo # << >>
    PROVE  \E c \in Files :
              /\ c = Head(todo).who /\ client[c].fd \in Fds
              /\ Head(todo).call \in {"header", "process", "start", "close", "error"} => Alive(c)
              /\ Head(todo).call \in {"header", "process"} => \A d : ~Finishing(d)
<1>1. /\ Head(todo).who \in Files /\ client[Head(todo).who].fd \in Fds /\ todo[1] = Head(todo)
      /\ 1 \in 1 .. Len(todo)
  BY HeadFacts
<1>2. Head(todo).call \in {"header", "process", "start", "close", "error"} => Alive(Head(todo).who)
  BY <1>1 DEF Disciplined, Steady
<1>3. Head(todo).call \in {"header", "process"} => \A d : ~Finishing(d)
  BY <1>1, AloneFacts DEF Finishing
<1> QED
  BY <1>1, <1>2, <1>3

LEMMA HeaderDisciplined == ASSUME Inv, Disciplined, ~misused, Header PROVE Disciplined'
<1>1. /\ todo # << >> /\ Head(todo).call = "header"
      /\ LET x == Head(todo).who
         IN  /\ \E k, y, q : client' = [client EXCEPT ![x].keep = k, ![x].body = y, ![x].req = q]
             /\ \/ /\ watch' = [watch EXCEPT ![client[x].fd] = [op |-> "body", who |-> x, last |-> 0]]
                   /\ todo' = Tail(todo)
                \/ /\ \/ todo' = <<Call("process", x, 0)>> \o Tail(todo)
                      \/ todo' = <<Call("close", x, 0)>> \o Tail(todo)
                   /\ UNCHANGED watch
                \/ UNCHANGED <<watch, todo>>
      /\ UNCHANGED <<file, onError, pool, freed>>
  BY DEF Header, Doing
<1>2. PICK c \in Files : c = Head(todo).who /\ client[c].fd \in Fds /\ Alive(c) /\ \A d : ~Finishing(d)
  BY <1>1, OwnFacts
<1>0. PICK k, y, q : client' = [client EXCEPT ![Head(todo).who].keep = k, ![Head(todo).who].body = y,
                                              ![Head(todo).who].req = q]
  BY <1>1, Zenon
<1>3. client' = [client EXCEPT ![c].keep = k, ![c].body = y, ![c].req = q]
  BY <1>0, <1>2
<1>4. ClientsKept
  <2>1. client \in [Files -> Clients \cup {NoClient}] /\ client[c] \in Clients \cup {NoClient}
    BY <1>2 DEF Inv, ClientOK
  <2>2. client[c] # NoClient
    BY <1>2 DEF Alive
  <2>3. client[c] \in Clients
    BY <2>1, <2>2
  <2> DEFINE d == [client[c] EXCEPT !.keep = k, !.body = y, !.req = q]
  <2>4. client'[c] = d /\ \A x \in Files \ {c} : client'[x] = client[x]
    BY <1>2, <1>3, <2>1
  <2>5. d.fd = client[c].fd /\ d.buf = client[c].buf
    BY <2>3 DEF Clients
  <2>6. client[c].buf # 0 /\ NoClient.buf = 0
    BY <2>3 DEF Clients, NoClient, Files
  <2> HIDE DEF d
  <2>7. d # NoClient
    BY <2>5, <2>6
  <2> QED
    BY <2>2, <2>4, <2>5, <2>7 DEF ClientsKept
<1>5. Alive(c)'
  BY <1>1, <1>2, <1>4, AliveKept
<1>6. ExclusiveBuffers'
  BY <1>1, <1>4, BuffersKept DEF Disciplined
<1>7. CASE /\ watch' = [watch EXCEPT ![client[c].fd] = [op |-> "body", who |-> c, last |-> 0]]
           /\ todo' = Tail(todo)
  <2>1. \A g \in Fds : Served(g)'
    <3>1. PICK fd \in Fds, op \in {"body"} : fd = client[c].fd
      BY <1>2
    <3>2. watch' = [watch EXCEPT ![fd] = [op |-> op, who |-> c, last |-> 0]]
      BY <1>7, <3>1
    <3>3. op \notin {"none", "empty", "flush"}
      BY <3>1
    <3> QED
      BY <1>1, <1>2, <1>4, <3>1, <3>2, <3>3, ServedAgain
  <2>2. Steady'
    BY <1>1, <1>2, <1>7, TailSteady DEF Disciplined
  <2> QED
    BY <1>1, <1>6, <2>1, <2>2 DEF Disciplined
<1>8. CASE /\ UNCHANGED watch
           /\ \/ todo' = <<Call("process", c, 0)>> \o Tail(todo)
              \/ todo' = <<Call("close", c, 0)>> \o Tail(todo)
  <2>1. \A g \in Fds : Served(g)'
    BY <1>1, <1>2, <1>4, <1>8, ServedKept
  <2>2. Steady'
    BY <1>1, <1>2, <1>5, <1>8, SwapSteady DEF Disciplined
  <2> QED
    BY <1>1, <1>6, <2>1, <2>2 DEF Disciplined
<1>9. CASE UNCHANGED <<watch, todo>>
  <2>1. \A g \in Fds : Served(g)'
    BY <1>1, <1>2, <1>4, <1>9, ServedKept
  <2>2. todo[1] = Head(todo)
    BY <1>1, HeadFacts
  <2>3. Steady'
    BY <1>1, <1>2, <1>5, <1>9, <2>2 DEF Disciplined, Steady, Alive
  <2> QED
    BY <1>1, <1>6, <2>1, <2>3 DEF Disciplined
<1> QED
  BY <1>1, <1>2, <1>7, <1>8, <1>9

LEMMA ProcessDisciplined == ASSUME Inv, Disciplined, ~misused, Process PROVE Disciplined'
<1>1. /\ todo # << >> /\ Head(todo).call = "process"
      /\ LET c == Head(todo).who
             r == client[c].req
         IN  \/ todo' = <<Call("answer", c, r), Call("end", c, r)>> \o Tail(todo)
             \/ todo' = <<Call("more", c, r), Call("flush", c, r),
                          Call("answer", c, r), Call("end", c, r)>> \o Tail(todo)
             \/ todo' = Tail(todo)
      /\ UNCHANGED <<file, watch, onError, client, pool, freed, mode>>
  BY DEF Process, Doing
<1>2. PICK c \in Files : c = Head(todo).who /\ \A d : ~Finishing(d)
  BY <1>1, OwnFacts
<1>3. PICK r : r = client[c].req
  OBVIOUS
<1>4. Tail(todo) = << >>
  BY <1>1, AloneFacts
<1>5. Steady'
  <2>1. /\ <<Call("answer", c, r), Call("end", c, r)>> \o << >> = <<Call("answer", c, r), Call("end", c, r)>>
        /\ <<Call("more", c, r), Call("flush", c, r), Call("answer", c, r), Call("end", c, r)>> \o << >>
              = <<Call("more", c, r), Call("flush", c, r), Call("answer", c, r), Call("end", c, r)>>
    OBVIOUS
  <2> QED
    BY <1>1, <1>2, <1>3, <1>4, <2>1, EmptySteady, AnswerSteady
<1>6. ClientsKept
  BY <1>1 DEF ClientsKept
<1>7. \A g \in Fds : Served(g)'
  BY <1>1, <1>2, <1>6, ServedKept
<1>8. ExclusiveBuffers'
  BY <1>1, <1>6, BuffersKept DEF Disciplined
<1> QED
  BY <1>1, <1>5, <1>7, <1>8 DEF Disciplined

\* until it is misused, a client the application writes to has its buffer
LEMMA UsedFacts ==
    ASSUME Inv, Disciplined, ~misused, NEW c \in Files, Alive(c)
    PROVE  client[c].buf \notin freed
  BY DEF Disciplined, ExclusiveBuffers

LEMMA WriteDisciplined ==
    ASSUME Inv, Disciplined, ~misused', NEW part \in {"more", "answer"}, Write(part)
    PROVE  Disciplined'
<1>1. /\ todo # << >> /\ Head(todo).call = part
      /\ misused' = (misused \/ ~Alive(Head(todo).who))
      /\ todo' = Tail(todo)
      /\ UNCHANGED <<file, watch, onError, client, pool, freed>>
  BY DEF Write, Doing, Judge
<1>2. PICK c \in Files : c = Head(todo).who
  BY <1>1, OwnFacts
<1>3. Alive(c) /\ ~misused
  BY <1>1, <1>2 DEF Alive
<1>5. Steady' /\ Finishing(c)'
  BY <1>1, <1>2, TailSteady DEF Disciplined
<1>6. \A d \in Files : Finishing(d) => d = c
  BY <1>1, <1>2, FinishFacts DEF Disciplined
<1>7. ClientsKept
  BY <1>1 DEF ClientsKept
<1>8. \A g \in Fds : Served(g)'
  BY <1>1, <1>5, <1>6, <1>7, ServedKept
<1>9. ExclusiveBuffers'
  BY <1>1, <1>3, <1>7, BuffersKept DEF Disciplined
<1> QED
  BY <1>5, <1>8, <1>9 DEF Disciplined

LEMMA WriteBufferDisciplined ==
    ASSUME Inv, Disciplined, ~misused', WriteBuffer
    PROVE  Disciplined'
<1>1. /\ todo # << >> /\ Head(todo).call \in {"flush", "end"}
      /\ misused' = (misused \/ ~Alive(Head(todo).who))
      /\ UNCHANGED <<file, onError, client, pool, freed>>
  BY DEF WriteBuffer, Doing, Judge
<1>2. PICK c \in Files : c = Head(todo).who /\ client[c].fd \in Fds
  BY <1>1, OwnFacts
<1>3. Alive(c) /\ ~misused
  BY <1>1, <1>2 DEF Alive
<1>4. client[c].buf \notin freed
  BY <1>2, <1>3, UsedFacts
<1>5. PICK fd \in Fds : fd = client[c].fd
  BY <1>2
<1>6. \/ /\ watch' = [watch EXCEPT ![fd] = [op |-> "empty", who |-> c, last |-> 0]]
         /\ \/ todo' = Then(c) \o Tail(todo)
            \/ todo' = <<Call("error", c, 0)>> \o Tail(todo)
      \/ /\ watch' = [watch EXCEPT ![fd] = [op |-> Head(todo).call, who |-> c, last |-> 0]]
         /\ todo' = Tail(todo)
  BY <1>2, <1>4, <1>5 DEF WriteBuffer
<1>7. ClientsKept
  BY <1>1 DEF ClientsKept
<1>8. Alive(c)'
  BY <1>1, <1>3, <1>7, AliveKept
<1>9. ExclusiveBuffers'
  BY <1>1, <1>3, <1>7, BuffersKept DEF Disciplined
<1>11. todo' = Tail(todo) => Steady' /\ (Head(todo).call = "flush" => Finishing(c)')
  BY <1>1, <1>2, TailSteady DEF Disciplined
<1>12. todo \in Seq(Calls) /\ Tail(todo) \in Seq(Calls)
  BY <1>1, HeadFacts, TailFacts
<1>13. PICK op : /\ op \in {"empty", "flush", "end"}
                 /\ watch' = [watch EXCEPT ![fd] = [op |-> op, who |-> c, last |-> 0]]
                 /\ Steady'
                 /\ op \in {"empty", "flush"} => Finishing(c)'
  <2>1. CASE /\ watch' = [watch EXCEPT ![fd] = [op |-> Head(todo).call, who |-> c, last |-> 0]]
             /\ todo' = Tail(todo)
    BY <1>1, <1>11, <2>1
  <2>2. CASE /\ watch' = [watch EXCEPT ![fd] = [op |-> "empty", who |-> c, last |-> 0]]
             /\ todo' = <<Call("error", c, 0)>> \o Tail(todo)
    <3>1. Steady' /\ Finishing(c)'
      BY <1>1, <1>2, <1>8, <2>2, SwapSteady DEF Disciplined
    <3> QED
      BY <2>2, <3>1
  <2>3. CASE /\ watch' = [watch EXCEPT ![fd] = [op |-> "empty", who |-> c, last |-> 0]]
             /\ todo' = Then(c) \o Tail(todo)
    <3>1. CASE Head(todo).call = "flush"
      <4>1. todo' = Tail(todo)
        BY <1>12, <2>3, <3>1, ConcatEmptySeq DEF Then
      <4> QED
        BY <1>11, <2>3, <3>1, <4>1
    <3>2. CASE Head(todo).call = "end"
      <4>1. \/ todo' = <<Call("start", c, 0)>> \o Tail(todo)
            \/ todo' = <<Call("close", c, 0)>> \o Tail(todo)
        BY <2>3, <3>2 DEF Then
      <4>2. Steady' /\ Finishing(c)'
        BY <1>1, <1>2, <1>8, <4>1, SwapSteady DEF Disciplined
      <4> QED
        BY <2>3, <4>2
    <3> QED
      BY <1>1, <3>1, <3>2
  <2> QED
    BY <1>6, <2>1, <2>2, <2>3
<1>14. \A g \in Fds : Served(g)'
  BY <1>1, <1>2, <1>3, <1>5, <1>7, <1>13, ServedAgain
<1> QED
  BY <1>9, <1>13, <1>14 DEF Disciplined

LEMMA StartDisciplined == ASSUME Inv, Disciplined, ~misused, Start PROVE Disciplined'
<1>1. /\ todo # << >> /\ Head(todo).call = "start" /\ todo' = Tail(todo)
      /\ LET c == Head(todo).who
         IN  watch' = [watch EXCEPT ![client[c].fd] = [op |-> "header", who |-> c, last |-> 0]]
      /\ UNCHANGED <<file, onError, client, pool, freed, mode>>
  BY DEF Start, Doing
<1>2. PICK c \in Files : c = Head(todo).who /\ client[c].fd \in Fds /\ Alive(c)
  BY <1>1, OwnFacts
<1>3. PICK fd \in Fds, op \in {"header"} : fd = client[c].fd
  BY <1>2
<1>4. /\ watch' = [watch EXCEPT ![fd] = [op |-> op, who |-> c, last |-> 0]]
      /\ op \notin {"none", "empty", "flush"}
  BY <1>1, <1>2, <1>3
<1>5. ClientsKept
  BY <1>1 DEF ClientsKept
<1>6. \A g \in Fds : Served(g)'
  BY <1>1, <1>2, <1>3, <1>4, <1>5, ServedAgain
<1>7. Steady'
  BY <1>1, <1>2, TailSteady DEF Disciplined
<1>8. ExclusiveBuffers'
  BY <1>1, <1>5, BuffersKept DEF Disciplined
<1> QED
  BY <1>1, <1>6, <1>7, <1>8 DEF Disciplined

LEMMA TriggerErrorDisciplined ==
    ASSUME Inv, Disciplined, ~misused, TriggerError
    PROVE  Disciplined'
<1>1. /\ todo # << >> /\ Head(todo).call = "error"
      /\ LET d == onError[client[Head(todo).who].fd]
         IN  d # 0 => todo' = <<Call("close", d, 0)>> \o Tail(todo)
      /\ UNCHANGED <<file, watch, onError, client, pool, freed>>
  BY DEF TriggerError, Doing
<1>2. PICK c \in Files : c = Head(todo).who /\ client[c].fd \in Fds /\ Alive(c)
  BY <1>1, OwnFacts
<1>3. onError[client[c].fd] = c /\ c # 0
  BY <1>2 DEF Disciplined, Served, Alive, Files
<1>4. todo' = <<Call("close", c, 0)>> \o Tail(todo)
  BY <1>1, <1>2, <1>3
<1>5. ClientsKept
  BY <1>1 DEF ClientsKept
<1>6. Alive(c)'
  BY <1>1, <1>2, <1>5, AliveKept
<1>7. Steady' /\ Finishing(c)'
  BY <1>1, <1>2, <1>4, <1>6, SwapSteady DEF Disciplined
<1>8. \A d \in Files : Finishing(d) => d = c
  BY <1>1, <1>2, FinishFacts DEF Disciplined
<1>9. \A g \in Fds : Served(g)'
  BY <1>1, <1>5, <1>7, <1>8, ServedKept
<1>10. ExclusiveBuffers'
  BY <1>1, <1>5, BuffersKept DEF Disciplined
<1> QED
  BY <1>4, <1>7, <1>9, <1>10 DEF Disciplined

\* what push makes of the buffer of the client that closes
LEMMA PushFacts ==
    ASSUME Inv, Disciplined, ~misused, NEW b \in Files, b \notin Elements(pool) \cup freed, Push(b)
    PROVE  /\ Elements(pool') \cup freed' = Elements(pool) \cup freed \cup {b}
           /\ Elements(pool') \cap freed' = {}
           /\ \A i, j \in DOMAIN pool' : pool'[i] = pool'[j] => i = j
<1>1. /\ \A i, j \in DOMAIN pool : pool[i] = pool[j] => i = j
      /\ Elements(pool) \cap freed = {}
  BY DEF Disciplined, ExclusiveBuffers
<1>2. CASE freed' = freed \cup {b} /\ UNCHANGED pool
  BY <1>1, <1>2
<1>3. CASE pool' = Append(pool, b) /\ UNCHANGED freed
  <2> DEFINE m == Len(pool)
  <2>1. pool \in Seq(Files)
    BY DEF Inv, BufferOK
  <2>2. /\ m \in Nat /\ DOMAIN pool = 1 .. m /\ DOMAIN pool' = 1 .. m + 1
        /\ \A i \in 1 .. m : pool'[i] = pool[i]
        /\ pool'[m + 1] = b
    BY <1>3, <2>1, AppendProperties, LenProperties
  <2> HIDE DEF m
  <2>3. DOMAIN pool' = DOMAIN pool \cup {m + 1} /\ m + 1 \notin DOMAIN pool
    BY <2>2
  <2>4. \A i \in DOMAIN pool : pool'[i] = pool[i]
    BY <2>2
  <2>5. Elements(pool') = Elements(pool) \cup {b}
    BY <2>2, <2>3, <2>4 DEF Elements
  <2>6. \A i \in DOMAIN pool : pool[i] # b
    BY DEF Elements
  <2>7. \A i, j \in DOMAIN pool' : pool'[i] = pool'[j] => i = j
    BY <1>1, <2>2, <2>3, <2>4, <2>6
  <2> QED
    BY <1>1, <1>3, <2>5, <2>7
<1> QED
  BY <1>2, <1>3 DEF Push

LEMMA CloseDisciplined == ASSUME Inv, Disciplined, ~misused, Close PROVE Disciplined'
<1>1. /\ todo # << >> /\ Head(todo).call = "close" /\ todo' = Tail(todo)
      /\ LET fd == client[Head(todo).who].fd
         IN  /\ watch' = [watch EXCEPT ![fd] = NoWatch]
             /\ onError' = [onError EXCEPT ![fd] = 0]
             /\ file' = [file EXCEPT ![fd] = 0]
      /\ Push(client[Head(todo).who].buf)
      /\ UNCHANGED <<client, mode, misused>>
  BY DEF Close, Doing
<1>2. PICK c \in Files : c = Head(todo).who /\ client[c].fd \in Fds /\ Alive(c)
  BY <1>1, OwnFacts
<1>3. PICK fd \in Fds : fd = client[c].fd
  BY <1>2
<1>4. /\ file'[fd] = 0 /\ \A g \in Fds \ {fd} : file'[g] = file[g]
      /\ onError'[fd] = 0 /\ \A g \in Fds \ {fd} : onError'[g] = onError[g]
      /\ watch'[fd] = NoWatch /\ \A g \in Fds \ {fd} : watch'[g] = watch[g]
  BY <1>1, <1>2, <1>3 DEF Inv, KernelOK, ErrorOK, WatchOK
<1>5. PICK b \in Files : b = client[c].buf
  BY <1>1, <1>2, HeadFacts
<1>6. ASSUME NEW g \in Fds PROVE Served(g)'
  <2>1. CASE g = fd
    BY <1>4, <2>1 DEF Served
  <2>2. CASE g # fd /\ file[g] = 0
    BY <1>4, <2>2 DEF Served, Disciplined
  <2>3. CASE g # fd /\ file[g] # 0
    <3>1. PICK d \in Files : d = file[g]
      BY <2>3, OpenFacts
    <3>2. client[d].fd = g /\ d # c
      BY <1>3, <2>3, <3>1, OpenFacts
    <3>3. ~Finishing(d)
      BY <1>1, <1>2, <3>2, FinishFacts DEF Disciplined
    <3> QED
      BY <1>1, <1>4, <2>3, <3>1, <3>2, <3>3 DEF Served, Disciplined
  <2> QED
    BY <2>1, <2>2, <2>3
<1>7. ASSUME NEW d \in Files, Alive(d)' PROVE Alive(d) /\ d # c /\ client[d].buf # b
  <2>1. client[d] # NoClient /\ file'[client[d].fd] = d /\ d # 0
    BY <1>1, <1>7 DEF Alive, Files
  <2>2. client[d].fd \in Fds
    BY <2>1 DEF Inv, ClientOK, Clients
  <2>3. client[d].fd # fd
    BY <1>4, <2>1
  <2>4. Alive(d) /\ d # c
    BY <1>3, <1>4, <2>1, <2>2, <2>3 DEF Alive
  <2> QED
    BY <1>2, <1>5, <2>4 DEF Disciplined, ExclusiveBuffers
<1>8. ExclusiveBuffers'
  <2>1. b \notin Elements(pool) \cup freed
    BY <1>2, <1>5 DEF Disciplined, ExclusiveBuffers
  <2>2. /\ Elements(pool') \cup freed' = Elements(pool) \cup freed \cup {b}
        /\ Elements(pool') \cap freed' = {}
        /\ \A i, j \in DOMAIN pool' : pool'[i] = pool'[j] => i = j
    BY <1>1, <1>2, <1>5, <2>1, PushFacts
  <2>3. ASSUME NEW d \in Files, Alive(d)'
        PROVE  /\ client'[d].buf \notin Elements(pool') \cup freed'
               /\ \A x \in Files \ {d} : Alive(x)' => client'[x].buf # client'[d].buf
    <3>1. client[d].buf \notin Elements(pool) \cup freed \cup {b}
      BY <1>7, <2>3 DEF Disciplined, ExclusiveBuffers
    <3>2. \A x \in Files \ {d} : Alive(x)' => client[x].buf # client[d].buf
      BY <1>7, <2>3 DEF Disciplined, ExclusiveBuffers
    <3> QED
      BY <1>1, <2>2, <3>1, <3>2
  <2> QED
    BY <2>2, <2>3 DEF ExclusiveBuffers
<1>9. Steady'
  BY <1>1, <1>2, TailSteady DEF Disciplined
<1> QED
  BY <1>1, <1>6, <1>8, <1>9 DEF Disciplined

-----------------------------------------------------------------------------
(* The theorems. *)

LEMMA InitFull == ASSUME Init PROVE FullInv
<1>1. Inv
  BY InitInv
<1>2. \A fd \in Fds : Served(fd)
  BY DEF Init, Served
<1>3. Steady
  BY DEF Init, Steady
<1>4. ExclusiveBuffers
  <2>1. \A c \in Files : ~Alive(c)
    BY DEF Init, Alive
  <2>2. Elements(pool) = {} /\ DOMAIN pool = {}
    BY DEF Init, Elements
  <2> QED
    BY <2>1, <2>2 DEF ExclusiveBuffers
<1>5. mode = "running" /\ behind = {}
  BY DEF Init
<1> QED
  BY <1>1, <1>2, <1>3, <1>4, <1>5 DEF FullInv, Disciplined, Explained

\* what waits in a batch is for descriptors
LEMMA BehindStep == ASSUME Inv, behind \subseteq Fds, [Next]_vars PROVE behind' \subseteq Fds
<1>1. CASE Later
  <2>1. \/ UNCHANGED behind
        \/ \E c \in Files : Alive(c) /\ behind' = behind \cup {client[c].fd}
    BY <1>1 DEF Later
  <2>2. \A c \in Files : Alive(c) => client[c].fd \in Fds
    BY DEF Inv, ClientOK, Clients, Alive
  <2> QED
    BY <2>1, <2>2
<1>2. CASE \E fd \in Fds : Accept(fd) \/ Input(fd) \/ Output(fd) \/ ErrorEvent(fd) \/ LateEvent(fd)
  BY <1>2 DEF Accept, Input, Output, ErrorEvent, LateEvent, Delivered
<1>3. CASE Script
  BY <1>3 DEF Script, Header, Process, Write, WriteBuffer, Start, TriggerError, Close
<1>4. CASE \/ PeerActs \/ (\E f \in Files : PeerReads(f)) \/ AcceptFails \/ LoopEnds \/ Stopped
           \/ UNCHANGED vars
  BY <1>4 DEF PeerActs, PeerReads, AcceptFails, LoopEnds, Stopped, vars
<1> QED
  BY <1>1, <1>2, <1>3, <1>4 DEF Next

\* the process dies in no other way
LEMMA ExplainedStep ==
    ASSUME Inv, Disciplined, Explained, ~misused, ~misused', [Next]_vars PROVE Explained'
<1>1. CASE mode = "running" /\ mode' \notin {"crashed", "thrown"}
  BY <1>1 DEF Explained
<1>2. CASE \/ PeerActs \/ (\E f \in Files : PeerReads(f)) \/ Stopped \/ UNCHANGED vars
  <2>1. UNCHANGED <<mode, behind, file, watch, todo, client>>
    BY <1>2 DEF PeerActs, PeerReads, Stopped, vars
  <2> QED
    BY <2>1 DEF Explained
<1>3. CASE AcceptFails \/ LoopEnds \/ Later \/ Process \/ Start \/ Close
  <2>1. mode = "running" /\ mode' \in {"running", "returned"}
    BY <1>3 DEF AcceptFails, LoopEnds, Later, Process, Start, Close, Idle, Doing
  <2> QED
    BY <1>1, <2>1
<1>4. CASE \E fd \in Fds : Accept(fd) \/ Input(fd) \/ Output(fd)
  <2>1. mode = "running" /\ mode' = "running"
    BY <1>4 DEF Accept, Input, Output, Idle
  <2> QED
    BY <1>1, <2>1
<1>5. ASSUME NEW fd \in Fds, ErrorEvent(fd) PROVE Explained'
  <2>1. mode = "running" /\ todo = << >> /\ file[fd] # 0
    BY <1>5 DEF ErrorEvent, Idle
  <2>2. onError[fd] # 0
    BY <2>1, IdleFacts
  <2> QED
    BY <1>1, <1>5, <2>1, <2>2 DEF ErrorEvent
<1>6. ASSUME NEW fd \in Fds, LateEvent(fd) PROVE Explained'
  <2>1. mode = "running" /\ fd \in behind /\ UNCHANGED <<file, watch>>
    BY <1>6 DEF LateEvent, Idle
  <2>2. CASE UNCHANGED mode
    BY <1>1, <2>1, <2>2
  <2>3. CASE mode' = "crashed" /\ watch[fd] = NoWatch /\ UNCHANGED behind
    <3>1. file[fd] = 0
      BY <2>3 DEF Disciplined, Served, NoWatch
    <3> QED
      BY <2>1, <2>3, <3>1 DEF Explained
  <2> QED
    BY <1>6, <2>2, <2>3 DEF LateEvent
<1>7. CASE Header
  <2>1. mode = "running" /\ todo # << >> /\ Head(todo).call = "header"
    BY <1>7 DEF Header, Doing
  <2>2. PICK c \in Files : c = Head(todo).who /\ Alive(c)
    BY <2>1, OwnFacts
  <2>3. CASE UNCHANGED mode
    BY <1>1, <2>1, <2>3
  <2>4. CASE ~UNCHANGED mode
    <3>1. PICK k, y, q : /\ client' = [client EXCEPT ![c].keep = k, ![c].body = y, ![c].req = q]
                         /\ y = "untyped" /\ mode' = "thrown" /\ UNCHANGED todo
      BY <1>7, <2>2, <2>4 DEF Header
    <3>2. client[c] \in Clients /\ client \in [Files -> Clients \cup {NoClient}]
      BY <2>2 DEF Inv, ClientOK, Alive
    <3>3. client'[c] = [client[c] EXCEPT !.keep = k, !.body = y, !.req = q]
      BY <3>1, <3>2
    <3>4. client'[c].body = "untyped"
      BY <3>1, <3>2, <3>3 DEF Clients
    <3> QED
      BY <2>1, <2>2, <3>1, <3>4 DEF Explained
  <2> QED
    BY <2>3, <2>4
<1>8. CASE TriggerError
  <2>1. mode = "running" /\ todo # << >> /\ Head(todo).call = "error"
    BY <1>8 DEF TriggerError, Doing
  <2>2. PICK c \in Files : c = Head(todo).who /\ client[c].fd \in Fds /\ Alive(c)
    BY <2>1, OwnFacts
  <2>3. onError[client[c].fd] # 0
    BY <2>2 DEF Disciplined, Served, Alive, Files
  <2>4. UNCHANGED mode
    BY <1>8, <2>2, <2>3 DEF TriggerError
  <2> QED
    BY <1>1, <2>1, <2>4
<1>9. ASSUME NEW part \in {"more", "answer"}, Write(part) PROVE Explained'
  <2>1. mode = "running" /\ todo # << >>
    BY <1>9 DEF Write, Doing
  <2>2. PICK c \in Files : c = Head(todo).who
    BY <2>1, OwnFacts
  <2>3. Alive(c)
    BY <1>9, <2>2 DEF Write, Judge
  <2>4. client[c].buf \notin freed
    BY <2>3, UsedFacts
  <2>5. UNCHANGED mode
    BY <1>9, <2>2, <2>4 DEF Write
  <2> QED
    BY <1>1, <2>1, <2>5
<1>10. CASE WriteBuffer
  <2>1. mode = "running" /\ todo # << >>
    BY <1>10 DEF WriteBuffer, Doing
  <2>2. PICK c \in Files : c = Head(todo).who
    BY <2>1, OwnFacts
  <2>3. Alive(c)
    BY <1>10, <2>2 DEF WriteBuffer, Judge
  <2>4. client[c].buf \notin freed
    BY <2>3, UsedFacts
  <2>5. mode' \in {mode, "killed"}
    BY <1>10, <2>2, <2>4 DEF WriteBuffer
  <2> QED
    BY <1>1, <2>1, <2>5
<1> QED
  BY <1>2, <1>3, <1>4, <1>5, <1>6, <1>7, <1>8, <1>9, <1>10 DEF Next, Script

LEMMA StepFull == ASSUME FullInv, [Next]_vars PROVE FullInv'
<1>1. Inv' /\ Inv /\ behind' \subseteq Fds
  BY StepInv, BehindStep DEF FullInv
<1>2. SUFFICES ASSUME ~misused' PROVE Disciplined' /\ Explained'
  BY <1>1 DEF FullInv
<1>3. ~misused => Disciplined /\ Explained
  BY DEF FullInv
<1>0. ~misused => Explained'
  BY <1>1, <1>2, <1>3, ExplainedStep
<1>4. CASE Write("more") \/ Write("answer") \/ WriteBuffer
  <2>1. ~misused
    BY <1>2, <1>4 DEF Write, WriteBuffer, Judge
  <2> QED
    BY <1>0, <1>1, <1>2, <1>3, <1>4, <2>1, WriteDisciplined, WriteBufferDisciplined
<1>5. CASE Header \/ Process \/ Start \/ TriggerError \/ Close
  <2>1. ~misused
    BY <1>2, <1>5 DEF Header, Process, Start, TriggerError, Close
  <2> QED
    BY <1>0, <1>1, <1>3, <1>5, <2>1, HeaderDisciplined, ProcessDisciplined, StartDisciplined,
       TriggerErrorDisciplined, CloseDisciplined
<1>6. CASE Later \/ \E fd \in Fds : \/ Accept(fd) \/ Input(fd) \/ Output(fd) \/ ErrorEvent(fd)
                                     \/ LateEvent(fd)
  <2>1. ~misused
    BY <1>2, <1>6 DEF Later, Accept, Input, Output, ErrorEvent, LateEvent
  <2> QED
    BY <1>0, <1>1, <1>3, <1>6, <2>1, LaterDisciplined, AcceptDisciplined, InputDisciplined,
       OutputDisciplined, ErrorEventDisciplined, LateEventDisciplined
<1>7. CASE PeerActs \/ (\E f \in Files : PeerReads(f)) \/ AcceptFails \/ LoopEnds \/ Stopped
           \/ UNCHANGED vars
  <2>1. UNCHANGED <<file, watch, onError, client, pool, freed, todo, misused>>
    BY <1>7 DEF PeerActs, PeerReads, AcceptFails, LoopEnds, Stopped, vars
  <2>2. ~misused /\ Disciplined
    BY <1>2, <1>3, <2>1
  <2> QED
    BY <1>0, <1>1, <2>1, <2>2, SameDisciplined
<1> QED
  BY <1>4, <1>5, <1>6, <1>7 DEF Next, Script

\* Whatever the server, its clients and its callback do, the strengthened
\* invariant holds: its parts on the sockets and the pool for ever, and those on
\* the attended clients until a closed client is used (http.coffee's loop).
THEOREM Invariance == Spec => []FullInv
<1>1. Init => FullInv
  BY InitFull
<1>2. FullInv /\ [Next]_vars => FullInv'
  BY StepFull
<1> QED
  BY <1>1, <1>2, PTL DEF Spec

\* Every variable keeps to its set, whatever peers and the application do: in
\* particular the search never leaves the buffer (readUntil, socket.coffee:33).
THEOREM TypeCorrect == Spec => []TypeOK
<1>1. FullInv => TypeOK
  <2> SUFFICES ASSUME Inv, behind \subseteq Fds PROVE TypeOK
    BY DEF FullInv
  <2>1. \A f \in Files : \A s \in {wire[f], out[f], got[f], asking[f], content[f]} : s \in Seq(Pieces)
    BY DEF Inv, PeersOK, OutOK, BufferOK, Streams
  <2>2. \A fd \in Fds : /\ watch[fd].op \in {"none", "header", "body", "empty", "flush", "end"}
                        /\ watch[fd].who \in 0 .. MaxFiles /\ watch[fd].last \in Nat
    BY DEF Inv, WatchOK, Watches
  <2>3. client \in [Files -> [fd : Fds, buf : Files, keep : BOOLEAN, body : Bodies,
                              req : 0 .. MaxRequests] \cup {NoClient}]
    BY DEF Inv, ClientOK, Clients
  <2>4. todo \in Seq(Calls)
    BY DEF Inv, ThreadOK, PlanOK
  <2>5. /\ opened \in 0 .. MaxFiles /\ file \in [Fds -> 0 .. MaxFiles]
        /\ gone \in [Files -> {"no", "eof", "reset"}]
        /\ asked \in [Files -> [n : 0 .. MaxRequests, keep : BOOLEAN]]
        /\ onError \in [Fds -> 0 .. MaxFiles]
        /\ pool \in Seq(Files) /\ freed \subseteq Files
        /\ mode \in {"running", "returned", "thrown", "crashed", "killed"}
        /\ pending \in [Files -> [1 .. MaxRequests -> Nat]]
    BY DEF Inv, PeersOK, KernelOK, ErrorOK, BufferOK, ThreadOK
  <2> QED
    BY <2>1, <2>2, <2>3, <2>4, <2>5 DEF TypeOK
<1> QED
  BY <1>1, Invariance, PTL

\* Between two events every open connection waits for something with its own client's
\* callbacks, for any number of pipelined requests and late answers (start, end and
\* close of http.coffee over $setEvent and $error of socket.coffee).
THEOREM AlwaysAttended == Spec => []Attended
<1>1. FullInv => Attended
  BY IdleFacts DEF FullInv, Attended
<1> QED
  BY <1>1, Invariance, PTL

\* No two open clients share a buffer and the pool holds none of theirs and none twice
\* ($bufferPool of buffer.coffee, as new Client and close use it).
THEOREM BuffersExclusive == Spec => []ExclusiveBuffers
<1>1. FullInv => ExclusiveBuffers
  BY DEF FullInv, Disciplined, ExclusiveBuffers
<1> QED
  BY <1>1, Invariance, PTL

\* Until the application uses a closed client, the process dies in two ways only: undefined
\* called for an event behind the late answer that closed its connection, and the
\* TypeError of a request with a length and no type (recvBody, http.coffee).
THEOREM DeathsExplained == Spec => []DiesAsKnown
<1>1. FullInv => DiesAsKnown
  BY DEF FullInv, Explained, DiesAsKnown
<1> QED
  BY <1>1, Invariance, PTL
=============================================================================
