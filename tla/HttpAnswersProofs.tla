------------------------- MODULE HttpAnswersProofs -------------------------
(***************************************************************************)
(* What peers of the HTTP server read are the answers to their own         *)
(* requests, in the order they asked, whatever the kernel takes of a text  *)
(* at a time and whatever peers lose, for any number of them; if the       *)
(* application answers while it is called, or peers wait for their         *)
(* answers.  Over the ownership of descriptors, callbacks and buffers that *)
(* HttpServerProofs shows.                                                 *)
(*                                                                         *)
(* A client's buffer holds first what came of its requests and then the    *)
(* answer; what the peer was sent and the answers still to come are of     *)
(* requests up to the one the client is at, and what still comes is of     *)
(* those from it on.                                                       *)
(***************************************************************************)
EXTENDS HttpServerProofs

\* Pieces of the requests from m to n, in the order they were asked.
Sorted(s, m, n) ==
    \A i \in 1 .. Len(s) : /\ m <= s[i].req /\ s[i].req <= n
                           /\ \A j \in 1 .. Len(s) : i < j => s[i].req <= s[j].req

\* Pieces of the answers to a connection up to its m-th.
IsAnswer(f, p) == p.part \in Answers /\ p.file = f
OwnTo(f, s, m) == Sorted(s, 0, m) /\ \A i \in 1 .. Len(s) : IsAnswer(f, s[i])

\* Pieces of the answer to one request.
Text(f, s, m) == \A i \in 1 .. Len(s) : IsAnswer(f, s[i]) /\ s[i].req = m

Said(f) == got[f] \o out[f]
Coming(f) == wire[f] \o asking[f]
Box(f) == content[client[f].buf]

\* what the thread does for a connection
Mine(f) == IF todo # << >> /\ Head(todo).who = f THEN Head(todo).call ELSE "none"
Writes == {"more", "answer", "flush", "end"}

\* its buffer holds the answer, or what came of the requests
Writing(mine, op) == mine \in Writes \/ op \in {"flush", "end"}
Reading(mine, op) == mine = "header" \/ (mine = "none" /\ op \in {"header", "body"})

Talks(f, mine, op) ==
    LET m == client[f].req
        n == asked[f].n
    IN  /\ m <= n
        /\ Sorted(Coming(f), m, n)
        /\ OwnTo(f, Said(f), m)
        /\ Writing(mine, op) => Text(f, Box(f), m)
        /\ Reading(mine, op) => Sorted(Box(f) \o Coming(f), m, n)
        /\ mine \in {"header", "process"} => op \in {"header", "body"}

\* What a connection is at when its peer asks nothing before it is answered: it rests,
\* hears one request, takes its body, keeps it for later, replies, or is given up.
Settled(f) ==
    asked[f].n = 0 \/ \E i \in 1 .. Len(Said(f)) :
                          Said(f)[i].part = "answer" /\ Said(f)[i].req = asked[f].n
Nothing(f) == \A r \in 1 .. MaxRequests : pending[f][r] = 0

Resting(f, mine, op) ==
    /\ mine = "start" \/ (mine = "none" /\ op = "header" /\ Box(f) = << >>)
    /\ client[f].req = asked[f].n /\ Coming(f) = << >> /\ Nothing(f)

\* the pieces of one request, of which at most the body comes after its end
OneRequest(s, n) ==
    \A i \in 1 .. Len(s) :
        s[i].req = n /\ (s[i].part = "end" => Len(s) <= i + IF s[i].shape.body = "none" THEN 0 ELSE 1)

Hearing(f, mine, op) ==
    /\ mine \in {"none", "header"} /\ op = "header"
    /\ client[f].req < asked[f].n /\ Nothing(f)
    /\ OneRequest(Box(f) \o Coming(f), asked[f].n)

Taking(f, mine, op) ==
    /\ mine = "none" /\ op = "body"
    /\ client[f].req = asked[f].n /\ ~Settled(f) /\ Nothing(f)
    /\ Len(Box(f) \o Coming(f)) <= 1

Keeping(f, mine, op) ==
    /\ mine = "none" /\ op \in {"header", "body"}
    /\ client[f].req = asked[f].n /\ ~Settled(f) /\ Box(f) = << >> /\ Coming(f) = << >>
    /\ \A r \in 1 .. MaxRequests :
          pending[f][r] > 0 => pending[f][r] = 1 /\ r = client[f].req

\* the piece that ends the answer comes last
LastAnswer(s, mine) ==
    \A i \in 1 .. Len(s) : s[i].part = "answer" => i = Len(s) /\ mine \in {"end", "none"}

Replying(f, mine, op) ==
    /\ mine \in Writes \cup {"process"} \/ (mine = "none" /\ op = "end")
    /\ client[f].req = asked[f].n /\ ~Settled(f) /\ Coming(f) = << >> /\ Nothing(f)
    /\ mine # "process" => LastAnswer(Box(f), mine)

Paced(f, mine, op) ==
    \/ mine \in {"error", "close"}
    \/ Resting(f, mine, op) \/ Hearing(f, mine, op) \/ Taking(f, mine, op)
    \/ Keeping(f, mine, op) \/ Replying(f, mine, op)

\* what the application still does for the request it answers
Plans(c) ==
    LET r == client[c].req
    IN  {<<Call("more", c, r), Call("flush", c, r), Call("answer", c, r), Call("end", c, r)>>,
         <<Call("flush", c, r), Call("answer", c, r), Call("end", c, r)>>,
         <<Call("answer", c, r), Call("end", c, r)>>,
         <<Call("end", c, r)>>, <<Call("end", c, 0)>>}

\* the head of a request that was found ends where the search stopped
Found ==
    todo # << >> /\ Head(todo).call = "header" =>
        LET c == Head(todo).who
        IN  Box(c)[watch[client[c].fd].last + 1].part = "end"

Orderly ==
    todo # << >> /\ Head(todo).call \in Writes /\ Alive(Head(todo).who) =>
        todo \in Plans(Head(todo).who)

Answering ==
    /\ Orderly
    /\ \A fd \in Fds : file[fd] # 0 =>
          /\ Talks(file[fd], Mine(file[fd]), watch[fd].op)
          /\ ~Pipelining => Paced(file[fd], Mine(file[fd]), watch[fd].op)
    /\ \A f \in Files : /\ OwnTo(f, Said(f), MaxRequests)
                        /\ f > opened => Said(f) = << >> /\ Coming(f) = << >> /\ asked[f].n = 0

\* An answer that comes later is to the request the client is at, and finds the buffer
\* as it was left.
Prompt ==
    \A fd \in Fds : file[fd] # 0 /\ todo = << >> =>
        \A r \in 1 .. MaxRequests : pending[file[fd]][r] > 0 =>
            r = client[file[fd]].req /\ Box(file[fd]) = << >>

-----------------------------------------------------------------------------
(* Sequences of pieces. *)

LEMMA JoinFacts ==
    ASSUME NEW s \in Seq(Pieces), NEW t \in Seq(Pieces)
    PROVE  /\ s \o t \in Seq(Pieces) /\ Len(s) \in Nat /\ Len(t) \in Nat
           /\ Len(s \o t) = Len(s) + Len(t)
           /\ \A i \in 1 .. Len(s) : i \in 1 .. Len(s \o t) /\ (s \o t)[i] = s[i] /\ s[i] \in Pieces
           /\ \A i \in 1 .. Len(t) : /\ Len(s) + i \in 1 .. Len(s \o t)
                                     /\ (s \o t)[Len(s) + i] = t[i] /\ t[i] \in Pieces
           /\ \A i \in 1 .. Len(s \o t) : \/ i \in 1 .. Len(s)
                                          \/ i - Len(s) \in 1 .. Len(t) /\ (s \o t)[i] = t[i - Len(s)]
<1> DEFINE u == s \o t
<1>1. /\ Len(s) \in Nat /\ Len(t) \in Nat /\ u \in Seq(Pieces) /\ Len(u) = Len(s) + Len(t)
      /\ \A i \in 1 .. Len(s) + Len(t) : u[i] = IF i <= Len(s) THEN s[i] ELSE t[i - Len(s)]
  BY ConcatProperties, LenProperties
<1>2. /\ \A i \in 1 .. Len(s) : s[i] \in Pieces
      /\ \A i \in 1 .. Len(t) : t[i] \in Pieces
  BY ElementOfSeq
<1> HIDE DEF u
<1>3. \A i \in 1 .. Len(s) : i \in 1 .. Len(u) /\ u[i] = s[i]
  BY <1>1
<1>4. \A i \in 1 .. Len(t) : Len(s) + i \in 1 .. Len(u) /\ u[Len(s) + i] = t[i]
  <2> TAKE i \in 1 .. Len(t)
  <2>1. Len(s) + i \in 1 .. Len(s) + Len(t) /\ ~(Len(s) + i <= Len(s)) /\ (Len(s) + i) - Len(s) = i
    BY <1>1
  <2> QED
    BY <1>1, <2>1
<1>5. \A i \in 1 .. Len(u) : \/ i \in 1 .. Len(s)
                             \/ i - Len(s) \in 1 .. Len(t) /\ u[i] = t[i - Len(s)]
  BY <1>1
<1> QED
  BY <1>1, <1>2, <1>3, <1>4, <1>5 DEF u

LEMMA NothingJoined ==
    ASSUME NEW s \in Seq(Pieces), NEW t \in Seq(Pieces), s \o t = << >>
    PROVE  s = << >> /\ t = << >>
<1>1. Len(s \o t) = Len(s) + Len(t) /\ Len(s) \in Nat /\ Len(t) \in Nat
  BY ConcatProperties, LenProperties
<1>2. Len(s \o t) = 0
  OBVIOUS
<1>3. Len(s) = 0 /\ Len(t) = 0
  BY ONLY <1>1, <1>2
<1> QED
  BY <1>3, EmptySeq

LEMMA PieceReq == ASSUME NEW p \in Pieces PROVE p.req \in Nat /\ p.req \in 1 .. MaxRequests
  BY HttpAssumption DEF Pieces

LEMMA Regroup ==
    ASSUME NEW s \in Seq(Pieces), NEW t \in Seq(Pieces), NEW u \in Seq(Pieces)
    PROVE  (s \o t) \o u = s \o (t \o u)
  BY ConcatAssociative

\* what is taken and what is left are what there was
LEMMA CutInTwo ==
    ASSUME NEW u \in Seq(Pieces), NEW n \in 0 .. Len(u)
    PROVE  /\ SubSeq(u, 1, n) \o Rest(u, n) = u
           /\ SubSeq(u, 1, n) \in Seq(Pieces) /\ Rest(u, n) \in Seq(Pieces)
           /\ Len(SubSeq(u, 1, n)) = n /\ Len(Rest(u, n)) = Len(u) - n
           /\ \A i \in 1 .. n : i \in 1 .. Len(u) /\ SubSeq(u, 1, n)[i] = u[i]
           /\ \A i \in 1 .. Len(u) - n : i + n \in 1 .. Len(u) /\ Rest(u, n)[i] = u[i + n]
<1>1. Len(u) \in Nat /\ n \in Int /\ Len(u) \in Int /\ n + 1 \in Int /\ 1 \in Int
  BY LenProperties
<1>2. /\ \A i \in 1 .. n : u[i] \in Pieces /\ i \in 1 .. Len(u)
      /\ \A i \in n + 1 .. Len(u) : u[i] \in Pieces
  BY <1>1, ElementOfSeq
<1> DEFINE v == SubSeq(u, 1, n)
           w == Rest(u, n)
<1>3. /\ v \in Seq(Pieces) /\ Len(v) = IF 1 <= n THEN n - 1 + 1 ELSE 0
      /\ \A i \in 1 .. n - 1 + 1 : v[i] = u[1 + i - 1]
  BY <1>1, <1>2, SubSeqProperties
<1>4. /\ w \in Seq(Pieces) /\ Len(w) = IF n + 1 <= Len(u) THEN Len(u) - (n + 1) + 1 ELSE 0
      /\ \A i \in 1 .. Len(u) - (n + 1) + 1 : w[i] = u[(n + 1) + i - 1]
  BY <1>1, <1>2, SubSeqProperties DEF Rest
<1>5. v \o w = u
  <2>1. 1 \in 1 .. Len(u) + 1 /\ n \in 1 - 1 .. Len(u) /\ Len(u) \in n .. Len(u)
    BY <1>1
  <2>2. SubSeq(u, 1, n) \o SubSeq(u, n + 1, Len(u)) = SubSeq(u, 1, Len(u))
    BY <2>1, ConcatAdjacentSubSeq
  <2> QED
    BY <2>2, SubSeqFull DEF Rest
<1> HIDE DEF v, w
<1>6. Len(v) = n /\ Len(w) = Len(u) - n
  BY <1>1, <1>3, <1>4
<1>7. \A i \in 1 .. n : i \in 1 .. n - 1 + 1 /\ 1 + i - 1 = i
  BY <1>1
<1>8. \A i \in 1 .. Len(u) - n : /\ i \in 1 .. Len(u) - (n + 1) + 1 /\ (n + 1) + i - 1 = i + n
                                 /\ i + n \in 1 .. Len(u)
  BY <1>1
<1>9. \A i \in 1 .. n : v[i] = u[i]
  BY <1>3, <1>7
<1>10. \A i \in 1 .. Len(u) - n : w[i] = u[i + n]
  BY <1>4, <1>8
<1> QED
  BY <1>2, <1>3, <1>4, <1>5, <1>6, <1>8, <1>9, <1>10 DEF v, w

\* the first of one sequence becomes the last of the one before it
LEMMA MoveFirst ==
    ASSUME NEW s \in Seq(Pieces), NEW t \in Seq(Pieces), t # << >>
    PROVE  /\ Append(s, Head(t)) \o Tail(t) = s \o t
           /\ Append(s, Head(t)) \in Seq(Pieces) /\ Tail(t) \in Seq(Pieces)
           /\ Head(t) = t[1] /\ Head(t) \in Pieces
<1>1. Head(t) \in Pieces /\ Tail(t) \in Seq(Pieces) /\ Head(t) = t[1]
  BY TailFacts
<1> DEFINE h == <<Head(t)>>
           r == Tail(t)
<1>2. h \in Seq(Pieces) /\ r \in Seq(Pieces)
  BY <1>1
<1>3. h \o r = t
  <2>1. Len(t) \in Nat \ {0} /\ Len(r) = Len(t) - 1 /\ \A i \in 1 .. Len(t) - 1 : r[i] = t[i + 1]
    BY TailFacts
  <2>2. Len(h) = 1 /\ h[1] = t[1]
    BY <1>1
  <2> HIDE DEF h, r
  <2> DEFINE u == h \o r
  <2>9. /\ u \in Seq(Pieces) /\ Len(u) = Len(h) + Len(r)
        /\ \A i \in 1 .. Len(h) + Len(r) : u[i] = IF i <= Len(h) THEN h[i] ELSE r[i - Len(h)]
    BY <1>2, ConcatProperties
  <2> HIDE DEF u
  <2>3. /\ u \in Seq(Pieces) /\ Len(u) = 1 + Len(r)
        /\ \A i \in 1 .. 1 + Len(r) : u[i] = IF i <= 1 THEN h[i] ELSE r[i - 1]
    BY <2>2, <2>9
  <2>4. \A i \in 1 .. Len(t) : u[i] = t[i]
    <3> TAKE i \in 1 .. Len(t)
    <3>1. CASE i = 1
      BY <2>1, <2>2, <2>3, <3>1
    <3>2. CASE i # 1
      <4>1. i - 1 \in 1 .. Len(t) - 1 /\ ~(i <= 1) /\ i \in 1 .. 1 + Len(r) /\ (i - 1) + 1 = i
        BY <2>1, <3>2
      <4> QED
        BY <2>1, <2>3, <4>1
    <3> QED
      BY <3>1, <3>2
  <2>5. Len(u) = Len(t)
    BY <2>1, <2>3
  <2>6. u = t
    BY <2>3, <2>4, <2>5, SeqEqual
  <2> QED
    BY <2>6 DEF u
<1>4. Append(s, Head(t)) = s \o h /\ Append(s, Head(t)) \in Seq(Pieces)
  BY <1>1, AppendIsConcat, AppendProperties
<1> HIDE DEF h, r
<1>5. (s \o h) \o r = s \o (h \o r)
  BY <1>2, Regroup
<1> QED
  BY <1>1, <1>3, <1>4, <1>5 DEF r

LEMMA SortedJoin ==
    ASSUME NEW s \in Seq(Pieces), NEW t \in Seq(Pieces), NEW m \in Nat, NEW k \in Nat, NEW n \in Nat,
           Sorted(s, m, k), k <= n, m <= n, \A i \in 1 .. Len(t) : t[i].req = n
    PROVE  Sorted(s \o t, m, n)
<1> DEFINE u == s \o t
<1>1. /\ u \in Seq(Pieces) /\ Len(s) \in Nat /\ Len(t) \in Nat /\ Len(u) = Len(s) + Len(t)
      /\ \A i \in 1 .. Len(s) : i \in 1 .. Len(u) /\ u[i] = s[i] /\ s[i] \in Pieces
      /\ \A i \in 1 .. Len(u) : \/ i \in 1 .. Len(s)
                                \/ i - Len(s) \in 1 .. Len(t) /\ u[i] = t[i - Len(s)]
  BY JoinFacts
<1> HIDE DEF u
<1>2. \A i \in 1 .. Len(s) : u[i].req \in Nat /\ m <= u[i].req /\ u[i].req <= n
  <2> TAKE i \in 1 .. Len(s)
  <2>1. s[i].req \in Nat /\ m <= s[i].req /\ s[i].req <= k
    BY <1>1, PieceReq DEF Sorted
  <2> QED
    BY <1>1, <2>1
<1>3. \A i \in 1 .. Len(u) : i \in 1 .. Len(s) \/ u[i].req = n
  BY <1>1
<1>4. \A i \in 1 .. Len(u) : u[i].req \in Nat /\ m <= u[i].req /\ u[i].req <= n
  BY <1>2, <1>3
<1>5. ASSUME NEW i \in 1 .. Len(u), NEW j \in 1 .. Len(u), i < j
      PROVE  u[i].req <= u[j].req
  <2>1. CASE j \in 1 .. Len(s)
    <3>1. i \in 1 .. Len(s)
      BY <1>1, <1>5, <2>1
    <3> QED
      BY <1>1, <1>5, <2>1, <3>1 DEF Sorted
  <2>2. CASE u[j].req = n
    BY <1>4, <2>2
  <2> QED
    BY <1>3, <2>1, <2>2
<1> QED
  BY <1>4, <1>5 DEF Sorted, u

LEMMA SortedRest ==
    ASSUME NEW s \in Seq(Pieces), NEW t \in Seq(Pieces), NEW m \in Nat, NEW n \in Nat,
           Sorted(s \o t, m, n), NEW k \in 1 .. Len(s)
    PROVE  /\ Sorted(Rest(s, k) \o t, s[k].req, n)
           /\ s[k].req \in Nat /\ m <= s[k].req /\ s[k].req <= n
<1> DEFINE u == s \o t
           r == Rest(s, k)
           v == r \o t
<1>1. /\ u \in Seq(Pieces) /\ Len(s) \in Nat /\ Len(t) \in Nat /\ Len(u) = Len(s) + Len(t)
      /\ \A i \in 1 .. Len(s) : i \in 1 .. Len(u) /\ u[i] = s[i] /\ s[i] \in Pieces
      /\ \A i \in 1 .. Len(t) : Len(s) + i \in 1 .. Len(u) /\ u[Len(s) + i] = t[i]
  BY JoinFacts
<1>2. /\ k \in 0 .. Len(s) /\ r \in Seq(Pieces) /\ Len(r) = Len(s) - k
      /\ \A i \in 1 .. Len(s) - k : i + k \in 1 .. Len(s) /\ r[i] = s[i + k]
  BY <1>1, CutInTwo
<1> HIDE DEF r
<1>3. /\ v \in Seq(Pieces) /\ Len(v) = Len(r) + Len(t)
      /\ \A i \in 1 .. Len(v) : \/ i \in 1 .. Len(r) /\ v[i] = r[i]
                                \/ i - Len(r) \in 1 .. Len(t) /\ v[i] = t[i - Len(r)]
  <2>1. /\ v \in Seq(Pieces) /\ Len(v) = Len(r) + Len(t)
        /\ \A i \in 1 .. Len(r) : v[i] = r[i]
        /\ \A i \in 1 .. Len(v) : \/ i \in 1 .. Len(r)
                                  \/ i - Len(r) \in 1 .. Len(t) /\ v[i] = t[i - Len(r)]
    BY <1>2, JoinFacts
  <2> QED
    BY <2>1
<1> HIDE DEF u, v
<1>4. ASSUME NEW i \in 1 .. Len(v)
      PROVE  i + k \in 1 .. Len(u) /\ k < i + k /\ v[i] = u[i + k]
  <2>1. CASE i \in 1 .. Len(r) /\ v[i] = r[i]
    <3>1. i \in 1 .. Len(s) - k /\ k < i + k
      BY <1>1, <1>2, <2>1
    <3> QED
      BY <1>1, <1>2, <2>1, <3>1
  <2>2. CASE i - Len(r) \in 1 .. Len(t) /\ v[i] = t[i - Len(r)]
    <3>1. Len(s) + (i - Len(r)) = i + k /\ k < i + k
      BY <1>1, <1>2, <1>3, <2>2
    <3> QED
      BY <1>1, <2>2, <3>1
  <2> QED
    BY <1>3, <2>1, <2>2
<1>5. k \in 1 .. Len(u) /\ u[k] = s[k] /\ s[k] \in Pieces
  BY <1>1
<1>6. \A i \in 1 .. Len(v) : s[k].req <= v[i].req /\ v[i].req <= n
  BY <1>4, <1>5 DEF Sorted, u
<1>7. ASSUME NEW i \in 1 .. Len(v), NEW j \in 1 .. Len(v), i < j
      PROVE  v[i].req <= v[j].req
  <2>1. i + k < j + k
    BY <1>3, <1>7
  <2> QED
    BY <1>4, <1>7, <2>1 DEF Sorted, u
<1>8. s[k].req \in Nat /\ m <= s[k].req /\ s[k].req <= n
  BY <1>5, PieceReq DEF Sorted, u
<1> QED
  BY <1>6, <1>7, <1>8 DEF Sorted, r, v

\* a part keeps the order, whatever is left out
LEMMA SortedPart ==
    ASSUME NEW s \in Seq(Pieces), NEW t \in Seq(Pieces), NEW m, NEW n, Sorted(s, m, n),
           NEW at, \A i \in 1 .. Len(t) : at[i] \in 1 .. Len(s) /\ t[i] = s[at[i]],
           \A i, j \in 1 .. Len(t) : i < j => at[i] < at[j]
    PROVE  Sorted(t, m, n)
  BY DEF Sorted

LEMMA SortedParts ==
    ASSUME NEW s \in Seq(Pieces), NEW t \in Seq(Pieces), NEW m, NEW n, Sorted(s \o t, m, n)
    PROVE  Sorted(s, m, n) /\ Sorted(t, m, n)
<1> DEFINE u == s \o t
<1>1. /\ u \in Seq(Pieces) /\ Len(s) \in Nat /\ Len(t) \in Nat /\ Len(u) = Len(s) + Len(t)
      /\ \A i \in 1 .. Len(s) : i \in 1 .. Len(u) /\ u[i] = s[i]
      /\ \A i \in 1 .. Len(t) : Len(s) + i \in 1 .. Len(u) /\ u[Len(s) + i] = t[i]
  BY JoinFacts
<1> HIDE DEF u
<1>2. Sorted(u, m, n)
  BY DEF u
<1>3. Sorted(s, m, n)
  BY <1>1, <1>2 DEF Sorted
<1>4. \A i, j \in 1 .. Len(t) : i < j => Len(s) + i < Len(s) + j
  BY <1>1
<1>5. Sorted(t, m, n)
  BY <1>1, <1>2, <1>4 DEF Sorted
<1> QED
  BY <1>3, <1>5

\* what is lost between two parts leaves the rest in order
LEMMA SortedGap ==
    ASSUME NEW s \in Seq(Pieces), NEW w \in Seq(Pieces), NEW t \in Seq(Pieces), NEW m, NEW n,
           Sorted(s \o (w \o t), m, n)
    PROVE  Sorted(s \o t, m, n)
<1> DEFINE x == w \o t
           u == s \o x
           v == s \o t
<1>1. /\ x \in Seq(Pieces) /\ Len(w) \in Nat /\ Len(t) \in Nat /\ Len(x) = Len(w) + Len(t)
      /\ \A i \in 1 .. Len(t) : Len(w) + i \in 1 .. Len(x) /\ x[Len(w) + i] = t[i]
  BY JoinFacts
<1> HIDE DEF x
<1>2. /\ u \in Seq(Pieces) /\ Len(s) \in Nat /\ Len(u) = Len(s) + Len(x)
      /\ \A i \in 1 .. Len(s) : i \in 1 .. Len(u) /\ u[i] = s[i]
      /\ \A i \in 1 .. Len(x) : Len(s) + i \in 1 .. Len(u) /\ u[Len(s) + i] = x[i]
  BY <1>1, JoinFacts, ZenonT(60)
<1>3. /\ v \in Seq(Pieces)
      /\ \A i \in 1 .. Len(s) : v[i] = s[i]
      /\ \A i \in 1 .. Len(v) : \/ i \in 1 .. Len(s)
                                \/ i - Len(s) \in 1 .. Len(t) /\ v[i] = t[i - Len(s)]
  BY JoinFacts
<1>4. Sorted(u, m, n)
  BY DEF u, x
<1> HIDE DEF u, v
<1> DEFINE at == [i \in 1 .. Len(v) |-> IF i \in 1 .. Len(s) THEN i ELSE i + Len(w)]
<1>5. ASSUME NEW i \in 1 .. Len(v)
      PROVE  at[i] \in 1 .. Len(u) /\ v[i] = u[at[i]]
  <2>1. CASE i \in 1 .. Len(s)
    BY <1>2, <1>3, <2>1
  <2>2. CASE i \notin 1 .. Len(s)
    <3>1. i - Len(s) \in 1 .. Len(t) /\ v[i] = t[i - Len(s)]
      BY <1>3, <2>2
    <3>2. Len(w) + (i - Len(s)) \in 1 .. Len(x) /\ x[Len(w) + (i - Len(s))] = t[i - Len(s)]
      BY <1>1, <3>1
    <3>3. Len(s) + (Len(w) + (i - Len(s))) = i + Len(w)
      BY <1>1, <1>2
    <3> QED
      BY <1>2, <2>2, <3>1, <3>2, <3>3
  <2> QED
    BY <2>1, <2>2
<1>6. \A i, j \in 1 .. Len(v) : i < j => at[i] < at[j]
  BY <1>1, <1>2
<1> HIDE DEF at
<1>7. Sorted(v, m, n)
  BY <1>2, <1>3, <1>4, <1>5, <1>6, SortedPart
<1> QED
  BY <1>7 DEF v

LEMMA OwnJoin ==
    ASSUME NEW f, NEW s \in Seq(Pieces), NEW t \in Seq(Pieces), NEW m \in Nat,
           OwnTo(f, s, m), Text(f, t, m)
    PROVE  OwnTo(f, s \o t, m)
<1>1. Sorted(s \o t, 0, m)
  <2>1. \A i \in 1 .. Len(t) : t[i].req = m
    BY DEF Text
  <2> QED
    BY <2>1, SortedJoin DEF OwnTo
<1> DEFINE u == s \o t
<1>2. /\ \A i \in 1 .. Len(s) : u[i] = s[i]
      /\ \A i \in 1 .. Len(u) : \/ i \in 1 .. Len(s)
                                \/ i - Len(s) \in 1 .. Len(t) /\ u[i] = t[i - Len(s)]
  BY JoinFacts
<1> HIDE DEF u
<1>3. \A i \in 1 .. Len(u) : IsAnswer(f, u[i])
  BY <1>2 DEF OwnTo, Text
<1> QED
  BY <1>1, <1>3 DEF OwnTo, u

LEMMA OwnPrefix ==
    ASSUME NEW f, NEW s \in Seq(Pieces), NEW t \in Seq(Pieces), NEW m, OwnTo(f, s \o t, m)
    PROVE  OwnTo(f, s, m)
<1>1. Sorted(s, 0, m)
  BY SortedParts DEF OwnTo
<1>2. \A i \in 1 .. Len(s) : i \in 1 .. Len(s \o t) /\ (s \o t)[i] = s[i]
  BY JoinFacts
<1>3. \A i \in 1 .. Len(s) : IsAnswer(f, s[i])
  BY <1>2 DEF OwnTo
<1> QED
  BY <1>1, <1>3 DEF OwnTo

\* a part of a text is one of that answer, and so is what the application adds
LEMMA TextCut ==
    ASSUME NEW f, NEW s \in Seq(Pieces), NEW m, Text(f, s, m), NEW n \in 0 .. Len(s)
    PROVE  Text(f, SubSeq(s, 1, n), m) /\ Text(f, Rest(s, n), m)
<1>1. /\ Len(SubSeq(s, 1, n)) = n /\ Len(Rest(s, n)) = Len(s) - n
      /\ \A i \in 1 .. n : i \in 1 .. Len(s) /\ SubSeq(s, 1, n)[i] = s[i]
      /\ \A i \in 1 .. Len(s) - n : i + n \in 1 .. Len(s) /\ Rest(s, n)[i] = s[i + n]
  BY CutInTwo
<1> QED
  BY <1>1 DEF Text

LEMMA TextMore ==
    ASSUME NEW f, NEW s \in Seq(Pieces), NEW m, Text(f, s, m),
           NEW p \in Pieces, IsAnswer(f, p), p.req = m
    PROVE  Text(f, Append(s, p), m)
<1> DEFINE u == Append(s, p)
<1>1. Len(s) \in Nat /\ Len(u) = Len(s) + 1 /\ \A i \in 1 .. Len(s) : u[i] = s[i]
  BY AppendProperties, LenProperties
<1>2. u[Len(s) + 1] = p
  BY <1>1, AppendProperties
<1> HIDE DEF u
<1>3. \A i \in 1 .. Len(u) : i \in 1 .. Len(s) \/ i = Len(s) + 1
  BY <1>1
<1>4. \A i \in 1 .. Len(u) : IsAnswer(f, u[i]) /\ u[i].req = m
  BY <1>1, <1>2, <1>3 DEF Text
<1> QED
  BY <1>4 DEF Text, u

LEMMA EmptyFacts ==
    ASSUME NEW f, NEW m, NEW n
    PROVE  /\ Sorted(<< >>, m, n) /\ OwnTo(f, << >>, m) /\ Text(f, << >>, m)
           /\ << >> \in Seq(Pieces) /\ Len(<< >>) = 0
<1>1. Len(<< >>) = 0 /\ << >> \in Seq(Pieces)
  OBVIOUS
<1>2. 1 .. Len(<< >>) = {}
  BY <1>1
<1> QED
  BY <1>1, <1>2 DEF Sorted, OwnTo, Text

-----------------------------------------------------------------------------
(* Steps that concern one connection. *)

LEMMA StreamFacts ==
    ASSUME Inv, NEW f \in Files
    PROVE  /\ wire[f] \in Seq(Pieces) /\ asking[f] \in Seq(Pieces)
           /\ got[f] \in Seq(Pieces) /\ out[f] \in Seq(Pieces)
           /\ Said(f) \in Seq(Pieces) /\ Coming(f) \in Seq(Pieces)
           /\ asked[f].n \in Nat /\ asked[f].n <= MaxRequests
<1>1. /\ wire[f] \in Seq(Pieces) /\ asking[f] \in Seq(Pieces)
      /\ got[f] \in Seq(Pieces) /\ out[f] \in Seq(Pieces)
  BY DEF Inv, PeersOK, OutOK, Streams
<1>2. Said(f) \in Seq(Pieces) /\ Coming(f) \in Seq(Pieces)
  BY <1>1, ConcatProperties DEF Said, Coming
<1>3. asked[f] \in [n : 0 .. MaxRequests, keep : BOOLEAN]
  BY DEF Inv, PeersOK
<1>4. asked[f].n \in 0 .. MaxRequests
  BY <1>3
<1> QED
  BY <1>1, <1>2, <1>4, HttpAssumption

LEMMA ClientFacts ==
    ASSUME Inv, NEW f \in Files, client[f] # NoClient
    PROVE  /\ client[f] \in Clients /\ client[f].fd \in Fds /\ client[f].buf \in Files
           /\ client[f].req \in Nat /\ client[f].req <= MaxRequests /\ Box(f) \in Seq(Pieces)
           /\ f <= opened
<1>1. client[f] \in Clients
  BY DEF Inv, ClientOK
<1>2. client[f].fd \in Fds /\ client[f].buf \in Files /\ client[f].req \in 0 .. MaxRequests
  BY <1>1 DEF Clients
<1>3. Box(f) \in Seq(Pieces)
  BY <1>2 DEF Inv, BufferOK, Streams, Box
<1>4. f <= opened
  <2>1. f \in Nat /\ opened \in Nat
    BY HttpAssumption DEF Files, Inv, KernelOK
  <2> QED
    BY <2>1 DEF Inv, ClientOK
<1> QED
  BY <1>1, <1>2, <1>3, <1>4, HttpAssumption

SameOf(f) ==
    /\ client'[f] = client[f] /\ Said(f)' = Said(f) /\ Coming(f)' = Coming(f)
    /\ asked'[f] = asked[f] /\ pending'[f] = pending[f] /\ Mine(f)' = Mine(f)

\* nothing changes for the other connections
Elsewhere(c) ==
    /\ \A f \in Files \ {c} : SameOf(f) /\ (Alive(f) => Box(f)' = Box(f))
    /\ \A fd \in Fds : file'[fd] \notin {0, c} =>
          file'[fd] = file[fd] /\ watch'[fd].op = watch[fd].op

LEMMA TalksKept ==
    ASSUME NEW f, NEW mine, NEW op, Talks(f, mine, op), client'[f].req = client[f].req,
           Said(f)' = Said(f), Coming(f)' = Coming(f), Box(f)' = Box(f), asked'[f] = asked[f]
    PROVE  Talks(f, mine, op)'
  BY DEF Talks

LEMMA PacedKept ==
    ASSUME NEW f, NEW mine, NEW op, Paced(f, mine, op), client'[f].req = client[f].req,
           Said(f)' = Said(f), Coming(f)' = Coming(f), Box(f)' = Box(f), asked'[f] = asked[f],
           pending'[f] = pending[f]
    PROVE  Paced(f, mine, op)'
<1>1. Settled(f)' = Settled(f) /\ Nothing(f)' = Nothing(f)
  BY DEF Settled, Nothing
<1> QED
  BY <1>1 DEF Paced, Resting, Hearing, Taking, Keeping, Replying

\* the thread is at something else, for which the buffer is still what it is to be
LEMMA TalksOn ==
    ASSUME NEW f, NEW mine, NEW op, Talks(f, mine, op), client'[f].req = client[f].req,
           Said(f)' = Said(f), Coming(f)' = Coming(f), Box(f)' = Box(f), asked'[f] = asked[f],
           NEW next, NEW wait, Writing(next, wait) => Writing(mine, op),
           Reading(next, wait) => Reading(mine, op), next \notin {"header", "process"}
    PROVE  Talks(f, next, wait)'
  BY DEF Talks

LEMMA Proceeds ==
    ASSUME Inv, Disciplined, Answering, NEW c \in Files, Elsewhere(c), Orderly',
           opened \in Nat, opened' \in Nat, opened <= opened', c <= opened',
           OwnTo(c, Said(c), MaxRequests)',
           \A fd \in Fds : file'[fd] = c =>
              /\ Talks(c, Mine(c), watch[fd].op)'
              /\ ~Pipelining => Paced(c, Mine(c), watch[fd].op)'
    PROVE  Answering'
<1>1. ASSUME NEW fd \in Fds, file'[fd] # 0
      PROVE  /\ Talks(file[fd], Mine(file[fd]), watch[fd].op)'
             /\ ~Pipelining => Paced(file[fd], Mine(file[fd]), watch[fd].op)'
  <2>1. CASE file'[fd] = c
    BY <2>1
  <2>2. CASE file'[fd] # c
    <3>1. file'[fd] = file[fd] /\ watch'[fd].op = watch[fd].op
      BY <1>1, <2>2 DEF Elsewhere
    <3>2. PICK f \in Files : f = file[fd] /\ Alive(f)
      BY <1>1, <3>1, OpenFacts
    <3>3. SameOf(f) /\ Box(f)' = Box(f)
      BY <2>2, <3>1, <3>2 DEF Elsewhere
    <3>4. PICK mine, op : mine = Mine(f) /\ op = watch[fd].op
      OBVIOUS
    <3>5. Talks(f, mine, op)
      BY <1>1, <3>1, <3>2, <3>4 DEF Answering
    <3>6. Talks(f, mine, op)'
      BY <3>3, <3>5, TalksKept DEF SameOf
    <3>7. Mine(f)' = mine /\ watch'[fd].op = op
      BY <3>1, <3>3, <3>4 DEF SameOf
    <3>8. ~Pipelining => Paced(f, mine, op)'
      <4>1. ~Pipelining => Paced(f, mine, op)
        BY <1>1, <3>1, <3>2, <3>4 DEF Answering
      <4> QED
        BY <3>3, <4>1, PacedKept DEF SameOf
    <3> QED
      BY <3>1, <3>2, <3>6, <3>7, <3>8
  <2> QED
    BY <2>1, <2>2
<1>2. ASSUME NEW f \in Files
      PROVE  /\ OwnTo(f, Said(f), MaxRequests)'
             /\ f > opened' => Said(f)' = << >> /\ Coming(f)' = << >> /\ asked'[f].n = 0
  <2>1. CASE f = c
    BY <2>1, HttpAssumption DEF Files
  <2>2. CASE f # c
    <3>1. Said(f)' = Said(f) /\ Coming(f)' = Coming(f) /\ asked'[f] = asked[f]
      BY <2>2 DEF Elsewhere, SameOf
    <3>2. f > opened' => f > opened
      BY HttpAssumption DEF Files
    <3>3. OwnTo(f, Said(f), MaxRequests)
      BY DEF Answering
    <3>4. OwnTo(f, Said(f), MaxRequests)'
      BY <3>1, <3>3
    <3> QED
      BY <3>1, <3>2, <3>4 DEF Answering
  <2> QED
    BY <2>1, <2>2
<1> QED
  BY <1>1, <1>2 DEF Answering

\* a buffer is of one client: what one does to its own, the others do not see
LEMMA OthersBox ==
    ASSUME Disciplined, ~misused, NEW c \in Files, Alive(c),
           \A f \in Files \ {c} : client'[f] = client[f],
           \A f \in Files : f # c /\ Alive(f) => client[f].buf \in Files,
           \A b \in Files : b # client[c].buf => content'[b] = content[b]
    PROVE  \A f \in Files \ {c} : Alive(f) => Box(f)' = Box(f)
<1> TAKE f \in Files \ {c}
<1> HAVE Alive(f)
<1>1. client[f].buf # client[c].buf /\ client[f].buf \in Files
  BY DEF Disciplined, ExclusiveBuffers
<1> QED
  BY <1>1 DEF Box

\* what the thread does, it does for one client
LEMMA OthersMine ==
    ASSUME NEW c, NEW f, f # c, todo # << >> => Head(todo).who = c,
           todo' # << >> => Head(todo').who = c
    PROVE  Mine(f)' = Mine(f)
  BY DEF Mine

LEMMA OwnToAll ==
    ASSUME NEW f, NEW s \in Seq(Pieces), NEW m, OwnTo(f, s, m) PROVE OwnTo(f, s, MaxRequests)
<1>1. \A i \in 1 .. Len(s) : 0 <= s[i].req /\ s[i].req <= MaxRequests
  <2> TAKE i \in 1 .. Len(s)
  <2>1. s[i] \in Pieces
    BY ElementOfSeq
  <2> QED
    BY <2>1, PieceReq, HttpAssumption
<1> QED
  BY <1>1 DEF OwnTo, Sorted

\* a step of an open connection's
LEMMA OneTalks ==
    ASSUME Inv, Inv', Disciplined, Answering, UNCHANGED <<opened, file>>, NEW c \in Files, Alive(c),
           NEW fd, fd = client[c].fd, Elsewhere(c), Orderly',
           Talks(c, Mine(c), watch[fd].op)', ~Pipelining => Paced(c, Mine(c), watch[fd].op)'
    PROVE  Answering'
<1>1. opened \in Nat /\ c <= opened
  BY ClientFacts DEF Alive, Inv, KernelOK
<1>2. Said(c)' \in Seq(Pieces)
  <2>1. got'[c] \in Seq(Pieces) /\ out'[c] \in Seq(Pieces)
    BY DEF Inv, PeersOK, OutOK, Streams
  <2> QED
    BY <2>1, ConcatProperties DEF Said
<1>3. OwnTo(c, Said(c)', client'[c].req)
  BY DEF Talks
<1>4. OwnTo(c, Said(c), MaxRequests)'
  <2>1. OwnTo(c, Said(c)', MaxRequests)
    BY <1>2, <1>3, OwnToAll
  <2> QED
    BY <2>1
<1>5. \A g \in Fds : file'[g] = c => g = fd
  BY OpenFacts, HttpAssumption DEF Files
<1>6. \A g \in Fds : file'[g] = c =>
          /\ Talks(c, Mine(c), watch[g].op)'
          /\ ~Pipelining => Paced(c, Mine(c), watch[g].op)'
  BY <1>5
<1>7. opened' \in Nat /\ opened <= opened' /\ c <= opened'
  BY <1>1
<1> QED
  BY <1>1, <1>4, <1>6, <1>7, Proceeds

\* steps after which everything is as it was for everybody
LEMMA SameAnswering ==
    ASSUME Inv, Disciplined, Answering, UNCHANGED <<opened, file, watch, client, content, todo, asked, pending>>,
           \A f \in Files : Said(f)' = Said(f) /\ Coming(f)' = Coming(f)
    PROVE  Answering'
<1>1. \A f : Mine(f)' = Mine(f)
  BY DEF Mine
<1>2. Orderly'
  BY DEF Answering, Orderly, Plans, Alive
<1>3. ASSUME NEW fd \in Fds, file[fd] # 0
      PROVE  /\ Talks(file[fd], Mine(file[fd]), watch[fd].op)'
             /\ ~Pipelining => Paced(file[fd], Mine(file[fd]), watch[fd].op)'
  <2>1. PICK f \in Files : f = file[fd]
    BY <1>3, OpenFacts
  <2>2. PICK mine, op : mine = Mine(f) /\ op = watch[fd].op
    OBVIOUS
  <2>3. Talks(f, mine, op) /\ (~Pipelining => Paced(f, mine, op))
    BY <1>3, <2>1, <2>2 DEF Answering
  <2>4. Talks(f, mine, op)' /\ (~Pipelining => Paced(f, mine, op)')
    BY <2>1, <2>3, TalksKept, PacedKept DEF Box
  <2> QED
    BY <1>1, <2>1, <2>2, <2>4
<1>4. ASSUME NEW f \in Files
      PROVE  /\ OwnTo(f, Said(f), MaxRequests)'
             /\ f > opened' => Said(f)' = << >> /\ Coming(f)' = << >> /\ asked'[f].n = 0
  <2>1. OwnTo(f, Said(f), MaxRequests)
    BY DEF Answering
  <2>2. OwnTo(f, Said(f), MaxRequests)'
    BY <2>1
  <2> QED
    BY <2>2 DEF Answering
<1> QED
  BY <1>2, <1>3, <1>4 DEF Answering

-----------------------------------------------------------------------------
(* The peers' steps. *)

LEMMA ThreePieces ==
    ASSUME NEW h \in Pieces, NEW e \in Pieces, NEW b \in Pieces
    PROVE  LET q == <<h, e>> \o <<b>>
           IN  Len(q) = 3 /\ q[1] = h /\ q[2] = e /\ q[3] = b
<1> DEFINE x == <<h, e>>
           y == <<b>>
           q == x \o y
<1>1. /\ x \in Seq(Pieces) /\ y \in Seq(Pieces) /\ Len(x) = 2 /\ Len(y) = 1
      /\ x[1] = h /\ x[2] = e /\ y[1] = b
  OBVIOUS
<1> HIDE DEF x, y
<1>2. /\ Len(q) = Len(x) + Len(y)
      /\ \A i \in 1 .. Len(x) + Len(y) : q[i] = IF i <= Len(x) THEN x[i] ELSE y[i - Len(x)]
  BY <1>1, ConcatProperties
<1> HIDE DEF q
<1>3. Len(q) = 3 /\ \A i \in 1 .. 3 : q[i] = IF i <= 2 THEN x[i] ELSE y[i - 2]
  BY <1>1, <1>2
<1>4. Len(q) = 3 /\ q[1] = h /\ q[2] = e /\ q[3] = b
  BY <1>1, <1>3
<1> QED
  BY <1>4 DEF q, x, y

LEMMA RequestPieces ==
    ASSUME NEW f \in Files, NEW r \in 1 .. MaxRequests, NEW s \in ShapeSet
    PROVE  LET q == RequestOf(f, r, s)
           IN  /\ q \in Seq(Pieces) /\ \A i \in 1 .. Len(q) : q[i].req = r
               /\ \A i \in 1 .. Len(q) : q[i].part = "end" =>
                     q[i].shape = s /\ Len(q) = i + IF s.body = "none" THEN 0 ELSE 1
<1> DEFINE h == [part |-> "head", file |-> f, req |-> r, shape |-> s]
           e == [part |-> "end", file |-> f, req |-> r, shape |-> s]
           b == [part |-> "body", file |-> f, req |-> r, shape |-> s]
           q == RequestOf(f, r, s)
<1>1. q \in Seq(Pieces)
  BY RequestFacts
<1>2. CASE s.body # "none"
  <2>1. q = <<h, e>> \o <<b>> /\ h \in Pieces /\ e \in Pieces /\ b \in Pieces
    BY <1>2 DEF RequestOf, Pieces
  <2>2. Len(q) = 3 /\ q[1] = h /\ q[2] = e /\ q[3] = b
    <3> HIDE DEF h, e, b, q
    <3> QED
      BY <2>1, ThreePieces
  <2>3. \A i \in 1 .. Len(q) : i = 1 \/ i = 2 \/ i = 3
    BY <2>2
  <2> QED
    BY <1>1, <1>2, <2>2, <2>3
<1>3. CASE s.body = "none"
  <2>1. q = <<h, e>>
    BY <1>3 DEF RequestOf
  <2>2. Len(q) = 2 /\ q[1] = h /\ q[2] = e
    BY <2>1
  <2>3. \A i \in 1 .. Len(q) : i = 1 \/ i = 2
    BY <2>2
  <2> QED
    BY <1>1, <1>3, <2>2, <2>3
<1> QED
  BY <1>2, <1>3

LEMMA PeerReadsAnswering ==
    ASSUME Inv, Disciplined, Answering, NEW f \in Files, PeerReads(f) PROVE Answering'
<1>1. /\ out[f] \in Seq(Pieces) /\ out[f] # << >> /\ got[f] \in Seq(Pieces)
      /\ got \in [Files -> Seq(Pieces)] /\ out \in [Files -> Seq(Pieces)]
  BY DEF PeerReads, Inv, PeersOK, OutOK, Streams
<1>2. ASSUME NEW g \in Files PROVE Said(g)' = Said(g)
  <2>1. CASE g # f
    <3>1. got'[g] = got[g] /\ out'[g] = out[g]
      BY <1>1, <2>1 DEF PeerReads
    <3> QED
      BY <3>1 DEF Said
  <2>2. CASE g = f
    <3>1. got'[f] = Append(got[f], Head(out[f])) /\ out'[f] = Tail(out[f])
      BY <1>1 DEF PeerReads
    <3>2. got'[f] \o out'[f] = got[f] \o out[f]
      BY <1>1, <3>1, MoveFirst
    <3> QED
      BY <2>2, <3>2 DEF Said
  <2> QED
    BY <2>1, <2>2
<1>3. \A g \in Files : Coming(g)' = Coming(g)
  BY DEF PeerReads, Coming
<1>4. UNCHANGED <<opened, file, watch, client, content, todo, asked, pending>>
  BY DEF PeerReads
<1> QED
  BY <1>2, <1>3, <1>4, SameAnswering

\* a peer's step leaves the server, and everything of the other connections, alone
LEMMA PeerElsewhere ==
    ASSUME NEW f \in Files, UNCHANGED <<file, watch, client, content, todo, pending>>,
           \A g \in Files \ {f} : /\ wire'[g] = wire[g] /\ out'[g] = out[g] /\ got'[g] = got[g]
                                  /\ asking'[g] = asking[g] /\ asked'[g] = asked[g]
    PROVE  Elsewhere(f) /\ Mine(f)' = Mine(f) /\ Box(f)' = Box(f)
<1>1. \A g \in Files \ {f} : SameOf(g)
  BY DEF SameOf, Said, Coming, Mine
<1>2. \A g \in Files : Box(g)' = Box(g)
  BY DEF Box
<1>3. Mine(f)' = Mine(f)
  BY DEF Mine
<1> QED
  BY <1>1, <1>2, <1>3 DEF Elsewhere

LEMMA AskTalks ==
    ASSUME Inv, NEW f \in Files, client[f] # NoClient, NEW mine, NEW op, Talks(f, mine, op),
           Ask(f), client'[f] = client[f], Box(f)' = Box(f)
    PROVE  Talks(f, mine, op)'
<1>1. PICK s \in Shapes :
         /\ asking' = [asking EXCEPT ![f] = RequestOf(f, asked[f].n + 1, s)]
         /\ asked' = [asked EXCEPT ![f] = [n |-> asked[f].n + 1, keep |-> s.keep]]
  BY DEF Ask
<1> DEFINE m == client[f].req
           n == asked[f].n
           q == RequestOf(f, n + 1, s)
           b == Box(f)
           w == wire[f]
<1>2. n \in Nat /\ n + 1 \in 1 .. MaxRequests /\ s \in ShapeSet
  BY StreamFacts, HttpAssumption DEF Ask
<1>3. q \in Seq(Pieces) /\ \A i \in 1 .. Len(q) : q[i].req = n + 1
  BY <1>2, RequestPieces
<1>4. asked'[f].n = n + 1 /\ asking'[f] = q /\ wire'[f] = w /\ Said(f)' = Said(f)
  BY <1>1 DEF Ask, Inv, PeersOK, Streams, Said
<1>5. w \in Seq(Pieces) /\ asking[f] = << >> /\ w \o << >> = w
  BY StreamFacts, ConcatEmptySeq DEF Ask
<1>6. Coming(f) = w /\ Coming(f)' = w \o q
  BY <1>4, <1>5 DEF Coming
<1>7. m \in Nat /\ b \in Seq(Pieces) /\ Said(f) \in Seq(Pieces)
  BY ClientFacts, StreamFacts
<1> HIDE DEF m, n, q, b, w
<1>8. m <= n /\ Sorted(w, m, n) /\ (Reading(mine, op) => Sorted(b \o w, m, n))
  BY <1>6 DEF Talks, m, n, b
<1>11. PICK k \in Nat : k = n + 1 /\ n <= k /\ m <= k
  BY <1>2, <1>7, <1>8
<1>13. \A i \in 1 .. Len(q) : q[i].req = k
  BY <1>3, <1>11
<1>9. Sorted(w \o q, m, k)
  BY <1>2, <1>3, <1>5, <1>7, <1>8, <1>11, <1>13, SortedJoin
<1>10. Reading(mine, op) => Sorted(b \o (w \o q), m, k)
  <2> HAVE Reading(mine, op)
  <2>1. b \o w \in Seq(Pieces)
    BY <1>5, <1>7, ConcatProperties
  <2>2. Sorted((b \o w) \o q, m, k)
    BY <1>2, <1>3, <1>7, <1>8, <1>11, <1>13, <2>1, SortedJoin
  <2>3. (b \o w) \o q = b \o (w \o q)
    BY <1>3, <1>5, <1>7, Regroup
  <2> QED
    BY <2>2, <2>3
<1>12. OwnTo(f, Said(f), m) /\ (Writing(mine, op) => Text(f, b, m))
  BY DEF Talks, m, b
<1> QED
  BY <1>4, <1>6, <1>11, <1>9, <1>10, <1>12 DEF Talks, m, b

\* only a connection at rest is asked for more
LEMMA AskPaced ==
    ASSUME Inv, NEW f \in Files, client[f] # NoClient, NEW op, Talks(f, "none", op),
           Paced(f, "none", op), ~Pipelining, Ask(f), client'[f] = client[f], Box(f)' = Box(f),
           pending'[f] = pending[f]
    PROVE  Paced(f, "none", op)'
<1> DEFINE n == asked[f].n
<1>1. n \in Nat /\ n + 1 \in 1 .. MaxRequests /\ client[f].req \in Nat
  BY StreamFacts, ClientFacts, HttpAssumption DEF Ask
<1>2. /\ asking[f] = << >> /\ wire'[f] = wire[f]
      /\ n = 0 \/ Answered(f)
      /\ \E s \in Shapes :
            /\ asking' = [asking EXCEPT ![f] = RequestOf(f, n + 1, s)]
            /\ asked' = [asked EXCEPT ![f] = [n |-> n + 1, keep |-> s.keep]]
  BY DEF Ask
<1>3. Settled(f)
  <2>1. CASE n = 0
    BY <2>1 DEF Settled
  <2>2. CASE Answered(f)
    <3>1. PICK i \in DOMAIN got[f] : got[f][i].part = "answer" /\ got[f][i].req = n
      BY <2>2 DEF Answered
    <3>2. got[f] \in Seq(Pieces) /\ out[f] \in Seq(Pieces)
      BY StreamFacts
    <3>3. i \in 1 .. Len(got[f])
      BY <3>1, <3>2
    <3>4. i \in 1 .. Len(got[f] \o out[f]) /\ (got[f] \o out[f])[i] = got[f][i]
      BY ONLY <3>2, <3>3, JoinFacts
    <3> QED
      BY <3>1, <3>4 DEF Settled, Said
  <2> QED
    BY <1>2, <2>1, <2>2
<1>4. ~Hearing(f, "none", op)
  <2> SUFFICES ASSUME client[f].req < n PROVE FALSE
    BY DEF Hearing
  <2>1. PICK i \in 1 .. Len(Said(f)) : Said(f)[i].req = n
    BY <1>1, <1>3 DEF Settled
  <2>2. Said(f)[i].req <= client[f].req
    BY DEF Talks, OwnTo, Sorted
  <2> QED
    BY <1>1, <2>1, <2>2
<1>5. Resting(f, "none", op)
  BY <1>3, <1>4 DEF Paced, Taking, Keeping, Replying
<1>6. PICK s \in Shapes :
        /\ asking' = [asking EXCEPT ![f] = RequestOf(f, n + 1, s)]
        /\ asked' = [asked EXCEPT ![f] = [n |-> n + 1, keep |-> s.keep]]
  BY <1>2
<1> DEFINE q == RequestOf(f, n + 1, s)
<1>7. asking'[f] = q /\ asked'[f].n = n + 1
  BY <1>6 DEF Inv, PeersOK, Streams
<1>8. /\ q \in Seq(Pieces) /\ \A i \in 1 .. Len(q) : q[i].req = n + 1
      /\ \A i \in 1 .. Len(q) : q[i].part = "end" =>
            q[i].shape = s /\ Len(q) = i + IF s.body = "none" THEN 0 ELSE 1
  BY <1>1, RequestPieces, HttpAssumption
<1>9. wire[f] = << >>
  <2>1. wire[f] \in Seq(Pieces) /\ wire[f] \o << >> = << >>
    BY <1>2, <1>5, StreamFacts DEF Resting, Coming
  <2> QED
    BY <2>1, ConcatEmptySeq
<1>10. Box(f)' \o Coming(f)' = q
  <2>1. Box(f)' = << >> /\ Coming(f)' = << >> \o q
    BY <1>2, <1>5, <1>7, <1>9 DEF Resting, Coming
  <2> QED
    BY <1>8, <2>1, ConcatEmptySeq
<1> HIDE DEF q
<1>11. OneRequest(q, n + 1)
  <2> SUFFICES ASSUME NEW i \in 1 .. Len(q), q[i].part = "end"
               PROVE  Len(q) <= i + IF q[i].shape.body = "none" THEN 0 ELSE 1
    BY <1>8 DEF OneRequest
  <2>1. q[i].shape = s /\ Len(q) = i + IF s.body = "none" THEN 0 ELSE 1
    BY <1>8
  <2>2. Len(q) \in Nat
    BY <1>8, LenProperties
  <2> QED
    BY <2>1, <2>2
<1>12. Hearing(f, "none", op)'
  <2>1. client'[f].req < n + 1
    BY <1>1, <1>5 DEF Resting
  <2>2. OneRequest(Box(f) \o Coming(f), asked[f].n)'
    BY <1>7, <1>10, <1>11
  <2> QED
    BY <1>5, <1>7, <2>1, <2>2 DEF Hearing, Resting, Nothing
<1> QED
  BY <1>12 DEF Paced

\* what is lost on the way makes nothing more of what is left
LEMMA RequestGap ==
    ASSUME NEW b \in Seq(Pieces), NEW w \in Seq(Pieces), NEW a \in Seq(Pieces), NEW n,
           OneRequest(b \o (w \o a), n)
    PROVE  OneRequest(b \o a, n)
<1> DEFINE s == b \o (w \o a)
           t == b \o a
<1>1. /\ Len(t) = Len(b) + Len(a) /\ Len(s) = Len(b) + (Len(w) + Len(a))
      /\ Len(b) \in Nat /\ Len(w) \in Nat /\ Len(a) \in Nat
  BY ConcatProperties, LenProperties
<1>2. SUFFICES ASSUME NEW i \in 1 .. Len(t)
               PROVE  t[i].req = n /\ (t[i].part = "end" => Len(t) <= i + IF t[i].shape.body = "none" THEN 0 ELSE 1)
  BY DEF OneRequest
<1>3. CASE i <= Len(b)
  <2>1. t[i] = b[i] /\ s[i] = b[i] /\ i \in 1 .. Len(s)
    BY <1>1, <1>3, ConcatProperties
  <2>2. s[i].req = n /\ (s[i].part = "end" => Len(s) <= i + IF s[i].shape.body = "none" THEN 0 ELSE 1)
    BY <2>1 DEF OneRequest
  <2> HIDE DEF s, t
  <2> QED
    BY <1>1, <2>1, <2>2
<1>4. CASE i > Len(b)
  <2>0. i \in Nat /\ i <= Len(b) + Len(a)
    BY <1>1
  <2>1. PICK k \in 1 .. Len(a) : i = Len(b) + k
    <3>1. i - Len(b) \in 1 .. Len(a) /\ i = Len(b) + (i - Len(b))
      BY <1>1, <1>4, <2>0
    <3> QED
      BY <3>1
  <2>2. PICK j \in 1 .. Len(s) : j = Len(b) + (Len(w) + k)
    BY <1>1, <2>1
  <2>3. t[i] = a[k]
    BY <1>1, <2>1, ConcatProperties
  <2>4. s[j] = a[k]
    <3>1. w \o a \in Seq(Pieces) /\ Len(w \o a) = Len(w) + Len(a) /\ (w \o a)[Len(w) + k] = a[k]
      BY <1>1, <2>1, ConcatProperties
    <3>2. s[j] = (w \o a)[Len(w) + k]
      BY <1>1, <2>1, <2>2, <3>1, ConcatProperties
    <3> QED
      BY <3>1, <3>2
  <2>5. s[j].req = n /\ (s[j].part = "end" => Len(s) <= j + IF s[j].shape.body = "none" THEN 0 ELSE 1)
    BY DEF OneRequest
  <2> HIDE DEF s, t
  <2> QED
    BY <1>1, <2>1, <2>2, <2>3, <2>4, <2>5
<1> QED
  BY <1>1, <1>3, <1>4

\* what is lost on the way settles nothing
LEMMA SettledSaid ==
    ASSUME NEW f, asked'[f] = asked[f], NEW s \in Seq(Pieces), NEW t \in Seq(Pieces), ~Settled(f),
           Said(f) = s \o t \/ Said(f) = s, Said(f)' = s
    PROVE  ~Settled(f)'
<1>1. \A i \in 1 .. Len(s) : i \in 1 .. Len(Said(f)) /\ s[i] = Said(f)[i]
  BY JoinFacts
<1> QED
  BY <1>1 DEF Settled

LEMMA LeavePaced ==
    ASSUME Inv, NEW f \in Files, client[f] # NoClient, NEW mine, NEW op, Paced(f, mine, op),
           Leave(f), client'[f] = client[f], Box(f)' = Box(f), pending'[f] = pending[f]
    PROVE  Paced(f, mine, op)'
<1>1. /\ wire[f] \in Seq(Pieces) /\ asking[f] \in Seq(Pieces) /\ Box(f) \in Seq(Pieces)
      /\ got[f] \in Seq(Pieces) /\ out[f] \in Seq(Pieces)
  BY ClientFacts, StreamFacts
<1>2. asked'[f] = asked[f] /\ got'[f] = got[f] /\ asking'[f] = asking[f]
  BY DEF Leave
<1>3. CASE UNCHANGED <<wire, out>>
  BY <1>2, <1>3, PacedKept DEF Said, Coming
<1>4. CASE wire' = [wire EXCEPT ![f] = << >>] /\ out' = [out EXCEPT ![f] = << >>]
  <2>1. wire'[f] = << >> /\ out'[f] = << >>
    BY <1>4 DEF Inv, PeersOK, OutOK, Streams
  <2>2. Coming(f)' = asking[f] /\ Said(f)' = got[f]
    BY <1>1, <1>2, <2>1, ConcatEmptySeq DEF Coming, Said
  <2>3. Coming(f) = wire[f] \o asking[f] /\ Said(f) = got[f] \o out[f]
    BY DEF Coming, Said
  <2>4. ~Settled(f) => ~Settled(f)'
    BY <1>1, <1>2, <2>2, <2>3, SettledSaid
  <2>5. Coming(f) = << >> => Coming(f)' = << >>
    BY <1>1, <2>2, <2>3, NothingJoined
  <2>6. Nothing(f)' = Nothing(f)
    BY DEF Nothing
  <2>7. OneRequest(Box(f) \o Coming(f), asked[f].n) => OneRequest(Box(f) \o Coming(f), asked[f].n)'
    BY <1>1, <1>2, <2>2, <2>3, RequestGap
  <2>8. Len(Box(f) \o Coming(f)) <= 1 => Len(Box(f)' \o Coming(f)') <= 1
    <3>1. /\ Len(Box(f) \o (wire[f] \o asking[f])) = Len(Box(f)) + (Len(wire[f]) + Len(asking[f]))
          /\ Len(Box(f) \o asking[f]) = Len(Box(f)) + Len(asking[f])
          /\ Len(Box(f)) \in Nat /\ Len(wire[f]) \in Nat /\ Len(asking[f]) \in Nat
      BY <1>1, ConcatProperties, LenProperties
    <3>2. PICK x \in Nat, y \in Nat, z \in Nat :
            x = Len(Box(f)) /\ y = Len(wire[f]) /\ z = Len(asking[f])
      BY <3>1
    <3>3. Len(Box(f) \o Coming(f)) = x + (y + z)
      BY <2>3, <3>1, <3>2
    <3>4. Len(Box(f)' \o Coming(f)') = x + z
      BY <2>2, <3>1, <3>2
    <3>5. \A i, j, k \in Nat : i + (j + k) <= 1 => i + k <= 1
      BY ONLY TRUE
    <3> QED
      BY <3>3, <3>4, <3>5
  <2> QED
    BY <1>2, <2>4, <2>5, <2>6, <2>7, <2>8 DEF Paced, Resting, Hearing, Taking, Keeping, Replying
<1> QED
  BY <1>3, <1>4 DEF Leave

LEMMA LeaveTalks ==
    ASSUME Inv, NEW f \in Files, client[f] # NoClient, NEW mine, NEW op, Talks(f, mine, op),
           Leave(f), client'[f] = client[f], Box(f)' = Box(f)
    PROVE  Talks(f, mine, op)'
<1> DEFINE m == client[f].req
           n == asked[f].n
           b == Box(f)
           w == wire[f]
           a == asking[f]
<1>0. /\ wire[f] \in Seq(Pieces) /\ a \in Seq(Pieces) /\ b \in Seq(Pieces) /\ got[f] \in Seq(Pieces)
      /\ out[f] \in Seq(Pieces) /\ w \in Seq(Pieces)
  BY ClientFacts, StreamFacts
<1>1. asked'[f].n = n /\ got'[f] = got[f] /\ asking'[f] = a
  BY DEF Leave
<1>2. CASE UNCHANGED <<wire, out>>
  BY <1>1, <1>2, TalksKept DEF Leave, Said, Coming
<1>3. CASE wire' = [wire EXCEPT ![f] = << >>] /\ out' = [out EXCEPT ![f] = << >>]
  <2>1. wire'[f] = << >> /\ out'[f] = << >>
    BY <1>3 DEF Inv, PeersOK, OutOK, Streams
  <2>2. Coming(f)' = << >> \o a /\ Said(f)' = got[f] \o << >>
    BY <1>1, <2>1 DEF Coming, Said
  <2>3. Coming(f)' = a /\ Said(f)' = got[f]
    BY <1>0, <2>2, ConcatEmptySeq
  <2>4. Coming(f) = w \o a /\ Said(f) = got[f] \o out[f]
    BY DEF Coming, Said
  <2> HIDE DEF m, n, b, w, a
  <2>5. m <= n /\ Sorted(w \o a, m, n) /\ (Reading(mine, op) => Sorted(b \o (w \o a), m, n))
    BY <2>4 DEF Talks, m, n, b
  <2>6. Sorted(a, m, n)
    BY <1>0, <2>5, SortedParts
  <2>7. Reading(mine, op) => Sorted(b \o a, m, n)
    BY <1>0, <2>5, SortedGap
  <2>8. OwnTo(f, got[f], m)
    <3>1. OwnTo(f, got[f] \o out[f], m)
      BY <2>4 DEF Talks, m
    <3> QED
      BY <1>0, <3>1, OwnPrefix
  <2>9. Writing(mine, op) => Text(f, b, m)
    BY DEF Talks, m, b
  <2> QED
    BY <1>1, <2>3, <2>5, <2>6, <2>7, <2>8, <2>9 DEF Talks, m, n, b
<1> QED
  BY <1>2, <1>3 DEF Leave

LEMMA PeerActsAnswering ==
    ASSUME Inv, Inv', Disciplined, Answering, PeerActs PROVE Answering'
<1>1. PICK fd \in Fds : file[fd] # 0 /\ \/ gone[file[fd]] = "no" /\ (Ask(file[fd]) \/ Send(file[fd]))
                                        \/ Leave(file[fd])
  BY DEF PeerActs
<1>2. PICK f \in Files : f = file[fd] /\ client[f].fd = fd /\ Alive(f) /\ client[f] # NoClient
  BY <1>1, OpenFacts DEF Alive
<1>3. PICK mine, op : mine = Mine(f) /\ op = watch[fd].op
  OBVIOUS
<1>4. Talks(f, mine, op) /\ (~Pipelining => Paced(f, mine, op))
  BY <1>1, <1>2, <1>3 DEF Answering
<1>5. UNCHANGED <<opened, file, watch, client, content, todo, pending>>
  BY DEF PeerActs
<1>6. \A g \in Files \ {f} : /\ wire'[g] = wire[g] /\ out'[g] = out[g] /\ got'[g] = got[g]
                             /\ asking'[g] = asking[g] /\ asked'[g] = asked[g]
  BY <1>1, <1>2 DEF Ask, Send, Leave, Inv, PeersOK, OutOK, Streams
<1>7. Elsewhere(f) /\ Mine(f)' = Mine(f) /\ Box(f)' = Box(f)
  BY <1>5, <1>6, PeerElsewhere
<1>8. Orderly'
  BY <1>5 DEF Answering, Orderly, Plans, Alive
<1>9. Talks(f, mine, op)' /\ (~Pipelining => Paced(f, mine, op)')
  <2>1. CASE Ask(f)
    <3>1. mine = "none"
      BY <1>3, <2>1 DEF Ask, Mine
    <3>2. ~Pipelining => Paced(f, mine, op)'
      BY <1>2, <1>4, <1>5, <1>7, <2>1, <3>1, AskPaced
    <3> QED
      BY <1>2, <1>4, <1>5, <1>7, <2>1, <3>2, AskTalks
  <2>2. CASE Send(f)
    <3>1. /\ wire[f] \in Seq(Pieces) /\ asking[f] \in Seq(Pieces) /\ asking[f] # << >>
          /\ wire' = [wire EXCEPT ![f] = Append(@, Head(asking[f]))]
          /\ asking' = [asking EXCEPT ![f] = Tail(@)]
      BY <2>2, StreamFacts DEF Send
    <3>2. wire'[f] = Append(wire[f], Head(asking[f])) /\ asking'[f] = Tail(asking[f])
      BY <3>1 DEF Inv, PeersOK, Streams
    <3>3. wire'[f] \o asking'[f] = wire[f] \o asking[f]
      BY <3>1, <3>2, MoveFirst
    <3>4. Coming(f)' = Coming(f) /\ Said(f)' = Said(f) /\ asked'[f] = asked[f]
      BY <2>2, <3>3 DEF Coming, Said, Send
    <3> QED
      BY <1>4, <1>5, <1>7, <3>4, TalksKept, PacedKept
  <2>3. CASE Leave(f)
    BY <1>2, <1>4, <1>5, <1>7, <2>3, LeaveTalks, LeavePaced
  <2> QED
    BY <1>1, <1>2, <2>1, <2>2, <2>3
<1>10. Talks(f, Mine(f), watch[fd].op)' /\ (~Pipelining => Paced(f, Mine(f), watch[fd].op)')
  BY <1>3, <1>5, <1>7, <1>9
<1> QED
  BY <1>2, <1>5, <1>7, <1>8, <1>10, OneTalks

-----------------------------------------------------------------------------
(* The loop's events. *)

LEMMA EmptyOrderly == ASSUME todo' = << >> PROVE Orderly'
  BY DEF Orderly

\* a call of the library's
LEMMA SingleOrderly ==
    ASSUME NEW name, NEW c, NEW r, todo' = <<Call(name, c, r)>>, name \notin Writes
    PROVE  Orderly' /\ Mine(c)' = name /\ Head(todo').who = c
<1>1. Head(todo') = Call(name, c, r) /\ todo' # << >>
  OBVIOUS
<1> QED
  BY <1>1 DEF Orderly, Call, Mine

\* what is left of an answer
LEMMA EndOrderly ==
    ASSUME NEW c, todo' = <<Call("end", c, 0)>>
    PROVE  Orderly' /\ Mine(c)' = "end" /\ Head(todo').who = c
<1>1. Head(todo') = Call("end", c, 0) /\ todo' # << >>
  OBVIOUS
<1>2. todo' \in Plans(c)'
  BY DEF Plans
<1> QED
  BY <1>1, <1>2 DEF Orderly, Call, Mine

LEMMA PlanOrderly ==
    ASSUME NEW c, NEW r, r = client'[c].req \/ ~Alive(c)',
           \/ todo' = <<Call("answer", c, r), Call("end", c, r)>>
           \/ todo' = <<Call("more", c, r), Call("flush", c, r), Call("answer", c, r), Call("end", c, r)>>
    PROVE  Orderly' /\ Mine(c)' \in {"more", "answer"} /\ Head(todo').who = c
<1>1. (Head(todo') = Call("answer", c, r) \/ Head(todo') = Call("more", c, r)) /\ todo' # << >>
  OBVIOUS
<1>2. r = client'[c].req => todo' \in Plans(c)'
  BY DEF Plans
<1> QED
  BY <1>1, <1>2 DEF Orderly, Call, Mine

\* a step for an open connection
LEMMA EventElsewhere ==
    ASSUME Inv, Disciplined, ~misused, NEW c \in Files, Alive(c),
           todo # << >> => Head(todo).who = c, todo' # << >> => Head(todo').who = c,
           \A f \in Files \ {c} : client'[f] = client[f],
           \A b \in Files : b # client[c].buf => content'[b] = content[b],
           \A f \in Files \ {c} : wire'[f] = wire[f],
           \A g \in Fds : g # client[c].fd => watch'[g].op = watch[g].op,
           \A f \in Files \ {c} : out'[f] = out[f] /\ pending'[f] = pending[f],
           UNCHANGED <<file, got, asking, asked>>
    PROVE  Elsewhere(c)
<1>1. \A f \in Files : f # c /\ Alive(f) => client[f].buf \in Files
  BY ClientFacts DEF Alive
<1>2. \A f \in Files \ {c} : Alive(f) => Box(f)' = Box(f)
  BY <1>1, OthersBox
<1>3. \A f \in Files \ {c} : SameOf(f)
  BY OthersMine DEF SameOf, Said, Coming
<1>4. \A g \in Fds : file'[g] \notin {0, c} => file'[g] = file[g] /\ watch'[g].op = watch[g].op
  <2> TAKE g \in Fds
  <2>1. g = client[c].fd => file[g] = c
    BY DEF Alive
  <2> QED
    BY <2>1
<1> QED
  BY <1>2, <1>3, <1>4 DEF Elsewhere

LEMMA InputTalks ==
    ASSUME Inv, NEW c \in Files, client[c] # NoClient, NEW op \in {"header", "body"},
           Talks(c, "none", op), NEW n \in 1 .. Len(wire[c]),
           wire'[c] = Rest(wire[c], n), Box(c)' = Box(c) \o SubSeq(wire[c], 1, n),
           client'[c] = client[c], Said(c)' = Said(c), asking'[c] = asking[c], asked'[c] = asked[c],
           NEW mine \in {"none", "header", "process"}
    PROVE  Talks(c, mine, op)'
<1> DEFINE m == client[c].req
           k == asked[c].n
           b == Box(c)
           w == wire[c]
           a == asking[c]
           t == SubSeq(w, 1, n)
           r == Rest(w, n)
<1>1. w \in Seq(Pieces) /\ a \in Seq(Pieces) /\ b \in Seq(Pieces) /\ n \in 0 .. Len(w)
  BY ClientFacts, StreamFacts, LenProperties
<1>2. t \in Seq(Pieces) /\ r \in Seq(Pieces) /\ t \o r = w
  BY <1>1, CutInTwo
<1>3. Coming(c) = w \o a /\ Coming(c)' = r \o a /\ Box(c)' = b \o t
  BY DEF Coming
<1>4. m <= k /\ Sorted(w \o a, m, k) /\ OwnTo(c, Said(c), m) /\ Sorted(b \o (w \o a), m, k)
  BY <1>3 DEF Talks, Reading
<1>5. client'[c].req = m /\ asked'[c].n = k
  OBVIOUS
<1> HIDE DEF m, k, b, w, a, t, r
<1>6. w \o a = t \o (r \o a)
  <2>1. t \in Seq(Pieces) /\ r \in Seq(Pieces) /\ a \in Seq(Pieces)
    BY <1>1, <1>2
  <2>2. (t \o r) \o a = t \o (r \o a)
    BY ONLY <2>1, Regroup
  <2> QED
    BY <1>2, <2>2
<1>7. r \o a \in Seq(Pieces)
  BY <1>1, <1>2, ConcatProperties
<1>8. Sorted(r \o a, m, k)
  BY <1>2, <1>4, <1>6, <1>7, SortedParts
<1>9. (b \o t) \o (r \o a) = b \o (w \o a)
  <2>1. (b \o t) \o (r \o a) = b \o (t \o (r \o a))
    BY <1>1, <1>2, <1>7, Regroup, ZenonT(60)
  <2> QED
    BY <1>6, <2>1
<1>10. ~Writing(mine, op)
  BY DEF Writing, Writes
<1> QED
  BY <1>3, <1>4, <1>5, <1>8, <1>9, <1>10 DEF Talks

\* what is received moves on
LEMMA Received ==
    ASSUME NEW b \in Seq(Pieces), NEW w \in Seq(Pieces), NEW a \in Seq(Pieces), NEW n \in 0 .. Len(w)
    PROVE  (b \o SubSeq(w, 1, n)) \o (Rest(w, n) \o a) = b \o (w \o a)
<1> DEFINE t == SubSeq(w, 1, n)
           r == Rest(w, n)
<1>0. b \in Seq(Pieces) /\ a \in Seq(Pieces)
  OBVIOUS
<1>1. t \in Seq(Pieces) /\ r \in Seq(Pieces)
  BY CutInTwo
<1>6. t \o r = w
  BY CutInTwo
<1> HIDE DEF t, r
<1>2. r \o a \in Seq(Pieces)
  BY <1>1, ConcatProperties
<1>3. (b \o t) \o (r \o a) = b \o (t \o (r \o a))
  BY ONLY <1>0, <1>1, <1>2, Regroup, ZenonT(60)
<1>4. (t \o r) \o a = t \o (r \o a)
  BY ONLY <1>0, <1>1, Regroup
<1>5. (b \o t) \o (r \o a) = b \o (w \o a)
  BY <1>6, <1>3, <1>4
<1> QED
  BY <1>5 DEF t, r

LEMMA InputPaced ==
    ASSUME Inv, NEW c \in Files, client[c] # NoClient, NEW op \in {"header", "body"},
           Paced(c, "none", op), NEW n \in 1 .. Len(wire[c]),
           wire'[c] = Rest(wire[c], n), Box(c)' = Box(c) \o SubSeq(wire[c], 1, n),
           client'[c] = client[c], Said(c)' = Said(c), asking'[c] = asking[c], asked'[c] = asked[c],
           pending'[c] = pending[c], NEW mine,
           IF op = "header" THEN mine \in {"none", "header"} ELSE mine = "process"
    PROVE  Paced(c, mine, op)'
<1>1. /\ wire[c] \in Seq(Pieces) /\ asking[c] \in Seq(Pieces) /\ Box(c) \in Seq(Pieces)
      /\ Len(wire[c]) \in Nat /\ n \in 0 .. Len(wire[c])
  BY ClientFacts, StreamFacts, LenProperties
<1>2. Coming(c) # << >>
  <2>1. wire[c] # << >>
    BY <1>1
  <2> QED
    BY <1>1, <2>1, NothingJoined DEF Coming
<1>3. Settled(c)' = Settled(c) /\ Nothing(c)' = Nothing(c)
  BY DEF Settled, Nothing
<1>4. Box(c)' \o Coming(c)' = Box(c) \o Coming(c)
  <2>1. (Box(c) \o SubSeq(wire[c], 1, n)) \o (Rest(wire[c], n) \o asking[c]) = Box(c) \o (wire[c] \o asking[c])
    BY <1>1, Received
  <2>2. Coming(c)' = Rest(wire[c], n) \o asking[c]
    BY DEF Coming
  <2> QED
    BY <2>1, <2>2 DEF Coming
<1>5. CASE Hearing(c, "none", op)
  <2>1. Hearing(c, mine, op)'
    BY <1>3, <1>4, <1>5 DEF Hearing
  <2> QED
    BY <2>1 DEF Paced
<1>6. CASE Taking(c, "none", op)
  <2>1. mine = "process" /\ Len(Box(c)' \o Coming(c)') <= 1
    BY <1>4, <1>6 DEF Taking
  <2>2. Coming(c)' = << >>
    <3>1. PICK t : t = SubSeq(wire[c], 1, n) /\ t \in Seq(Pieces) /\ Len(t) = n
      BY <1>1, CutInTwo
    <3>2. PICK k : k = Coming(c)' /\ k \in Seq(Pieces)
      <4>1. Rest(wire[c], n) \in Seq(Pieces)
        BY <1>1, CutInTwo
      <4> QED
        BY <1>1, <4>1, ConcatProperties DEF Coming
    <3>3. Len(Box(c) \o t) = Len(Box(c)) + n /\ Box(c) \o t \in Seq(Pieces) /\ Len(Box(c)) \in Nat
      BY <1>1, <3>1, ConcatProperties, LenProperties
    <3>4. Len((Box(c) \o t) \o k) = Len(Box(c) \o t) + Len(k) /\ Len(k) \in Nat
      BY <3>2, <3>3, ConcatProperties, LenProperties
    <3>5. PICK x, y : x = Len(Box(c)) /\ y = Len(k) /\ x \in Nat /\ y \in Nat
      BY <3>3, <3>4
    <3>6. (x + n) + y <= 1
      BY <2>1, <3>1, <3>2, <3>3, <3>4, <3>5
    <3>7. n \in Nat /\ n >= 1
      BY <1>1
    <3>8. \A i, j, l \in Nat : (i + j) + l <= 1 /\ j >= 1 => l = 0
      BY ONLY TRUE
    <3>9. Len(k) = 0
      BY <3>5, <3>6, <3>7, <3>8
    <3> QED
      BY <3>2, <3>9, EmptySeq
  <2>3. Replying(c, mine, op)'
    BY <1>3, <1>6, <2>1, <2>2 DEF Taking, Replying
  <2> QED
    BY <2>3 DEF Paced
<1>7. ~Resting(c, "none", op) /\ ~Keeping(c, "none", op) /\ ~Replying(c, "none", op)
  BY <1>2 DEF Resting, Keeping, Replying, Writes
<1> QED
  BY <1>5, <1>6, <1>7 DEF Paced

LEMMA InputAnswering ==
    ASSUME Inv, Inv', Disciplined, ~misused, Answering, NEW fd \in Fds, Input(fd) PROVE Answering'
<1>1. /\ todo = << >> /\ file[fd] # 0 /\ watch[fd].op \in {"header", "body"}
      /\ UNCHANGED <<opened, file, out, got, asking, asked, client, pending>>
  BY ZenonT(30) DEF Input, Idle
<1>2. PICK c \in Files : c = file[fd] /\ c = watch[fd].who /\ client[c].fd = fd /\ Alive(c)
                         /\ client[c] # NoClient
  BY <1>1, OpenFacts, IdleFacts DEF Alive
<1>3. PICK op \in {"header", "body"} : op = watch[fd].op
  BY <1>1
<1>4. PICK b \in Files : b = client[c].buf
  BY <1>2, ClientFacts
<1>5. Talks(c, "none", op) /\ (~Pipelining => Paced(c, "none", op))
  BY <1>1, <1>2, <1>3 DEF Answering, Mine
<1>6. Box(c) = content[b] /\ Box(c)' = content'[b] /\ Said(c)' = Said(c)
  BY <1>1, <1>4 DEF Box, Said
<1>7. CASE \E n \in 1 .. Len(wire[c]) :
             LET new == content[b] \o SubSeq(wire[c], 1, n)
                 last == IF watch[fd].op = "header" THEN Search(new, watch[fd].last) ELSE 0
             IN  /\ wire' = [wire EXCEPT ![c] = Rest(@, n)]
                 /\ content' = [content EXCEPT ![b] = new]
                 /\ watch' = [watch EXCEPT ![fd].last = last]
                 /\ todo' = IF last = Len(new) THEN << >>
                            ELSE IF watch[fd].op = "header" THEN <<Call("header", c, 0)>>
                            ELSE <<Call("process", c, 0)>>
  <2>1. PICK n \in 1 .. Len(wire[c]) :
          /\ wire' = [wire EXCEPT ![c] = Rest(@, n)]
          /\ content' = [content EXCEPT ![b] = content[b] \o SubSeq(wire[c], 1, n)]
          /\ \E last : watch' = [watch EXCEPT ![fd].last = last]
          /\ IF op = "header"
             THEN todo' = << >> \/ todo' = <<Call("header", c, 0)>>
             ELSE todo' = <<Call("process", c, 0)>>
    <3>1. PICK n \in 1 .. Len(wire[c]) :
            LET new == content[b] \o SubSeq(wire[c], 1, n)
                last == IF op = "header" THEN Search(new, watch[fd].last) ELSE 0
            IN  /\ wire' = [wire EXCEPT ![c] = Rest(@, n)]
                /\ content' = [content EXCEPT ![b] = new]
                /\ watch' = [watch EXCEPT ![fd].last = last]
                /\ todo' = IF last = Len(new) THEN << >>
                           ELSE IF op = "header" THEN <<Call("header", c, 0)>>
                           ELSE <<Call("process", c, 0)>>
      BY <1>3, <1>7
    <3>2. Len(content[b] \o SubSeq(wire[c], 1, n)) # 0
      <4>1. /\ content[b] \in Seq(Pieces) /\ wire[c] \in Seq(Pieces) /\ Len(wire[c]) \in Nat
            /\ n \in 0 .. Len(wire[c])
        BY <1>2, <1>6, ClientFacts, StreamFacts, LenProperties
      <4>2. PICK t : t = SubSeq(wire[c], 1, n) /\ t \in Seq(Pieces) /\ Len(t) = n
        BY <4>1, CutInTwo
      <4>3. Len(content[b] \o t) = Len(content[b]) + n /\ Len(content[b]) \in Nat
        BY <4>1, <4>2, ConcatProperties, LenProperties
      <4> QED
        BY <4>1, <4>2, <4>3
    <3> QED
      BY <3>1, <3>2
  <2>2. PICK mine \in {"none", "header", "process"} :
          /\ mine = Mine(c)' /\ Orderly' /\ (todo' # << >> => Head(todo').who = c)
          /\ IF op = "header" THEN mine \in {"none", "header"} ELSE mine = "process"
    <3>1. CASE todo' = << >> /\ op = "header"
      BY <3>1, EmptyOrderly DEF Mine
    <3>2. CASE todo' = <<Call("header", c, 0)>> /\ op = "header"
      BY <3>2, SingleOrderly DEF Writes
    <3>3. CASE todo' = <<Call("process", c, 0)>> /\ op # "header"
      BY <3>3, SingleOrderly DEF Writes
    <3> QED
      BY <2>1, <3>1, <3>2, <3>3
  <2>3. /\ wire'[c] = Rest(wire[c], n) /\ \A f \in Files \ {c} : wire'[f] = wire[f]
        /\ content'[b] = content[b] \o SubSeq(wire[c], 1, n)
        /\ \A x \in Files : x # b => content'[x] = content[x]
    BY <1>2, <1>4, <2>1, ZenonT(30) DEF Inv, PeersOK, BufferOK, Streams
  <2>4. PICK last : watch' = [watch EXCEPT ![fd].last = last]
    BY <2>1
  <2>5. watch'[fd].op = op /\ \A g \in Fds : watch'[g].op = watch[g].op
    <3>1. watch \in [Fds -> Watches] /\ watch[fd] \in Watches
      BY DEF Inv, WatchOK
    <3>2. watch'[fd] = [watch[fd] EXCEPT !.last = last] /\ \A g \in Fds \ {fd} : watch'[g] = watch[g]
      BY <2>4, <3>1
    <3>3. watch'[fd].op = watch[fd].op
      BY <3>1, <3>2 DEF Watches
    <3> QED
      BY <1>3, <3>2, <3>3
  <2>6. Talks(c, mine, op)' /\ (~Pipelining => Paced(c, mine, op)')
    BY <1>1, <1>2, <1>5, <1>6, <2>2, <2>3, InputTalks, InputPaced, ZenonT(60)
  <2>7. Elsewhere(c)
    BY <1>1, <1>2, <1>4, <2>2, <2>3, <2>5, EventElsewhere, ZenonT(30)
  <2>8. Talks(c, Mine(c), watch[fd].op)' /\ (~Pipelining => Paced(c, Mine(c), watch[fd].op)')
    BY <2>2, <2>5, <2>6
  <2> QED
    BY <1>1, <1>2, <2>2, <2>7, <2>8, OneTalks
<1>8. CASE todo' = <<Call("error", c, 0)>> /\ UNCHANGED <<wire, content, watch>>
  <2>1. Orderly' /\ Mine(c)' = "error" /\ Head(todo').who = c
    BY <1>8, SingleOrderly DEF Writes
  <2>2. Elsewhere(c)
    BY <1>1, <1>2, <1>8, <2>1, EventElsewhere
  <2>3. Coming(c)' = Coming(c) /\ Box(c)' = Box(c)
    BY <1>1, <1>6, <1>8 DEF Coming
  <2>4. ~Writing("error", op) /\ ~Reading("error", op)
    BY DEF Writing, Reading, Writes
  <2>5. Talks(c, "error", op)' /\ Paced(c, "error", op)'
    BY <1>1, <1>5, <1>6, <2>3, <2>4, TalksOn DEF Paced
  <2>6. Talks(c, Mine(c), watch[fd].op)' /\ Paced(c, Mine(c), watch[fd].op)'
    BY <1>3, <1>8, <2>1, <2>5
  <2> QED
    BY <1>1, <1>2, <2>1, <2>2, <2>6, OneTalks
<1>9. \/ \E n \in 1 .. Len(wire[c]) :
            LET new == content[b] \o SubSeq(wire[c], 1, n)
                last == IF watch[fd].op = "header" THEN Search(new, watch[fd].last) ELSE 0
            IN  /\ wire' = [wire EXCEPT ![c] = Rest(@, n)]
                /\ content' = [content EXCEPT ![b] = new]
                /\ watch' = [watch EXCEPT ![fd].last = last]
                /\ todo' = IF last = Len(new) THEN << >>
                           ELSE IF watch[fd].op = "header" THEN <<Call("header", c, 0)>>
                           ELSE <<Call("process", c, 0)>>
      \/ todo' = <<Call("error", c, 0)>> /\ UNCHANGED <<wire, content, watch>>
  <2>1. file[fd] = c /\ watch[fd].who = c /\ client[c].buf = b
    BY <1>2, <1>4
  <2> QED
    BY ONLY Input(fd), <2>1 DEF Input
<1> QED
  BY <1>7, <1>8, <1>9

\* an event that turns the thread to something else for an open connection
LEMMA TurnAnswering ==
    ASSUME Inv, Inv', Disciplined, ~misused, Answering, NEW c \in Files, Alive(c), todo = << >>,
           NEW fd, fd = client[c].fd, NEW next, Mine(c)' = next, next \notin {"header", "process"},
           todo' # << >> => Head(todo').who = c, Orderly',
           Writing(next, watch[fd].op) => Writing("none", watch[fd].op),
           Reading(next, watch[fd].op) => Reading("none", watch[fd].op),
           ~Pipelining /\ Paced(c, "none", watch[fd].op) => Paced(c, next, watch[fd].op)',
           UNCHANGED <<opened, file, watch, client, content, wire, got, out, asking, asked, pending>>
    PROVE  Answering'
<1>1. fd \in Fds /\ file[fd] = c /\ c # 0
  BY ClientFacts, HttpAssumption DEF Alive, Files
<1>2. Elsewhere(c)
  BY EventElsewhere
<1>3. PICK op : op = watch[fd].op
  OBVIOUS
<1>4. Talks(c, "none", op) /\ (~Pipelining => Paced(c, "none", op))
  BY <1>1, <1>3 DEF Answering, Mine
<1>5. Said(c)' = Said(c) /\ Coming(c)' = Coming(c) /\ Box(c)' = Box(c)
  BY DEF Said, Coming, Box
<1>6. Talks(c, next, op)' /\ (~Pipelining => Paced(c, next, op)')
  BY <1>3, <1>4, <1>5, TalksOn
<1>7. Talks(c, Mine(c), watch[fd].op)' /\ (~Pipelining => Paced(c, Mine(c), watch[fd].op)')
  BY <1>3, <1>6
<1> QED
  BY <1>2, <1>7, OneTalks

LEMMA OutputAnswering ==
    ASSUME Inv, Inv', Disciplined, ~misused, Answering, NEW fd \in Fds, Output(fd) PROVE Answering'
<1>1. /\ todo = << >> /\ file[fd] # 0 /\ watch[fd].op \in {"flush", "end"}
      /\ todo' = <<Call(watch[fd].op, watch[fd].who, 0)>>
      /\ UNCHANGED <<opened, file, watch, client, content, wire, got, out, asking, asked, pending>>
  BY DEF Output, Idle, peers
<1>2. PICK c \in Files : c = file[fd] /\ c = watch[fd].who /\ client[c].fd = fd /\ Alive(c)
  BY <1>1, OpenFacts, IdleFacts
<1>3. watch[fd].op = "end"
  BY <1>1, IdleFacts
<1>4. Orderly' /\ Mine(c)' = "end" /\ Head(todo').who = c
  BY <1>1, <1>2, <1>3, EndOrderly
<1>5. Writing("none", watch[fd].op) /\ ~Reading("end", watch[fd].op)
  BY <1>3 DEF Writing, Reading
<1>6. PICK next : next = "end"
  OBVIOUS
<1>7. Paced(c, "none", watch[fd].op) => Paced(c, next, watch[fd].op)'
  <2> HAVE Paced(c, "none", watch[fd].op)
  <2>1. Replying(c, "none", watch[fd].op)
    BY <1>3 DEF Paced, Resting, Hearing, Taking, Keeping
  <2>2. Replying(c, next, watch[fd].op)'
    BY <1>1, <1>6, <2>1 DEF Replying, LastAnswer, Settled, Nothing, Box, Said, Coming, Writes
  <2> QED
    BY <2>2 DEF Paced
<1> QED
  BY <1>1, <1>2, <1>4, <1>5, <1>6, <1>7, TurnAnswering

LEMMA ErrorEventAnswering ==
    ASSUME Inv, Inv', Disciplined, ~misused, Answering, NEW fd \in Fds, ErrorEvent(fd) PROVE Answering'
<1>1. /\ todo = << >> /\ file[fd] # 0
      /\ onError[fd] # 0 => todo' = <<Call("close", onError[fd], 0)>>
      /\ UNCHANGED <<opened, file, watch, client, content, wire, got, out, asking, asked, pending>>
  BY DEF ErrorEvent, Idle, peers
<1>2. PICK c \in Files : c = file[fd] /\ c = onError[fd] /\ client[c].fd = fd /\ Alive(c)
  BY <1>1, OpenFacts, IdleFacts
<1>3. todo' = <<Call("close", c, 0)>>
  BY <1>1, <1>2, HttpAssumption DEF Files
<1>4. Orderly' /\ Mine(c)' = "close" /\ Head(todo').who = c
  BY <1>3, SingleOrderly DEF Writes
<1>5. /\ Writing("close", watch[fd].op) => Writing("none", watch[fd].op)
      /\ ~Reading("close", watch[fd].op)
  BY DEF Writing, Reading, Writes
<1>6. PICK next : next = "close"
  OBVIOUS
<1>7. Paced(c, next, watch[fd].op)'
  BY <1>6 DEF Paced
<1> QED
  BY <1>1, <1>2, <1>4, <1>5, <1>6, <1>7, TurnAnswering

LEMMA LaterAnswering ==
    ASSUME Inv, Inv', Disciplined, ~misused, Answering, Prompt, Later PROVE Answering'
<1>1. /\ todo = << >>
      /\ \E c \in Files, r \in 1 .. MaxRequests :
            /\ pending[c][r] > 0 /\ todo' = <<Call("answer", c, r), Call("end", c, r)>>
            /\ pending' = [pending EXCEPT ![c][r] = @ - 1]
      /\ UNCHANGED <<opened, file, watch, client, content, wire, got, out, asking, asked>>
  BY DEF Later, Idle, peers
<1>2. PICK c \in Files, r \in 1 .. MaxRequests :
        /\ pending[c][r] > 0 /\ todo' = <<Call("answer", c, r), Call("end", c, r)>>
        /\ pending' = [pending EXCEPT ![c][r] = @ - 1]
  BY <1>1
<1>6. /\ \A f \in Files \ {c} : pending'[f] = pending[f]
      /\ \A x \in 1 .. MaxRequests : pending'[c][x] = IF x = r THEN pending[c][x] - 1 ELSE pending[c][x]
      /\ \A x \in 1 .. MaxRequests : pending[c][x] \in Nat
  BY <1>2 DEF Inv, ThreadOK
<1>3. Said(c)' = Said(c) /\ Coming(c)' = Coming(c) /\ Box(c)' = Box(c)
  BY <1>1 DEF Said, Coming, Box
<1>4. CASE Alive(c)
  <2>1. PICK fd \in Fds : fd = client[c].fd /\ file[fd] = c /\ c # 0
    BY <1>4, ClientFacts, HttpAssumption DEF Alive, Files
  <2>2. r = client[c].req /\ Box(c) = << >>
    BY <1>1, <1>2, <2>1 DEF Prompt
  <2>3. PICK mine \in {"more", "answer"} : mine = Mine(c)' /\ Orderly' /\ Head(todo').who = c
    BY <1>1, <1>2, <2>2, PlanOrderly
  <2>4. Elsewhere(c)
    BY <1>1, <1>6, <1>4, <2>3, EventElsewhere
  <2>5. PICK op : op = watch[fd].op
    OBVIOUS
  <2>6. Talks(c, "none", op) /\ (~Pipelining => Paced(c, "none", op))
    BY <1>1, <2>1, <2>5 DEF Answering, Mine
  <2>7. ~Reading(mine, op)
    BY DEF Reading
  <2>8. Text(c, Box(c)', client'[c].req)
    BY <1>3, <2>2, EmptyFacts
  <2>9. Talks(c, mine, op)'
    BY <1>1, <1>3, <2>6, <2>7, <2>8 DEF Talks
  <2>10. ~Pipelining => Paced(c, mine, op)'
    <3> HAVE ~Pipelining
    <3>1. Keeping(c, "none", op)
      BY <1>2, <2>6 DEF Paced, Resting, Hearing, Taking, Replying, Nothing
    <3>2. Nothing(c)'
      <4> SUFFICES ASSUME NEW x \in 1 .. MaxRequests PROVE pending'[c][x] = 0
        BY DEF Nothing
      <4>1. pending[c][x] > 0 => pending[c][x] = 1 /\ x = client[c].req
        BY <3>1 DEF Keeping
      <4>2. pending[c][r] > 0 /\ pending[c][x] \in Nat /\ r = client[c].req
        BY <1>2, <1>6, <2>2
      <4> QED
        BY <1>6, <4>1, <4>2
    <3>3. LastAnswer(<< >>, mine)
      BY DEF LastAnswer
    <3>4. Replying(c, mine, op)'
      <4>1. Box(c)' = << >> /\ Coming(c)' = << >>
        BY <1>3, <2>2, <3>1 DEF Keeping
      <4>2. Settled(c)' = Settled(c)
        BY <1>1, <1>3 DEF Settled
      <4>3. LastAnswer(Box(c), mine)'
        BY <3>3, <4>1
      <4> QED
        BY <1>1, <3>1, <3>2, <4>1, <4>2, <4>3 DEF Keeping, Replying, Writes
    <3> QED
      BY <3>4 DEF Paced
  <2>11. Talks(c, Mine(c), watch[fd].op)' /\ (~Pipelining => Paced(c, Mine(c), watch[fd].op)')
    BY <1>1, <2>3, <2>5, <2>9, <2>10
  <2> QED
    BY <1>1, <1>4, <2>1, <2>3, <2>4, <2>11, OneTalks
<1>5. CASE ~Alive(c)
  <2>1. ~Alive(c)'
    BY <1>1, <1>5 DEF Alive
  <2>2. Orderly' /\ Head(todo').who = c
    BY <1>2, <2>1, PlanOrderly
  <2>3. c <= opened /\ opened \in Nat
    <3>1. pending[c][r] > 0 => c <= opened
      BY DEF Inv, ThreadOK
    <3> QED
      BY <1>2, <3>1 DEF Inv, KernelOK
  <2>4. \A fd \in Fds : file'[fd] # c
    <3> SUFFICES ASSUME NEW fd \in Fds, file[fd] = c PROVE FALSE
      BY <1>1
    <3> QED
      BY <1>5, OpenFacts, HttpAssumption DEF Files
  <2>5. OwnTo(c, Said(c), MaxRequests)'
    <3>1. OwnTo(c, Said(c), MaxRequests)
      BY DEF Answering
    <3> QED
      BY <1>3, <3>1
  <2>6. Elsewhere(c)
    <3>1. \A f \in Files \ {c} : SameOf(f) /\ Box(f)' = Box(f)
      BY <1>1, <1>6, <2>2, OthersMine DEF SameOf, Said, Coming, Box
    <3> QED
      BY <1>1, <3>1 DEF Elsewhere
  <2> QED
    BY <1>1, <2>2, <2>3, <2>4, <2>5, <2>6, Proceeds
<1> QED
  BY <1>4, <1>5

\* a new connection has said and heard nothing, and its buffer was emptied
LEMMA AcceptAnswering ==
    ASSUME Inv, Inv', Disciplined, Disciplined', ~misused, Answering, NEW fd \in Fds, Accept(fd)
    PROVE  Answering'
<1>0. PICK c \in Files : c = opened + 1
  BY HttpAssumption DEF Accept, Inv, KernelOK, Files
<1>1. PICK b : b = IF pool = << >> THEN c ELSE pool[Len(pool)]
  OBVIOUS
<1>2. /\ todo = << >> /\ todo' = << >> /\ file[fd] = 0 /\ opened' = c
      /\ file' = [file EXCEPT ![fd] = c]
      /\ watch' = [watch EXCEPT ![fd] = [op |-> "header", who |-> c, last |-> 0]]
      /\ client' = [client EXCEPT ![c] = [fd |-> fd, buf |-> b, keep |-> FALSE,
                                          body |-> "none", req |-> 0]]
      /\ content' = [content EXCEPT ![b] = << >>]
      /\ UNCHANGED <<wire, out, got, asking, asked, misused, pending>>
  BY <1>0, <1>1 DEF Accept, Idle
<1>3. /\ client'[c].buf = b /\ client'[c].req = 0 /\ client'[c].fd = fd
      /\ \A d \in Files \ {c} : client'[d] = client[d]
      /\ file'[fd] = c /\ \A g \in Fds \ {fd} : file'[g] = file[g]
      /\ watch'[fd].op = "header" /\ \A g \in Fds \ {fd} : watch'[g] = watch[g]
  BY <1>2 DEF Inv, ClientOK, KernelOK, WatchOK
<1>4. opened \in Nat /\ opened' \in Nat /\ c \in Nat /\ c > opened /\ c # 0 /\ opened <= opened' /\ c <= opened'
  BY <1>0, <1>2 DEF Inv, KernelOK, Files
<1>5. Alive(c)' /\ client'[c].buf \in Files
  <2>1. file'[fd] # 0 /\ fd \in Fds
    BY <1>3, <1>4
  <2>2. client'[c] \in Clients
    BY <1>4 DEF Inv, ClientOK
  <2>3. client'[c].buf \in Files /\ client'[c] # NoClient
    BY <2>2 DEF Clients, NoClient, Files
  <2> QED
    BY <1>3, <2>3 DEF Alive
<1>6. content'[b] = << >> /\ \A x \in Files : x # b => content'[x] = content[x]
  BY <1>2, <1>3, <1>5 DEF Inv, BufferOK, Streams
<1>7. Box(c)' = << >>
  BY <1>3, <1>6 DEF Box
<1>8. ASSUME NEW f \in Files \ {c}, Alive(f) PROVE Box(f)' = Box(f)
  <2>1. client[f].buf \in Files /\ client[f].fd # fd /\ client[f].fd \in Fds
    BY <1>2, <1>8, ClientFacts, HttpAssumption DEF Alive, Files
  <2>2. Alive(f)'
    BY <1>3, <1>8, <2>1 DEF Alive
  <2>3. client'[f].buf # b
    BY <1>2, <1>3, <1>5, <2>2 DEF Disciplined, ExclusiveBuffers
  <2> QED
    BY <1>3, <1>6, <2>1, <2>3 DEF Box
<1>9. Elsewhere(c)
  <2>1. \A f \in Files \ {c} : SameOf(f)
    BY <1>2, <1>3, OthersMine DEF SameOf, Said, Coming
  <2>2. \A g \in Fds : file'[g] \notin {0, c} => file'[g] = file[g] /\ watch'[g].op = watch[g].op
    BY <1>3
  <2> QED
    BY <1>8, <2>1, <2>2 DEF Elsewhere
<1>10. Said(c)' = << >> /\ Coming(c)' = << >> /\ asked'[c].n = 0
  BY <1>2, <1>4 DEF Answering, Said, Coming
<1>11. Mine(c)' = "none"
  BY <1>2 DEF Mine
<1>12. Talks(c, "none", "header")'
  <2>1. /\ Sorted(<< >>, 0, 0) /\ OwnTo(c, << >>, 0) /\ << >> \o << >> = << >>
    BY EmptyFacts
  <2>2. 0 <= 0 /\ ~Writing("none", "header")
    BY DEF Writing, Writes
  <2> QED
    BY <1>3, <1>7, <1>10, <2>1, <2>2 DEF Talks
<1>13. \A g \in Fds : file'[g] = c => g = fd
  BY <1>3, <1>4 DEF Inv, KernelOK
<1>14. \A g \in Fds : file'[g] = c =>
          /\ Talks(c, Mine(c), watch[g].op)'
          /\ ~Pipelining => Paced(c, Mine(c), watch[g].op)'
  <2>1. Nothing(c)'
    <3> SUFFICES ASSUME NEW r \in 1 .. MaxRequests PROVE pending[c][r] = 0
      BY <1>2 DEF Nothing
    <3>1. pending[c][r] \in Nat /\ (pending[c][r] > 0 => c <= opened)
      BY DEF Inv, ThreadOK
    <3> QED
      BY <1>4, <3>1
  <2>2. Resting(c, "none", "header")'
    BY <1>3, <1>7, <1>10, <2>1 DEF Resting
  <2>3. Paced(c, "none", "header")'
    BY <2>2 DEF Paced
  <2> QED
    BY <1>3, <1>11, <1>12, <1>13, <2>3
<1>15. OwnTo(c, Said(c), MaxRequests)'
  BY <1>10, EmptyFacts
<1>16. Orderly'
  BY <1>2, EmptyOrderly
<1> QED
  BY <1>4, <1>9, <1>14, <1>15, <1>16, Proceeds

-----------------------------------------------------------------------------
(* What the thread goes on to do. *)

LEMMA ScriptFacts ==
    ASSUME Inv, Disciplined, Answering, todo # << >>, NEW c, c = Head(todo).who, Alive(c)
    PROVE  \E fd \in Fds : /\ fd = client[c].fd /\ file[fd] = c /\ c # 0 /\ c \in Files
                           /\ client[c] # NoClient /\ client[c].buf \in Files
                           /\ watch[fd].who = c /\ Mine(c) = Head(todo).call
                           /\ Talks(c, Head(todo).call, watch[fd].op)
                           /\ ~Pipelining => Paced(c, Head(todo).call, watch[fd].op)
<1>1. c \in Files
  BY HeadFacts
<1>2. PICK fd \in Fds : fd = client[c].fd /\ file[fd] = c /\ c # 0 /\ client[c] # NoClient
                        /\ client[c].buf \in Files
  BY <1>1, ClientFacts, HttpAssumption DEF Alive, Files
<1>3. watch[fd].who = c
  BY <1>2 DEF Disciplined, Served
<1>4. Mine(c) = Head(todo).call
  BY DEF Mine
<1> QED
  BY <1>1, <1>2, <1>3, <1>4 DEF Answering

\* after a call of the library's that comes alone
LEMMA AloneAfter ==
    ASSUME Inv, Disciplined, todo # << >>, Head(todo).call \in {"header", "process", "start"},
           NEW c, c = Head(todo).who
    PROVE  /\ todo' = Tail(todo) => Orderly' /\ todo' = << >> /\ Mine(c)' = "none"
           /\ todo' = <<Call("process", c, 0)>> \o Tail(todo) =>
                Orderly' /\ todo' # << >> /\ Head(todo').who = c /\ Mine(c)' = "process"
           /\ todo' = <<Call("close", c, 0)>> \o Tail(todo) =>
                Orderly' /\ todo' # << >> /\ Head(todo').who = c /\ Mine(c)' = "close"
<1>1. Tail(todo) = << >>
  BY AloneFacts
<1>2. /\ <<Call("process", c, 0)>> \o << >> = <<Call("process", c, 0)>>
      /\ <<Call("close", c, 0)>> \o << >> = <<Call("close", c, 0)>>
  OBVIOUS
<1>3. todo' = Tail(todo) => Orderly' /\ todo' = << >> /\ Mine(c)' = "none"
  BY <1>1, EmptyOrderly DEF Mine
<1>4. todo' = <<Call("process", c, 0)>> => Orderly' /\ todo' # << >> /\ Head(todo').who = c /\ Mine(c)' = "process"
  BY SingleOrderly DEF Writes
<1>5. todo' = <<Call("close", c, 0)>> => Orderly' /\ todo' # << >> /\ Head(todo').who = c /\ Mine(c)' = "close"
  BY SingleOrderly DEF Writes
<1> QED
  BY <1>1, <1>2, <1>3, <1>4, <1>5

LEMMA HeaderTalks ==
    ASSUME Inv, NEW c \in Files, client[c] # NoClient, NEW op, Talks(c, "header", op),
           NEW n \in 1 .. Len(Box(c)), Box(c)' = Rest(Box(c), n), client'[c].req = Box(c)[n].req,
           Said(c)' = Said(c), Coming(c)' = Coming(c), asked'[c] = asked[c],
           NEW next \in {"none", "process", "close"}, NEW wait \in {"header", "body"}
    PROVE  Talks(c, next, wait)'
<1> DEFINE m == client[c].req
           k == asked[c].n
           b == Box(c)
           t == Coming(c)
           r == Rest(b, n)
           q == b[n].req
<1>1. /\ b \in Seq(Pieces) /\ t \in Seq(Pieces) /\ m \in Nat /\ k \in Nat /\ Said(c) \in Seq(Pieces)
      /\ Len(b) \in Nat /\ n \in 1 .. Len(b) /\ n \in 0 .. Len(b)
  BY ClientFacts, StreamFacts, LenProperties
<1>2. m <= k /\ Sorted(b \o t, m, k) /\ OwnTo(c, Said(c), m)
  BY DEF Talks, Reading
<1>3. client'[c].req = q /\ Box(c)' = r /\ Coming(c)' = t /\ asked'[c].n = k
  OBVIOUS
<1> HIDE DEF m, k, b, t
<1>4. Sorted(r \o t, q, k) /\ q \in Nat /\ m <= q /\ q <= k
  BY <1>1, <1>2, SortedRest
<1>5. r \in Seq(Pieces)
  BY <1>1, CutInTwo
<1> HIDE DEF r, q
<1>6. Sorted(t, q, k)
  BY <1>1, <1>4, <1>5, SortedParts
<1>7. OwnTo(c, Said(c), q)
  <2>1. \A i \in 1 .. Len(Said(c)) : Said(c)[i].req <= q
    <3> TAKE i \in 1 .. Len(Said(c))
    <3>1. Said(c)[i].req \in Nat
      BY <1>1, ElementOfSeq, PieceReq
    <3> QED
      BY <1>1, <1>2, <1>4, <3>1 DEF OwnTo, Sorted
  <2> QED
    BY <1>2, <2>1 DEF OwnTo, Sorted
<1>8. ~Writing(next, wait)
  BY DEF Writing, Writes
<1> QED
  BY <1>3, <1>4, <1>6, <1>7, <1>8 DEF Talks

\* after the end of the one request that is heard comes its body, if it has one
LEMMA HeaderPaced ==
    ASSUME Inv, NEW c \in Files, client[c] # NoClient, NEW op, Talks(c, "header", op),
           Paced(c, "header", op),
           NEW n \in 1 .. Len(Box(c)), Box(c)[n].part = "end", Box(c)' = Rest(Box(c), n),
           client'[c].req = Box(c)[n].req, Said(c)' = Said(c), Coming(c)' = Coming(c),
           asked'[c] = asked[c], pending'[c] = pending[c], NEW next, NEW wait,
           \/ /\ Box(c)[n].shape.body # "none" /\ Len(Box(c)) = n
              /\ next = "none" /\ wait = "body"
           \/ /\ Box(c)[n].shape.body = "none" \/ Len(Box(c)) # n
              /\ next = "process"
           \/ next = "close"
    PROVE  Paced(c, next, wait)'
<1>1. PICK b, t, k, m, s :
        b = Box(c) /\ t = Coming(c) /\ k = asked[c].n /\ m = client[c].req /\ s = b \o t
  OBVIOUS
<1>2. /\ b \in Seq(Pieces) /\ t \in Seq(Pieces) /\ m \in Nat /\ k \in Nat /\ Said(c) \in Seq(Pieces)
      /\ Len(b) \in Nat /\ Len(t) \in Nat /\ n \in 1 .. Len(b)
  BY <1>1, ClientFacts, StreamFacts, LenProperties
<1>3. m < k /\ Nothing(c) /\ OneRequest(s, k)
  BY <1>1 DEF Paced, Resting, Hearing, Taking, Keeping, Replying, Writes
<1>4. Len(s) = Len(b) + Len(t) /\ s[n] = b[n] /\ n \in 1 .. Len(s)
  BY <1>1, <1>2, JoinFacts
<1>5. b[n].req = k /\ Len(b) + Len(t) <= n + IF b[n].shape.body = "none" THEN 0 ELSE 1
  BY <1>1, <1>3, <1>4 DEF OneRequest
<1>6. ~Settled(c)'
  <2>1. ASSUME NEW i \in 1 .. Len(Said(c)) PROVE Said(c)[i].req # k
    <3>1. Said(c)[i].req <= m
      BY <1>1 DEF Talks, OwnTo, Sorted
    <3>2. Said(c)[i].req \in Nat
      BY <1>2, ElementOfSeq, PieceReq
    <3> QED
      BY <1>2, <1>3, <3>1, <3>2
  <2>2. k # 0
    BY <1>2, <1>3
  <2> QED
    BY <1>1, <2>1, <2>2 DEF Settled
<1>7. client'[c].req = k /\ asked'[c].n = k /\ Nothing(c)'
  BY <1>1, <1>3, <1>5 DEF Nothing
<1>8. CASE b[n].shape.body # "none" /\ Len(b) = n /\ next = "none" /\ wait = "body"
  <2>1. next = "none" /\ wait = "body" /\ Len(t) <= 1
    BY <1>1, <1>2, <1>5, <1>8
  <2>2. PICK r : r = Rest(b, n) /\ r \in Seq(Pieces) /\ Len(r) = 0
    <3>1. Rest(b, n) \in Seq(Pieces) /\ Len(Rest(b, n)) = Len(b) - n
      BY <1>2, CutInTwo
    <3>2. Len(b) - n = 0
      BY <1>2, <1>8
    <3> QED
      BY <3>1, <3>2
  <2>3. r = << >> /\ r \o t = t
    BY <1>2, <2>2, EmptySeq, ConcatEmptySeq
  <2>4. Len(Box(c)' \o Coming(c)') <= 1
    BY <1>1, <2>1, <2>2, <2>3
  <2>5. Taking(c, next, wait)'
    BY <1>6, <1>7, <2>1, <2>4 DEF Taking
  <2> QED
    BY <2>5 DEF Paced
<1>9. CASE (b[n].shape.body = "none" \/ Len(b) # n) /\ next = "process"
  <2>1. next = "process"
    BY <1>1, <1>9
  <2>2. Len(t) = 0
    BY <1>2, <1>5, <1>9
  <2>3. Coming(c)' = << >>
    BY <1>1, <1>2, <2>2, EmptySeq
  <2>4. Replying(c, next, wait)'
    BY <1>6, <1>7, <2>1, <2>3 DEF Replying
  <2> QED
    BY <2>4 DEF Paced
<1>10. CASE next = "close"
  BY <1>10 DEF Paced
<1> QED
  BY <1>1, <1>8, <1>9, <1>10

LEMMA HeaderAnswering ==
    ASSUME Inv, Inv', Disciplined, ~misused, Answering, Found, mode' = "running", Header
    PROVE  Answering'
<1>0. PICK c, fd, b, n, e :
        /\ c = Head(todo).who /\ fd = client[c].fd /\ b = client[c].buf
        /\ n = watch[fd].last + 1 /\ e = content[b][n]
  OBVIOUS
<1>1. /\ mode = "running" /\ todo # << >> /\ Head(todo).call = "header"
      /\ content' = [content EXCEPT ![b] = Rest(@, n)]
      /\ client' = [client EXCEPT ![c].keep = e.shape.keep, ![c].body = e.shape.body, ![c].req = e.req]
      /\ \/ /\ e.shape.body # "none" /\ Len(content[b]) = n
            /\ watch' = [watch EXCEPT ![fd] = [op |-> "body", who |-> c, last |-> 0]]
            /\ todo' = Tail(todo)
         \/ /\ e.shape.body = "none" \/ Len(content[b]) # n
            /\ todo' = <<Call("process", c, 0)>> \o Tail(todo)
            /\ UNCHANGED watch
         \/ todo' = <<Call("close", c, 0)>> \o Tail(todo) /\ UNCHANGED watch
      /\ UNCHANGED <<opened, file, wire, got, out, asking, asked, pending>>
  <2>1. /\ mode = "running" /\ todo # << >> /\ Head(todo).call = "header"
        /\ content' = [content EXCEPT ![b] = Rest(@, n)]
        /\ client' = [client EXCEPT ![c].keep = e.shape.keep, ![c].body = e.shape.body, ![c].req = e.req]
        /\ UNCHANGED <<opened, file, wire, got, out, asking, asked, pending>>
    BY <1>0, ZenonT(60) DEF Header, Doing, peers
  <2>2. \/ /\ e.shape.body = "sized" /\ Len(content[b]) = n
           /\ watch' = [watch EXCEPT ![fd] = [op |-> "body", who |-> c, last |-> 0]]
           /\ todo' = Tail(todo)
        \/ /\ e.shape.body = "none" \/ (e.shape.body = "sized" /\ Len(content[b]) # n)
           /\ todo' = <<Call("process", c, 0)>> \o Tail(todo)
           /\ UNCHANGED watch
        \/ todo' = <<Call("close", c, 0)>> \o Tail(todo) /\ UNCHANGED watch
        \/ mode' = "thrown"
    BY <1>0, ZenonT(60) DEF Header
  <2> QED
    BY <2>1, <2>2
<1>2. Alive(c)
  BY <1>0, <1>1, OwnFacts, ZenonT(60)
<1>3. /\ fd \in Fds /\ file[fd] = c /\ c # 0 /\ c \in Files /\ client[c] # NoClient /\ b \in Files
      /\ Talks(c, "header", watch[fd].op)
      /\ ~Pipelining => Paced(c, "header", watch[fd].op)
  <2>1. PICK g \in Fds :
          /\ g = client[c].fd /\ file[g] = c /\ c # 0 /\ c \in Files /\ client[c] # NoClient
          /\ client[c].buf \in Files /\ Talks(c, Head(todo).call, watch[g].op)
          /\ ~Pipelining => Paced(c, Head(todo).call, watch[g].op)
    BY <1>0, <1>1, <1>2, ScriptFacts, ZenonT(60)
  <2>2. g = fd
    BY <1>0, <2>1, ZenonT(30)
  <2> QED
    BY <1>0, <1>1, <2>1, <2>2, ZenonT(60)
<1>4. n \in 1 .. Len(content[b]) /\ client[c] \in Clients
  <2>1. watch[fd].last \in Nat /\ content[b] \in Seq(Pieces)
    BY <1>3 DEF Inv, WatchOK, Watches, BufferOK, Streams
  <2>2. 1 \in 1 .. Len(todo) /\ Head(todo) = todo[1]
    BY <1>1, HeadFacts
  <2>3. watch[fd].last < Len(content[b])
    BY <1>0, <1>1, <2>2, ZenonT(60) DEF Inv, ThreadOK, PlanOK
  <2>4. n \in 1 .. Len(content[b])
    BY <1>0, <2>1, <2>3, LenProperties
  <2> QED
    BY <1>3, <2>4, ClientFacts
<1>5. watch[fd].op \in {"header", "body"}
  BY <1>3 DEF Talks
<1>6. Tail(todo) = << >>
  BY <1>1, AloneFacts
<1>7. /\ client'[c].req = e.req /\ client'[c].fd = fd /\ client'[c].buf = b
      /\ \A d \in Files \ {c} : client'[d] = client[d]
      /\ content'[b] = Rest(content[b], n) /\ \A x \in Files : x # b => content'[x] = content[x]
  <2>1. client \in [Files -> Clients \cup {NoClient}]
    BY DEF Inv, ClientOK
  <2>2. client'[c] = [client[c] EXCEPT !.keep = e.shape.keep, !.body = e.shape.body, !.req = e.req]
    BY <1>1, <1>3, <2>1
  <2>3. client'[c].req = e.req /\ client'[c].fd = client[c].fd /\ client'[c].buf = client[c].buf
    BY <1>4, <2>2 DEF Clients
  <2> QED
    BY <1>0, <1>1, <1>3, <2>1, <2>3, ZenonT(60) DEF Inv, BufferOK, Streams
<1>8. /\ Box(c) = content[b] /\ Box(c)' = Rest(content[b], n) /\ client'[c].req = Box(c)[n].req
      /\ Said(c)' = Said(c) /\ Coming(c)' = Coming(c)
  BY <1>0, <1>1, <1>7, ZenonT(30) DEF Box, Said, Coming
<1>9. PICK next \in {"none", "process", "close"} :
         /\ next = Mine(c)' /\ Orderly' /\ (todo' # << >> => Head(todo').who = c)
         /\ \/ /\ e.shape.body # "none" /\ Len(content[b]) = n /\ next = "none"
               /\ watch' = [watch EXCEPT ![fd] = [op |-> "body", who |-> c, last |-> 0]]
            \/ (e.shape.body = "none" \/ Len(content[b]) # n) /\ next = "process" /\ UNCHANGED watch
            \/ next = "close" /\ UNCHANGED watch
  <2>1. CASE /\ e.shape.body # "none" /\ Len(content[b]) = n /\ todo' = Tail(todo)
             /\ watch' = [watch EXCEPT ![fd] = [op |-> "body", who |-> c, last |-> 0]]
    <3>1. Orderly' /\ todo' = << >> /\ Mine(c)' = "none"
      BY <1>0, <1>1, <2>1, AloneAfter, ZenonT(60)
    <3> QED
      BY <2>1, <3>1
  <2>2. CASE /\ e.shape.body = "none" \/ Len(content[b]) # n
             /\ todo' = <<Call("process", c, 0)>> \o Tail(todo) /\ UNCHANGED watch
    <3>1. Orderly' /\ Head(todo').who = c /\ Mine(c)' = "process"
      BY <1>0, <1>1, <2>2, AloneAfter, ZenonT(30)
    <3> QED
      BY <2>2, <3>1
  <2>3. CASE todo' = <<Call("close", c, 0)>> \o Tail(todo) /\ UNCHANGED watch
    <3>1. Orderly' /\ Head(todo').who = c /\ Mine(c)' = "close"
      BY <1>0, <1>1, <2>3, AloneAfter, ZenonT(30)
    <3> QED
      BY <2>3, <3>1
  <2> QED
    BY <1>1, <2>1, <2>2, <2>3
<1>10. PICK wait \in {"header", "body"} :
          watch'[fd].op = wait /\ (next = "none" => wait = "body")
  BY <1>3, <1>5, <1>9 DEF Inv, WatchOK
<1>11. \A g \in Fds : g # fd => watch'[g].op = watch[g].op
  BY <1>1, <1>3 DEF Inv, WatchOK
<1>12. Talks(c, next, wait)' /\ (~Pipelining => Paced(c, next, wait)')
  <2>1. e = Box(c)[n] /\ n \in 1 .. Len(Box(c)) /\ Box(c)' = Rest(Box(c), n)
    BY <1>0, <1>4, <1>8, ZenonT(30)
  <2>2. e.part = "end"
    <3>1. Box(c)[watch[client[c].fd].last + 1].part = "end"
      BY <1>0, <1>1, ZenonT(60) DEF Found
    <3>2. Box(c)[n].part = "end"
      BY <1>0, <3>1
    <3> QED
      BY <2>1, <3>2
  <2>3. ~Pipelining => Paced(c, next, wait)'
    <3>1. \/ e.shape.body # "none" /\ Len(Box(c)) = n /\ next = "none" /\ wait = "body"
          \/ (e.shape.body = "none" \/ Len(Box(c)) # n) /\ next = "process"
          \/ next = "close"
      BY <1>8, <1>9, <1>10
    <3> QED
      BY <1>1, <1>3, <1>8, <2>1, <2>2, <3>1, HeaderPaced, ZenonT(60)
  <2> QED
    BY <1>1, <1>3, <1>4, <1>8, <2>3, HeaderTalks, ZenonT(60)
<1>13. Talks(c, Mine(c), watch[fd].op)' /\ (~Pipelining => Paced(c, Mine(c), watch[fd].op)')
  BY <1>9, <1>10, <1>12
<1>14. Elsewhere(c)
  BY <1>0, <1>1, <1>2, <1>3, <1>7, <1>9, <1>11, EventElsewhere, ZenonT(60)
<1> QED
  BY <1>0, <1>1, <1>2, <1>3, <1>9, <1>13, <1>14, OneTalks, ZenonT(30)

LEMMA EmptyTalks ==
    ASSUME Inv, NEW c \in Files, NEW mine, NEW op, Talks(c, mine, op), client'[c] = client[c],
           Box(c)' = << >>, Said(c)' = Said(c), Coming(c)' = Coming(c), asked'[c] = asked[c],
           NEW next \in {"none", "more", "answer"}, NEW wait
    PROVE  Talks(c, next, wait)'
<1>1. Text(c, << >>, client[c].req)
  BY EmptyFacts
<1>2. << >> \o Coming(c) = Coming(c)
  BY StreamFacts, ConcatEmptySeq
<1> QED
  BY <1>1, <1>2 DEF Talks

LEMMA ProcessAnswering ==
    ASSUME Inv, Inv', Disciplined, ~misused, Answering, Process PROVE Answering'
<1>0. PICK c, r, b : c = Head(todo).who /\ r = client[c].req /\ b = client[c].buf
  OBVIOUS
<1>1. /\ todo # << >> /\ Head(todo).call = "process"
      /\ content' = [content EXCEPT ![b] = << >>]
      /\ \/ /\ \/ todo' = <<Call("answer", c, r), Call("end", c, r)>> \o Tail(todo)
               \/ todo' = <<Call("more", c, r), Call("flush", c, r),
                            Call("answer", c, r), Call("end", c, r)>> \o Tail(todo)
            /\ UNCHANGED pending
         \/ /\ todo' = Tail(todo)
            /\ pending' = [pending EXCEPT ![c][r] = @ + 1]
      /\ UNCHANGED <<opened, file, watch, client, wire, got, out, asking, asked>>
  BY <1>0, ZenonT(60) DEF Process, Clearing, Doing, peers
<1>2. Alive(c)
  BY <1>0, <1>1, OwnFacts
<1>3. PICK fd \in Fds :
        /\ fd = client[c].fd /\ file[fd] = c /\ c # 0 /\ c \in Files /\ client[c] # NoClient
        /\ b \in Files /\ Talks(c, "process", watch[fd].op)
        /\ ~Pipelining => Paced(c, "process", watch[fd].op)
  <2>1. PICK g \in Fds :
          /\ g = client[c].fd /\ file[g] = c /\ c # 0 /\ c \in Files /\ client[c] # NoClient
          /\ client[c].buf \in Files /\ Talks(c, Head(todo).call, watch[g].op)
          /\ ~Pipelining => Paced(c, Head(todo).call, watch[g].op)
    BY <1>0, <1>1, <1>2, ScriptFacts, ZenonT(30)
  <2> QED
    BY <1>0, <1>1, <2>1, ZenonT(60)
<1>4. Tail(todo) = << >>
  BY <1>1, AloneFacts
<1>5. PICK next \in {"none", "more", "answer"} :
        /\ next = Mine(c)' /\ Orderly' /\ (todo' # << >> => Head(todo').who = c)
        /\ \/ next # "none" /\ UNCHANGED pending
           \/ next = "none" /\ pending' = [pending EXCEPT ![c][r] = @ + 1]
  <2>1. /\ <<Call("answer", c, r), Call("end", c, r)>> \o << >> = <<Call("answer", c, r), Call("end", c, r)>>
        /\ <<Call("more", c, r), Call("flush", c, r), Call("answer", c, r), Call("end", c, r)>> \o << >>
              = <<Call("more", c, r), Call("flush", c, r), Call("answer", c, r), Call("end", c, r)>>
    OBVIOUS
  <2>2. r = client'[c].req
    BY <1>0, <1>1
  <2>3. CASE todo' = Tail(todo) /\ pending' = [pending EXCEPT ![c][r] = @ + 1]
    <3>1. todo' = << >>
      BY <1>4, <2>3
    <3>2. Mine(c)' = "none" /\ Orderly'
      BY <3>1, EmptyOrderly DEF Mine
    <3> QED
      BY <2>3, <3>1, <3>2
  <2>4. CASE /\ \/ todo' = <<Call("answer", c, r), Call("end", c, r)>> \o Tail(todo)
                \/ todo' = <<Call("more", c, r), Call("flush", c, r),
                             Call("answer", c, r), Call("end", c, r)>> \o Tail(todo)
             /\ UNCHANGED pending
    <3>1. \/ todo' = <<Call("answer", c, r), Call("end", c, r)>>
          \/ todo' = <<Call("more", c, r), Call("flush", c, r), Call("answer", c, r), Call("end", c, r)>>
      BY <1>4, <2>1, <2>4
    <3>2. Orderly' /\ Mine(c)' \in {"more", "answer"} /\ Head(todo').who = c
      BY <2>2, <3>1, PlanOrderly
    <3> QED
      BY <2>4, <3>2
  <2> QED
    BY <1>1, <2>3, <2>4
<1>6. content'[b] = << >> /\ \A x \in Files : x # b => content'[x] = content[x]
  BY <1>1, <1>3 DEF Inv, BufferOK, Streams
<1>7. Box(c)' = << >> /\ Said(c)' = Said(c) /\ Coming(c)' = Coming(c)
  BY <1>0, <1>1, <1>6 DEF Box, Said, Coming
<1>8. PICK wait : wait = watch'[fd].op
  OBVIOUS
<1>9. Talks(c, next, wait)'
  BY <1>1, <1>3, <1>7, EmptyTalks
<1>10. ~Pipelining => Paced(c, next, wait)'
  <2> HAVE ~Pipelining
  <2>1. Replying(c, "process", wait) /\ wait \in {"header", "body"}
    BY <1>1, <1>3, <1>8 DEF Paced, Resting, Hearing, Taking, Keeping, Talks
  <2>2. Settled(c)' = Settled(c)
    BY <1>1, <1>7 DEF Settled
  <2>3. CASE next # "none" /\ UNCHANGED pending
    <3>1. LastAnswer(Box(c), next)'
      BY <1>7 DEF LastAnswer
    <3>2. Replying(c, next, wait)'
      BY <1>1, <1>7, <2>1, <2>2, <2>3, <3>1 DEF Replying, Nothing, Writes
    <3> QED
      BY <3>2 DEF Paced
  <2>4. CASE next = "none" /\ pending' = [pending EXCEPT ![c][r] = @ + 1]
    <3>1. ASSUME NEW x \in 1 .. MaxRequests, pending'[c][x] > 0
          PROVE  pending'[c][x] = 1 /\ x = r
      <4>1. pending'[c][x] = IF x = r THEN pending[c][x] + 1 ELSE pending[c][x]
        BY <1>3, <2>4 DEF Inv, ThreadOK
      <4>2. pending[c][x] = 0
        BY <2>1 DEF Replying, Nothing
      <4> QED
        BY <3>1, <4>1, <4>2
    <3>2. Keeping(c, next, wait)'
      BY <1>0, <1>1, <1>7, <2>1, <2>2, <2>4, <3>1, ZenonT(30) DEF Replying, Keeping
    <3> QED
      BY <3>2 DEF Paced
  <2> QED
    BY <1>5, <2>3, <2>4
<1>11. Talks(c, Mine(c), watch[fd].op)' /\ (~Pipelining => Paced(c, Mine(c), watch[fd].op)')
  BY <1>5, <1>8, <1>9, <1>10
<1>12. \A f \in Files \ {c} : pending'[f] = pending[f]
  BY <1>5 DEF Inv, ThreadOK
<1>13. Elsewhere(c)
  BY <1>0, <1>1, <1>2, <1>3, <1>5, <1>6, <1>12, EventElsewhere, ZenonT(30)
<1> QED
  BY <1>1, <1>2, <1>3, <1>5, <1>11, <1>13, OneTalks

LEMMA StartAnswering ==
    ASSUME Inv, Inv', Disciplined, ~misused, Answering, Start PROVE Answering'
<1>0. PICK c, b : c = Head(todo).who /\ b = client[c].buf
  OBVIOUS
<1>1. /\ todo # << >> /\ Head(todo).call = "start" /\ todo' = Tail(todo)
      /\ content' = [content EXCEPT ![b] = << >>]
      /\ watch' = [watch EXCEPT ![client[c].fd] = [op |-> "header", who |-> c, last |-> 0]]
      /\ UNCHANGED <<opened, file, client, wire, got, out, asking, asked, pending>>
  BY <1>0 DEF Start, Clearing, Doing, peers
<1>2. Alive(c)
  BY <1>0, <1>1, OwnFacts
<1>3. PICK fd \in Fds :
        /\ fd = client[c].fd /\ file[fd] = c /\ c # 0 /\ c \in Files /\ client[c] # NoClient
        /\ b \in Files /\ Talks(c, "start", watch[fd].op)
        /\ ~Pipelining => Paced(c, "start", watch[fd].op)
  BY <1>0, <1>1, <1>2, ScriptFacts
<1>4. Orderly' /\ todo' = << >> /\ Mine(c)' = "none"
  BY <1>0, <1>1, AloneAfter
<1>5. content'[b] = << >> /\ \A x \in Files : x # b => content'[x] = content[x]
  BY <1>1, <1>3 DEF Inv, BufferOK, Streams
<1>6. Box(c)' = << >> /\ Said(c)' = Said(c) /\ Coming(c)' = Coming(c)
  BY <1>0, <1>1, <1>5 DEF Box, Said, Coming
<1>7. watch'[fd].op = "header"
  BY <1>1, <1>3 DEF Inv, WatchOK
<1>8. Talks(c, "none", "header")'
  BY <1>1, <1>3, <1>6, EmptyTalks
<1>9. Talks(c, Mine(c), watch[fd].op)' /\ (~Pipelining => Paced(c, Mine(c), watch[fd].op)')
  <2>1. ~Pipelining => Paced(c, "none", "header")'
    <3> HAVE ~Pipelining
    <3>1. Resting(c, "start", watch[fd].op)
      BY <1>3 DEF Paced, Hearing, Taking, Keeping, Replying, Writes
    <3>2. Resting(c, "none", "header")'
      BY <1>1, <1>6, <3>1 DEF Resting, Nothing
    <3> QED
      BY <3>2 DEF Paced
  <2> QED
    BY <1>4, <1>7, <1>8, <2>1
<1>10. \A g \in Fds : g # fd => watch'[g].op = watch[g].op
  BY <1>1, <1>3 DEF Inv, WatchOK
<1>11. Elsewhere(c)
  BY <1>0, <1>1, <1>2, <1>3, <1>4, <1>5, <1>10, EventElsewhere
<1> QED
  BY <1>1, <1>2, <1>3, <1>4, <1>9, <1>11, OneTalks

\* the application's calls for an answer, one after the other
LEMMA TupleTails ==
    ASSUME NEW a, NEW b, NEW c, NEW d
    PROVE  /\ Tail(<<a, b, c, d>>) = <<b, c, d>> /\ Head(<<a, b, c, d>>) = a
           /\ Tail(<<b, c, d>>) = <<c, d>> /\ Head(<<b, c, d>>) = b
           /\ Tail(<<c, d>>) = <<d>> /\ Head(<<c, d>>) = c
           /\ Tail(<<d>>) = << >> /\ Head(<<d>>) = d
           /\ <<b, c, d>> # << >> /\ <<c, d>> # << >> /\ <<d>> # << >>
  OBVIOUS

LEMMA PlanFacts ==
    ASSUME NEW c, todo \in Plans(c)
    PROVE  LET h == Head(todo)
               s == Tail(todo)
           IN  /\ h.who = c
               /\ h.call \in {"more", "answer"} => h.req = client[c].req
               /\ h.call = "more" => s \in Plans(c) /\ s # << >> /\ Head(s).call = "flush" /\ Head(s).who = c
               /\ h.call = "flush" => s \in Plans(c) /\ s # << >> /\ Head(s).call = "answer" /\ Head(s).who = c
               /\ h.call = "answer" => s \in Plans(c) /\ s # << >> /\ Head(s).call = "end" /\ Head(s).who = c
               /\ h.call = "end" => s = << >>
<1> DEFINE r == client[c].req
           m == Call("more", c, r)
           f == Call("flush", c, r)
           a == Call("answer", c, r)
           e == Call("end", c, r)
           z == Call("end", c, 0)
<1>1. /\ m.call = "more" /\ f.call = "flush" /\ a.call = "answer" /\ e.call = "end" /\ z.call = "end"
      /\ m.who = c /\ f.who = c /\ a.who = c /\ e.who = c /\ z.who = c
      /\ m.req = client[c].req /\ a.req = client[c].req
  BY DEF Call
<1>2. Plans(c) = {<<m, f, a, e>>, <<f, a, e>>, <<a, e>>, <<e>>, <<z>>}
  BY DEF Plans
<1> HIDE DEF r, m, f, a, e, z
<1>3. todo = <<m, f, a, e>> \/ todo = <<f, a, e>> \/ todo = <<a, e>> \/ todo = <<e>> \/ todo = <<z>>
  BY <1>2
<1>4. CASE todo = <<m, f, a, e>>
  <2>1. Head(todo) = m /\ Tail(todo) = <<f, a, e>> /\ Tail(todo) # << >> /\ Head(Tail(todo)) = f
    BY <1>4, TupleTails
  <2> QED
    BY <1>1, <1>2, <2>1
<1>5. CASE todo = <<f, a, e>>
  <2>1. Head(todo) = f /\ Tail(todo) = <<a, e>> /\ Tail(todo) # << >> /\ Head(Tail(todo)) = a
    BY <1>5, TupleTails
  <2> QED
    BY <1>1, <1>2, <2>1
<1>6. CASE todo = <<a, e>>
  <2>1. Head(todo) = a /\ Tail(todo) = <<e>> /\ Tail(todo) # << >> /\ Head(Tail(todo)) = e
    BY <1>6, TupleTails
  <2> QED
    BY <1>1, <1>2, <2>1
<1>7. CASE todo = <<e>> \/ todo = <<z>>
  <2>1. (Head(todo) = e \/ Head(todo) = z) /\ Tail(todo) = << >>
    BY <1>7, TupleTails
  <2> QED
    BY <1>1, <2>1
<1> QED
  BY <1>3, <1>4, <1>5, <1>6, <1>7

\* a step of the application's for the answer, and what comes after it
LEMMA PlanTailOrderly ==
    ASSUME NEW c, todo \in Plans(c), todo' = Tail(todo), client'[c] = client[c]
    PROVE  /\ Orderly' /\ (todo' # << >> => Head(todo').who = c)
           /\ Mine(c)' = CASE Head(todo).call = "more" -> "flush"
                           [] Head(todo).call = "flush" -> "answer"
                           [] Head(todo).call = "answer" -> "end"
                           [] OTHER -> "none"
           /\ Head(todo).call \in Writes
<1>1. Plans(c)' = Plans(c)
  BY DEF Plans
<1>2. Head(todo).call \in {"more", "flush", "answer", "end"}
  <2>1. /\ Call("more", c, client[c].req).call = "more" /\ Call("flush", c, client[c].req).call = "flush"
        /\ Call("answer", c, client[c].req).call = "answer"
        /\ Call("end", c, client[c].req).call = "end" /\ Call("end", c, 0).call = "end"
    BY DEF Call
  <2> QED
    BY <2>1, TupleTails DEF Plans
<1>3. todo' # << >> => todo' \in Plans(c) /\ Head(todo').who = c
  BY <1>2, PlanFacts
<1>4. Orderly'
  BY <1>1, <1>3 DEF Orderly
<1> QED
  BY <1>2, <1>3, <1>4, PlanFacts DEF Mine, Writes

LEMMA WriteAnswering ==
    ASSUME Inv, Inv', Disciplined, ~misused', Answering, NEW part \in {"more", "answer"}, Write(part)
    PROVE  Answering'
<1>0. PICK c, b, p : /\ c = Head(todo).who /\ b = client[c].buf
                     /\ p = [part |-> part, file |-> c, req |-> Head(todo).req, shape |-> NoShape]
  OBVIOUS
<1>1. /\ todo # << >> /\ Head(todo).call = part /\ todo' = Tail(todo)
      /\ b \notin freed => content' = [content EXCEPT ![b] = Append(@, p)]
      /\ misused' = (misused \/ ~Alive(c))
      /\ UNCHANGED <<opened, file, watch, client, wire, got, out, asking, asked, pending>>
  BY <1>0 DEF Write, Doing, Judge, peers
<1>2. Alive(c) /\ ~misused
  BY <1>0, <1>1, ZenonT(60) DEF Alive
<1>3. PICK fd \in Fds :
        /\ fd = client[c].fd /\ file[fd] = c /\ c # 0 /\ c \in Files /\ client[c] # NoClient
        /\ b \in Files /\ Talks(c, part, watch[fd].op)
        /\ ~Pipelining => Paced(c, part, watch[fd].op)
  BY <1>0, <1>1, <1>2, ScriptFacts
<1>4. todo \in Plans(c)
  BY <1>0, <1>1, <1>2 DEF Answering, Orderly, Writes
<1>5. PICK next \in {"flush", "end"} :
        /\ next = Mine(c)' /\ Orderly' /\ (todo' # << >> => Head(todo').who = c)
        /\ next = IF part = "more" THEN "flush" ELSE "end"
  BY <1>1, <1>4, PlanTailOrderly
<1>6. p.req = client[c].req /\ IsAnswer(c, p)
  BY <1>0, <1>1, <1>4, PlanFacts DEF IsAnswer, Answers
<1>7. p \in Pieces
  <2>1. Head(todo).req \in 1 .. MaxRequests
    <3>1. Head(todo) = todo[1] /\ 1 \in 1 .. Len(todo) /\ todo[1] \in Calls
      BY <1>1, HeadFacts
    <3>2. Head(todo).req > 0 /\ Head(todo).req \in 0 .. MaxRequests
      BY <1>1, <3>1 DEF Inv, ThreadOK, PlanOK, Calls
    <3> QED
      BY <3>2, HttpAssumption
  <2>2. NoShape \in ShapeSet
    BY DEF NoShape, ShapeSet, Bodies
  <2> QED
    BY <1>0, <1>3, <2>1, <2>2 DEF Pieces, Answers
<1>8. /\ content'[b] = Append(content[b], p) /\ content[b] \in Seq(Pieces)
      /\ \A x \in Files : x # b => content'[x] = content[x]
  <2>1. b \notin freed
    BY <1>0, <1>2, <1>3, UsedFacts
  <2> QED
    BY <1>1, <1>3, <2>1 DEF Inv, BufferOK, Streams
<1>9. /\ Box(c) = content[b] /\ Box(c)' = Append(content[b], p)
      /\ Said(c)' = Said(c) /\ Coming(c)' = Coming(c)
  BY <1>0, <1>1, <1>8, ZenonT(30) DEF Box, Said, Coming
<1>10. PICK op : op = watch[fd].op
  OBVIOUS
<1>11. Text(c, Box(c), client[c].req)
  BY <1>3 DEF Talks, Writing, Writes
<1>12. Text(c, Box(c)', client[c].req)
  BY <1>6, <1>7, <1>8, <1>9, <1>11, TextMore
<1>13. ~Reading(next, op)
  BY DEF Reading
<1>14. Talks(c, next, op)'
  BY <1>1, <1>3, <1>9, <1>10, <1>12, <1>13 DEF Talks
<1>15. Talks(c, Mine(c), watch[fd].op)' /\ (~Pipelining => Paced(c, Mine(c), watch[fd].op)')
  <2>1. ~Pipelining => Paced(c, next, op)'
    <3> HAVE ~Pipelining
    <3>1. Replying(c, part, op)
      BY <1>3, <1>10 DEF Paced, Resting, Hearing, Taking, Keeping
    <3>2. LastAnswer(Append(content[b], p), next)
      <4>1. LastAnswer(content[b], part)
        BY <1>9, <3>1 DEF Replying
      <4>2. p.part = part
        BY <1>0
      <4>3. /\ Len(Append(content[b], p)) = Len(content[b]) + 1 /\ Len(content[b]) \in Nat
            /\ \A i \in 1 .. Len(content[b]) : Append(content[b], p)[i] = content[b][i]
            /\ Append(content[b], p)[Len(content[b]) + 1] = p
        BY <1>7, <1>8, AppendProperties, LenProperties
      <4>4. \A i \in 1 .. Len(content[b]) : content[b][i].part # "answer"
        BY <4>1 DEF LastAnswer
      <4> QED
        BY <1>5, <4>2, <4>3, <4>4 DEF LastAnswer
    <3>3. Settled(c)' = Settled(c)
      BY <1>1, <1>9 DEF Settled
    <3>4. Replying(c, next, op)'
      BY <1>1, <1>9, <3>1, <3>2, <3>3 DEF Replying, Nothing, Writes
    <3> QED
      BY <3>4 DEF Paced
  <2> QED
    BY <1>1, <1>5, <1>10, <1>14, <2>1
<1>16. Elsewhere(c)
  BY <1>0, <1>1, <1>2, <1>3, <1>5, <1>8, EventElsewhere, ZenonT(30)
<1> QED
  BY <1>1, <1>2, <1>3, <1>5, <1>15, <1>16, OneTalks

\* what the kernel takes of the answer is said, the rest stays to be
LEMMA SentTalks ==
    ASSUME Inv, NEW c \in Files, client[c] # NoClient, NEW mine \in Writes, NEW op, Talks(c, mine, op),
           NEW n \in 0 .. Len(Box(c)), Box(c)' = Rest(Box(c), n),
           Said(c)' = Said(c) \o SubSeq(Box(c), 1, n),
           client'[c] = client[c], Coming(c)' = Coming(c), asked'[c] = asked[c],
           NEW next, next \notin {"header", "process"}, NEW wait, ~Reading(next, wait)
    PROVE  Talks(c, next, wait)'
<1> DEFINE m == client[c].req
           b == Box(c)
           s == Said(c)
           t == SubSeq(b, 1, n)
<1>1. b \in Seq(Pieces) /\ s \in Seq(Pieces) /\ m \in Nat
  BY ClientFacts, StreamFacts
<1>2. Text(c, b, m) /\ OwnTo(c, s, m)
  BY DEF Talks, Writing
<1>3. Text(c, t, m) /\ Text(c, Rest(b, n), m) /\ t \in Seq(Pieces)
  BY <1>1, <1>2, TextCut, CutInTwo
<1> HIDE DEF t, s, m
<1>4. OwnTo(c, s \o t, m)
  BY <1>1, <1>2, <1>3, OwnJoin
<1>5. Said(c)' = s \o t /\ Box(c)' = Rest(b, n)
  BY DEF s, t
<1> HIDE DEF b
<1> QED
  BY <1>3, <1>4, <1>5 DEF Talks, m

\* until all of it is sent, the piece that ends the answer stays
LEMMA SentPaced ==
    ASSUME Inv, NEW c \in Files, client[c] # NoClient, NEW mine \in {"flush", "end"}, NEW op,
           Paced(c, mine, op), NEW n \in 0 .. Len(Box(c)), Box(c)' = Rest(Box(c), n),
           Said(c)' = Said(c) \o SubSeq(Box(c), 1, n),
           client'[c] = client[c], Coming(c)' = Coming(c), asked'[c] = asked[c], pending'[c] = pending[c],
           NEW next, NEW wait,
           \/ mine = "flush" /\ next = "answer"
           \/ mine = "end" /\ n = Len(Box(c)) /\ next \in {"start", "close"}
           \/ mine = "end" /\ n < Len(Box(c)) /\ next = "none" /\ wait = "end"
    PROVE  Paced(c, next, wait)'
<1>1. PICK b, t, r, s : b = Box(c) /\ t = SubSeq(b, 1, n) /\ r = Rest(b, n) /\ s = Said(c)
  OBVIOUS
<1>2. b \in Seq(Pieces) /\ s \in Seq(Pieces) /\ Len(b) \in Nat
  BY <1>1, ClientFacts, StreamFacts, LenProperties
<1>3. /\ t \in Seq(Pieces) /\ Len(t) = n /\ Len(r) = Len(b) - n
      /\ \A i \in 1 .. n : i \in 1 .. Len(b) /\ t[i] = b[i]
      /\ \A i \in 1 .. Len(b) - n : i + n \in 1 .. Len(b) /\ r[i] = b[i + n]
  BY <1>1, <1>2, CutInTwo
<1>4. Replying(c, mine, op)
  BY DEF Paced, Resting, Hearing, Taking, Keeping
<1>5. LastAnswer(b, mine) /\ Nothing(c)'
  BY <1>1, <1>4 DEF Replying, Nothing
<1>6. CASE mine = "end" /\ n = Len(b) /\ next \in {"start", "close"}
  <2>1. next = "start" => Resting(c, next, wait)'
    BY <1>4, <1>5 DEF Replying, Resting
  <2> QED
    BY <1>6, <2>1 DEF Paced
<1>7. CASE mine = "flush" \/ n < Len(b)
  <2>1. ASSUME NEW i \in 1 .. Len(t) PROVE t[i].part # "answer"
    <3>1. i \in 1 .. n /\ i \in 1 .. Len(b) /\ t[i] = b[i]
      BY <1>3
    <3>2. b[i].part = "answer" => i = Len(b) /\ mine \in {"end", "none"}
      BY <1>5, <3>1 DEF LastAnswer
    <3> QED
      BY <1>2, <1>7, <3>1, <3>2
  <2>2. ~Settled(c)'
    <3>1. ASSUME NEW i \in 1 .. Len(s \o t), (s \o t)[i].part = "answer"
          PROVE  i \in 1 .. Len(s) /\ (s \o t)[i] = s[i]
      <4>1. i \in 1 .. Len(s) \/ (i - Len(s) \in 1 .. Len(t) /\ (s \o t)[i] = t[i - Len(s)])
        BY <1>2, <1>3, JoinFacts
      <4>2. i \in 1 .. Len(s)
        BY <2>1, <3>1, <4>1
      <4> QED
        BY <1>2, <1>3, <4>2, JoinFacts
    <3>2. ~Settled(c) /\ Said(c)' = s \o t
      BY <1>1, <1>4 DEF Replying
    <3> QED
      BY <1>1, <3>1, <3>2 DEF Settled
  <2>3. (mine = "flush" /\ next = "answer") \/ (mine = "end" /\ next = "none" /\ wait = "end")
    <3>1. n < Len(b) => n # Len(Box(c))
      BY <1>1, <1>2
    <3>2. mine = "flush" \/ n # Len(Box(c))
      BY <1>7, <3>1
    <3> QED
      BY <3>2
  <2>4. LastAnswer(r, next)
    <3> SUFFICES ASSUME NEW i \in 1 .. Len(r), r[i].part = "answer"
                 PROVE  i = Len(r) /\ next \in {"end", "none"}
      BY DEF LastAnswer
    <3>1. i + n \in 1 .. Len(b) /\ r[i] = b[i + n]
      BY <1>3
    <3>2. i + n = Len(b) /\ mine \in {"end", "none"}
      BY <1>5, <3>1 DEF LastAnswer
    <3>3. i = Len(b) - n
      BY <1>2, <3>2
    <3> QED
      BY <1>3, <2>3, <3>2, <3>3
  <2>5. LastAnswer(Box(c), next)'
    BY <1>1, <2>4
  <2>6. Replying(c, next, wait)'
    BY <1>4, <1>5, <2>2, <2>3, <2>5 DEF Replying, Writes
  <2> QED
    BY <2>6 DEF Paced
<1> QED
  BY <1>1, <1>6, <1>7

\* a call of the library's before what is left
LEMMA SwapOrderly ==
    ASSUME Inv, todo # << >>, NEW c \in Files, NEW name \in {"start", "close", "error"},
           todo' = <<Call(name, c, 0)>> \o Tail(todo)
    PROVE  Orderly' /\ todo' # << >> /\ Head(todo').who = c /\ Mine(c)' = name
<1> DEFINE x == Call(name, c, 0)
<1>1. todo \in Seq(Calls) /\ x \in Calls /\ x.call = name /\ x.who = c
  BY HttpAssumption DEF Inv, ThreadOK, PlanOK, Call, Calls
<1> HIDE DEF x
<1>2. todo' \in Seq(Calls) /\ todo' # << >> /\ todo'[1] = x
  BY <1>1, SwapFacts DEF x
<1>3. Head(todo') = x
  BY <1>2, TailFacts
<1> QED
  BY <1>1, <1>2, <1>3 DEF Orderly, Mine, Writes

LEMMA WriteBufferAnswering ==
    ASSUME Inv, Inv', Disciplined, ~misused', Answering, WriteBuffer PROVE Answering'
<1>0. PICK c, b, name : c = Head(todo).who /\ b = client[c].buf /\ name = Head(todo).call
  OBVIOUS
<1>1. /\ todo # << >> /\ name \in {"flush", "end"}
      /\ misused' = (misused \/ ~Alive(c))
      /\ UNCHANGED <<opened, file, client, wire, got, asking, asked, pending>>
  BY <1>0, ZenonT(30) DEF WriteBuffer, Doing, Judge
<1>2. Alive(c) /\ ~misused
  BY <1>0, <1>1 DEF Alive
<1>3. PICK fd \in Fds :
        /\ fd = client[c].fd /\ file[fd] = c /\ c # 0 /\ c \in Files /\ client[c] # NoClient
        /\ b \in Files /\ Talks(c, name, watch[fd].op)
        /\ ~Pipelining => Paced(c, name, watch[fd].op)
  BY <1>0, <1>1, <1>2, ScriptFacts
<1>4. b \notin freed
  BY <1>0, <1>2, <1>3, UsedFacts
<1>5. todo \in Plans(c)
  BY <1>0, <1>1, <1>2 DEF Answering, Orderly, Writes
<1>6. PICK n : n = Least(Len(content[b]), Window - Len(out[c]))
  OBVIOUS
<1>7. /\ content[b] \in Seq(Pieces) /\ n \in 0 .. Len(content[b]) /\ out[c] \in Seq(Pieces)
      /\ content \in [Files -> Seq(Pieces)] /\ out \in [Files -> Seq(Pieces)]
  <2>1. /\ content[b] \in Seq(Pieces) /\ out[c] \in Seq(Pieces) /\ Len(out[c]) <= Window
        /\ content \in [Files -> Seq(Pieces)] /\ out \in [Files -> Seq(Pieces)]
    BY <1>3 DEF Inv, BufferOK, OutOK, Streams
  <2>2. Len(content[b]) \in Nat /\ Len(out[c]) \in Nat /\ Window \in Nat
    BY <2>1, LenProperties, HttpAssumption
  <2> QED
    BY <1>6, <2>1, <2>2 DEF Least
<1>8. PICK op :
        /\ watch' = [watch EXCEPT ![fd] = [op |-> op, who |-> c, last |-> 0]]
        /\ op \in {"empty", "flush", "end"}
        /\ \/ /\ out' = IF n = 0 THEN out ELSE [out EXCEPT ![c] = @ \o SubSeq(content[b], 1, n)]
              /\ content' = [content EXCEPT ![b] = Rest(@, n)]
              /\ \/ n = Len(content[b]) /\ op = "empty" /\ todo' = Then(c) \o Tail(todo)
                 \/ n < Len(content[b]) /\ op = name /\ todo' = Tail(todo)
           \/ /\ op = "empty"
              /\ todo' = <<Call("error", c, 0)>> \o Tail(todo)
              /\ UNCHANGED <<out, content>>
  BY <1>0, <1>1, <1>3, <1>4, <1>6, ZenonT(30) DEF WriteBuffer
<1>9. PICK next :
        /\ next = Mine(c)' /\ Orderly' /\ (todo' # << >> => Head(todo').who = c)
        /\ next \notin {"header", "process"} /\ ~Reading(next, op)
        /\ (todo' = <<Call("error", c, 0)>> \o Tail(todo) => next = "error")
  <2>0. Tail(todo) \in Seq(Calls)
    BY <1>1, HeadFacts, TailFacts
  <2>1. CASE todo' = Tail(todo) /\ ~(todo' = <<Call("error", c, 0)>> \o Tail(todo))
    <3>1. /\ Orderly' /\ (todo' # << >> => Head(todo').who = c)
          /\ Mine(c)' = IF name = "flush" THEN "answer" ELSE "none"
      BY <1>0, <1>1, <1>5, <2>1, PlanTailOrderly
    <3>2. ~Reading("answer", op) /\ ~Reading("none", op)
      BY <1>8 DEF Reading
    <3> QED
      BY <2>1, <3>1, <3>2
  <2>2. CASE \E x \in {"start", "close"} : todo' = <<Call(x, c, 0)>> \o Tail(todo)
    <3>1. PICK x \in {"start", "close"} : todo' = <<Call(x, c, 0)>> \o Tail(todo)
      BY <2>2
    <3>2. Orderly' /\ todo' # << >> /\ Head(todo').who = c /\ Mine(c)' = x
      BY <1>1, <1>3, <3>1, SwapOrderly
    <3>3. todo' = <<Call("error", c, 0)>> \o Tail(todo) => Mine(c)' = "error"
      BY <1>1, <1>3, SwapOrderly
    <3> QED
      BY <3>2, <3>3 DEF Reading
  <2>3. CASE todo' = <<Call("error", c, 0)>> \o Tail(todo)
    BY <1>1, <1>3, <2>3, SwapOrderly DEF Reading
  <2>4. CASE todo' = Then(c) \o Tail(todo)
    <3>1. CASE name = "flush"
      <4>1. todo' = Tail(todo)
        BY <1>0, <2>0, <2>4, <3>1, ConcatEmptySeq DEF Then
      <4> QED
        BY <2>1, <2>3, <4>1
    <3>2. CASE name = "end"
      <4>1. \/ todo' = <<Call("start", c, 0)>> \o Tail(todo)
            \/ todo' = <<Call("close", c, 0)>> \o Tail(todo)
        BY <1>0, <2>4, <3>2 DEF Then
      <4> QED
        BY <2>2, <4>1
    <3> QED
      BY <1>1, <3>1, <3>2
  <2> QED
    BY <1>8, <2>1, <2>3, <2>4
<1>10. /\ watch'[fd].op = op /\ \A g \in Fds : g # fd => watch'[g].op = watch[g].op
  BY <1>3, <1>8 DEF Inv, WatchOK
<1>11. Box(c) = content[b] /\ Box(c)' = content'[b] /\ Coming(c)' = Coming(c) /\ Said(c)' = got[c] \o out'[c]
  BY <1>0, <1>1 DEF Box, Coming, Said
<1>12. CASE /\ out' = IF n = 0 THEN out ELSE [out EXCEPT ![c] = @ \o SubSeq(content[b], 1, n)]
            /\ content' = [content EXCEPT ![b] = Rest(@, n)]
            /\ \/ n = Len(content[b]) /\ op = "empty" /\ todo' = Then(c) \o Tail(todo)
               \/ n < Len(content[b]) /\ op = name /\ todo' = Tail(todo)
  <2>1. /\ content'[b] = Rest(content[b], n) /\ \A x \in Files : x # b => content'[x] = content[x]
        /\ \A f \in Files \ {c} : out'[f] = out[f]
    BY <1>3, <1>7, <1>12
  <2>2. SubSeq(content[b], 1, n) \in Seq(Pieces) /\ got[c] \in Seq(Pieces)
        /\ Len(SubSeq(content[b], 1, n)) = n
    BY <1>3, <1>7, CutInTwo, StreamFacts
  <2>3. out'[c] = out[c] \o SubSeq(content[b], 1, n)
    <3>1. CASE n = 0
      <4>1. SubSeq(content[b], 1, n) = << >>
        BY <2>2, <3>1, EmptySeq
      <4> QED
        BY <1>7, <1>12, <3>1, <4>1, ConcatEmptySeq
    <3>2. CASE n # 0
      BY <1>3, <1>7, <1>12, <3>2
    <3> QED
      BY <3>1, <3>2
  <2>4. Said(c)' = Said(c) \o SubSeq(Box(c), 1, n)
    <3>1. got[c] \o (out[c] \o SubSeq(content[b], 1, n)) = (got[c] \o out[c]) \o SubSeq(content[b], 1, n)
      BY <1>7, <2>2, Regroup
    <3> QED
      BY <1>11, <2>3, <3>1 DEF Said
  <2>5. Talks(c, next, op)'
    <3>1. name \in Writes /\ n \in 0 .. Len(Box(c)) /\ Box(c)' = Rest(Box(c), n)
      BY <1>1, <1>7, <1>11, <2>1 DEF Writes
    <3> QED
      BY <1>1, <1>3, <1>9, <1>11, <2>4, <3>1, SentTalks
  <2>8. \/ name = "flush" /\ next = "answer"
        \/ name = "end" /\ n = Len(Box(c)) /\ next \in {"start", "close"}
        \/ name = "end" /\ n < Len(Box(c)) /\ next = "none" /\ op = "end"
    <3>1. CASE todo' = Tail(todo)
      <4>1. next = IF name = "flush" THEN "answer" ELSE "none"
        BY <1>0, <1>1, <1>5, <1>9, <3>1, PlanTailOrderly
      <4>2. CASE name = "flush"
        BY <4>1, <4>2
      <4>3. CASE name = "end" /\ n < Len(content[b]) /\ op = name
        BY <1>11, <4>1, <4>3
      <4>4. CASE name = "end" /\ todo' = Then(c) \o Tail(todo)
        <5>1. todo' = <<Call(IF client[c].keep THEN "start" ELSE "close", c, 0)>> \o Tail(todo)
          BY <1>0, <4>4 DEF Then
        <5>2. Mine(c)' \in {"start", "close"}
          BY <1>1, <1>3, <5>1, SwapOrderly
        <5> QED
          BY <1>9, <4>1, <4>4, <5>2
      <4> QED
        BY <1>1, <1>12, <4>2, <4>3, <4>4
    <3>2. CASE n = Len(content[b]) /\ todo' = Then(c) \o Tail(todo)
      <4>1. CASE name = "flush"
        <5>1. Tail(todo) \in Seq(Calls)
          BY <1>1, HeadFacts, TailFacts
        <5>2. todo' = Tail(todo)
          BY <1>0, <3>2, <4>1, <5>1, ConcatEmptySeq DEF Then
        <5> QED
          BY <3>1, <5>2
      <4>2. CASE name = "end"
        <5>1. todo' = <<Call(IF client[c].keep THEN "start" ELSE "close", c, 0)>> \o Tail(todo)
          BY <1>0, <3>2, <4>2 DEF Then
        <5>2. Mine(c)' \in {"start", "close"}
          BY <1>1, <1>3, <5>1, SwapOrderly
        <5> QED
          BY <1>9, <1>11, <3>2, <4>2, <5>2
      <4> QED
        BY <1>1, <4>1, <4>2
    <3> QED
      BY <1>12, <3>1, <3>2
  <2>9. ~Pipelining => Paced(c, next, op)'
    <3>1. name \in {"flush", "end"} /\ n \in 0 .. Len(Box(c)) /\ Box(c)' = Rest(Box(c), n)
      BY <1>1, <1>7, <1>11, <2>1
    <3> QED
      BY <1>1, <1>3, <1>11, <2>4, <2>8, <3>1, SentPaced
  <2>6. Talks(c, Mine(c), watch[fd].op)' /\ (~Pipelining => Paced(c, Mine(c), watch[fd].op)')
    BY <1>9, <1>10, <2>5, <2>9
  <2>7. Elsewhere(c)
    BY <1>0, <1>1, <1>2, <1>3, <1>9, <1>10, <2>1, EventElsewhere
  <2> QED
    BY <1>1, <1>2, <1>3, <1>9, <2>6, <2>7, OneTalks
<1>13. CASE /\ op = "empty"
            /\ todo' = <<Call("error", c, 0)>> \o Tail(todo)
            /\ UNCHANGED <<out, content>>
  <2>1. Said(c)' = Said(c) /\ Box(c)' = Box(c)
    BY <1>11, <1>13 DEF Said
  <2>2. ~Writing(next, op) /\ ~Reading(next, op)
    BY <1>9, <1>13 DEF Writing, Writes
  <2>3. Talks(c, next, op)' /\ Paced(c, next, op)'
    BY <1>1, <1>3, <1>9, <1>11, <1>13, <2>1, <2>2, TalksOn DEF Paced
  <2>4. Talks(c, Mine(c), watch[fd].op)' /\ Paced(c, Mine(c), watch[fd].op)'
    BY <1>9, <1>10, <2>3
  <2>5. Elsewhere(c)
    BY <1>0, <1>1, <1>2, <1>3, <1>9, <1>10, <1>13, EventElsewhere
  <2> QED
    BY <1>1, <1>2, <1>3, <1>9, <2>4, <2>5, OneTalks
<1> QED
  BY <1>8, <1>12, <1>13, ZenonT(30)

LEMMA TriggerErrorAnswering ==
    ASSUME Inv, Inv', Disciplined, ~misused, Answering, TriggerError PROVE Answering'
<1>0. PICK c : c = Head(todo).who
  OBVIOUS
<1>1. /\ todo # << >> /\ Head(todo).call = "error"
      /\ onError[client[c].fd] # 0 => todo' = <<Call("close", onError[client[c].fd], 0)>> \o Tail(todo)
      /\ UNCHANGED <<opened, file, watch, client, content, wire, got, out, asking, asked, pending>>
  BY <1>0 DEF TriggerError, Doing, peers
<1>2. Alive(c)
  BY <1>0, <1>1, OwnFacts
<1>3. PICK fd \in Fds :
        /\ fd = client[c].fd /\ file[fd] = c /\ c # 0 /\ c \in Files /\ client[c] # NoClient
        /\ Talks(c, "error", watch[fd].op)
  BY <1>0, <1>1, <1>2, ScriptFacts
<1>4. todo' = <<Call("close", c, 0)>> \o Tail(todo)
  BY <1>1, <1>3 DEF Disciplined, Served
<1>5. Orderly' /\ todo' # << >> /\ Head(todo').who = c /\ Mine(c)' = "close"
  BY <1>1, <1>3, <1>4, SwapOrderly
<1>6. PICK op, next : op = watch[fd].op /\ next = "close" /\ next \notin {"header", "process"}
  OBVIOUS
<1>7. (Writing(next, op) => Writing("error", op)) /\ ~Reading(next, op)
  BY <1>6 DEF Writing, Reading, Writes
<1>8. Said(c)' = Said(c) /\ Coming(c)' = Coming(c) /\ Box(c)' = Box(c)
  BY <1>1 DEF Said, Coming, Box
<1>9. Talks(c, next, op)' /\ Paced(c, next, op)'
  BY <1>1, <1>3, <1>6, <1>7, <1>8, TalksOn DEF Paced
<1>10. Talks(c, Mine(c), watch[fd].op)' /\ Paced(c, Mine(c), watch[fd].op)'
  BY <1>1, <1>5, <1>6, <1>9
<1>11. Elsewhere(c)
  BY <1>0, <1>1, <1>2, <1>3, <1>5, EventElsewhere
<1> QED
  BY <1>1, <1>2, <1>3, <1>5, <1>10, <1>11, OneTalks

\* a closed connection has said what it has, but for what the kernel gives up
LEMMA CloseAnswering ==
    ASSUME Inv, Inv', Disciplined, ~misused, Answering, Close PROVE Answering'
<1>0. PICK c : c = Head(todo).who
  OBVIOUS
<1>1. /\ todo # << >> /\ Head(todo).call = "close" /\ todo' = Tail(todo)
      /\ watch' = [watch EXCEPT ![client[c].fd] = NoWatch]
      /\ file' = [file EXCEPT ![client[c].fd] = 0]
      /\ LET f == file[client[c].fd]
         IN  out' = [out EXCEPT ![f] = << >>] \/ UNCHANGED out
      /\ UNCHANGED <<opened, client, content, wire, got, asking, asked, pending>>
  BY <1>0 DEF Close, Doing, peers
<1>2. Alive(c)
  BY <1>0, <1>1, OwnFacts
<1>3. PICK fd \in Fds :
        fd = client[c].fd /\ file[fd] = c /\ c # 0 /\ c \in Files /\ client[c] # NoClient
  BY <1>0, <1>1, <1>2, ScriptFacts
<1>4. /\ file'[fd] = 0 /\ \A g \in Fds \ {fd} : file'[g] = file[g]
      /\ \A g \in Fds \ {fd} : watch'[g] = watch[g]
      /\ \A f \in Files \ {c} : out'[f] = out[f]
      /\ out'[c] = out[c] \/ out'[c] = << >>
  BY <1>1, <1>3 DEF Inv, KernelOK, WatchOK, OutOK, Streams
<1>5. ~Alive(c)'
  BY <1>1, <1>3, <1>4 DEF Alive
<1>6. todo' # << >> => Head(todo').who = c
  <2>1. todo \in Seq(Calls) /\ Head(todo) = todo[1] /\ Len(todo) \in Nat \ {0}
    BY <1>1, HeadFacts
  <2>2. /\ todo' \in Seq(Calls) /\ Len(todo') = Len(todo) - 1
        /\ \A i \in 1 .. Len(todo) - 1 : todo'[i] = todo[i + 1]
    BY <1>1, <2>1, TailFacts
  <2> HAVE todo' # << >>
  <2>3. Head(todo') = todo'[1] /\ 1 \in 1 .. Len(todo) - 1 /\ 1 + 1 \in 1 .. Len(todo)
    BY <2>1, <2>2, TailFacts, EmptySeq
  <2>4. todo[1 + 1].who = todo[1].who
    BY <2>3 DEF Disciplined, Steady
  <2> QED
    BY <1>0, <2>1, <2>2, <2>3, <2>4
<1>7. Orderly'
  BY <1>5, <1>6 DEF Orderly
<1>8. Elsewhere(c)
  <2>1. \A f \in Files \ {c} : SameOf(f) /\ Box(f)' = Box(f)
    BY <1>0, <1>1, <1>4, <1>6, OthersMine DEF SameOf, Said, Coming, Box
  <2>2. \A g \in Fds : file'[g] \notin {0, c} => file'[g] = file[g] /\ watch'[g].op = watch[g].op
    BY <1>4
  <2> QED
    BY <2>1, <2>2 DEF Elsewhere
<1>9. \A g \in Fds : file'[g] # c
  <2> SUFFICES ASSUME NEW g \in Fds, file'[g] = c PROVE FALSE
    OBVIOUS
  <2>1. g # fd /\ file[g] = c
    BY <1>3, <1>4
  <2> QED
    BY <1>3, <2>1, OpenFacts
<1>10. OwnTo(c, Said(c), MaxRequests)'
  <2>1. OwnTo(c, got[c] \o out[c], MaxRequests)
    BY <1>3 DEF Answering, Said
  <2>2. got[c] \in Seq(Pieces) /\ out[c] \in Seq(Pieces)
    BY <1>3, StreamFacts
  <2>3. OwnTo(c, got[c], MaxRequests) /\ got[c] \o << >> = got[c]
    BY <2>1, <2>2, OwnPrefix, ConcatEmptySeq
  <2>4. OwnTo(c, got[c] \o out'[c], MaxRequests)
    BY <1>4, <2>1, <2>3
  <2> QED
    BY <1>1, <2>4 DEF Said
<1>11. opened \in Nat /\ opened' \in Nat /\ opened <= opened' /\ c <= opened'
  BY <1>1, <1>3, ClientFacts DEF Inv, KernelOK
<1> QED
  BY <1>3, <1>7, <1>8, <1>9, <1>10, <1>11, Proceeds

LEMMA QuietAnswering ==
    ASSUME Inv, Disciplined, Answering,
           \/ AcceptFails \/ LoopEnds \/ Stopped \/ UNCHANGED vars
           \/ \E fd \in Fds : LateEvent(fd)
    PROVE  Answering'
<1>1. UNCHANGED <<opened, file, watch, client, content, todo, asked, got, out, wire, asking, pending>>
  BY DEF AcceptFails, LoopEnds, LateEvent, Stopped, vars, peers
<1>2. \A f \in Files : Said(f)' = Said(f) /\ Coming(f)' = Coming(f)
  BY <1>1 DEF Said, Coming
<1> QED
  BY <1>1, <1>2, SameAnswering

LEMMA InitAnswering == ASSUME Init PROVE Answering
<1>1. \A f \in Files : Said(f) = << >> \o << >> /\ Coming(f) = << >> \o << >> /\ asked[f].n = 0
  BY DEF Init, Said, Coming
<1>2. << >> \o << >> = << >>
  OBVIOUS
<1>3. \A f \in Files : OwnTo(f, Said(f), MaxRequests)
  BY <1>1, <1>2, EmptyFacts
<1>4. \A fd \in Fds : file[fd] = 0
  BY ZenonT(30) DEF Init
<1>5. Orderly
  BY DEF Init, Orderly
<1> QED
  BY <1>1, <1>2, <1>3, <1>4, <1>5 DEF Answering

\* A header is only called for where the search found its end.
LEMMA InputFound ==
    ASSUME Inv, Disciplined, ~misused, NEW fd \in Fds, Input(fd) PROVE Found'
<1>1. /\ todo = << >> /\ file[fd] # 0 /\ watch[fd].op \in {"header", "body"} /\ UNCHANGED client
  BY ZenonT(30) DEF Input, Idle
<1>2. PICK c \in Files : c = file[fd] /\ c = watch[fd].who /\ client[c].fd = fd /\ Alive(c)
                         /\ client[c] # NoClient
  BY <1>1, OpenFacts, IdleFacts DEF Alive
<1>3. PICK b \in Files : b = client[c].buf
  BY <1>2, ClientFacts
<1>4. CASE todo' = <<Call("header", c, 0)>>
  <2>1. ~(todo' = << >>) /\ ~(todo' = <<Call("process", c, 0)>>) /\ ~(todo' = <<Call("error", c, 0)>>)
    BY <1>4 DEF Call
  <2>2. PICK n \in 1 .. Len(wire[c]) :
          LET new == content[b] \o SubSeq(wire[c], 1, n)
              last == Search(new, watch[fd].last)
          IN  /\ last # Len(new)
              /\ content' = [content EXCEPT ![b] = new]
              /\ watch' = [watch EXCEPT ![fd].last = last]
    <3>1. \E n \in 1 .. Len(wire[c]) :
             LET new == content[b] \o SubSeq(wire[c], 1, n)
                 last == IF watch[fd].op = "header" THEN Search(new, watch[fd].last) ELSE 0
             IN  /\ content' = [content EXCEPT ![b] = new]
                 /\ watch' = [watch EXCEPT ![fd].last = last]
                 /\ todo' = IF last = Len(new) THEN << >>
                            ELSE IF watch[fd].op = "header" THEN <<Call("header", c, 0)>>
                            ELSE <<Call("process", c, 0)>>
      BY <1>2, <1>3, <2>1, ZenonT(30) DEF Input
    <3> QED
      BY <2>1, <3>1, ZenonT(30)
  <2>3. PICK new, last :
          /\ new = content[b] \o SubSeq(wire[c], 1, n)
          /\ last = Search(new, watch[fd].last) /\ last # Len(new)
          /\ content' = [content EXCEPT ![b] = new]
          /\ watch' = [watch EXCEPT ![fd].last = last]
    BY <2>2
  <2>4. /\ content \in [Files -> Seq(Pieces)] /\ wire[c] \in Seq(Pieces) /\ n \in 0 .. Len(wire[c])
        /\ watch \in [Fds -> Watches] /\ watch[fd].last \in Nat
    BY StreamFacts, LenProperties DEF Inv, BufferOK, WatchOK, Streams, Watches
  <2>5. new \in Seq(Pieces)
    <3>1. SubSeq(wire[c], 1, n) \in Seq(Pieces) /\ content[b] \in Seq(Pieces)
      BY <2>4, CutInTwo
    <3> QED
      BY <2>3, <3>1, ConcatProperties
  <2>6. new[last + 1].part = "end"
    BY <2>3, <2>4, <2>5, SearchFacts
  <2>7. content'[b] = new
    BY <2>3, <2>4
  <2>8. watch'[fd].last = last
    <3>1. watch'[fd] = [watch[fd] EXCEPT !.last = last] /\ watch[fd] \in Watches
      BY <2>3, <2>4
    <3> QED
      BY <3>1 DEF Watches
  <2>9. Head(todo') = Call("header", c, 0)
    BY <1>4
  <2>10. Head(todo').who = c
    BY <2>9 DEF Call
  <2>11. client'[c].fd = fd /\ client'[c].buf = b
    BY <1>1, <1>2, <1>3
  <2>12. Box(c)' = new
    BY <2>7, <2>11 DEF Box
  <2> QED
    BY <2>6, <2>8, <2>10, <2>11, <2>12 DEF Found
<1>5. CASE todo' = << >> \/ todo' = <<Call("process", c, 0)>> \/ todo' = <<Call("error", c, 0)>>
  BY <1>5, SingleOrderly DEF Found, Writes, Mine
<1>6. \/ todo' = << >> \/ todo' = <<Call("process", c, 0)>> \/ todo' = <<Call("error", c, 0)>>
      \/ todo' = <<Call("header", c, 0)>>
  BY <1>2, ZenonT(30) DEF Input
<1> QED
  BY <1>4, <1>5, <1>6

LEMMA OtherFound ==
    ASSUME todo' = << >> \/ Head(todo').call # "header" PROVE Found'
  BY DEF Found

LEMMA HeadJoin ==
    ASSUME NEW x \in Calls, NEW t \in Seq(Calls) PROVE Head(<<x>> \o t) = x
<1>1. <<x>> \in Seq(Calls) /\ Len(<<x>>) = 1 /\ <<x>>[1] = x /\ Len(t) \in Nat
  BY LenProperties
<1>2. /\ <<x>> \o t \in Seq(Calls) /\ Len(<<x>> \o t) = 1 + Len(t) /\ (<<x>> \o t)[1] = x
  BY <1>1, ConcatProperties
<1>3. <<x>> \o t # << >>
  BY <1>1, <1>2, EmptySeq
<1> QED
  BY <1>2, <1>3, TailFacts

\* what the application and the library call next is no header
LEMMA ScriptFound ==
    ASSUME Inv, Disciplined, ~misused, mode' = "running", Script PROVE Found'
<1>1. PICK c \in Files : c = Head(todo).who /\ todo # << >>
  BY HeadFacts, ZenonT(30) DEF Script, Header, Process, Write, WriteBuffer, Start, TriggerError, Close, Doing
<1>2. Tail(todo) \in Seq(Calls)
  BY <1>1, HeadFacts, TailFacts
<1>3. CASE todo' = Tail(todo)
  <2>1. /\ todo \in Seq(Calls) /\ Len(todo) \in Nat
        /\ \A i \in 1 .. Len(todo) : i > 1 => todo[i].call \in {"flush", "answer", "end"}
    BY <1>1, HeadFacts DEF Inv, ThreadOK, PlanOK
  <2>2. /\ todo' \in Seq(Calls) /\ Len(todo') = Len(todo) - 1
        /\ \A i \in 1 .. Len(todo) - 1 : todo'[i] = todo[i + 1]
    BY <1>1, <1>3, <2>1, TailFacts
  <2>3. CASE todo' # << >>
    <3>1. Head(todo') = todo'[1] /\ 1 \in 1 .. Len(todo) - 1 /\ 1 + 1 \in 1 .. Len(todo)
      BY <2>1, <2>2, <2>3, TailFacts, EmptySeq
    <3>2. todo'[1] = todo[1 + 1] /\ 1 + 1 > 1
      BY <2>2, <3>1
    <3>3. Head(todo').call \in {"flush", "answer", "end"}
      BY <2>1, <3>1, <3>2
    <3> QED
      BY <3>3, OtherFound
  <2> QED
    BY <2>3, OtherFound
<1>4. CASE \E name \in {"process", "start", "close", "error"}, d \in Files :
              todo' = <<Call(name, d, 0)>> \o Tail(todo)
  <2>1. PICK name \in {"process", "start", "close", "error"}, d \in Files :
              todo' = <<Call(name, d, 0)>> \o Tail(todo)
    BY <1>4
  <2>2. Call(name, d, 0) \in Calls /\ Call(name, d, 0).call = name
    BY HttpAssumption DEF Call, Calls
  <2>3. Head(todo') = Call(name, d, 0)
    BY <1>2, <2>1, <2>2, HeadJoin
  <2>4. Head(todo').call # "header"
    BY <2>2, <2>3
  <2> QED
    BY <2>4, OtherFound
<1>5. CASE Process
  <2>1. Tail(todo) = << >>
    BY <1>1, <1>5, AloneFacts DEF Process, Doing
  <2>2. PICK r :
          \/ todo' = <<Call("answer", c, r), Call("end", c, r)>> \o Tail(todo)
          \/ todo' = <<Call("more", c, r), Call("flush", c, r),
                       Call("answer", c, r), Call("end", c, r)>> \o Tail(todo)
          \/ todo' = Tail(todo)
    BY <1>1, <1>5 DEF Process
  <2>3. /\ <<Call("answer", c, r), Call("end", c, r)>> \o << >> = <<Call("answer", c, r), Call("end", c, r)>>
        /\ <<Call("more", c, r), Call("flush", c, r), Call("answer", c, r), Call("end", c, r)>> \o << >>
              = <<Call("more", c, r), Call("flush", c, r), Call("answer", c, r), Call("end", c, r)>>
    OBVIOUS
  <2>4. \/ Head(todo') = Call("answer", c, r) \/ Head(todo') = Call("more", c, r) \/ todo' = << >>
    <3>1. \/ todo' = <<Call("answer", c, r), Call("end", c, r)>>
          \/ todo' = <<Call("more", c, r), Call("flush", c, r), Call("answer", c, r), Call("end", c, r)>>
          \/ todo' = << >>
      BY <2>1, <2>2, <2>3, ZenonT(60)
    <3> QED
      BY <3>1
  <2>5. todo' = << >> \/ Head(todo').call # "header"
    BY <2>4 DEF Call
  <2> QED
    BY <2>5, OtherFound
<1>6. CASE Header
  <2>1. \/ todo' = Tail(todo) \/ todo' = <<Call("process", c, 0)>> \o Tail(todo)
        \/ todo' = <<Call("close", c, 0)>> \o Tail(todo) \/ mode' = "thrown"
    BY <1>1, <1>6, ZenonT(30) DEF Header
  <2> QED
    BY <1>3, <1>4, <2>1
<1>7. CASE Write("more") \/ Write("answer") \/ Start \/ Close
  BY <1>3, <1>7, ZenonT(30) DEF Write, Start, Close
<1>8. CASE WriteBuffer
  <2>1. Head(todo).call # "header"
    BY <1>8, ZenonT(60) DEF WriteBuffer, Doing
  <2>2. \/ todo' = todo \/ todo' = Tail(todo) \/ todo' = Then(c) \o Tail(todo)
        \/ todo' = <<Call("error", c, 0)>> \o Tail(todo)
    BY <1>1, <1>8, ZenonT(30) DEF WriteBuffer
  <2>3. CASE todo' = Then(c) \o Tail(todo)
    <3>1. \/ Then(c) = << >> \/ Then(c) = <<Call("start", c, 0)>> \/ Then(c) = <<Call("close", c, 0)>>
      BY DEF Then
    <3>2. \/ todo' = Tail(todo) \/ todo' = <<Call("start", c, 0)>> \o Tail(todo)
          \/ todo' = <<Call("close", c, 0)>> \o Tail(todo)
      BY <1>2, <2>3, <3>1, ConcatEmptySeq
    <3> QED
      BY <1>3, <1>4, <3>2
  <2>4. CASE todo' = todo
    BY <2>1, <2>4, OtherFound
  <2> QED
    BY <1>3, <1>4, <2>2, <2>3, <2>4
<1>9. CASE TriggerError
  <2>1. Head(todo).call = "error"
    BY <1>9 DEF TriggerError, Doing
  <2>2. \/ todo' = todo
        \/ LET d == onError[client[c].fd] IN d # 0 /\ todo' = <<Call("close", d, 0)>> \o Tail(todo)
    BY <1>1, <1>9 DEF TriggerError
  <2>3. CASE todo' = todo
    BY <2>1, <2>3, OtherFound
  <2>4. CASE todo' # todo
    <3>1. PICK d : d = onError[client[c].fd] /\ d # 0 /\ todo' = <<Call("close", d, 0)>> \o Tail(todo)
      BY <2>2, <2>4
    <3>2. d \in Files
      BY <1>1, <3>1, HeadFacts, HttpAssumption DEF Inv, ErrorOK, Files
    <3> QED
      BY <1>4, <3>1, <3>2
  <2> QED
    BY <2>3, <2>4
<1> QED
  BY <1>5, <1>6, <1>7, <1>8, <1>9 DEF Script

LEMMA StepFound ==
    ASSUME Inv, Disciplined, ~misused, mode' = "running", Found, [Next]_vars PROVE Found'
<1>1. CASE \/ PeerActs \/ (\E f \in Files : PeerReads(f)) \/ AcceptFails \/ LoopEnds \/ Stopped
           \/ (\E fd \in Fds : LateEvent(fd)) \/ UNCHANGED vars
  <2>1. UNCHANGED <<todo, watch, client, content>>
    BY <1>1 DEF PeerActs, PeerReads, AcceptFails, LoopEnds, LateEvent, Stopped, vars, peers
  <2> QED
    BY <2>1, ZenonT(30) DEF Found, Box
<1>2. CASE Script
  BY <1>2, ScriptFound
<1>3. ASSUME NEW fd \in Fds, Input(fd) PROVE Found'
  BY <1>3, InputFound
<1>4. ASSUME NEW fd \in Fds, Accept(fd) \/ ErrorEvent(fd) \/ Output(fd) PROVE Found'
  <2>1. \/ todo' = << >> \/ \E c : todo' = <<Call("close", c, 0)>>
        \/ \E c : todo' = <<Call(watch[fd].op, c, 0)>> /\ watch[fd].op \in {"flush", "end"}
    BY <1>4 DEF Accept, ErrorEvent, Output, Idle
  <2>2. \A name, c : Head(<<Call(name, c, 0)>>).call = name
    BY DEF Call
  <2> QED
    BY <2>1, <2>2, OtherFound
<1>5. CASE Later
  <2>1. PICK c, r : todo' = <<Call("answer", c, r), Call("end", c, r)>>
    BY <1>5 DEF Later
  <2>2. Head(todo') = Call("answer", c, r)
    BY <2>1
  <2>3. Head(todo').call # "header"
    BY <2>2 DEF Call
  <2> QED
    BY <2>3, OtherFound
<1> QED
  BY <1>1, <1>2, <1>3, <1>4, <1>5 DEF Next

\* If an answer that comes later comes in time, every step keeps the answers apart.
LEMMA StepAnswering ==
    ASSUME FullInv, FullInv', ~misused, ~misused', Answering, Found, Prompt, [Next]_vars,
           mode' = "running" \/ ~Header
    PROVE  Answering'
<1>1. Inv /\ Inv' /\ Disciplined' /\ (~misused => Disciplined)
  BY DEF FullInv
<1>2. ~misused
  OBVIOUS
<1>3. Disciplined
  BY <1>1, <1>2
<1>4. CASE PeerActs \/ \E f \in Files : PeerReads(f)
  BY <1>1, <1>3, <1>4, PeerActsAnswering, PeerReadsAnswering
<1>5. CASE Later \/ \E fd \in Fds : Accept(fd) \/ Input(fd) \/ Output(fd) \/ ErrorEvent(fd)
  BY <1>1, <1>2, <1>3, <1>5, LaterAnswering, AcceptAnswering, InputAnswering, OutputAnswering,
     ErrorEventAnswering
<1>6. CASE Header \/ Process \/ Start \/ TriggerError \/ Close
  BY <1>1, <1>2, <1>3, <1>6, HeaderAnswering, ProcessAnswering, StartAnswering,
     TriggerErrorAnswering, CloseAnswering
<1>7. CASE Write("more") \/ Write("answer") \/ WriteBuffer
  BY <1>1, <1>3, <1>7, WriteAnswering, WriteBufferAnswering
<1>8. CASE AcceptFails \/ LoopEnds \/ Stopped \/ UNCHANGED vars \/ \E fd \in Fds : LateEvent(fd)
  BY <1>1, <1>3, <1>8, QuietAnswering
<1> QED
  BY <1>4, <1>5, <1>6, <1>7, <1>8 DEF Next, Script

\* Who used a client that was closed, used it.
LEMMA MisusedKept ==
    ASSUME Inv, ~misused', [Next]_vars PROVE ~misused
<1>1. misused' = misused \/ \E c : misused' = (misused \/ ~Alive(c))
  BY ZenonT(30) DEF Next, Script, vars, PeerActs, PeerReads, Accept, AcceptFails, Input, Output, ErrorEvent,
     LateEvent, LoopEnds, Later, Header, Process, Write, WriteBuffer, Judge, Start, TriggerError, Close, Stopped
<1>2. misused \in BOOLEAN
  BY DEF Inv, ThreadOK
<1> QED
  BY <1>1, <1>2

\* Either the application answers while it is called, or no peer asks for more before it
\* has its answer.
InTurn == Pipelining => "later" \notin Handlers

Prepared == "later" \notin Handlers => \A f \in Files : Nothing(f)

LEMMA StepPrepared == ASSUME Inv, Prepared, [Next]_vars PROVE Prepared'
<1> SUFFICES ASSUME "later" \notin Handlers, NEW f \in Files PROVE Nothing(f)'
  BY DEF Prepared
<1>1. \A g \in Files, r \in 1 .. MaxRequests : pending[g][r] = 0
  BY DEF Prepared, Nothing
<1>2. ~Later
  <2> SUFFICES ASSUME Later PROVE FALSE
    OBVIOUS
  <2>1. PICK g \in Files, r \in 1 .. MaxRequests : pending[g][r] > 0
    BY DEF Later
  <2> QED
    BY <1>1, <2>1
<1>3. Process => UNCHANGED pending
  BY DEF Process
<1>4. UNCHANGED pending
  BY <1>2, <1>3, ZenonT(30) DEF Next, Script, vars, PeerActs, PeerReads, Accept, AcceptFails, Input, Output,
     ErrorEvent, LateEvent, LoopEnds, Header, Write, WriteBuffer, Start, TriggerError, Close, Stopped
<1> QED
  BY <1>1, <1>4 DEF Nothing

LEMMA PromptFacts ==
    ASSUME InTurn, Inv, Answering, Prepared PROVE Prompt
<1> SUFFICES ASSUME NEW fd \in Fds, file[fd] # 0, todo = << >>, NEW r \in 1 .. MaxRequests,
                    pending[file[fd]][r] > 0
             PROVE  r = client[file[fd]].req /\ Box(file[fd]) = << >>
  BY DEF Prompt
<1>1. PICK f : f = file[fd]
  OBVIOUS
<1>2. f \in Files
  <2>1. file[fd] \in 0 .. MaxFiles
    BY DEF Inv, KernelOK
  <2> QED
    BY <1>1, <2>1, HttpAssumption DEF Files
<1>3. "later" \in Handlers
  BY <1>1, <1>2 DEF Prepared, Nothing
<1>4. ~Pipelining
  BY <1>3 DEF InTurn
<1>5. Paced(f, "none", watch[fd].op)
  BY <1>1, <1>4 DEF Answering, Mine
<1>6. Keeping(f, "none", watch[fd].op)
  BY <1>1, <1>5 DEF Paced, Resting, Hearing, Taking, Replying, Nothing
<1> QED
  BY <1>1, <1>6 DEF Keeping

\* What was sent and read is of the connection's own answers, also once the process ended.
Owned == \A f \in Files : OwnTo(f, Said(f), MaxRequests)

LEMMA AnsweringOwned == ASSUME Answering PROVE Owned
  BY DEF Answering, Owned

\* a process that ended sends nothing more
LEMMA EndedOwned ==
    ASSUME Inv, Owned, mode # "running", [Next]_vars PROVE Owned' /\ mode' # "running"
<1>1. /\ mode' = mode
      /\ \/ \E f \in Files : PeerReads(f)
         \/ \E f \in Files : Leave(f)
         \/ UNCHANGED <<got, out>>
  <2>1. PeerActs \/ (\E f \in Files : PeerReads(f)) \/ UNCHANGED <<got, out, mode>>
    BY ZenonT(30) DEF Next, Script, Accept, AcceptFails, Input, Output, ErrorEvent, LateEvent, LoopEnds,
       Later, Header, Process, Write, WriteBuffer, Start, TriggerError, Close, Idle, Doing, Stopped, vars
  <2>2. CASE PeerActs
    <3>1. PICK fd \in Fds : file[fd] # 0 /\ (Ask(file[fd]) \/ Send(file[fd]) \/ Leave(file[fd]))
      BY <2>2 DEF PeerActs
    <3>2. file[fd] \in Files
      BY <3>1, HttpAssumption DEF Inv, KernelOK, Files
    <3>3. mode' = mode
      BY <2>2 DEF PeerActs
    <3> QED
      BY <3>1, <3>2, <3>3 DEF Ask, Send
  <2> QED
    BY <2>1, <2>2 DEF PeerReads
<1>2. ASSUME NEW f \in Files, PeerReads(f) \/ Leave(f) \/ UNCHANGED <<got, out>>, NEW g \in Files
      PROVE  OwnTo(g, Said(g), MaxRequests)'
  <2>1. /\ out \in [Files -> Seq(Pieces)] /\ got \in [Files -> Seq(Pieces)]
        /\ out[g] \in Seq(Pieces) /\ got[g] \in Seq(Pieces)
    BY DEF Inv, PeersOK, OutOK, Streams
  <2>2. OwnTo(g, got[g] \o out[g], MaxRequests)
    BY DEF Owned, Said
  <2>3. \/ got'[g] = got[g] /\ out'[g] = out[g]
        \/ got'[g] = got[g] /\ out'[g] = << >>
        \/ out[g] # << >> /\ got'[g] = Append(got[g], Head(out[g])) /\ out'[g] = Tail(out[g])
    BY <1>2, <2>1 DEF PeerReads, Leave
  <2>4. CASE got'[g] = got[g] /\ out'[g] = out[g]
    BY <2>2, <2>4 DEF Said
  <2>5. CASE got'[g] = got[g] /\ out'[g] = << >>
    <3>1. Said(g)' = got[g]
      BY <2>1, <2>5, ConcatEmptySeq DEF Said
    <3> QED
      BY <2>1, <2>2, <3>1, OwnPrefix
  <2>6. CASE out[g] # << >> /\ got'[g] = Append(got[g], Head(out[g])) /\ out'[g] = Tail(out[g])
    <3>1. got'[g] \o out'[g] = got[g] \o out[g]
      BY <2>1, <2>6, MoveFirst
    <3> QED
      BY <2>2, <3>1 DEF Said
  <2> QED
    BY <2>3, <2>4, <2>5, <2>6
<1>3. Owned'
  <2> SUFFICES ASSUME NEW g \in Files PROVE OwnTo(g, Said(g), MaxRequests)'
    BY DEF Owned
  <2> QED
    BY <1>1, <1>2
<1> QED
  BY <1>1, <1>3

\* What a peer reads are answers to its own requests, in the order it asked, for any
\* number of connections, over reused descriptors and buffers: if the application
\* answers while it is called, however many requests a peer sends before it reads; and
\* if it answers later, as long as peers wait for their answers (process and end of
\* http.coffee over readUntil and writeBuffer of socket.coffee).
THEOREM AnswersOwned == ASSUME InTurn PROVE Spec => []OwnAnswers
<1> DEFINE Kept == /\ FullInv /\ Prepared
                   /\ ~misused => Owned /\ (mode = "running" => Answering /\ Found)
<1>1. Init => Kept
  <2> SUFFICES ASSUME Init PROVE Kept
    OBVIOUS
  <2>1. Found /\ Prepared
    BY DEF Init, Found, Prepared, Nothing
  <2> QED
    BY <2>1, InitFull, InitAnswering, AnsweringOwned
<1>2. Kept /\ [Next]_vars => Kept'
  <2> SUFFICES ASSUME Kept, [Next]_vars PROVE Kept'
    OBVIOUS
  <2>1. FullInv' /\ Prepared'
    BY StepFull, StepPrepared DEF FullInv
  <2>2. ASSUME ~misused' PROVE Owned' /\ (mode' = "running" => Answering' /\ Found')
    <3>1. ~misused
      BY <2>2, MisusedKept DEF FullInv
    <3>2. Inv /\ Disciplined /\ Owned
      BY <3>1 DEF FullInv
    <3>3. CASE mode # "running"
      BY <3>2, <3>3, EndedOwned
    <3>4. CASE mode = "running"
      <4>1. Answering /\ Found
        BY <3>1, <3>4
      <4>2. Prompt
        BY <3>2, <4>1, PromptFacts
      <4>3. CASE mode' = "running" \/ ~Header
        <5>1. Answering'
          BY <2>1, <2>2, <3>1, <4>1, <4>2, <4>3, StepAnswering
        <5>2. mode' = "running" => Found'
          BY <3>1, <3>2, <4>1, StepFound
        <5>3. Owned'
          BY <5>1 DEF Answering, Owned
        <5> QED
          BY <5>1, <5>2, <5>3
      <4>4. CASE mode' # "running" /\ Header
        <5>1. UNCHANGED <<got, out>>
          BY <4>4, ZenonT(30) DEF Header, peers
        <5>2. Owned'
          BY <3>2, <5>1 DEF Owned, Said
        <5> QED
          BY <4>4, <5>2
      <4> QED
        BY <4>3, <4>4
    <3> QED
      BY <3>3, <3>4
  <2> QED
    BY <2>1, <2>2
<1>3. Kept => OwnAnswers
  <2> SUFFICES ASSUME Kept, ~misused, NEW f \in Files, NEW all, all = got[f] \o out[f]
               PROVE  /\ \A i \in DOMAIN all : all[i].part \in Answers /\ all[i].file = f
                      /\ \A i, j \in DOMAIN all : i < j => all[i].req <= all[j].req
    BY DEF OwnAnswers
  <2>1. all \in Seq(Pieces) /\ OwnTo(f, all, MaxRequests)
    BY StreamFacts DEF FullInv, Owned, Said
  <2>2. DOMAIN all = 1 .. Len(all)
    BY <2>1
  <2> QED
    BY <2>1, <2>2 DEF OwnTo, Sorted, IsAnswer
<1> QED
  BY <1>1, <1>2, <1>3, PTL DEF Spec
=============================================================================
