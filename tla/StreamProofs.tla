---------------------------- MODULE StreamProofs ----------------------------
(***************************************************************************)
(* Streams, for every number of connections, buffers and texts, whatever   *)
(* their scripts do: a buffer has one owner, and the two directions of a   *)
(* connection stay apart until its script mixes them; texts are sent in    *)
(* their order, and their callbacks told once; and a pending write has     *)
(* ever less to send.                                                      *)
(***************************************************************************)
EXTENDS Stream, SequenceTheorems, TLAPS

\* buffers that are free: each once, and all of them made
FreeList(s, m) ==
    /\ s \in Seq(Buffers)
    /\ \A i, j \in DOMAIN s : s[i] = s[j] => i = j
    /\ \A i \in DOMAIN s : s[i] <= m

\* A callback that waits for data has a buffer for it; a closed connection has nothing.
FileOK(f) ==
    /\ f \notin open => buf[f] = 0 /\ watch[f] = NoWatch /\ log[f] = NoLog /\ peer[f] = NoPeer
    /\ watch[f].op \in {"none", "connect", "empty"} => watch[f].buf = 0
    /\ watch[f].op \in {"read", "until"} => watch[f].buf = buf[f]
    /\ watch[f].op \in {"read", "write", "until"} => watch[f].buf # 0 /\ buf[f] # 0
    /\ buf[f] <= made /\ watch[f].buf <= made

\* A script knows streams only, and none between two events.
Thread ==
    /\ mine \subseteq 1 .. opened
    /\ mode = "waiting" => mine = {}
    /\ \A f \in mine \cap open : buf[f] # 0

Apart ==
    /\ \A f \in Files : Owned(f) \cap Elements(pool) = {}
    /\ \A f, g \in Files : f # g => Owned(f) \cap Owned(g) = {}

Inv ==
    /\ TypeOK
    /\ Thread
    /\ FreeList(pool, made)
    /\ Apart
    /\ \A f \in Files : FileOK(f)

-----------------------------------------------------------------------------
(* Pieces, sequences and the pool. *)

LEMMA PieceTypes ==
    ASSUME NEW f \in Files, NEW i \in Nat
    PROVE  Input(f, i) \in Pieces /\ Own(f, i) \in Pieces
BY DEF Input, Own, Pieces

LEMMA RestFacts ==
    ASSUME NEW s \in Seq(Pieces), NEW n \in 0 .. Len(s)
    PROVE  /\ Rest(s, n) \in Seq(Pieces) /\ SubSeq(s, 1, n) \in Seq(Pieces)
           /\ Len(Rest(s, n)) = Len(s) - n /\ Len(SubSeq(s, 1, n)) = n
           /\ \A i \in 1 .. Len(s) - n : Rest(s, n)[i] = s[n + i]
           /\ \A i \in 1 .. n : SubSeq(s, 1, n)[i] = s[i]
BY SubSeqProperties DEF Rest

LEMMA PopFacts ==
    ASSUME Inv, Pop
    PROVE  /\ Popped \in Buffers
           /\ made' \in 0 .. MaxBuffers /\ made <= made' /\ Popped <= made'
           /\ FreeList(PoolLeft, made')
           /\ Elements(PoolLeft) \subseteq Elements(pool)
           /\ Popped \notin Elements(PoolLeft)
           /\ \A g \in Files : Popped \notin Owned(g)
<1>0. made \in Nat /\ MaxBuffers \in Nat
  BY StreamAssumption DEF Inv, TypeOK
<1>1. CASE pool = << >>
  <2>1. PoolLeft = << >> /\ Popped = made + 1 /\ made' = made + 1
    BY <1>1 DEF PoolLeft, Popped, Pop
  <2>2. made' \in 0 .. MaxBuffers
    BY <1>0, <2>1 DEF Pop, Buffers
  <2>3. \A g \in Files : Popped \notin Owned(g)
    BY <1>0, <2>1 DEF Inv, FileOK, Owned, TypeOK, Watches
  <2>4. FreeList(PoolLeft, made') /\ Elements(PoolLeft) = {}
    BY <2>1 DEF FreeList, Elements
  <2> QED
    BY <1>0, <2>1, <2>2, <2>3, <2>4 DEF Pop
<1>2. CASE pool # << >>
  <2>1. /\ pool \in Seq(Buffers) /\ Len(pool) \in Nat \ {0} /\ DOMAIN pool = 1 .. Len(pool)
        /\ \A i \in 1 .. Len(pool) : pool[i] \in Buffers
    BY <1>2, EmptySeq, LenProperties, ElementOfSeq DEF Inv, FreeList
  <2>2. /\ PoolLeft \in Seq(Buffers) /\ Len(PoolLeft) = Len(pool) - 1
        /\ \A i \in 1 .. Len(pool) - 1 : PoolLeft[i] = pool[i]
        /\ DOMAIN PoolLeft = 1 .. Len(pool) - 1
    BY <1>2, <2>1, SubSeqProperties DEF PoolLeft
  <2>3. Popped = pool[Len(pool)] /\ Popped \in Elements(pool) /\ made' = made
    BY <1>2, <2>1 DEF Popped, Elements, Pop
  <2>4. FreeList(PoolLeft, made')
    BY <2>1, <2>2, <2>3 DEF Inv, FreeList
  <2>5. Elements(PoolLeft) \subseteq Elements(pool)
    BY <2>1, <2>2 DEF Elements
  <2>6. Popped \notin Elements(PoolLeft)
    BY <2>1, <2>2, <2>3 DEF Inv, FreeList, Elements
  <2>7. Popped <= made'
    <3>1. Len(pool) \in DOMAIN pool
      BY <2>1
    <3> QED
      BY <2>3, <3>1 DEF Inv, FreeList
  <2>8. made' \in 0 .. MaxBuffers
    BY <2>3 DEF Inv, TypeOK
  <2> QED
    BY <1>0, <2>3, <2>4, <2>5, <2>6, <2>7, <2>8 DEF Inv, Apart, Pop
<1> QED
  BY <1>1, <1>2

LEMMA PushFacts ==
    ASSUME NEW m \in Nat, NEW free, FreeList(free, m), NEW b \in Buffers, b <= m,
           NEW left \in Pushed(free, b)
    PROVE  FreeList(left, m) /\ Elements(left) \subseteq Elements(free) \cup {b}
<1>1. CASE left = free
  BY <1>1
<1>2. CASE left = Append(free, b) /\ b \notin Elements(free)
  <2>1. /\ free \in Seq(Buffers) /\ Len(free) \in Nat /\ DOMAIN free = 1 .. Len(free)
    BY LenProperties DEF FreeList
  <2>2. /\ left \in Seq(Buffers) /\ DOMAIN left = 1 .. Len(free) + 1
        /\ left[Len(free) + 1] = b
        /\ \A i \in 1 .. Len(free) : left[i] = free[i]
    BY <1>2, <2>1
  <2>3. \A i \in DOMAIN left : i \in DOMAIN free \/ i = Len(free) + 1
    BY <2>1, <2>2
  <2>4. \A i \in DOMAIN free : left[i] = free[i] /\ free[i] # b /\ i \in DOMAIN left
    BY <1>2, <2>1, <2>2 DEF Elements
  <2>5. \A i \in DOMAIN left : left[i] <= m
    BY <2>2, <2>3, <2>4 DEF FreeList
  <2>6. \A i, j \in DOMAIN left : left[i] = left[j] => i = j
    BY <2>2, <2>3, <2>4 DEF FreeList
  <2>7. Elements(left) \subseteq Elements(free) \cup {b}
    BY <2>2, <2>3, <2>4 DEF Elements
  <2> QED
    BY <2>2, <2>5, <2>6, <2>7 DEF FreeList
<1> QED
  BY <1>1, <1>2 DEF Pushed

-----------------------------------------------------------------------------
(* What an operation on one connection has to show. *)

\* nothing of the others changes
Only(f) == \A g \in Files \ {f} :
    /\ buf'[g] = buf[g] /\ watch'[g] = watch[g] /\ peer'[g] = peer[g] /\ log'[g] = log[g]
    /\ g \in open' <=> g \in open

LEMMA Frame ==
    ASSUME Inv, NEW f \in Files, Only(f), made' \in Nat, made <= made',
           FreeList(pool', made'), FileOK(f)',
           Owned(f)' \cap Elements(pool') = {},
           \A g \in Files \ {f} : (Owned(f)' \cup Elements(pool')) \cap Owned(g) = {}
    PROVE  /\ FreeList(pool, made)' /\ Apart'
           /\ \A g \in Files : FileOK(g)'
<1>1. \A g \in Files \ {f} : Owned(g)' = Owned(g)
  BY DEF Only, Owned
<1>2. Apart'
  <2>1. \A g \in Files : Owned(g)' \cap Elements(pool)' = {}
    BY <1>1
  <2>2. \A g, h \in Files : g # h => Owned(g)' \cap Owned(h)' = {}
    BY <1>1 DEF Inv, Apart
  <2> QED
    BY <2>1, <2>2 DEF Apart
<1>3. ASSUME NEW g \in Files \ {f} PROVE FileOK(g)'
  <2>1. /\ made \in Nat /\ buf[g] \in Nat /\ watch[g].buf \in Nat
        /\ buf[g] <= made /\ watch[g].buf <= made
    BY StreamAssumption DEF Inv, FileOK, TypeOK, Watches
  <2>2. buf'[g] <= made' /\ watch'[g].buf <= made'
    BY <2>1 DEF Only
  <2> QED
    BY <2>2 DEF Only, Inv, FileOK
<1>4. FreeList(pool, made)'
  OBVIOUS
<1> QED
  BY <1>2, <1>3, <1>4

LEMMA OwnedFacts ==
    ASSUME Inv, NEW f \in Files
    PROVE  /\ buf[f] \in 0 .. MaxBuffers /\ buf[f] \in Nat
           /\ watch[f] \in Watches /\ watch[f].buf \in 0 .. MaxBuffers /\ watch[f].n \in Nat
           /\ watch[f].op \in {"none", "connect", "read", "empty", "write", "until"}
           /\ buf[f] # 0 => buf[f] \in Buffers /\ buf[f] \in Owned(f)
                            /\ buf[f] \notin Elements(pool)
                            /\ \A g \in Files \ {f} : buf[f] \notin Owned(g)
           /\ watch[f].buf # 0 => watch[f].buf \in Buffers /\ watch[f].buf \in Owned(f)
                                  /\ watch[f].buf \notin Elements(pool)
                                  /\ \A g \in Files \ {f} : watch[f].buf \notin Owned(g)
<1>1. MaxBuffers \in Nat /\ buf[f] \in 0 .. MaxBuffers /\ watch[f] \in Watches
  BY StreamAssumption DEF Inv, TypeOK
<1>2. /\ watch[f].buf \in 0 .. MaxBuffers /\ watch[f].n \in Nat
      /\ watch[f].op \in {"none", "connect", "read", "empty", "write", "until"}
  BY <1>1 DEF Watches
<1>3. buf[f] # 0 => buf[f] \in Buffers /\ buf[f] \in Owned(f)
  BY <1>1 DEF Buffers, Owned
<1>4. watch[f].buf # 0 => watch[f].buf \in Buffers /\ watch[f].buf \in Owned(f)
  BY <1>1, <1>2 DEF Buffers, Owned
<1> QED
  BY <1>1, <1>2, <1>3, <1>4 DEF Inv, Apart

LEMMA WatchingFacts ==
    ASSUME Inv, NEW f \in Files, NEW b \in 0 .. MaxBuffers, NEW n \in Nat,
           NEW op \in {"none", "connect", "read", "empty", "write", "until"},
           Watching(f, op, b, n)
    PROVE  /\ watch' \in [Files -> Watches]
           /\ watch'[f] = [op |-> op, buf |-> b, n |-> n]
           /\ \A g \in Files \ {f} : watch'[g] = watch[g]
BY DEF Inv, TypeOK, Watching, Watches

\* The fields that Stream.close and a failure give back.
LEMMA ClosingFacts ==
    ASSUME Inv, NEW f \in Files, f \in open, NEW free, NEW contents,
           Closing(f, free, contents), made' \in Nat, made <= made',
           contents \in [Buffers -> Seq(Pieces)], FreeList(free, made'),
           \A g \in Files \ {f} : Elements(free) \cap Owned(g) = {}
    PROVE  /\ FreeList(pool, made)' /\ Apart' /\ \A g \in Files : FileOK(g)'
           /\ Only(f) /\ open' \subseteq open /\ f \notin open'
           /\ peer' \in [Files -> [sent : Nat, read : Nat, gone : {"no", "eof", "reset"}]]
           /\ watch' \in [Files -> Watches] /\ buf' \in [Files -> 0 .. MaxBuffers]
           /\ content' \in [Buffers -> Seq(Pieces)] /\ log' \in [Files -> Logs]
           /\ \A c \in Buffers : c # buf[f] => content'[c] = contents[c]
<1>1. /\ open' = open \ {f} /\ Only(f)
      /\ buf'[f] = 0 /\ watch'[f] = NoWatch /\ peer'[f] = NoPeer /\ log'[f] = NoLog
  BY DEF Closing, Only, Inv, TypeOK
<1>2. /\ NoPeer \in [sent : Nat, read : Nat, gone : {"no", "eof", "reset"}]
      /\ NoWatch \in Watches /\ NoLog \in Logs /\ 0 \in 0 .. MaxBuffers
      /\ << >> \in Seq(Pieces)
  BY StreamAssumption DEF NoPeer, NoWatch, NoLog, Watches, Logs
<1>3. /\ peer' \in [Files -> [sent : Nat, read : Nat, gone : {"no", "eof", "reset"}]]
      /\ watch' \in [Files -> Watches] /\ buf' \in [Files -> 0 .. MaxBuffers]
      /\ log' \in [Files -> Logs]
  BY <1>2 DEF Closing, Inv, TypeOK
<1>4. content' \in [Buffers -> Seq(Pieces)] /\ \A c \in Buffers : c # buf[f] => content'[c] = contents[c]
  BY <1>2 DEF Closing
<1>5. /\ FreeList(pool', made')
      /\ \A g \in Files \ {f} : Elements(pool') \cap Owned(g) = {}
  <2>1. CASE buf[f] = 0
    BY <2>1 DEF Closing
  <2>2. CASE buf[f] # 0
    <3>1. buf[f] \in Buffers /\ \A g \in Files \ {f} : buf[f] \notin Owned(g)
      BY <2>2, OwnedFacts
    <3>2. buf[f] <= made'
      BY OwnedFacts, StreamAssumption DEF Inv, FileOK, TypeOK
    <3>3. pool' \in Pushed(free, buf[f])
      BY <2>2 DEF Closing
    <3>4. FreeList(pool', made') /\ Elements(pool') \subseteq Elements(free) \cup {buf[f]}
      BY <3>1, <3>2, <3>3, PushFacts
    <3> QED
      BY <3>1, <3>4
  <2> QED
    BY <2>1, <2>2
<1>6. Owned(f)' = {} /\ FileOK(f)'
  BY <1>1 DEF Owned, FileOK, NoWatch
<1>7. FreeList(pool, made)' /\ Apart' /\ \A g \in Files : FileOK(g)'
  BY <1>1, <1>5, <1>6, Frame
<1> QED
  BY <1>1, <1>3, <1>4, <1>7

-----------------------------------------------------------------------------
(* Writing: b is the stream's buffer or a temporary one. *)

LEMMA SendingFacts ==
    ASSUME Inv, NEW f \in Files, NEW b \in Buffers, NEW text \in Seq(Pieces),
           NEW n \in 0 .. Len(text), NEW r \in Logs, Sending(f, b, text, n, r)
    PROVE  /\ content' \in [Buffers -> Seq(Pieces)] /\ content'[b] = Rest(text, n)
           /\ \A c \in Buffers : c # b => content'[c] = content[c]
           /\ log' \in [Files -> Logs]
           /\ log'[f] = [r EXCEPT !.sent = @ \o SubSeq(text, 1, n)]
           /\ \A g \in Files \ {f} : log'[g] = log[g]
<1>1. Rest(text, n) \in Seq(Pieces) /\ SubSeq(text, 1, n) \in Seq(Pieces)
  BY RestFacts
<1>2. [r EXCEPT !.sent = @ \o SubSeq(text, 1, n)] \in Logs
  <2>1. r.sent \in Seq(Pieces)
    BY DEF Logs
  <2>2. r.sent \o SubSeq(text, 1, n) \in Seq(Pieces)
    BY <1>1, <2>1
  <2> QED
    BY <2>2 DEF Logs
<1> QED
  BY <1>1, <1>2 DEF Sending, Inv, TypeOK

LEMMA WriteFacts ==
    ASSUME Inv, NEW f \in Files, f \in open, buf[f] # 0, mode \in {"waiting", "callback"},
           NEW b \in Buffers, NEW text \in Seq(Pieces), NEW k \in Nat, NEW free,
           NEW least \in Nat, NEW r \in Logs,
           made' \in 0 .. MaxBuffers, made <= made', b <= made', opened' = opened,
           FreeList(free, made'), (Owned(f) \cup {b}) \cap Elements(free) = {},
           \A g \in Files \ {f} : (Elements(free) \cup {b}) \cap Owned(g) = {},
           WriteBuffer(f, b, text, k, free, least, r)
    PROVE  Inv'
<1>0. /\ MaxBuffers \in Nat /\ made \in Nat /\ made' \in Nat /\ Len(text) \in Nat
      /\ f \in 1 .. opened /\ ready' \subseteq mine
  <2>1. ready' \subseteq mine
    BY DEF Inv, TypeOK, WriteBuffer
  <2>2. Len(text) \in Nat
    BY LenProperties
  <2> QED
    BY <2>1, <2>2, StreamAssumption DEF Inv, TypeOK
<1>1. \A left \in PushTemporary(f, b, free) :
         /\ FreeList(left, made')
         /\ \A g \in Files \ {f} : Elements(left) \cap Owned(g) = {}
         /\ b # buf[f] \/ left = free
         /\ Elements(left) \subseteq Elements(free) \cup {b}
  <2> TAKE left \in PushTemporary(f, b, free)
  <2>1. CASE b = buf[f]
    BY <2>1 DEF PushTemporary
  <2>2. CASE b # buf[f]
    <3>1. left \in Pushed(free, b)
      BY <2>2 DEF PushTemporary
    <3>2. FreeList(left, made') /\ Elements(left) \subseteq Elements(free) \cup {b}
      BY <1>0, <3>1, PushFacts
    <3> QED
      BY <2>2, <3>2
  <2> QED
    BY <2>1, <2>2
<1>2. ASSUME NEW left \in PushTemporary(f, b, free), Closing(f, left, content), mode' = mode, mine' = mine
      PROVE  Inv'
  <2>1. /\ FreeList(pool, made)' /\ Apart' /\ \A g \in Files : FileOK(g)'
        /\ Only(f) /\ open' \subseteq open
        /\ peer' \in [Files -> [sent : Nat, read : Nat, gone : {"no", "eof", "reset"}]]
        /\ watch' \in [Files -> Watches] /\ buf' \in [Files -> 0 .. MaxBuffers]
        /\ content' \in [Buffers -> Seq(Pieces)] /\ log' \in [Files -> Logs]
        /\ f \notin open'
    <3>1. content \in [Buffers -> Seq(Pieces)]
      BY DEF Inv, TypeOK
    <3> QED
      BY <1>0, <1>1, <1>2, <3>1, ClosingFacts
  <2>2. Thread'
    BY <1>2, <2>1 DEF Inv, Thread, Only, TypeOK
  <2>3. TypeOK'
    BY <1>0, <1>2, <2>1 DEF Inv, TypeOK, FreeList
  <2> QED
    BY <2>1, <2>2, <2>3 DEF Inv
<1>3. ASSUME mode' = "killed", mine' = mine, pool' = free, UNCHANGED <<open, peer, watch, buf, content, log>>
      PROVE  Inv'
  <2>1. FileOK(f)'
    <3>1. buf[f] <= made' /\ watch[f].buf <= made'
      BY <1>0, OwnedFacts DEF Inv, FileOK
    <3> QED
      BY <1>3, <3>1 DEF Inv, FileOK
  <2>2. /\ Only(f) /\ Owned(f)' = Owned(f) /\ Thread'
        /\ \A g \in Files \ {f} : Owned(f) \cap Owned(g) = {}
    BY <1>3 DEF Only, Owned, Thread, Inv, Apart
  <2>3. FreeList(pool, made)' /\ Apart' /\ \A g \in Files : FileOK(g)'
    BY <1>0, <1>3, <2>1, <2>2, Frame
  <2>4. TypeOK'
    BY <1>0, <1>3 DEF Inv, TypeOK, FreeList
  <2> QED
    BY <2>2, <2>3, <2>4 DEF Inv
<1>4. ASSUME NEW q \in Logs, NEW n \in 0 .. Len(text), Sending(f, b, text, n, q),
             NEW op \in {"empty", "write"}, NEW w \in {0, b}, NEW m \in Nat, Watching(f, op, w, m),
             op = "write" <=> w = b,
             pool' \in IF w = b THEN {free} ELSE PushTemporary(f, b, free),
             w = b => mode' = mode /\ mine' = mine,
             w = 0 => mode' = "callback" /\ mine' = mine \cup {f},
             UNCHANGED <<open, peer, buf>>
      PROVE  Inv'
  <2>1. /\ content' \in [Buffers -> Seq(Pieces)] /\ log' \in [Files -> Logs]
        /\ \A g \in Files \ {f} : log'[g] = log[g]
    BY <1>4, SendingFacts
  <2>2. /\ b # 0 /\ b \in 0 .. MaxBuffers /\ w \in 0 .. MaxBuffers
        /\ w <= made'
    BY <1>0 DEF Buffers
  <2>3. /\ watch' \in [Files -> Watches] /\ watch'[f] = [op |-> op, buf |-> w, n |-> m]
        /\ \A g \in Files \ {f} : watch'[g] = watch[g]
    BY <1>4, <2>2 DEF Watching, Watches, Inv, TypeOK
  <2>4. Only(f)
    BY <1>4, <2>1, <2>3 DEF Only
  <2>5. FileOK(f)'
    <3>1. buf[f] <= made'
      BY <1>0, OwnedFacts DEF Inv, FileOK
    <3> QED
      BY <1>4, <2>2, <2>3, <3>1 DEF FileOK
  <2>6. Owned(f)' = {buf[f]} \cup ({w} \ {0})
    BY <1>4, <2>3, StreamAssumption DEF Owned
  <2>7. /\ FreeList(pool', made') /\ \A g \in Files \ {f} : Elements(pool') \cap Owned(g) = {}
        /\ w = 0 => b # buf[f] \/ pool' = free
        /\ Elements(pool') \subseteq Elements(free) \cup {b}
        /\ w = b => pool' = free
    BY <1>1, <1>4
  <2>8. buf[f] \in Owned(f) /\ \A g \in Files \ {f} : buf[f] \notin Owned(g)
    BY OwnedFacts
  <2>9. Owned(f)' \cap Elements(pool') = {}
    BY <2>6, <2>7, <2>8
  <2>10. \A g \in Files \ {f} : (Owned(f)' \cup Elements(pool')) \cap Owned(g) = {}
    BY <2>6, <2>7, <2>8
  <2>11. FreeList(pool, made)' /\ Apart' /\ \A g \in Files : FileOK(g)'
    BY <1>0, <2>4, <2>5, <2>7, <2>9, <2>10, Frame
  <2>12. Thread'
    BY <1>0, <1>4, <2>2 DEF Inv, Thread
  <2>13. TypeOK'
    BY <1>0, <1>4, <2>1, <2>2, <2>3, <2>7 DEF Inv, TypeOK, FreeList
  <2> QED
    BY <2>11, <2>12, <2>13 DEF Inv
<1>5. CASE SendFails(f, b, text, free)
  BY <1>2, <1>3, <1>5 DEF SendFails
<1>6. CASE /\ Sending(f, b, text, Len(text), [r EXCEPT !.told = Append(@, k)])
           /\ Watching(f, "empty", 0, 0)
           /\ pool' \in PushTemporary(f, b, free)
           /\ mode' = "callback" /\ mine' = mine \cup {f}
           /\ UNCHANGED <<open, peer, buf>>
  <2>1. [r EXCEPT !.told = Append(@, k)] \in Logs
    <3>1. r.told \in Seq(Nat)
      BY DEF Logs
    <3>2. Append(r.told, k) \in Seq(Nat)
      BY <3>1
    <3> QED
      BY <3>2 DEF Logs
  <2>2. Len(text) \in 0 .. Len(text) /\ 0 # b
    BY <1>0 DEF Buffers
  <2> QED
    BY <1>4, <1>6, <2>1, <2>2
<1>7. CASE /\ \E n \in least .. Len(text) - 1 : Sending(f, b, text, n, r)
           /\ Watching(f, "write", b, k)
           /\ pool' = free
           /\ UNCHANGED <<open, peer, buf, mode, mine>>
  <2>1. PICK n \in 0 .. Len(text) : Sending(f, b, text, n, r)
    BY <1>0, <1>7
  <2>2. b # 0
    BY DEF Buffers
  <2> QED
    BY <1>4, <1>7, <2>1, <2>2
<1> QED
  BY <1>5, <1>6, <1>7 DEF WriteBuffer

-----------------------------------------------------------------------------
(* Ownership, action by action. *)

\* steps that leave the buffers with their owners
LEMMA SameOwners ==
    ASSUME Inv, NEW f \in Files, Only(f), UNCHANGED <<buf, pool, made>>, FileOK(f)',
           Owned(f)' \subseteq Owned(f)
    PROVE  FreeList(pool, made)' /\ Apart' /\ \A g \in Files : FileOK(g)'
<1>1. made' \in Nat /\ made <= made'
  BY StreamAssumption DEF Inv, TypeOK
<1>2. FreeList(pool', made')
  BY DEF Inv
<1>3. /\ Owned(f)' \cap Elements(pool') = {}
      /\ \A g \in Files \ {f} : (Owned(f)' \cup Elements(pool')) \cap Owned(g) = {}
  BY DEF Inv, Apart
<1> QED
  BY <1>1, <1>2, <1>3, Frame

LEMMA PeerSteps ==
    ASSUME Inv, NEW f \in Files, PeerSends(f) \/ PeerLeaves(f)
    PROVE  Inv'
<1>0. UNCHANGED <<opened, open, watch, buffers, script, log>> /\ f \in open
  BY DEF PeerSends, PeerLeaves
<1>1. /\ UNCHANGED <<opened, open, watch, log, buf, content, pool, made, mode, mine, ready>>
      /\ \A g \in Files \ {f} : peer'[g] = peer[g]
      /\ peer' \in [Files -> [sent : Nat, read : Nat, gone : {"no", "eof", "reset"}]]
  <2> DEFINE P == [sent : Nat, read : Nat, gone : {"no", "eof", "reset"}]
  <2>1. peer \in [Files -> P] /\ peer[f] \in P /\ peer[f].sent \in Nat /\ peer[f].read \in Nat
    BY DEF Inv, TypeOK
  <2>2. \E p \in P : peer' = [peer EXCEPT ![f] = p]
    <3>1. CASE PeerSends(f)
      <4>1. [peer[f] EXCEPT !.sent = @ + 1] \in P
        BY <2>1
      <4> QED
        BY <2>1, <3>1, <4>1 DEF PeerSends
    <3>2. CASE PeerLeaves(f)
      <4>1. /\ [peer[f] EXCEPT !.gone = "eof"] \in P
            /\ [peer[f] EXCEPT !.gone = "reset", !.sent = peer[f].read] \in P
        BY <2>1
      <4> QED
        BY <2>1, <3>2, <4>1 DEF PeerLeaves
    <3> QED
      BY <3>1, <3>2
  <2> QED
    BY <1>0, <2>1, <2>2 DEF buffers, script
<1>2. Only(f) /\ FileOK(f)' /\ Owned(f)' = Owned(f) /\ UNCHANGED <<buf, pool, made>>
  BY <1>0, <1>1 DEF Only, FileOK, Owned, Inv
<1>3. FreeList(pool, made)' /\ Apart' /\ \A g \in Files : FileOK(g)'
  BY <1>2, SameOwners
<1>4. TypeOK' /\ Thread'
  BY <1>1 DEF Inv, TypeOK, Thread
<1> QED
  BY <1>3, <1>4 DEF Inv

LEMMA CreateFacts ==
    ASSUME Inv, NEW f \in Files, Create(f), UNCHANGED <<peer, watch, log>>,
           opened' \in 0 .. MaxFiles, open' = open \cup {f}, open' \subseteq 1 .. opened',
           watch[f].buf = 0, watch[f].op \in {"none", "connect"}
    PROVE  Inv'
<1>0. /\ Popped \in Buffers /\ Popped # 0 /\ Popped \in 0 .. MaxBuffers
      /\ made' \in 0 .. MaxBuffers /\ made' \in Nat /\ made <= made' /\ Popped <= made'
      /\ FreeList(PoolLeft, made')
      /\ Elements(PoolLeft) \subseteq Elements(pool)
      /\ Popped \notin Elements(PoolLeft)
      /\ \A g \in Files : Popped \notin Owned(g)
  BY PopFacts, StreamAssumption DEF Create, Buffers
<1>1. buf'[f] = Popped /\ buf' \in [Files -> 0 .. MaxBuffers] /\ Only(f) /\ pool' = PoolLeft
  BY <1>0 DEF Create, Only, Inv, TypeOK
<1>2. Owned(f)' = {Popped} /\ FileOK(f)'
  BY <1>0, <1>1 DEF Owned, FileOK
<1>3. \A g \in Files \ {f} : (Owned(f)' \cup Elements(pool')) \cap Owned(g) = {}
  BY <1>0, <1>1, <1>2 DEF Inv, Apart
<1>4. FreeList(pool, made)' /\ Apart' /\ \A g \in Files : FileOK(g)'
  BY <1>0, <1>1, <1>2, <1>3, Frame
<1>5. TypeOK'
  <2>1. content' \in [Buffers -> Seq(Pieces)]
    <3>1. << >> \in Seq(Pieces)
      OBVIOUS
    <3> QED
      BY <1>0, <3>1 DEF Create, Inv, TypeOK
  <2> QED
    BY <1>0, <1>1, <2>1 DEF Inv, TypeOK, Create, FreeList
<1>6. Thread'
  BY <1>0, <1>1 DEF Thread, Create
<1> QED
  BY <1>4, <1>5, <1>6 DEF Inv

LEMMA NewFile ==
    ASSUME Inv, opened < MaxFiles
    PROVE  /\ opened + 1 \in Files /\ opened + 1 \notin open /\ opened + 1 \notin mine
           /\ opened + 1 \in 0 .. MaxFiles /\ open \cup {opened + 1} \subseteq 1 .. opened + 1
           /\ mine \subseteq 1 .. opened + 1
BY StreamAssumption DEF Inv, TypeOK, Thread, Files

LEMMA AcceptStep == ASSUME Inv, Accept PROVE Inv'
<1>1. /\ opened + 1 \in Files /\ opened + 1 \notin open /\ opened' = opened + 1
      /\ opened' \in 0 .. MaxFiles /\ open' = open \cup {opened + 1} /\ open' \subseteq 1 .. opened'
  BY NewFile DEF Accept
<1>2. watch[opened + 1].buf = 0 /\ watch[opened + 1].op = "none"
  BY <1>1 DEF Inv, FileOK, NoWatch
<1> QED
  BY <1>1, <1>2, CreateFacts DEF Accept

LEMMA ConnectedStep == ASSUME Inv, NEW f \in Files, Connected(f) PROVE Inv'
<1>1. /\ watch[f].buf = 0 /\ watch[f].op = "connect"
      /\ opened' \in 0 .. MaxFiles /\ open' = open \cup {f} /\ open' \subseteq 1 .. opened'
  BY DEF Connected, Inv, FileOK, TypeOK
<1> QED
  BY <1>1, CreateFacts DEF Connected

LEMMA ConnectStep == ASSUME Inv, Connect PROVE Inv'
<1>0. PICK f \in Files : f = opened + 1
  BY NewFile DEF Connect
<1>1. /\ f \notin open /\ f \notin mine /\ opened' = f
      /\ opened' \in 0 .. MaxFiles /\ open' = open \cup {f} /\ open' \subseteq 1 .. opened'
      /\ mine \subseteq 1 .. opened'
  BY <1>0, NewFile DEF Connect
<1>2. buf[f] = 0 /\ watch[f].buf = 0 /\ UNCHANGED <<peer, buffers, script, log>>
  BY <1>1 DEF Inv, FileOK, NoWatch, Connect
<1>3. /\ watch' \in [Files -> Watches] /\ watch'[f] = [op |-> "connect", buf |-> 0, n |-> 0]
      /\ \A g \in Files \ {f} : watch'[g] = watch[g]
  BY <1>0, StreamAssumption DEF Connect, Watching, Watches, Inv, TypeOK
<1>4. Only(f) /\ FileOK(f)' /\ Owned(f)' = {} /\ UNCHANGED <<buf, pool, made>>
  BY <1>1, <1>2, <1>3 DEF Only, FileOK, Owned, buffers, Inv
<1>5. FreeList(pool, made)' /\ Apart' /\ \A g \in Files : FileOK(g)'
  BY <1>1, <1>4, SameOwners
<1>6. TypeOK'
  BY <1>1, <1>2, <1>3 DEF Inv, TypeOK, buffers, script
<1>7. Thread'
  BY <1>1, <1>2 DEF Inv, Thread, buffers, script, Connect
<1> QED
  BY <1>5, <1>6, <1>7 DEF Inv

LEMMA CloseSteps ==
    ASSUME Inv, NEW f \in Files, f \in open, Closing(f, pool, content),
           UNCHANGED <<opened, made, script>>
    PROVE  Inv'
<1>1. /\ made' \in Nat /\ made <= made' /\ FreeList(pool, made')
      /\ content \in [Buffers -> Seq(Pieces)]
      /\ \A g \in Files \ {f} : Elements(pool) \cap Owned(g) = {}
  BY StreamAssumption DEF Inv, TypeOK, Apart
<1>2. /\ FreeList(pool, made)' /\ Apart' /\ \A g \in Files : FileOK(g)'
      /\ Only(f) /\ open' \subseteq open /\ f \notin open'
      /\ peer' \in [Files -> [sent : Nat, read : Nat, gone : {"no", "eof", "reset"}]]
      /\ watch' \in [Files -> Watches] /\ buf' \in [Files -> 0 .. MaxBuffers]
      /\ content' \in [Buffers -> Seq(Pieces)] /\ log' \in [Files -> Logs]
  BY <1>1, ClosingFacts
<1>3. TypeOK'
  BY <1>2 DEF Inv, TypeOK, script, FreeList
<1>4. Thread'
  BY <1>2 DEF Inv, Thread, script, Only, TypeOK
<1> QED
  BY <1>2, <1>3, <1>4 DEF Inv

\* steps of one connection that neither open nor close it, and move no buffer
LEMMA Keeping ==
    ASSUME Inv, NEW f \in Files, f \in open, buf[f] # 0,
           UNCHANGED <<opened, open, buf, pool, made>>,
           content' \in [Buffers -> Seq(Pieces)], log' \in [Files -> Logs], watch' \in [Files -> Watches],
           peer' \in [Files -> [sent : Nat, read : Nat, gone : {"no", "eof", "reset"}]],
           \A g \in Files \ {f} : peer'[g] = peer[g] /\ watch'[g] = watch[g] /\ log'[g] = log[g],
           watch'[f] = watch[f] \/ (watch'[f].op \in {"read", "until"} /\ watch'[f].buf = buf[f]),
           \/ UNCHANGED <<mode, mine>>
           \/ mode' = "callback" /\ mine' = {f},
           ready' \subseteq mine'
    PROVE  Inv'
<1>1. Only(f) /\ UNCHANGED <<buf, pool, made>>
  BY DEF Only
<1>2. FileOK(f)' /\ Owned(f)' \subseteq Owned(f)
  <2>1. CASE watch'[f] = watch[f]
    BY <2>1 DEF Inv, FileOK, Owned
  <2>2. CASE watch'[f].op \in {"read", "until"} /\ watch'[f].buf = buf[f]
    BY <2>2 DEF Inv, FileOK, Owned
  <2> QED
    BY <2>1, <2>2
<1>3. FreeList(pool, made)' /\ Apart' /\ \A g \in Files : FileOK(g)'
  BY <1>1, <1>2, SameOwners
<1>4. TypeOK'
  BY DEF Inv, TypeOK
<1>5. Thread'
  BY DEF Inv, Thread, TypeOK
<1> QED
  BY <1>3, <1>4, <1>5 DEF Inv

LEMMA KnownFacts ==
    ASSUME Inv, NEW f \in Files, Known(f)
    PROVE  /\ f \in open /\ buf[f] # 0 /\ buf[f] \in Buffers /\ mode = "callback" /\ f \in mine
           /\ content[buf[f]] \in Seq(Pieces) /\ Len(content[buf[f]]) \in Nat
           /\ log[f] \in Logs
<1>1. f \in open /\ buf[f] # 0 /\ mode = "callback" /\ f \in mine
  BY DEF Known, Inv, Thread
<1>2. buf[f] \in Buffers
  BY <1>1, OwnedFacts
<1>3. content[buf[f]] \in Seq(Pieces) /\ log[f] \in Logs
  BY <1>2 DEF Inv, TypeOK
<1> QED
  BY <1>1, <1>2, <1>3, LenProperties

LEMMA DroppedType ==
    ASSUME Inv, NEW f \in Files
    PROVE  Dropped(f) \in SUBSET Nat
<1>1. log[f].dropped \in SUBSET Nat
  BY DEF Inv, TypeOK, Logs
<1>2. watch[f].n \in Nat
  BY OwnedFacts
<1> QED
  BY <1>1, <1>2 DEF Dropped

LEMMA ReadUntilStep ==
    ASSUME Inv, NEW f \in Files, NEW n \in Nat, ReadUntil(f, n)
    PROVE  Inv'
<1>1. /\ f \in open /\ buf[f] # 0 /\ buf[f] \in 0 .. MaxBuffers /\ f \in mine
      /\ log[f] \in Logs
  BY KnownFacts, OwnedFacts DEF ReadUntil, Reading
<1>2. watch' \in [Files -> Watches] /\ watch'[f] = [op |-> "read", buf |-> buf[f], n |-> n]
      /\ \A g \in Files \ {f} : watch'[g] = watch[g]
  BY <1>1 DEF ReadUntil, Watching, Watches, Inv, TypeOK
<1>3. /\ log' \in [Files -> Logs] /\ \A g \in Files \ {f} : log'[g] = log[g]
  <2>1. (log[f].mixed \/ Holds(buf[f], "script")) \in BOOLEAN
    BY DEF Holds, Has
  <2>2. [log[f] EXCEPT !.mixed = @ \/ Holds(buf[f], "script"), !.dropped = Dropped(f)] \in Logs
    BY <1>1, <2>1, DroppedType DEF Logs
  <2> QED
    BY <2>2 DEF ReadUntil, Inv, TypeOK
<1>4. /\ UNCHANGED <<opened, open, peer, buf, content, pool, made, mode, mine>>
      /\ ready' \subseteq mine'
  BY <1>1 DEF ReadUntil, buffers, Inv, TypeOK
<1>5. /\ watch'[f].op \in {"read", "until"} /\ watch'[f].buf = buf[f]
      /\ content' \in [Buffers -> Seq(Pieces)]
      /\ peer' \in [Files -> [sent : Nat, read : Nat, gone : {"no", "eof", "reset"}]]
      /\ \A g \in Files \ {f} : peer'[g] = peer[g]
  BY <1>2, <1>4 DEF Inv, TypeOK
<1>6. /\ UNCHANGED <<opened, open, buf, pool, made>> /\ UNCHANGED <<mode, mine>>
      /\ \A g \in Files \ {f} : peer'[g] = peer[g] /\ watch'[g] = watch[g] /\ log'[g] = log[g]
  BY <1>2, <1>3, <1>4, <1>5
<1> QED
  BY <1>1, <1>2, <1>3, <1>4, <1>5, <1>6, Keeping

LEMMA ReadSizeStep ==
    ASSUME Inv, NEW f \in Files, NEW n \in Nat, ReadSize(f, n)
    PROVE  Inv'
<1>1. CASE ReadUntil(f, n)
  BY <1>1, ReadUntilStep
<1>2. CASE /\ ready' = ready \cup {f}
           /\ log' = [log EXCEPT ![f].mixed = @ \/ Holds(buf[f], "script")]
           /\ UNCHANGED <<opened, open, peer, watch, buffers, mode, mine>>
  <2>1. f \in open /\ buf[f] # 0 /\ f \in mine /\ log[f] \in Logs
    BY KnownFacts DEF ReadSize, Reading
  <2>2. log' \in [Files -> Logs] /\ \A g \in Files \ {f} : log'[g] = log[g]
    <3>1. (log[f].mixed \/ Holds(buf[f], "script")) \in BOOLEAN
      BY DEF Holds, Has
    <3>2. [log[f] EXCEPT !.mixed = @ \/ Holds(buf[f], "script")] \in Logs
      BY <2>1, <3>1 DEF Logs
    <3> QED
      BY <1>2, <3>2 DEF Inv, TypeOK
  <2>3. /\ UNCHANGED <<opened, open, peer, watch, buf, content, pool, made, mode, mine>>
        /\ ready' \subseteq mine'
    BY <1>2, <2>1 DEF buffers, Inv, TypeOK
  <2> QED
    BY <2>1, <2>2, <2>3, Keeping DEF Inv, TypeOK
<1> QED
  BY <1>1, <1>2 DEF ReadSize

LEMMA TakeStep ==
    ASSUME Inv, NEW f \in Files, Take(f)
    PROVE  Inv'
<1>1. /\ f \in open /\ buf[f] # 0 /\ buf[f] \in Buffers
      /\ content[buf[f]] \in Seq(Pieces) /\ Len(content[buf[f]]) \in Nat /\ log[f] \in Logs
  BY KnownFacts DEF Take
<1>2. PICK n \in 1 .. Len(content[buf[f]]) :
          /\ log' = [log EXCEPT ![f].taken = @ \o SubSeq(content[buf[f]], 1, n)]
          /\ content' = [content EXCEPT ![buf[f]] = Rest(@, n)]
  BY DEF Take
<1>3. Rest(content[buf[f]], n) \in Seq(Pieces) /\ SubSeq(content[buf[f]], 1, n) \in Seq(Pieces)
  <2>1. n \in 0 .. Len(content[buf[f]])
    BY <1>1
  <2> QED
    BY <1>1, <2>1, RestFacts
<1>4. log' \in [Files -> Logs] /\ \A g \in Files \ {f} : log'[g] = log[g]
  <2>1. log[f].taken \o SubSeq(content[buf[f]], 1, n) \in Seq(Pieces)
    <3>1. log[f].taken \in Seq(Pieces)
      BY <1>1 DEF Logs
    <3> QED
      BY <1>3, <3>1
  <2>2. [log[f] EXCEPT !.taken = @ \o SubSeq(content[buf[f]], 1, n)] \in Logs
    BY <1>1, <2>1 DEF Logs
  <2> QED
    BY <1>2, <2>2 DEF Inv, TypeOK
<1>5. content' \in [Buffers -> Seq(Pieces)]
  BY <1>2, <1>3 DEF Inv, TypeOK
<1>6. UNCHANGED <<opened, open, peer, watch, buf, pool, made, mode, mine, ready>>
  BY DEF Take, script
<1> QED
  BY <1>1, <1>4, <1>5, <1>6, Keeping DEF Inv, TypeOK

\* What recv adds to a buffer.
LEMMA InputFacts ==
    ASSUME NEW f \in Files, NEW m \in Nat, NEW n \in Nat, NEW s \in Seq(Pieces)
    PROVE  LET new == s \o [i \in 1 .. n |-> Input(f, m + i)]
           IN  /\ new \in Seq(Pieces) /\ Len(new) = Len(s) + n
               /\ \A i \in 1 .. Len(s) : new[i] = s[i]
               /\ \A i \in 1 .. n : new[Len(s) + i] = Input(f, m + i)
<1> DEFINE t == [i \in 1 .. n |-> Input(f, m + i)]
<1>1. t \in Seq(Pieces) /\ Len(t) = n /\ DOMAIN t = 1 .. n
  <2>1. \A i \in 1 .. n : Input(f, m + i) \in Pieces
    BY PieceTypes
  <2> QED
    BY <2>1
<1>2. \A i \in 1 .. n : t[i] = Input(f, m + i)
  OBVIOUS
<1> HIDE DEF t
<1>3. /\ s \o t \in Seq(Pieces) /\ Len(s \o t) = Len(s) + n
      /\ \A i \in 1 .. Len(s) : (s \o t)[i] = s[i]
      /\ \A i \in 1 .. n : (s \o t)[Len(s) + i] = t[i]
  <2>1. s \o t \in Seq(Pieces) /\ Len(s \o t) = Len(s) + Len(t) /\ Len(s) \in Nat
    BY <1>1, ConcatProperties, LenProperties
  <2>2. \A i \in 1 .. Len(s) + Len(t) :
           (s \o t)[i] = IF i <= Len(s) THEN s[i] ELSE t[i - Len(s)]
    BY <1>1, ConcatProperties
  <2>3. \A i \in 1 .. n : Len(s) + i \in 1 .. Len(s) + Len(t) /\ ~(Len(s) + i <= Len(s)) /\ Len(s) + i - Len(s) = i
    BY <1>1, <2>1
  <2>4. \A i \in 1 .. Len(s) : i \in 1 .. Len(s) + Len(t) /\ i <= Len(s)
    BY <1>1, <2>1
  <2> QED
    BY <1>1, <2>1, <2>2, <2>3, <2>4
<1> QED
  BY <1>2, <1>3 DEF t

LEMMA InputStep ==
    ASSUME Inv, NEW f \in Files, InputEvent(f)
    PROVE  Inv'
<1>1. /\ f \in open /\ mode = "waiting" /\ watch[f].op = "read"
      /\ buf[f] # 0 /\ watch[f].buf = buf[f] /\ buf[f] \in Buffers
      /\ UNCHANGED <<opened, made>>
  BY OwnedFacts DEF InputEvent, Inv, FileOK
<1>2. CASE /\ Closing(f, pool, content)
           /\ UNCHANGED script
  BY <1>1, <1>2, CloseSteps
<1>3. ASSUME NEW n \in 1 .. peer[f].sent - peer[f].read, NEW new \in Seq(Pieces),
             peer' = [peer EXCEPT ![f].read = @ + n],
             content' = [content EXCEPT ![buf[f]] = new],
             IF Len(new) >= watch[f].n
             THEN mode' = "callback" /\ mine' = {f} /\ ready' = {f}
             ELSE UNCHANGED script,
             UNCHANGED <<open, watch, buf, pool, log>>
      PROVE  Inv'
  <2>1. content' \in [Buffers -> Seq(Pieces)]
    BY <1>3 DEF Inv, TypeOK
  <2>2. /\ peer' \in [Files -> [sent : Nat, read : Nat, gone : {"no", "eof", "reset"}]]
        /\ \A g \in Files \ {f} : peer'[g] = peer[g]
    <3> DEFINE P == [sent : Nat, read : Nat, gone : {"no", "eof", "reset"}]
    <3>1. peer \in [Files -> P] /\ peer[f] \in P /\ n \in Nat /\ peer[f].read + n \in Nat
      BY DEF Inv, TypeOK
    <3>2. [peer[f] EXCEPT !.read = @ + n] \in P
      BY <3>1
    <3> QED
      BY <1>3, <3>1, <3>2
  <2>3. /\ UNCHANGED <<mode, mine>> \/ (mode' = "callback" /\ mine' = {f})
        /\ ready' \subseteq mine'
    BY <1>3 DEF script, Inv, TypeOK
  <2>4. /\ log' \in [Files -> Logs] /\ watch' \in [Files -> Watches]
        /\ \A g \in Files \ {f} : watch'[g] = watch[g] /\ log'[g] = log[g]
        /\ watch'[f] = watch[f]
        /\ UNCHANGED <<opened, open, buf, pool, made>>
    BY <1>1, <1>3 DEF Inv, TypeOK
  <2> QED
    BY <1>1, <2>1, <2>2, <2>3, <2>4, Keeping
<1>4. ASSUME NEW n \in 1 .. peer[f].sent - peer[f].read
      PROVE  content[buf[f]] \o [i \in 1 .. n |-> Input(f, peer[f].read + i)] \in Seq(Pieces)
  <2>1. n \in Nat /\ peer[f].read \in Nat /\ content[buf[f]] \in Seq(Pieces)
    BY <1>1 DEF Inv, TypeOK
  <2> QED
    BY <2>1, InputFacts
<1> QED
  BY <1>1, <1>2, <1>3, <1>4 DEF InputEvent

LEMMA TextFacts ==
    ASSUME Inv, NEW f \in Files
    PROVE  /\ Text(f) \in Seq(Pieces) /\ Len(Text(f)) = TextSize /\ TextSize \in Nat
           /\ \A i \in 1 .. TextSize : Text(f)[i] = Own(f, log[f].written + i)
           /\ Number(f) \in Nat
<1>1. log[f].written \in Nat /\ TextSize \in Nat \ {0}
  BY StreamAssumption DEF Inv, TypeOK, Logs
<1>2. \A i \in 1 .. TextSize : Own(f, log[f].written + i) \in Pieces
  BY <1>1, PieceTypes
<1>3. log[f].written \div TextSize \in Nat
  BY <1>1
<1>4. Text(f) \in Seq(Pieces) /\ Len(Text(f)) = TextSize
  BY <1>1, <1>2 DEF Text
<1>5. \A i \in 1 .. TextSize : Text(f)[i] = Own(f, log[f].written + i)
  BY DEF Text
<1> QED
  BY <1>1, <1>3, <1>4, <1>5 DEF Number

LEMMA WrittenType ==
    ASSUME Inv, NEW f \in Files, NEW before
    PROVE  Written(f, before) \in Logs
<1>1. log[f] \in Logs /\ log[f].written + TextSize \in Nat
  BY StreamAssumption DEF Inv, TypeOK, Logs
<1>2. /\ (log[f].mixed \/ Has(before, "peer")) \in BOOLEAN
      /\ (log[f].overtaken \/ ~(Unsent(f) \subseteq Elements(before))) \in BOOLEAN
  BY DEF Has
<1> QED
  BY <1>1, <1>2, DroppedType DEF Written, Logs

LEMMA StreamWriteStep ==
    ASSUME Inv, NEW f \in Files, StreamWrite(f)
    PROVE  Inv'
<1>1. /\ f \in open /\ buf[f] # 0 /\ buf[f] \in Buffers /\ mode \in {"waiting", "callback"}
      /\ content[buf[f]] \in Seq(Pieces)
  BY KnownFacts DEF StreamWrite, Writing
<1>2. content[buf[f]] \o Text(f) \in Seq(Pieces) /\ Number(f) \in Nat
      /\ Written(f, content[buf[f]]) \in Logs
  BY <1>1, TextFacts, WrittenType, ConcatProperties
<1>3. /\ made' \in 0 .. MaxBuffers /\ made <= made' /\ buf[f] <= made' /\ opened' = opened
      /\ FreeList(pool, made') /\ (Owned(f) \cup {buf[f]}) \cap Elements(pool) = {}
      /\ \A g \in Files \ {f} : (Elements(pool) \cup {buf[f]}) \cap Owned(g) = {}
  <2>1. made' = made /\ opened' = opened
    BY DEF StreamWrite
  <2>2. made \in 0 .. MaxBuffers /\ made <= made /\ buf[f] <= made /\ FreeList(pool, made)
    BY StreamAssumption DEF Inv, TypeOK, FileOK
  <2>3. buf[f] \in Owned(f)
    BY <1>1, OwnedFacts
  <2> QED
    BY <2>1, <2>2, <2>3 DEF Inv, Apart
<1>4. /\ 0 \in Nat
      /\ WriteBuffer(f, buf[f], content[buf[f]] \o Text(f), Number(f), pool, 0,
                     Written(f, content[buf[f]]))
  BY DEF StreamWrite
<1> QED
  BY <1>1, <1>2, <1>3, <1>4, WriteFacts

LEMMA SocketWriteStep ==
    ASSUME Inv, NEW f \in Files, SocketWriteUtf8(f)
    PROVE  Inv'
<1>1. f \in open /\ buf[f] # 0 /\ mode \in {"waiting", "callback"}
  BY KnownFacts DEF SocketWriteUtf8, Writing
<1>2. /\ Popped \in Buffers
      /\ made' \in 0 .. MaxBuffers /\ made <= made' /\ Popped <= made'
      /\ FreeList(PoolLeft, made')
      /\ Elements(PoolLeft) \subseteq Elements(pool)
      /\ Popped \notin Elements(PoolLeft)
      /\ \A g \in Files : Popped \notin Owned(g)
  BY PopFacts DEF SocketWriteUtf8
<1>3. Text(f) \in Seq(Pieces) /\ Number(f) \in Nat /\ Written(f, << >>) \in Logs
  BY <1>2, TextFacts, WrittenType
<1>4. /\ (Owned(f) \cup {Popped}) \cap Elements(PoolLeft) = {}
      /\ \A g \in Files \ {f} : (Elements(PoolLeft) \cup {Popped}) \cap Owned(g) = {}
  BY <1>2 DEF Inv, Apart
<1>5. /\ 0 \in Nat /\ WriteBuffer(f, Popped, Text(f), Number(f), PoolLeft, 0, Written(f, << >>))
      /\ opened' = opened
  BY DEF SocketWriteUtf8
<1> QED
  BY <1>1, <1>2, <1>3, <1>4, <1>5, WriteFacts

LEMMA WriteUntilStep ==
    ASSUME Inv, NEW f \in Files, WriteUntil(f)
    PROVE  Inv'
<1>1. /\ f \in open /\ buf[f] # 0 /\ buf[f] \in Buffers /\ buf[f] \in 0 .. MaxBuffers
      /\ content[buf[f]] \in Seq(Pieces)
  BY KnownFacts, OwnedFacts DEF WriteUntil, Writing
<1>2. content[buf[f]] \o Text(f) \in Seq(Pieces) /\ Written(f, content[buf[f]]) \in Logs
  BY <1>1, TextFacts, WrittenType, ConcatProperties
<1>3. content' \in [Buffers -> Seq(Pieces)]
  BY <1>2 DEF WriteUntil, Inv, TypeOK
<1>4. log' \in [Files -> Logs] /\ \A g \in Files \ {f} : log'[g] = log[g]
  BY <1>2 DEF WriteUntil, Inv, TypeOK
<1>5. /\ watch' \in [Files -> Watches] /\ \A g \in Files \ {f} : watch'[g] = watch[g]
      /\ watch'[f].op \in {"read", "until"} /\ watch'[f].buf = buf[f]
  BY <1>1 DEF WriteUntil, Watching, Watches, Inv, TypeOK
<1>6. /\ UNCHANGED <<opened, open, buf, pool, made>> /\ UNCHANGED <<mode, mine>>
      /\ peer' \in [Files -> [sent : Nat, read : Nat, gone : {"no", "eof", "reset"}]]
      /\ \A g \in Files \ {f} : peer'[g] = peer[g] /\ watch'[g] = watch[g] /\ log'[g] = log[g]
      /\ ready' \subseteq mine'
  BY <1>4, <1>5 DEF WriteUntil, Inv, TypeOK
<1> QED
  BY <1>1, <1>3, <1>4, <1>5, <1>6, Keeping

LEMMA OutputStep ==
    ASSUME Inv, NEW f \in Files, OutputEvent(f)
    PROVE  Inv'
<1>1. /\ f \in open /\ mode = "waiting" /\ mode \in {"waiting", "callback"}
      /\ opened' = opened /\ made' = made /\ ready = {} /\ mine = {}
  BY DEF OutputEvent, Inv, Thread, TypeOK
<1>2. watch[f].op \in {"write", "until"}
  BY DEF OutputEvent
<1> DEFINE b == watch[f].buf
<1>3. /\ buf[f] # 0 /\ b # 0 /\ b \in Buffers /\ content[b] \in Seq(Pieces)
      /\ watch[f].n \in Nat /\ b \in Owned(f) /\ log[f] \in Logs
  <2>1. buf[f] # 0 /\ b # 0
    BY <1>2 DEF Inv, FileOK
  <2>2. b \in Buffers /\ watch[f].n \in Nat /\ b \in Owned(f)
    BY <2>1, OwnedFacts
  <2> QED
    BY <2>1, <2>2 DEF Inv, TypeOK
<1>4. /\ made' \in 0 .. MaxBuffers /\ made <= made' /\ b <= made'
      /\ FreeList(pool, made') /\ (Owned(f) \cup {b}) \cap Elements(pool) = {}
      /\ \A g \in Files \ {f} : (Elements(pool) \cup {b}) \cap Owned(g) = {}
  <2>1. made \in 0 .. MaxBuffers /\ made <= made /\ b <= made /\ FreeList(pool, made)
    BY StreamAssumption DEF Inv, TypeOK, FileOK
  <2> QED
    BY <1>1, <1>3, <2>1 DEF Inv, Apart
<1>5. CASE WriteBuffer(f, b, content[b], watch[f].n, pool, 1, log[f])
  <2>1. 1 \in Nat
    OBVIOUS
  <2> QED
    BY <1>1, <1>3, <1>4, <1>5, <2>1, WriteFacts
<1>6. CASE watch[f].op = "until" /\ WriteUntilOnce(f, b)
  <2>1. b = buf[f]
    BY <1>6 DEF Inv, FileOK
  <2>2. CASE SendFails(f, b, content[b], pool)
    <3>1. CASE (\E left \in PushTemporary(f, b, pool) : Closing(f, left, content)) /\ mode' = mode
      <4>1. Closing(f, pool, content) /\ UNCHANGED script
        BY <1>6, <2>1, <2>2, <3>1 DEF SendFails, PushTemporary, WriteUntilOnce, script
      <4> QED
        BY <1>1, <4>1, CloseSteps
    <3>2. CASE mode' = "killed" /\ pool' = pool /\ UNCHANGED <<open, peer, watch, buf, content, log>>
      <4>1. mine' = mine /\ ready' = ready
        BY <1>6, <2>2 DEF SendFails, WriteUntilOnce
      <4>2. FreeList(pool, made)' /\ Apart' /\ (\A g \in Files : FileOK(g)')
        BY <1>1, <3>2 DEF Inv, FreeList, Apart, FileOK, Owned
      <4>3. TypeOK'
        BY <1>1, <3>2, <4>1 DEF Inv, TypeOK
      <4>4. Thread'
        BY <1>1, <3>2, <4>1 DEF Inv, Thread
      <4> QED
        BY <4>2, <4>3, <4>4 DEF Inv
    <3> QED
      BY <2>2, <3>1, <3>2 DEF SendFails
  <2>3. ASSUME NEW n \in 0 .. Len(content[b]), Sending(f, b, content[b], n, log[f]),
               UNCHANGED <<mode, mine>> \/ (mode' = "callback" /\ mine' = {f}),
               UNCHANGED <<open, peer, watch, buf, pool>>
        PROVE  Inv'
    <3>1. /\ content' \in [Buffers -> Seq(Pieces)] /\ log' \in [Files -> Logs]
          /\ \A g \in Files \ {f} : log'[g] = log[g]
      BY <1>3, <2>3, SendingFacts
    <3>2. /\ UNCHANGED <<opened, open, buf, pool, made>> /\ watch' \in [Files -> Watches]
          /\ peer' \in [Files -> [sent : Nat, read : Nat, gone : {"no", "eof", "reset"}]]
          /\ \A g \in Files \ {f} : peer'[g] = peer[g] /\ watch'[g] = watch[g] /\ log'[g] = log[g]
          /\ watch'[f] = watch[f]
      BY <1>1, <2>3, <3>1 DEF Inv, TypeOK
    <3>3. ready' \subseteq mine'
      BY <1>1, <1>6 DEF WriteUntilOnce
    <3> QED
      BY <1>1, <1>3, <2>3, <3>1, <3>2, <3>3, Keeping
  <2>4. /\ Len(content[b]) \in 0 .. Len(content[b])
        /\ \A n \in 1 .. Len(content[b]) - 1 : n \in 0 .. Len(content[b])
    BY <1>3, LenProperties
  <2>5. CASE /\ Sending(f, b, content[b], Len(content[b]), log[f])
             /\ mode' = "callback" /\ mine' = {f}
             /\ UNCHANGED <<open, peer, watch, buf, pool>>
    BY <2>3, <2>4, <2>5
  <2>6. CASE /\ \E n \in 1 .. Len(content[b]) - 1 : Sending(f, b, content[b], n, log[f])
             /\ UNCHANGED <<open, peer, watch, buf, pool, mode, mine>>
    BY <2>3, <2>4, <2>6
  <2> QED
    BY <1>6, <2>2, <2>5, <2>6 DEF WriteUntilOnce
<1> QED
  BY <1>5, <1>6 DEF OutputEvent

LEMMA Stutters ==
    ASSUME Inv, Return \/ UNCHANGED vars
    PROVE  Inv'
<1>1. /\ UNCHANGED <<opened, open, peer, watch, buf, content, pool, made, log>>
      /\ \/ UNCHANGED <<mode, mine, ready>>
         \/ mode' = "waiting" /\ mine' = {} /\ ready' = {}
  BY DEF Return, vars, script, buffers
<1>2. TypeOK'
  BY <1>1 DEF Inv, TypeOK
<1>3. Thread'
  BY <1>1 DEF Inv, Thread
<1>4. FreeList(pool, made)' /\ Apart' /\ \A g \in Files : FileOK(g)'
  BY <1>1 DEF Inv, FreeList, Apart, Owned, FileOK
<1> QED
  BY <1>2, <1>3, <1>4 DEF Inv

-----------------------------------------------------------------------------
LEMMA Initially == ASSUME Init PROVE Inv
<1>1. NoPeer \in [sent : Nat, read : Nat, gone : {"no", "eof", "reset"}] /\ NoWatch \in Watches /\ NoLog \in Logs
  BY StreamAssumption DEF NoPeer, NoWatch, NoLog, Watches, Logs
<1>2. TypeOK
  BY <1>1, StreamAssumption DEF Init, TypeOK
<1>3. Thread
  BY DEF Init, Thread
<1>4. FreeList(pool, made) /\ Elements(pool) = {}
  BY DEF Init, FreeList, Elements
<1>5. \A f \in Files : FileOK(f) /\ Owned(f) = {}
  BY StreamAssumption DEF Init, FileOK, Owned, NoWatch
<1>6. Apart
  BY <1>4, <1>5 DEF Apart
<1> QED
  BY <1>2, <1>3, <1>4, <1>5, <1>6 DEF Inv

LEMMA Preserved == ASSUME Inv, [Next]_vars PROVE Inv'
<1>1. CASE Accept
  BY <1>1, AcceptStep
<1>2. CASE Connect
  BY <1>2, ConnectStep
<1>3. CASE Return \/ Over \/ UNCHANGED vars
  BY <1>3, Stutters DEF Over
<1>4. ASSUME NEW f \in Files,
             \/ PeerSends(f) \/ PeerLeaves(f)
             \/ Connected(f) \/ InputEvent(f) \/ OutputEvent(f)
      PROVE  Inv'
  BY <1>4, PeerSteps, ConnectedStep, InputStep, OutputStep
<1>5. ASSUME NEW f \in Files, ErrorEvent(f) \/ Close(f)
      PROVE  Inv'
  BY <1>5, CloseSteps DEF ErrorEvent, Close, Known
<1>6. ASSUME NEW f \in Files,
             \/ ReadUntil(f, Needs[f]) \/ ReadSize(f, Needs[f])
             \/ Take(f) \/ StreamWrite(f) \/ SocketWriteUtf8(f) \/ WriteUntil(f)
      PROVE  Inv'
  <2>1. Needs[f] \in Nat
    BY StreamAssumption
  <2> QED
    BY <1>6, <2>1, ReadUntilStep, ReadSizeStep, TakeStep, StreamWriteStep, SocketWriteStep, WriteUntilStep
<1> QED
  BY <1>1, <1>2, <1>3, <1>4, <1>5, <1>6 DEF Next, Script

\* Descriptors, buffers and logs keep their types, for any scripts and peers.
THEOREM TypeCorrect == Spec => []TypeOK
<1>1. Init => Inv
  BY Initially
<1>2. Inv /\ [Next]_vars => Inv'
  BY Preserved
<1>3. Inv => TypeOK
  BY DEF Inv
<1> QED
  BY <1>1, <1>2, <1>3, PTL DEF Spec

\* A buffer is with one stream or one pending write, or once in the pool, however
\* scripts mix reading, writing and temporary buffers.
THEOREM AlwaysExclusive == Spec => []Exclusive
<1>1. Init => Inv
  BY Initially
<1>2. Inv /\ [Next]_vars => Inv'
  BY Preserved
<1>3. ASSUME Inv PROVE Exclusive
  <2>1. \A f \in open : f \in Files
    BY <1>3, StreamAssumption DEF Inv, TypeOK, Files
  <2>2. \A i, j \in DOMAIN pool : pool[i] = pool[j] => i = j
    BY <1>3 DEF Inv, FreeList
  <2>3. Apart
    BY <1>3 DEF Inv
  <2> QED
    BY <2>1, <2>2, <2>3 DEF Exclusive, Apart
<1> QED
  BY <1>1, <1>2, <1>3, PTL DEF Spec

-----------------------------------------------------------------------------
(* The two directions, over the ownership: a buffer that two streams shared would mix *)
(* their directions too.                                                              *)

OwnText(f, s) == \A i \in DOMAIN s : s[i].by = "script" /\ s[i].file = f
InputFrom(f, n, s) == \A i \in DOMAIN s : s[i] = Input(f, n + i)

\* A stream's buffer holds text of its script, all of the input being taken, or the
\* input that comes next.
OwnBox(f, r) == OwnText(f, content[buf[f]]) /\ Len(r.taken) = peer[f].read
InBox(f, r) == /\ InputFrom(f, Len(r.taken), content[buf[f]])
               /\ Len(r.taken) + Len(content[buf[f]]) = peer[f].read

\* With text in it, the stream is not asked for input and no read has called back.
Sides(f) ==
    /\ watch[f].op = "connect" => /\ log[f] = NoLog /\ peer[f].read = 0
                                  /\ buf[f] # 0 => content[buf[f]] = << >>
    /\ f \in open /\ ~log[f].mixed =>
          /\ OwnText(f, log[f].sent) /\ InputFrom(f, 0, log[f].taken)
          /\ watch[f].op \in {"write", "until"} => OwnText(f, content[watch[f].buf])
          /\ \/ buf[f] = 0
             \/ /\ OwnBox(f, log[f])
                /\ content[buf[f]] = << >> \/ (watch[f].op # "read" /\ f \notin ready)
             \/ InBox(f, log[f])

AllSides == \A f \in Files : Sides(f)

-----------------------------------------------------------------------------
(* Steps of another connection change nothing of this. *)

LEMMA Others ==
    ASSUME Inv, NEW f \in Files, NEW g \in Files, f # g, Sides(g), Only(f),
           \A c \in Owned(g) : content'[c] = content[c],
           g \in ready' => g \in ready
    PROVE  Sides(g)'
<1>1. /\ buf'[g] = buf[g] /\ watch'[g] = watch[g] /\ peer'[g] = peer[g] /\ log'[g] = log[g]
      /\ g \in open' <=> g \in open
  BY DEF Only
<1>2. buf[g] # 0 => content'[buf[g]] = content[buf[g]]
  BY OwnedFacts
<1>3. watch[g].op \in {"write", "until"} => content'[watch[g].buf] = content[watch[g].buf]
  BY OwnedFacts DEF Inv, FileOK
<1> QED
  BY <1>1, <1>2, <1>3 DEF Sides, OwnBox, InBox

LEMMA Elsewhere ==
    ASSUME Inv, AllSides, NEW f \in Files, Only(f), Sides(f)',
           NEW b, \A g \in Files \ {f} : b \notin Owned(g),
           \A c \in Buffers : c # b /\ c # buf[f] => content'[c] = content[c],
           \A g \in Files \ {f} : g \in ready' => g \in ready
    PROVE  AllSides'
<1>1. ASSUME NEW g \in Files, g # f PROVE Sides(g)'
  <2>1. \A c \in Owned(g) : c \in Buffers /\ c # b /\ c # buf[f]
    <3>1. \A c \in Owned(g) : c \in Buffers
      BY OwnedFacts DEF Owned
    <3>2. \A c \in Owned(g) : c # buf[f]
      BY <1>1, <3>1, OwnedFacts DEF Buffers
    <3> QED
      BY <1>1, <3>1, <3>2
  <2>2. \A c \in Owned(g) : content'[c] = content[c]
    BY <2>1
  <2> QED
    BY <1>1, <2>2, Others DEF AllSides
<1> QED
  BY <1>1 DEF AllSides

LEMMA TextParts ==
    ASSUME NEW f \in Files, NEW s \in Seq(Pieces), NEW t \in Seq(Pieces)
    PROVE  /\ OwnText(f, s) /\ OwnText(f, t) => OwnText(f, s \o t)
           /\ \A n \in 0 .. Len(s) : OwnText(f, s) => OwnText(f, Rest(s, n)) /\ OwnText(f, SubSeq(s, 1, n))
<1>1. ASSUME OwnText(f, s), OwnText(f, t) PROVE OwnText(f, s \o t)
  <2>1. /\ s \o t \in Seq(Pieces) /\ Len(s \o t) = Len(s) + Len(t) /\ Len(s) \in Nat /\ Len(t) \in Nat
        /\ DOMAIN s = 1 .. Len(s) /\ DOMAIN t = 1 .. Len(t) /\ DOMAIN (s \o t) = 1 .. Len(s \o t)
    BY ConcatProperties, LenProperties
  <2>2. \A i \in 1 .. Len(s) + Len(t) : (s \o t)[i] = IF i <= Len(s) THEN s[i] ELSE t[i - Len(s)]
    BY ConcatProperties
  <2>3. \A i \in 1 .. Len(s) + Len(t) :
           /\ i <= Len(s) => i \in DOMAIN s
           /\ ~(i <= Len(s)) => i - Len(s) \in DOMAIN t
    BY <2>1
  <2> QED
    BY <1>1, <2>1, <2>2, <2>3 DEF OwnText
<1>2. ASSUME NEW n \in 0 .. Len(s), OwnText(f, s)
      PROVE  OwnText(f, Rest(s, n)) /\ OwnText(f, SubSeq(s, 1, n))
  <2>1. /\ Rest(s, n) \in Seq(Pieces) /\ SubSeq(s, 1, n) \in Seq(Pieces)
        /\ Len(Rest(s, n)) = Len(s) - n /\ Len(SubSeq(s, 1, n)) = n
        /\ \A i \in 1 .. Len(s) - n : Rest(s, n)[i] = s[n + i]
        /\ \A i \in 1 .. n : SubSeq(s, 1, n)[i] = s[i]
    BY RestFacts
  <2>2. /\ Len(s) \in Nat /\ DOMAIN s = 1 .. Len(s)
        /\ DOMAIN Rest(s, n) = 1 .. Len(s) - n /\ DOMAIN SubSeq(s, 1, n) = 1 .. n
    BY <2>1, LenProperties
  <2>3. /\ \A i \in 1 .. Len(s) - n : n + i \in DOMAIN s
        /\ \A i \in 1 .. n : i \in DOMAIN s
    BY <2>2
  <2>4. OwnText(f, Rest(s, n))
    <3> DEFINE u == Rest(s, n)
    <3>1. \A i \in DOMAIN u : n + i \in DOMAIN s /\ u[i] = s[n + i]
      BY <2>1, <2>2, <2>3
    <3> HIDE DEF u
    <3>2. OwnText(f, u)
      BY <1>2, <3>1 DEF OwnText
    <3> QED
      BY <3>2 DEF u
  <2>5. OwnText(f, SubSeq(s, 1, n))
    <3> DEFINE u == SubSeq(s, 1, n)
    <3>1. \A i \in DOMAIN u : i \in DOMAIN s /\ u[i] = s[i]
      BY <2>1, <2>2, <2>3
    <3> HIDE DEF u
    <3>2. OwnText(f, u)
      BY <1>2, <3>1 DEF OwnText
    <3> QED
      BY <3>2 DEF u
  <2> QED
    BY <2>4, <2>5
<1> QED
  BY <1>1, <1>2

\* Text in which there is none of the peer's, or input in which there is none of the script's.
LEMMA BoxFacts ==
    ASSUME Inv, NEW f \in Files, buf[f] \in Buffers, OwnBox(f, log[f]) \/ InBox(f, log[f])
    PROVE  /\ ~Holds(buf[f], "peer") => OwnBox(f, log[f])
           /\ ~Holds(buf[f], "script") => InBox(f, log[f])
<1>1. /\ content[buf[f]] \in Seq(Pieces) /\ Len(content[buf[f]]) \in Nat
      /\ DOMAIN content[buf[f]] = 1 .. Len(content[buf[f]])
      /\ log[f].taken \in Seq(Pieces) /\ Len(log[f].taken) \in Nat
      /\ peer[f].read \in Nat
  BY LenProperties DEF Inv, TypeOK, Logs
<1>2. ASSUME InBox(f, log[f]), ~Holds(buf[f], "peer") PROVE OwnBox(f, log[f])
  <2>1. content[buf[f]] = << >>
    <3>1. \A i \in DOMAIN content[buf[f]] : content[buf[f]][i].by = "peer"
      <4>1. \A i \in DOMAIN content[buf[f]] : content[buf[f]][i] = Input(f, Len(log[f].taken) + i)
        BY <1>2 DEF InBox, InputFrom
      <4>2. \A n : Input(f, n).by = "peer"
        BY DEF Input
      <4> QED
        BY <4>1, <4>2
    <3>2. DOMAIN content[buf[f]] = {}
      BY <1>2, <3>1 DEF Holds, Has, Elements
    <3>3. Len(content[buf[f]]) = 0
      <4>1. Len(content[buf[f]]) # 0 => 1 \in 1 .. Len(content[buf[f]])
        BY <1>1
      <4> QED
        BY <1>1, <3>2, <4>1
    <3> QED
      BY <1>1, <3>3, EmptySeq
  <2> QED
    BY <1>1, <1>2, <2>1 DEF InBox, OwnBox, OwnText
<1>3. ASSUME OwnBox(f, log[f]), ~Holds(buf[f], "script") PROVE InBox(f, log[f])
  <2>1. content[buf[f]] = << >>
    <3>1. \A i \in DOMAIN content[buf[f]] : content[buf[f]][i].by = "script"
      BY <1>3 DEF OwnBox, OwnText
    <3>2. DOMAIN content[buf[f]] = {}
      BY <1>3, <3>1 DEF Holds, Has, Elements
    <3>3. Len(content[buf[f]]) = 0
      <4>1. Len(content[buf[f]]) # 0 => 1 \in 1 .. Len(content[buf[f]])
        BY <1>1
      <4> QED
        BY <1>1, <3>2, <4>1
    <3> QED
      BY <1>1, <3>3, EmptySeq
  <2> QED
    BY <1>1, <1>3, <2>1 DEF InBox, OwnBox, InputFrom
<1> QED
  BY <1>2, <1>3

-----------------------------------------------------------------------------
(* Closing and writing. *)

LEMMA ClosingSides ==
    ASSUME Inv, AllSides, NEW f \in Files, f \in open, NEW free, NEW b,
           \A g \in Files \ {f} : b \notin Owned(g),
           Closing(f, free, content), \A g \in Files \ {f} : g \in ready' => g \in ready
    PROVE  AllSides'
<1>1. open' = open \ {f} /\ watch'[f] = NoWatch /\ Only(f)
  BY DEF Closing, Only, Inv, TypeOK
<1>2. \A c \in Buffers : c # b /\ c # buf[f] => content'[c] = content[c]
  BY DEF Closing, Inv, TypeOK
<1>3. Sides(f)'
  BY <1>1 DEF Sides, NoWatch
<1> QED
  BY <1>1, <1>2, <1>3, Elsewhere

LEMMA WriteSides ==
    ASSUME Inv, AllSides, NEW f \in Files, f \in open, buf[f] # 0,
           NEW b \in Buffers, \A g \in Files \ {f} : b \notin Owned(g),
           NEW text \in Seq(Pieces), NEW k \in Nat, NEW free, NEW least \in Nat, NEW r \in Logs,
           WriteBuffer(f, b, text, k, free, least, r),
           ~r.mixed => /\ OwnText(f, text) /\ OwnText(f, r.sent) /\ InputFrom(f, 0, r.taken)
                       /\ b = buf[f] => Len(r.taken) = peer[f].read
                       /\ b # buf[f] => OwnBox(f, r) \/ InBox(f, r)
    PROVE  AllSides'
<1>0. ready' = ready \ {f} /\ Len(text) \in Nat
  BY LenProperties DEF WriteBuffer
<1>1. CASE SendFails(f, b, text, free)
  <2>1. CASE \E left : Closing(f, left, content)
    <3>1. PICK left : Closing(f, left, content)
      BY <2>1
    <3>2. \A g \in Files \ {f} : g \in ready' => g \in ready
      BY <1>0
    <3>3. AllSides'
      BY <3>1, <3>2, ClosingSides
    <3> QED
      BY <3>3
  <2>2. CASE UNCHANGED <<open, peer, watch, buf, content, log>>
    <3>1. Only(f) /\ Sides(f)'
      BY <1>0, <2>2 DEF Only, AllSides, Sides, OwnBox, InBox
    <3> QED
      BY <1>0, <2>2, <3>1, Elsewhere
  <2> QED
    BY <1>1, <2>1, <2>2 DEF SendFails
<1>2. ASSUME NEW q \in Logs, q.sent = r.sent, q.taken = r.taken, q.mixed = r.mixed,
             NEW n \in 0 .. Len(text), Sending(f, b, text, n, q),
             NEW op \in {"empty", "write"}, NEW w, NEW m, op = "write" => w = b,
             Watching(f, op, w, m), UNCHANGED <<open, peer, buf>>
      PROVE  AllSides'
  <2>1. /\ content'[b] = Rest(text, n)
        /\ \A c \in Buffers : c # b => content'[c] = content[c]
        /\ log'[f] = [q EXCEPT !.sent = @ \o SubSeq(text, 1, n)]
        /\ \A g \in Files \ {f} : log'[g] = log[g]
    BY <1>2 DEF Sending, Inv, TypeOK
  <2>2. /\ watch'[f] = [op |-> op, buf |-> w, n |-> m]
        /\ \A g \in Files \ {f} : watch'[g] = watch[g]
    BY <1>2 DEF Watching, Inv, TypeOK
  <2>3. /\ log'[f].sent = r.sent \o SubSeq(text, 1, n) /\ log'[f].taken = r.taken
        /\ log'[f].mixed = r.mixed
    BY <1>2, <2>1 DEF Logs
  <2>4. Only(f)
    BY <1>2, <2>1, <2>2 DEF Only
  <2>5. ASSUME ~r.mixed
        PROVE  /\ OwnText(f, log'[f].sent) /\ InputFrom(f, 0, log'[f].taken)
               /\ OwnText(f, content'[b])
               /\ OwnBox(f, log[f])' \/ InBox(f, log[f])'
    <3>1. r.sent \in Seq(Pieces) /\ SubSeq(text, 1, n) \in Seq(Pieces)
      BY RestFacts DEF Logs
    <3>2. OwnText(f, SubSeq(text, 1, n)) /\ OwnText(f, Rest(text, n))
      BY <2>5, TextParts
    <3>3. OwnText(f, log'[f].sent) /\ OwnText(f, content'[b])
      <4>1. OwnText(f, r.sent \o SubSeq(text, 1, n))
        BY <2>5, <3>1, <3>2, TextParts
      <4> QED
        BY <2>1, <2>3, <3>2, <4>1
    <3>4. ASSUME b = buf[f] PROVE OwnBox(f, log[f])'
      <4>1. /\ OwnText(f, content'[buf'[f]])
            /\ Len(log'[f].taken) = peer'[f].read
        BY <1>2, <2>3, <2>5, <3>3, <3>4
      <4> QED
        BY <4>1 DEF OwnBox, OwnText
    <3>5. ASSUME b # buf[f] PROVE OwnBox(f, log[f])' \/ InBox(f, log[f])'
      <4>1. content'[buf[f]] = content[buf[f]] /\ buf' = buf /\ peer' = peer
        BY <1>2, <2>1, <3>5, OwnedFacts
      <4> QED
        BY <2>3, <2>5, <3>5, <4>1 DEF OwnBox, InBox, OwnText, InputFrom
    <3>6. InputFrom(f, 0, log'[f].taken)
      BY <2>3, <2>5
    <3> QED
      BY <3>3, <3>4, <3>5, <3>6
  <2>6. Sides(f)'
    <3>1. watch'[f].op \in {"empty", "write"} /\ (watch'[f].op = "write" => watch'[f].buf = b)
      BY <1>2, <2>2
    <3>2. f \notin ready'
      BY <1>0
    <3> QED
      BY <2>3, <2>5, <3>1, <3>2 DEF Sides
  <2>7. /\ \A c \in Buffers : c # b /\ c # buf[f] => content'[c] = content[c]
        /\ \A g \in Files \ {f} : g \in ready' => g \in ready
        /\ \A g \in Files \ {f} : b \notin Owned(g)
    BY <1>0, <2>1
  <2> QED
    BY <2>4, <2>6, <2>7, Elsewhere
<1>3. CASE /\ Sending(f, b, text, Len(text), [r EXCEPT !.told = Append(@, k)])
           /\ Watching(f, "empty", 0, 0)
           /\ UNCHANGED <<open, peer, buf>>
  <2> DEFINE q == [r EXCEPT !.told = Append(@, k)]
  <2>1. q \in Logs /\ q.sent = r.sent /\ q.taken = r.taken /\ q.mixed = r.mixed
    <3>1. r.told \in Seq(Nat)
      BY DEF Logs
    <3>2. Append(r.told, k) \in Seq(Nat)
      BY <3>1
    <3> QED
      BY <3>2 DEF Logs
  <2>2. Len(text) \in 0 .. Len(text)
    BY <1>0
  <2> QED
    BY <1>2, <1>3, <2>1, <2>2
<1>4. CASE /\ \E n \in least .. Len(text) - 1 : Sending(f, b, text, n, r)
           /\ Watching(f, "write", b, k)
           /\ UNCHANGED <<open, peer, buf>>
  <2>1. PICK n \in 0 .. Len(text) : Sending(f, b, text, n, r)
    BY <1>0, <1>4
  <2> QED
    BY <1>2, <1>4, <2>1
<1> QED
  BY <1>1, <1>3, <1>4 DEF WriteBuffer

LEMMA TextIsOwn ==
    ASSUME Inv, NEW f \in Files
    PROVE  OwnText(f, Text(f))
<1>1. DOMAIN Text(f) = 1 .. TextSize /\ \A i \in 1 .. TextSize : Text(f)[i] = Own(f, log[f].written + i)
  BY DEF Text
<1>2. \A n : Own(f, n).by = "script" /\ Own(f, n).file = f
  BY DEF Own
<1> QED
  BY <1>1, <1>2 DEF OwnText

LEMMA NotPeers ==
    ASSUME NEW f \in Files, NEW b, OwnText(f, content[b])
    PROVE  ~Holds(b, "peer")
BY DEF OwnText, Holds, Has, Elements

LEMMA OpenBox ==
    ASSUME Inv, AllSides, NEW f \in Files, f \in open, buf[f] # 0, ~log[f].mixed
    PROVE  /\ OwnText(f, log[f].sent) /\ InputFrom(f, 0, log[f].taken)
           /\ OwnBox(f, log[f]) \/ InBox(f, log[f])
           /\ buf[f] \in Buffers
BY OwnedFacts DEF AllSides, Sides

LEMMA WrittenFields ==
    ASSUME Inv, NEW f \in Files, NEW before
    PROVE  LET r == Written(f, before)
           IN  /\ r.sent = log[f].sent /\ r.taken = log[f].taken /\ r.told = log[f].told
               /\ r.written = log[f].written + TextSize
               /\ r.mixed = (log[f].mixed \/ Has(before, "peer"))
               /\ r.overtaken = (log[f].overtaken \/ ~(Unsent(f) \subseteq Elements(before)))
<1>1. log[f] \in Logs
  BY DEF Inv, TypeOK
<1> QED
  BY <1>1 DEF Written, Logs

LEMMA StreamWriteSides ==
    ASSUME Inv, AllSides, NEW f \in Files, StreamWrite(f)
    PROVE  AllSides'
<1> DEFINE b == buf[f]
           r == Written(f, content[b])
           text == content[b] \o Text(f)
<1>1. /\ f \in open /\ b # 0 /\ b \in Buffers /\ content[b] \in Seq(Pieces)
      /\ \A g \in Files \ {f} : b \notin Owned(g)
  BY KnownFacts, OwnedFacts DEF StreamWrite, Writing
<1>2. text \in Seq(Pieces) /\ Number(f) \in Nat /\ r \in Logs /\ Text(f) \in Seq(Pieces)
  BY <1>1, TextFacts, WrittenType, ConcatProperties
<1>3. ASSUME ~r.mixed
      PROVE  /\ OwnText(f, text) /\ OwnText(f, r.sent) /\ InputFrom(f, 0, r.taken)
             /\ Len(r.taken) = peer[f].read
  <2>1. ~log[f].mixed /\ ~Holds(b, "peer")
    BY <1>1, <1>3, WrittenFields DEF Holds
  <2>2. /\ OwnText(f, log[f].sent) /\ InputFrom(f, 0, log[f].taken)
        /\ OwnBox(f, log[f])
    BY <1>1, <2>1, OpenBox, BoxFacts
  <2>3. OwnText(f, content[b]) /\ Len(log[f].taken) = peer[f].read
    BY <2>2 DEF OwnBox
  <2>4. OwnText(f, text)
    BY <1>1, <1>2, <2>3, TextIsOwn, TextParts
  <2> QED
    BY <1>1, <2>2, <2>3, <2>4, WrittenFields
<1>4. WriteBuffer(f, b, text, Number(f), pool, 0, r) /\ 0 \in Nat
  BY DEF StreamWrite
<1> HIDE DEF b, r, text
<1> QED
  BY <1>1, <1>2, <1>3, <1>4, WriteSides DEF b

LEMMA SocketWriteSides ==
    ASSUME Inv, AllSides, NEW f \in Files, SocketWriteUtf8(f)
    PROVE  AllSides'
<1> DEFINE b == Popped
           r == Written(f, << >>)
<1>1. f \in open /\ buf[f] # 0 /\ buf[f] \in Owned(f)
  BY KnownFacts, OwnedFacts DEF SocketWriteUtf8, Writing
<1>2. b \in Buffers /\ (\A g \in Files : b \notin Owned(g)) /\ b # buf[f]
  BY <1>1, PopFacts DEF SocketWriteUtf8
<1>3. Text(f) \in Seq(Pieces) /\ Number(f) \in Nat /\ r \in Logs
  BY <1>2, TextFacts, WrittenType
<1>4. ASSUME ~r.mixed
      PROVE  /\ OwnText(f, Text(f)) /\ OwnText(f, r.sent) /\ InputFrom(f, 0, r.taken)
             /\ OwnBox(f, r) \/ InBox(f, r)
  <2>1. ~log[f].mixed /\ r.sent = log[f].sent /\ r.taken = log[f].taken
    BY <1>2, <1>4, WrittenFields
  <2>2. /\ OwnText(f, log[f].sent) /\ InputFrom(f, 0, log[f].taken)
        /\ OwnBox(f, log[f]) \/ InBox(f, log[f])
    BY <1>1, <2>1, OpenBox
  <2> QED
    BY <2>1, <2>2, TextIsOwn DEF OwnBox, InBox
<1>5. WriteBuffer(f, b, Text(f), Number(f), PoolLeft, 0, r) /\ 0 \in Nat
  BY DEF SocketWriteUtf8
<1> HIDE DEF b, r
<1> QED
  BY <1>1, <1>2, <1>3, <1>4, <1>5, WriteSides

LEMMA OutputSides ==
    ASSUME Inv, AllSides, NEW f \in Files, OutputEvent(f)
    PROVE  AllSides'
<1> DEFINE b == watch[f].buf
           r == log[f]
           text == content[b]
<1>1. f \in open /\ watch[f].op \in {"write", "until"} /\ ready = {}
  BY DEF OutputEvent, Inv, Thread, TypeOK
<1>2. /\ buf[f] # 0 /\ b # 0 /\ b \in Buffers /\ r \in Logs /\ text \in Seq(Pieces)
      /\ watch[f].n \in Nat /\ \A g \in Files \ {f} : b \notin Owned(g)
  <2>1. buf[f] # 0 /\ b # 0
    BY <1>1 DEF Inv, FileOK
  <2>2. b \in Buffers /\ watch[f].n \in Nat /\ \A g \in Files \ {f} : b \notin Owned(g)
    BY <2>1, OwnedFacts
  <2> QED
    BY <2>1, <2>2 DEF Inv, TypeOK
<1>3. ASSUME ~r.mixed
      PROVE  /\ OwnText(f, text) /\ OwnText(f, r.sent) /\ InputFrom(f, 0, r.taken)
             /\ b = buf[f] => OwnBox(f, r) /\ Len(r.taken) = peer[f].read
             /\ b # buf[f] => OwnBox(f, r) \/ InBox(f, r)
  <2>1. OwnText(f, text)
    BY <1>1, <1>3 DEF AllSides, Sides
  <2>2. /\ OwnText(f, r.sent) /\ InputFrom(f, 0, r.taken)
        /\ OwnBox(f, r) \/ InBox(f, r)
    BY <1>1, <1>2, <1>3, OpenBox
  <2>3. b = buf[f] => OwnBox(f, r)
    BY <1>2, <2>1, <2>2, NotPeers, BoxFacts
  <2> QED
    BY <2>1, <2>2, <2>3 DEF OwnBox
<1>4. CASE WriteBuffer(f, b, text, watch[f].n, pool, 1, r)
  <2>1. 1 \in Nat
    OBVIOUS
  <2> HIDE DEF b, r, text
  <2> QED
    BY <1>1, <1>2, <1>3, <1>4, <2>1, WriteSides
<1>5. CASE watch[f].op = "until" /\ WriteUntilOnce(f, b)
  <2>1. ready' = ready /\ b = buf[f]
    BY <1>5 DEF WriteUntilOnce, Inv, FileOK
  <2>2. CASE \E free : Closing(f, free, content)
    BY <1>1, <1>2, <2>1, <2>2, ClosingSides
  <2>3. CASE UNCHANGED <<open, peer, watch, buf, content, log>>
    <3>1. Only(f) /\ Sides(f)'
      BY <2>1, <2>3 DEF Only, AllSides, Sides, OwnBox, InBox
    <3> QED
      BY <1>2, <2>1, <2>3, <3>1, Elsewhere
  <2>4. ASSUME NEW n \in 0 .. Len(text), Sending(f, b, text, n, r),
               UNCHANGED <<open, peer, watch, buf>>
        PROVE  AllSides'
    <3>1. /\ content'[b] = Rest(text, n)
          /\ \A c \in Buffers : c # b => content'[c] = content[c]
          /\ log'[f] = [r EXCEPT !.sent = @ \o SubSeq(text, 1, n)]
          /\ \A g \in Files \ {f} : log'[g] = log[g]
      BY <1>2, <2>4 DEF Sending, Inv, TypeOK
    <3>2. /\ log'[f].sent = r.sent \o SubSeq(text, 1, n) /\ log'[f].taken = r.taken
          /\ log'[f].mixed = r.mixed
      BY <1>2, <3>1 DEF Logs
    <3>3. ASSUME ~r.mixed
          PROVE  /\ OwnText(f, log'[f].sent) /\ InputFrom(f, 0, log'[f].taken)
                 /\ OwnText(f, content'[b]) /\ OwnBox(f, log[f])'
      <4>1. r.sent \in Seq(Pieces) /\ SubSeq(text, 1, n) \in Seq(Pieces)
        BY <1>2, <2>4, RestFacts DEF Logs
      <4>2. OwnText(f, SubSeq(text, 1, n)) /\ OwnText(f, Rest(text, n))
        BY <1>2, <1>3, <2>4, <3>3, TextParts
      <4>3. OwnText(f, r.sent \o SubSeq(text, 1, n))
        BY <1>3, <3>3, <4>1, <4>2, TextParts
      <4>4. /\ OwnText(f, content'[buf'[f]]) /\ Len(log'[f].taken) = peer'[f].read
        BY <1>3, <2>1, <2>4, <3>1, <3>2, <3>3, <4>2
      <4>5. OwnBox(f, log[f])'
        BY <4>4 DEF OwnBox, OwnText
      <4>6. OwnText(f, log'[f].sent) /\ InputFrom(f, 0, log'[f].taken)
        BY <1>3, <3>2, <3>3, <4>3
      <4> QED
        BY <3>1, <4>2, <4>5, <4>6
    <3>4. Sides(f)'
      <4>1. watch'[f].op = "until" /\ watch'[f].buf = b /\ f \notin ready'
        BY <1>1, <1>5, <2>1, <2>4
      <4> QED
        BY <3>2, <3>3, <4>1 DEF Sides
    <3>5. Only(f)
      BY <2>4, <3>1 DEF Only
    <3> QED
      BY <1>2, <2>1, <3>1, <3>4, <3>5, Elsewhere
  <2>5. CASE SendFails(f, b, text, pool)
    BY <2>2, <2>3, <2>5 DEF SendFails
  <2>6. CASE \E n \in 0 .. Len(text) : /\ Sending(f, b, text, n, r)
                                       /\ UNCHANGED <<open, peer, watch, buf>>
    BY <2>4, <2>6
  <2>7. Len(text) \in Nat
    BY <1>2, LenProperties
  <2> QED
    <3>1. /\ Len(text) \in 0 .. Len(text)
          /\ \A n \in 1 .. Len(text) - 1 : n \in 0 .. Len(text)
      BY <2>7
    <3> QED
      BY <1>5, <2>5, <2>6, <3>1 DEF WriteUntilOnce
<1> QED
  BY <1>4, <1>5 DEF OutputEvent

LEMMA WriteUntilSides ==
    ASSUME Inv, AllSides, NEW f \in Files, WriteUntil(f)
    PROVE  AllSides'
<1> DEFINE b == buf[f]
           r == Written(f, content[b])
           text == content[b] \o Text(f)
<1>1. /\ f \in open /\ b # 0 /\ b \in Buffers /\ content[b] \in Seq(Pieces)
      /\ \A g \in Files \ {f} : b \notin Owned(g)
  BY KnownFacts, OwnedFacts DEF WriteUntil, Writing
<1>2. r \in Logs /\ Text(f) \in Seq(Pieces)
  BY <1>1, TextFacts, WrittenType
<1>3. /\ content'[b] = text /\ log'[f] = r /\ watch'[f].op = "until" /\ watch'[f].buf = b
      /\ \A c \in Buffers : c # b => content'[c] = content[c]
      /\ f \notin ready' /\ UNCHANGED <<open, peer, buf>> /\ Only(f)
      /\ \A g \in Files \ {f} : g \in ready' => g \in ready
  BY <1>1 DEF WriteUntil, Watching, Only, Inv, TypeOK
<1>4. ASSUME ~r.mixed
      PROVE  /\ OwnText(f, content'[b]) /\ OwnText(f, log'[f].sent) /\ InputFrom(f, 0, log'[f].taken)
             /\ OwnBox(f, log[f])'
  <2>1. ~log[f].mixed /\ ~Holds(b, "peer")
    BY <1>1, <1>4, WrittenFields DEF Holds
  <2>2. /\ OwnText(f, log[f].sent) /\ InputFrom(f, 0, log[f].taken)
        /\ OwnBox(f, log[f])
    BY <1>1, <2>1, OpenBox, BoxFacts
  <2>3. OwnText(f, content[b]) /\ Len(log[f].taken) = peer[f].read
    BY <2>2 DEF OwnBox
  <2>4. OwnText(f, text)
    BY <1>1, <1>2, <2>3, TextIsOwn, TextParts
  <2>5. log'[f].sent = log[f].sent /\ log'[f].taken = log[f].taken
    BY <1>1, <1>3, WrittenFields
  <2>6. /\ OwnText(f, content'[buf'[f]]) /\ Len(log'[f].taken) = peer'[f].read
    BY <1>3, <2>3, <2>4, <2>5
  <2>7. OwnBox(f, log[f])'
    BY <2>6 DEF OwnBox, OwnText
  <2> QED
    BY <1>3, <2>2, <2>4, <2>5, <2>7
<1>5. Sides(f)'
  <2>1. log'[f].mixed = r.mixed
    BY <1>3
  <2> QED
    BY <1>3, <1>4, <2>1 DEF Sides
<1> QED
  BY <1>1, <1>3, <1>5, Elsewhere

-----------------------------------------------------------------------------
(* Reading. *)

LEMMA AskingSides ==
    ASSUME Inv, AllSides, NEW f \in Files, Reading(f),
           UNCHANGED <<open, peer, buf, content>>,
           ready' \subseteq ready \cup {f},
           log'[f].sent = log[f].sent, log'[f].taken = log[f].taken,
           log'[f].mixed = (log[f].mixed \/ Holds(buf[f], "script")),
           \A g \in Files \ {f} : log'[g] = log[g] /\ watch'[g] = watch[g],
           watch'[f].op = "read" \/ (watch'[f] = watch[f] /\ content[buf[f]] # << >>)
    PROVE  AllSides'
<1>1. /\ f \in open /\ buf[f] # 0 /\ buf[f] \in Buffers /\ ~log[f].mixed
      /\ \A g \in Files \ {f} : buf[f] \notin Owned(g)
  BY KnownFacts, OwnedFacts DEF Reading
<1>2. Only(f)
  BY DEF Only
<1>3. watch'[f].op # "connect"
  BY <1>1 DEF AllSides, Sides
<1>4. ASSUME ~log'[f].mixed
      PROVE  /\ OwnText(f, log'[f].sent) /\ InputFrom(f, 0, log'[f].taken)
             /\ InBox(f, log[f])'
             /\ watch'[f].op \in {"write", "until"} => OwnText(f, content'[watch'[f].buf])
  <2>1. ~Holds(buf[f], "script")
    BY <1>4
  <2>2. /\ OwnText(f, log[f].sent) /\ InputFrom(f, 0, log[f].taken) /\ InBox(f, log[f])
    BY <1>1, <2>1, OpenBox, BoxFacts
  <2>3. InBox(f, log[f])'
    BY <2>2 DEF InBox, InputFrom
  <2>4. watch'[f].op \in {"write", "until"} => OwnText(f, content'[watch'[f].buf])
    BY <1>1 DEF AllSides, Sides
  <2> QED
    BY <2>2, <2>3, <2>4
<1>5. Sides(f)'
  BY <1>3, <1>4 DEF Sides, OwnText
<1> QED
  BY <1>1, <1>2, <1>5, Elsewhere

LEMMA ReadUntilSides ==
    ASSUME Inv, AllSides, NEW f \in Files, NEW n \in Nat, ReadUntil(f, n)
    PROVE  AllSides'
<1>1. log[f] \in Logs /\ log \in [Files -> Logs] /\ watch \in [Files -> Watches]
  BY DEF Inv, TypeOK
<1>2. /\ log'[f] = [log[f] EXCEPT !.mixed = @ \/ Holds(buf[f], "script"), !.dropped = Dropped(f)]
      /\ \A g \in Files \ {f} : log'[g] = log[g] /\ watch'[g] = watch[g]
      /\ watch'[f].op = "read"
  BY <1>1 DEF ReadUntil, Watching
<1>3. /\ log'[f].sent = log[f].sent /\ log'[f].taken = log[f].taken
      /\ log'[f].mixed = (log[f].mixed \/ Holds(buf[f], "script"))
  BY <1>1, <1>2 DEF Logs
<1>4. /\ Reading(f) /\ UNCHANGED <<open, peer, buf, content>>
      /\ ready' \subseteq ready \cup {f}
  BY DEF ReadUntil, buffers
<1> QED
  BY <1>2, <1>3, <1>4, AskingSides

LEMMA ReadSizeSides ==
    ASSUME Inv, AllSides, NEW f \in Files, NEW n \in Nat \ {0}, ReadSize(f, n)
    PROVE  AllSides'
<1>1. CASE ReadUntil(f, n)
  BY <1>1, ReadUntilSides
<1>2. CASE /\ Len(content[buf[f]]) >= n
           /\ ready' = ready \cup {f}
           /\ log' = [log EXCEPT ![f].mixed = @ \/ Holds(buf[f], "script")]
           /\ UNCHANGED <<opened, open, peer, watch, buffers, mode, mine>>
  <2>1. log[f] \in Logs /\ log \in [Files -> Logs] /\ Reading(f)
    BY DEF Inv, TypeOK, ReadSize
  <2>2. /\ log'[f] = [log[f] EXCEPT !.mixed = @ \/ Holds(buf[f], "script")]
        /\ \A g \in Files \ {f} : log'[g] = log[g] /\ watch'[g] = watch[g]
        /\ watch'[f] = watch[f]
    BY <1>2, <2>1
  <2>3. /\ log'[f].sent = log[f].sent /\ log'[f].taken = log[f].taken
        /\ log'[f].mixed = (log[f].mixed \/ Holds(buf[f], "script"))
    BY <2>1, <2>2 DEF Logs
  <2>4. content[buf[f]] # << >>
    BY <1>2, EmptySeq
  <2>5. /\ UNCHANGED <<open, peer, buf, content>>
        /\ ready' \subseteq ready \cup {f}
    BY <1>2 DEF buffers
  <2> QED
    BY <2>1, <2>2, <2>3, <2>4, <2>5, AskingSides
<1> QED
  BY <1>1, <1>2 DEF ReadSize

LEMMA TakeSides ==
    ASSUME Inv, AllSides, NEW f \in Files, Take(f)
    PROVE  AllSides'
<1> DEFINE b == buf[f]
           s == content[b]
           t == log[f].taken
<1>1. /\ f \in open /\ b # 0 /\ b \in Buffers /\ s \in Seq(Pieces) /\ Len(s) \in Nat
      /\ log[f] \in Logs /\ t \in Seq(Pieces) /\ Len(t) \in Nat
      /\ \A g \in Files \ {f} : b \notin Owned(g)
      /\ f \in ready /\ ~log[f].mixed
  BY KnownFacts, OwnedFacts, LenProperties DEF Take, Logs
<1>2. PICK n \in 1 .. Len(s) :
          /\ log' = [log EXCEPT ![f].taken = @ \o SubSeq(s, 1, n)]
          /\ content' = [content EXCEPT ![b] = Rest(@, n)]
  BY DEF Take
<1>3. /\ log'[f] = [log[f] EXCEPT !.taken = t \o SubSeq(s, 1, n)]
      /\ \A g \in Files \ {f} : log'[g] = log[g]
      /\ content'[b] = Rest(s, n)
      /\ \A c \in Buffers : c # b => content'[c] = content[c]
  BY <1>1, <1>2 DEF Inv, TypeOK
<1>4. UNCHANGED <<open, peer, watch, buf, ready>>
  BY DEF Take, script
<1>5. /\ log'[f].taken = t \o SubSeq(s, 1, n) /\ log'[f].sent = log[f].sent
      /\ log'[f].mixed = log[f].mixed
  BY <1>1, <1>3 DEF Logs
<1>6. InBox(f, log[f]) /\ InputFrom(f, 0, t) /\ s # << >> /\ Len(s) # 0
  <2>1. s # << >> /\ Len(s) # 0
    BY <1>1
  <2> QED
    BY <1>1, <2>1 DEF AllSides, Sides
<1>7. /\ n \in 0 .. Len(s) /\ n \in Nat
      /\ Rest(s, n) \in Seq(Pieces) /\ SubSeq(s, 1, n) \in Seq(Pieces)
      /\ Len(Rest(s, n)) = Len(s) - n /\ Len(SubSeq(s, 1, n)) = n
      /\ \A i \in 1 .. Len(s) - n : Rest(s, n)[i] = s[n + i]
      /\ \A i \in 1 .. n : SubSeq(s, 1, n)[i] = s[i]
  <2>1. n \in 0 .. Len(s) /\ n \in Nat
    BY <1>1
  <2> QED
    BY <1>1, <2>1, RestFacts
<1>8. \A i \in 1 .. Len(s) : s[i] = Input(f, Len(t) + i)
  BY <1>1, <1>6, LenProperties DEF InBox, InputFrom
<1> DEFINE u == t \o SubSeq(s, 1, n)
<1>9. /\ u \in Seq(Pieces) /\ Len(u) = Len(t) + n
      /\ InputFrom(f, 0, u)
  <2>1. /\ u \in Seq(Pieces) /\ Len(u) = Len(t) + n
        /\ \A i \in 1 .. Len(t) + n : u[i] = IF i <= Len(t) THEN t[i] ELSE SubSeq(s, 1, n)[i - Len(t)]
    BY <1>1, <1>7, ConcatProperties
  <2> HIDE DEF u
  <2>2. DOMAIN u = 1 .. Len(t) + n /\ DOMAIN t = 1 .. Len(t)
    BY <1>1, <2>1, LenProperties
  <2>3. ASSUME NEW i \in DOMAIN u PROVE u[i] = Input(f, 0 + i)
    <3>1. CASE i <= Len(t)
      <4>1. i \in DOMAIN t
        BY <1>1, <2>2, <3>1
      <4> QED
        BY <1>6, <2>1, <2>2, <3>1, <4>1 DEF InputFrom
    <3>2. CASE ~(i <= Len(t))
      <4>1. i - Len(t) \in 1 .. n /\ i - Len(t) \in 1 .. Len(s) /\ Len(t) + (i - Len(t)) = 0 + i
        <5>1. i \in Nat /\ i <= Len(t) + n /\ Len(t) \in Nat /\ Len(s) \in Nat /\ n \in Nat /\ n <= Len(s)
          BY <1>1, <1>7, <2>2
        <5> HIDE DEF s, t
        <5> QED
          BY <3>2, <5>1
      <4> QED
        BY <1>7, <1>8, <2>1, <2>2, <3>2, <4>1
    <3> QED
      BY <3>1, <3>2
  <2> QED
    BY <2>1, <2>3 DEF InputFrom
<1> HIDE DEF u
<1>10. /\ InputFrom(f, Len(u), Rest(s, n)) /\ Len(u) + Len(Rest(s, n)) = peer[f].read
  <2>1. DOMAIN Rest(s, n) = 1 .. Len(s) - n
    BY <1>7, LenProperties
  <2>2. ASSUME NEW i \in DOMAIN Rest(s, n) PROVE Rest(s, n)[i] = Input(f, Len(u) + i)
    <3>1. n + i \in 1 .. Len(s) /\ Len(t) + (n + i) = Len(u) + i /\ i \in 1 .. Len(s) - n
      BY <1>1, <1>7, <1>9, <2>1
    <3> QED
      BY <1>7, <1>8, <3>1
  <2>3. Len(t) + Len(s) = peer[f].read
    BY <1>6 DEF InBox
  <2>4. Len(u) + Len(Rest(s, n)) = peer[f].read
    <3>1. /\ Len(t) \in Nat /\ Len(s) \in Nat /\ n \in Nat
          /\ Len(u) = Len(t) + n /\ Len(Rest(s, n)) = Len(s) - n
      BY <1>1, <1>7, <1>9
    <3> HIDE DEF s, t
    <3> QED
      BY <2>3, <3>1
  <2> QED
    BY <2>2, <2>4 DEF InputFrom
<1>11. InBox(f, log[f])'
  <2>1. /\ InputFrom(f, Len(log'[f].taken), content'[buf'[f]])
        /\ Len(log'[f].taken) + Len(content'[buf'[f]]) = peer'[f].read
    BY <1>3, <1>4, <1>5, <1>10 DEF u
  <2> QED
    BY <2>1 DEF InBox, InputFrom
<1>12. /\ OwnText(f, log'[f].sent) /\ InputFrom(f, 0, log'[f].taken)
  BY <1>1, <1>5, <1>9, OpenBox DEF u
<1>13. watch'[f].op \in {"write", "until"} => OwnText(f, content'[watch'[f].buf])
  <2>1. watch[f].op \in {"write", "until"} => watch[f].buf \in Buffers /\ OwnText(f, content[watch[f].buf])
    BY <1>1, OwnedFacts DEF AllSides, Sides, Inv, FileOK
  <2>2. watch[f].op \in {"write", "until"} => watch[f].buf # b
    <3>1. 1 \in DOMAIN s /\ s[1].by = "peer"
      <4>1. 1 \in 1 .. Len(s) /\ DOMAIN s = 1 .. Len(s)
        BY <1>1, <1>6, LenProperties
      <4>2. s[1] = Input(f, Len(t) + 1)
        BY <1>8, <4>1
      <4> QED
        BY <4>1, <4>2 DEF Input
    <3> QED
      BY <2>1, <3>1 DEF OwnText
  <2> QED
    BY <1>3, <1>4, <2>1, <2>2
<1>14. watch'[f].op # "connect"
  BY <1>1, <1>4, <1>6 DEF AllSides, Sides
<1>15. Sides(f)'
  BY <1>11, <1>12, <1>13, <1>14 DEF Sides, OwnText, InputFrom
<1>16. Only(f)
  BY <1>3, <1>4 DEF Only
<1> QED
  BY <1>1, <1>3, <1>4, <1>15, <1>16, Elsewhere

LEMMA InputSides ==
    ASSUME Inv, AllSides, NEW f \in Files, InputEvent(f)
    PROVE  AllSides'
<1> DEFINE b == buf[f]
           s == content[b]
           t == log[f].taken
           m == peer[f].read
<1>1. /\ f \in open /\ watch[f].op = "read" /\ b # 0 /\ watch[f].buf = b /\ b \in Buffers
      /\ \A g \in Files \ {f} : b \notin Owned(g)
      /\ s \in Seq(Pieces) /\ Len(s) \in Nat /\ t \in Seq(Pieces) /\ Len(t) \in Nat /\ m \in Nat
      /\ ready = {} /\ DOMAIN s = 1 .. Len(s)
  <2>1. /\ f \in open /\ watch[f].op = "read" /\ b # 0 /\ watch[f].buf = b /\ ready = {}
    BY DEF InputEvent, Inv, FileOK, Thread, TypeOK
  <2>2. b \in Buffers /\ \A g \in Files \ {f} : b \notin Owned(g)
    BY <2>1, OwnedFacts
  <2>3. s \in Seq(Pieces) /\ t \in Seq(Pieces) /\ m \in Nat
    BY <2>2 DEF Inv, TypeOK, Logs
  <2> QED
    BY <2>1, <2>2, <2>3, LenProperties
<1>2. CASE Closing(f, pool, content) /\ UNCHANGED script
  BY <1>1, <1>2, ClosingSides DEF script
<1>3. ASSUME NEW n \in 1 .. peer[f].sent - m, NEW new \in Seq(Pieces),
             new = s \o [i \in 1 .. n |-> Input(f, m + i)],
             peer' = [peer EXCEPT ![f].read = @ + n],
             content' = [content EXCEPT ![b] = new],
             ready' \subseteq {f},
             UNCHANGED <<open, watch, buf, pool, log>>
      PROVE  AllSides'
  <2>1. /\ content'[b] = new /\ \A c \in Buffers : c # b => content'[c] = content[c]
        /\ n \in Nat /\ peer'[f].read = m + n
        /\ \A g \in Files \ {f} : peer'[g].read = peer[g].read /\ peer'[g] = peer[g]
    BY <1>1, <1>3 DEF Inv, TypeOK
  <2>2. /\ Len(new) = Len(s) + n
        /\ \A i \in 1 .. Len(s) : new[i] = s[i]
        /\ \A i \in 1 .. n : new[Len(s) + i] = Input(f, m + i)
    <3> DEFINE q == s \o [i \in 1 .. n |-> Input(f, m + i)]
    <3>1. /\ Len(q) = Len(s) + n
          /\ \A i \in 1 .. Len(s) : q[i] = s[i]
          /\ \A i \in 1 .. n : q[Len(s) + i] = Input(f, m + i)
      <4> HIDE DEF s, m
      <4> QED
        BY <1>1, <2>1, InputFacts
    <3>2. new = q
      BY <1>3
    <3> HIDE DEF q
    <3> QED
      BY <3>1, <3>2
  <2>3. ASSUME ~log[f].mixed
        PROVE  InputFrom(f, Len(t), new) /\ Len(t) + Len(new) = m + n
    <3>1. InputFrom(f, Len(t), s) /\ Len(t) + Len(s) = m
      <4>1. CASE s = << >> /\ Len(t) = m
        BY <1>1, <4>1 DEF InputFrom
      <4>2. CASE InBox(f, log[f])
        BY <4>2 DEF InBox
      <4> QED
        BY <1>1, <2>3, <4>1, <4>2 DEF AllSides, Sides, OwnBox
    <3>2. \A i \in 1 .. Len(s) : s[i] = Input(f, Len(t) + i)
      BY <1>1, <3>1 DEF InputFrom
    <3> DEFINE ls == Len(s)
               lt == Len(t)
    <3>3. /\ ls \in Nat /\ lt \in Nat /\ m \in Nat /\ n \in Nat /\ lt + ls = m
          /\ Len(new) = ls + n
      BY <1>1, <2>1, <2>2, <3>1
    <3>4. DOMAIN new = 1 .. ls + n
      BY <3>3, LenProperties
    <3>5. ASSUME NEW i \in 1 .. ls + n PROVE new[i] = Input(f, lt + i)
      <4>1. CASE i <= ls
        <5>1. i \in 1 .. ls
          BY <3>3, <4>1
        <5> QED
          BY <2>2, <3>2, <5>1
      <4>2. CASE ~(i <= ls)
        <5> HIDE DEF s, t, ls, lt, m
        <5>1. i - ls \in 1 .. n /\ ls + (i - ls) = i /\ m + (i - ls) = lt + i
          BY <3>3, <4>2
        <5>2. new[ls + (i - ls)] = Input(f, m + (i - ls))
          BY <2>2, <5>1 DEF ls
        <5> QED
          BY <5>1, <5>2
      <4> QED
        BY <4>1, <4>2
    <3> HIDE DEF s, t, ls, lt, m
    <3>6. lt + Len(new) = m + n
      BY <3>3
    <3> QED
      BY <3>4, <3>5, <3>6 DEF InputFrom, lt
  <2>4. ASSUME ~log[f].mixed PROVE InBox(f, log[f])'
    <3>1. InputFrom(f, Len(log'[f].taken), content'[buf'[f]])
      BY <1>3, <2>1, <2>3, <2>4
    <3>2. Len(log'[f].taken) + Len(content'[buf'[f]]) = peer'[f].read
      BY <1>3, <2>1, <2>3, <2>4
    <3> QED
      BY <3>1, <3>2 DEF InBox, InputFrom
  <2>5. Sides(f)'
    BY <1>1, <1>3, <2>4 DEF AllSides, Sides, OwnText, InputFrom
  <2>6. Only(f)
    BY <1>3, <2>1 DEF Only
  <2> QED
    BY <1>1, <1>3, <2>1, <2>5, <2>6, Elsewhere
<1>4. ASSUME NEW n \in 1 .. peer[f].sent - m
      PROVE  s \o [i \in 1 .. n |-> Input(f, m + i)] \in Seq(Pieces)
  <2>1. n \in Nat
    BY <1>1 DEF Inv, TypeOK
  <2> QED
    BY <1>1, <2>1, InputFacts
<1>5. ASSUME NEW n \in 1 .. peer[f].sent - peer[f].read,
             LET c == watch[f].buf
                 new == content[c] \o [i \in 1 .. n |-> Input(f, peer[f].read + i)]
             IN  /\ peer' = [peer EXCEPT ![f].read = @ + n]
                 /\ content' = [content EXCEPT ![c] = new]
                 /\ IF Len(new) >= watch[f].n
                    THEN mode' = "callback" /\ mine' = {f} /\ ready' = {f}
                    ELSE UNCHANGED script,
             UNCHANGED <<open, watch, buf, pool, log>>
      PROVE  AllSides'
  <2>1. ready' \subseteq {f}
    BY <1>1, <1>5 DEF script
  <2> QED
    BY <1>1, <1>3, <1>4, <1>5, <2>1
<1> QED
  BY <1>2, <1>5 DEF InputEvent

-----------------------------------------------------------------------------
(* New connections, peers, and the end of a callback. *)

LEMMA CreateSides ==
    ASSUME Inv, AllSides, NEW f \in Files, Create(f), UNCHANGED <<peer, watch, log>>,
           open' = open \cup {f}, watch[f].op \in {"none", "connect"},
           log[f] = NoLog, peer[f].read = 0
    PROVE  AllSides'
<1>1. Popped \in Buffers /\ \A g \in Files : Popped \notin Owned(g)
  BY PopFacts DEF Create
<1>2. /\ buf'[f] = Popped /\ content'[Popped] = << >> /\ ready' = {} /\ Only(f)
      /\ \A c \in Buffers : c # Popped => content'[c] = content[c]
  BY <1>1 DEF Create, Only, Inv, TypeOK
<1>3. Sides(f)'
  <2>1. /\ log'[f].sent = << >> /\ log'[f].taken = << >> /\ Len(log'[f].taken) = peer'[f].read
    BY DEF NoLog
  <2>2. content'[buf'[f]] = << >> /\ watch'[f].op \in {"none", "connect"}
    BY <1>2
  <2>3. OwnBox(f, log[f])'
    BY <2>1, <2>2 DEF OwnBox, OwnText
  <2>4. OwnText(f, log'[f].sent) /\ InputFrom(f, 0, log'[f].taken)
    BY <2>1 DEF OwnText, InputFrom
  <2>5. log'[f] = NoLog /\ peer'[f].read = 0
    OBVIOUS
  <2> QED
    BY <2>2, <2>3, <2>4, <2>5 DEF Sides, OwnText, InputFrom
<1> QED
  BY <1>1, <1>2, <1>3, Elsewhere

LEMMA AcceptSides == ASSUME Inv, AllSides, Accept PROVE AllSides'
<1>1. PICK f \in Files : f = opened + 1
  BY NewFile DEF Accept
<1>2. f \notin open /\ open' = open \cup {f} /\ Create(f) /\ UNCHANGED <<peer, watch, log>>
  BY <1>1, NewFile DEF Accept
<1>3. watch[f].op = "none" /\ log[f] = NoLog /\ peer[f].read = 0
  BY <1>2 DEF Inv, FileOK, NoWatch, NoPeer
<1> QED
  BY <1>2, <1>3, CreateSides

LEMMA ConnectedSides == ASSUME Inv, AllSides, NEW f \in Files, Connected(f) PROVE AllSides'
<1>1. /\ open' = open \cup {f} /\ Create(f) /\ UNCHANGED <<peer, watch, log>>
      /\ watch[f].op = "connect"
  BY DEF Connected
<1>2. log[f] = NoLog /\ peer[f].read = 0
  BY <1>1 DEF AllSides, Sides
<1> QED
  BY <1>1, <1>2, CreateSides

LEMMA ConnectSides == ASSUME Inv, AllSides, Connect PROVE AllSides'
<1>1. PICK f \in Files : f = opened + 1
  BY NewFile DEF Connect
<1>2. /\ f \notin open /\ open' = open \cup {f} /\ UNCHANGED <<peer, log, buf, content, ready>>
      /\ watch'[f].op = "connect" /\ \A g \in Files \ {f} : watch'[g] = watch[g]
  BY <1>1, NewFile DEF Connect, Watching, Inv, TypeOK, buffers, script
<1>3. log[f] = NoLog /\ peer[f].read = 0 /\ buf[f] = 0
  BY <1>2 DEF Inv, FileOK, NoPeer
<1>4. Sides(f)'
  <2>1. OwnText(f, NoLog.sent) /\ InputFrom(f, 0, NoLog.taken)
    BY DEF OwnText, InputFrom, NoLog
  <2>2. OwnText(f, log'[f].sent) /\ InputFrom(f, 0, log'[f].taken)
    BY <1>2, <1>3, <2>1
  <2> QED
    BY <1>2, <1>3, <2>2 DEF Sides, OwnText, InputFrom
<1>5. Only(f)
  BY <1>2 DEF Only
<1>6. ASSUME NEW g \in Files, g # f PROVE Sides(g)'
  BY <1>2, <1>5, <1>6, Others DEF AllSides
<1> QED
  BY <1>4, <1>6 DEF AllSides

LEMMA QuietSides ==
    ASSUME Inv, AllSides,
           UNCHANGED <<open, watch, buf, content, log>>,
           \A f \in Files : peer'[f].read = peer[f].read, ready' \subseteq ready
    PROVE  AllSides'
<1>1. ASSUME NEW f \in Files PROVE Sides(f)'
  BY DEF AllSides, Sides, OwnBox, InBox, OwnText, InputFrom
<1> QED
  BY <1>1 DEF AllSides

LEMMA PeerSides ==
    ASSUME Inv, AllSides, NEW f \in Files, PeerSends(f) \/ PeerLeaves(f)
    PROVE  AllSides'
<1>1. UNCHANGED <<open, watch, buf, content, log, ready>>
  BY DEF PeerSends, PeerLeaves, buffers, script
<1>2. \A g \in Files : peer'[g].read = peer[g].read
  <2>1. peer[f] \in [sent : Nat, read : Nat, gone : {"no", "eof", "reset"}] /\ DOMAIN peer = Files
    BY DEF Inv, TypeOK
  <2>2. \E p : p.read = peer[f].read /\ peer' = [peer EXCEPT ![f] = p]
    <3>1. CASE PeerSends(f)
      <4>1. [peer[f] EXCEPT !.sent = @ + 1].read = peer[f].read
        BY <2>1
      <4> QED
        BY <2>1, <3>1, <4>1 DEF PeerSends
    <3>2. CASE PeerLeaves(f)
      <4>1. /\ [peer[f] EXCEPT !.gone = "eof"].read = peer[f].read
            /\ [peer[f] EXCEPT !.gone = "reset", !.sent = peer[f].read].read = peer[f].read
        BY <2>1
      <4> QED
        BY <2>1, <3>2, <4>1 DEF PeerLeaves
    <3> QED
      BY <3>1, <3>2
  <2> QED
    BY <2>1, <2>2
<1> QED
  BY <1>1, <1>2, QuietSides

-----------------------------------------------------------------------------
LEMMA SidesInitially == ASSUME Init PROVE AllSides
BY DEF Init, AllSides, Sides, NoWatch

LEMMA SidesPreserved == ASSUME Inv, AllSides, [Next]_vars PROVE AllSides'
<1>1. CASE Accept
  BY <1>1, AcceptSides
<1>2. CASE Connect
  BY <1>2, ConnectSides
<1>3. CASE Return \/ Over \/ UNCHANGED vars
  <2>1. /\ UNCHANGED <<open, watch, buf, content, log, peer>> /\ ready' \subseteq ready
    BY <1>3 DEF Return, Over, vars, buffers, script
  <2> QED
    BY <2>1, QuietSides
<1>4. ASSUME NEW f \in Files,
             \/ PeerSends(f) \/ PeerLeaves(f)
             \/ Connected(f) \/ InputEvent(f) \/ OutputEvent(f)
      PROVE  AllSides'
  BY <1>4, PeerSides, ConnectedSides, InputSides, OutputSides
<1>5. ASSUME NEW f \in Files, ErrorEvent(f) \/ Close(f)
      PROVE  AllSides'
  <2>1. /\ f \in open /\ Closing(f, pool, content) /\ UNCHANGED <<made, script>>
    BY <1>5 DEF ErrorEvent, Close, Known
  <2>2. ready' = ready
    BY <2>1 DEF script
  <2>3. \A g \in Files \ {f} : 0 \notin Owned(g)
    BY DEF Owned
  <2> QED
    BY <2>1, <2>2, <2>3, ClosingSides
<1>6. ASSUME NEW f \in Files,
             \/ ReadUntil(f, Needs[f]) \/ ReadSize(f, Needs[f])
             \/ Take(f) \/ StreamWrite(f) \/ SocketWriteUtf8(f) \/ WriteUntil(f)
      PROVE  AllSides'
  <2>1. Needs[f] \in Nat \ {0} /\ Needs[f] \in Nat
    BY StreamAssumption
  <2> QED
    BY <1>6, <2>1, ReadUntilSides, ReadSizeSides, TakeSides, StreamWriteSides, SocketWriteSides,
       WriteUntilSides
<1> QED
  BY <1>1, <1>2, <1>3, <1>4, <1>5, <1>6 DEF Next, Script

\* One buffer serves both directions, and yet a peer is sent only text of its own
\* stream's script, and a script takes exactly its own peer's input, in order, until it
\* turns the stream with data of the other direction in the buffer.
THEOREM DirectionsStayApart == Spec => []DirectionsApart
<1>1. Init => Inv /\ AllSides
  BY Initially, SidesInitially
<1>2. Inv /\ AllSides /\ [Next]_vars => (Inv /\ AllSides)'
  BY Preserved, SidesPreserved
<1>3. ASSUME Inv, AllSides PROVE DirectionsApart
  <2>1. open \subseteq Files
    BY <1>3, StreamAssumption DEF Inv, TypeOK, Files
  <2>2. ASSUME NEW f \in open, ~log[f].mixed
        PROVE  /\ \A p \in Elements(log[f].sent) : p.by = "script" /\ p.file = f
               /\ \A i \in DOMAIN log[f].taken : log[f].taken[i] = Input(f, i)
    <3>1. OwnText(f, log[f].sent) /\ InputFrom(f, 0, log[f].taken)
      BY <1>3, <2>1, <2>2 DEF AllSides, Sides
    <3>2. log[f].taken \in Seq(Pieces)
      BY <1>3, <2>1 DEF Inv, TypeOK, Logs
    <3>3. \A i \in DOMAIN log[f].taken : 0 + i = i
      BY <3>2, LenProperties
    <3> QED
      BY <3>1, <3>3 DEF OwnText, InputFrom, Elements
  <2> QED
    BY <2>2 DEF DirectionsApart
<1> QED
  BY <1>1, <1>2, <1>3, PTL DEF Spec

-----------------------------------------------------------------------------
(* What a stream's peer is sent are the script's texts, whole and in the   *)
(* order they were written, however the kernel cuts them, until a write    *)
(* overtakes a text that waits; and the callback of a write comes once and *)
(* not before the kernel has all of the text.  A text that waits is in its *)
(* own connection's buffer, and nothing else is.                           *)

AllText(f, n) == [i \in 1 .. n |-> Own(f, i)]
Numbered(f, s) == \A i \in DOMAIN s : s[i] = Own(f, i)
TextOf(f, k) == {Own(f, i) : i \in (k - 1) * TextSize + 1 .. k * TextSize}
Increasing(s) == \A i, j \in DOMAIN s : i < j => s[i] < s[j]

\* What is sent is a beginning of all that was written; the rest is what the output
\* callback holds, and text in the stream's buffer is that rest too.
Ordered(f) ==
    /\ Numbered(f, log[f].sent) /\ Len(log[f].sent) <= log[f].written
    /\ watch[f].op \in {"write", "until"} =>
          log[f].sent \o content[watch[f].buf] = AllText(f, log[f].written)
    /\ buf[f] # 0 /\ Holds(buf[f], "script") =>
          /\ log[f].sent \o content[buf[f]] = AllText(f, log[f].written)
          /\ watch[f].op = "write" => watch[f].buf = buf[f]
    /\ log[f].dropped = {} /\ watch[f].op \notin {"write", "until"} =>
          Len(log[f].sent) = log[f].written

\* Of the q texts written, those confirmed are out, in their order; the one a callback
\* waits for comes after them, and is out or in the buffer of the callback.
Confirms(f, q, r) ==
    /\ r.written = q * TextSize
    /\ Elements(r.told) \subseteq 1 .. q /\ Increasing(r.told)
    /\ \A k \in Elements(r.told) : TextOf(f, k) \subseteq Elements(r.sent)

Awaits(f, q, k, text, r) ==
    /\ k \in 1 .. q /\ \A j \in Elements(r.told) : j < k
    /\ TextOf(f, k) \subseteq Elements(r.sent) \cup Elements(text)

Confirmed(f) == \E q \in Nat :
    /\ Confirms(f, q, log[f])
    /\ watch[f].op = "write" => Awaits(f, q, watch[f].n, content[watch[f].buf], log[f])

Texts(f) == f \in open /\ ~log[f].mixed => Confirmed(f) /\ (~log[f].overtaken => Ordered(f))
AllTexts == \A f \in Files : Texts(f)

-----------------------------------------------------------------------------
(* Sequences of pieces. *)

LEMMA AllTextFacts ==
    ASSUME NEW f \in Files, NEW n \in Nat
    PROVE  /\ AllText(f, n) \in Seq(Pieces) /\ Len(AllText(f, n)) = n
           /\ \A i \in 1 .. n : AllText(f, n)[i] = Own(f, i)
<1>1. \A i \in 1 .. n : Own(f, i) \in Pieces
  BY PieceTypes
<1> QED
  BY <1>1 DEF AllText

LEMMA BeginningIsNumbered ==
    ASSUME NEW f \in Files, NEW n \in Nat, NEW s \in Seq(Pieces), NEW u \in Seq(Pieces),
           s \o u = AllText(f, n)
    PROVE  Numbered(f, s) /\ Len(s) + Len(u) = n /\ Len(s) <= n
<1>1. /\ Len(s) \in Nat /\ Len(u) \in Nat /\ DOMAIN s = 1 .. Len(s)
      /\ Len(s \o u) = Len(s) + Len(u)
      /\ \A i \in 1 .. Len(s) + Len(u) : (s \o u)[i] = IF i <= Len(s) THEN s[i] ELSE u[i - Len(s)]
  BY ConcatProperties, LenProperties
<1>2. Len(s) + Len(u) = n
  BY <1>1, AllTextFacts
<1>3. ASSUME NEW i \in DOMAIN s PROVE s[i] = Own(f, i)
  <2>1. i \in 1 .. n /\ i <= Len(s) /\ i \in 1 .. Len(s) + Len(u)
    BY <1>1, <1>2
  <2> QED
    BY <1>1, <2>1, AllTextFacts
<1> QED
  BY <1>1, <1>2, <1>3 DEF Numbered

LEMMA Regroup ==
    ASSUME NEW s \in Seq(Pieces), NEW t \in Seq(Pieces), NEW u \in Seq(Pieces)
    PROVE  (s \o t) \o u = s \o (t \o u)
BY ConcatAssociative

\* The pieces sent and those that stay are what there was.
LEMMA CutInTwo ==
    ASSUME NEW s \in Seq(Pieces), NEW u \in Seq(Pieces), NEW n \in 0 .. Len(u)
    PROVE  /\ (s \o SubSeq(u, 1, n)) \o Rest(u, n) = s \o u
           /\ s \o SubSeq(u, 1, n) \in Seq(Pieces)
<1>1. SubSeq(u, 1, n) \in Seq(Pieces) /\ Rest(u, n) \in Seq(Pieces) /\ Len(u) \in Nat
  BY RestFacts, LenProperties
<1>2. SubSeq(u, 1, n) \o Rest(u, n) = u
  <2>1. 1 \in 1 .. Len(u) + 1 /\ n \in 1 - 1 .. Len(u) /\ Len(u) \in n .. Len(u)
    BY <1>1
  <2>2. SubSeq(u, 1, n) \o SubSeq(u, n + 1, Len(u)) = SubSeq(u, 1, Len(u))
    BY <2>1, ConcatAdjacentSubSeq
  <2> QED
    BY <2>2, SubSeqFull DEF Rest
<1> DEFINE v == SubSeq(u, 1, n)
           w == Rest(u, n)
<1>3. v \in Seq(Pieces) /\ w \in Seq(Pieces) /\ v \o w = u
  BY <1>1, <1>2
<1> HIDE DEF v, w
<1>4. (s \o v) \o w = s \o (v \o w)
  BY <1>3, Regroup
<1>5. s \o v \in Seq(Pieces)
  BY <1>3, ConcatProperties
<1> QED
  BY <1>3, <1>4, <1>5 DEF v, w

LEMMA ElementsOfConcat ==
    ASSUME NEW S, NEW s \in Seq(S), NEW t \in Seq(S)
    PROVE  Elements(s \o t) = Elements(s) \cup Elements(t)
<1>1. /\ Len(s) \in Nat /\ Len(t) \in Nat /\ s \o t \in Seq(S)
      /\ DOMAIN s = 1 .. Len(s) /\ DOMAIN t = 1 .. Len(t)
      /\ Len(s \o t) = Len(s) + Len(t)
      /\ \A i \in 1 .. Len(s) + Len(t) : (s \o t)[i] = IF i <= Len(s) THEN s[i] ELSE t[i - Len(s)]
  BY ConcatProperties, LenProperties
<1>2. DOMAIN (s \o t) = 1 .. Len(s) + Len(t)
  BY <1>1, LenProperties
<1>3. /\ \A i \in 1 .. Len(s) : i \in 1 .. Len(s) + Len(t) /\ (s \o t)[i] = s[i]
      /\ \A i \in 1 .. Len(t) : Len(s) + i \in 1 .. Len(s) + Len(t) /\ (s \o t)[Len(s) + i] = t[i]
  BY <1>1
<1>4. \A i \in 1 .. Len(s) + Len(t) : i \in 1 .. Len(s) \/ i - Len(s) \in 1 .. Len(t)
  BY <1>1
<1>5. \A i \in 1 .. Len(s) + Len(t) : (s \o t)[i] \in Elements(s) \cup Elements(t)
  <2> TAKE i \in 1 .. Len(s) + Len(t)
  <2>1. CASE i <= Len(s)
    BY <1>1, <2>1 DEF Elements
  <2>2. CASE ~(i <= Len(s))
    <3>1. i - Len(s) \in 1 .. Len(t)
      BY <1>1, <2>2
    <3> QED
      BY <1>1, <2>2, <3>1 DEF Elements
  <2> QED
    BY <2>1, <2>2
<1>6. Elements(s \o t) \subseteq Elements(s) \cup Elements(t)
  BY <1>2, <1>5 DEF Elements
<1>7. Elements(s) \cup Elements(t) \subseteq Elements(s \o t)
  <2> DEFINE u == s \o t
  <2>1. /\ \A i \in DOMAIN s : \E j \in DOMAIN u : u[j] = s[i]
        /\ \A i \in DOMAIN t : \E j \in DOMAIN u : u[j] = t[i]
    BY <1>1, <1>2, <1>3
  <2> HIDE DEF u
  <2>2. Elements(s) \cup Elements(t) \subseteq Elements(u)
    BY <2>1 DEF Elements
  <2> QED
    BY <2>2 DEF u
<1> QED
  BY <1>6, <1>7

\* What is sent of a buffer's text and what stays have its pieces.
LEMMA ElementsOfCut ==
    ASSUME NEW s \in Seq(Pieces), NEW u \in Seq(Pieces), NEW n \in 0 .. Len(u)
    PROVE  /\ Elements(s) \subseteq Elements(s \o SubSeq(u, 1, n))
           /\ Elements(s) \cup Elements(u) =
                 Elements(s \o SubSeq(u, 1, n)) \cup Elements(Rest(u, n))
<1>1. SubSeq(u, 1, n) \in Seq(Pieces) /\ Rest(u, n) \in Seq(Pieces)
  BY RestFacts
<1>2. s \o SubSeq(u, 1, n) \in Seq(Pieces) /\ (s \o SubSeq(u, 1, n)) \o Rest(u, n) = s \o u
  BY CutInTwo
<1> DEFINE v == SubSeq(u, 1, n)
           w == Rest(u, n)
           x == s \o v
<1>3. /\ v \in Seq(Pieces) /\ w \in Seq(Pieces) /\ x \in Seq(Pieces)
      /\ x = s \o v /\ x \o w = s \o u
  BY <1>1, <1>2
<1> HIDE DEF v, w, x
<1>4. Elements(x) = Elements(s) \cup Elements(v)
  BY <1>3, ElementsOfConcat
<1>5. Elements(x \o w) = Elements(x) \cup Elements(w)
  BY <1>3, ElementsOfConcat
<1>6. Elements(s \o u) = Elements(s) \cup Elements(u)
  BY ElementsOfConcat
<1>7. Elements(s) \subseteq Elements(x) /\ Elements(s) \cup Elements(u) = Elements(x) \cup Elements(w)
  BY <1>3, <1>4, <1>5, <1>6
<1> QED
  BY <1>7 DEF v, w, x

LEMMA ElementsOfRest ==
    ASSUME NEW u \in Seq(Pieces), NEW n \in 0 .. Len(u)
    PROVE  Elements(Rest(u, n)) \subseteq Elements(u)
<1> DEFINE w == Rest(u, n)
<1>1. /\ w \in Seq(Pieces) /\ Len(w) = Len(u) - n /\ \A i \in 1 .. Len(u) - n : w[i] = u[n + i]
  BY RestFacts
<1> HIDE DEF w
<1>2. DOMAIN w = 1 .. Len(u) - n /\ DOMAIN u = 1 .. Len(u) /\ Len(u) \in Nat
  BY <1>1, LenProperties
<1>3. \A i \in DOMAIN w : n + i \in DOMAIN u /\ w[i] = u[n + i]
  BY <1>1, <1>2
<1>4. Elements(w) \subseteq Elements(u)
  BY <1>3 DEF Elements
<1> QED
  BY <1>4 DEF w

\* A text more.
LEMMA NextText ==
    ASSUME Inv, NEW f \in Files, NEW s \in Seq(Pieces), NEW u \in Seq(Pieces),
           s \o u = AllText(f, log[f].written)
    PROVE  s \o (u \o Text(f)) = AllText(f, log[f].written + TextSize)
<1> DEFINE n == log[f].written
           a == AllText(f, n)
           t == Text(f)
           b == AllText(f, n + TextSize)
<1>1. n \in Nat /\ TextSize \in Nat /\ n + TextSize \in Nat
  <2>1. log[f].written \in Nat
    BY DEF Inv, TypeOK, Logs
  <2>2. TextSize \in Nat
    BY StreamAssumption
  <2> HIDE DEF n
  <2> QED
    BY <2>1, <2>2 DEF n
<1>2. /\ t \in Seq(Pieces) /\ Len(t) = TextSize /\ \A i \in 1 .. TextSize : t[i] = Own(f, n + i)
  BY TextFacts
<1>3. /\ a \in Seq(Pieces) /\ Len(a) = n /\ \A i \in 1 .. n : a[i] = Own(f, i)
      /\ b \in Seq(Pieces) /\ Len(b) = n + TextSize /\ \A i \in 1 .. n + TextSize : b[i] = Own(f, i)
  BY <1>1, AllTextFacts
<1> HIDE DEF a, b, t, n
<1>4. /\ a \o t \in Seq(Pieces) /\ Len(a \o t) = n + TextSize
      /\ \A i \in 1 .. n + TextSize : (a \o t)[i] = IF i <= n THEN a[i] ELSE t[i - n]
  BY <1>2, <1>3, ConcatProperties
<1>5. ASSUME NEW i \in 1 .. n + TextSize PROVE (a \o t)[i] = b[i]
  <2>1. CASE i <= n
    <3>1. i \in 1 .. n
      BY <1>1, <2>1
    <3> QED
      BY <1>3, <1>4, <2>1, <3>1
  <2>2. CASE ~(i <= n)
    <3>1. i - n \in 1 .. TextSize /\ n + (i - n) = i
      BY <1>1, <2>2
    <3>2. t[i - n] = Own(f, n + (i - n))
      BY <1>2, <3>1
    <3> QED
      BY <1>3, <1>4, <2>2, <3>1, <3>2
  <2> QED
    BY <2>1, <2>2
<1>6. a \o t = b
  <2> DEFINE c == a \o t
  <2>1. c \in Seq(Pieces) /\ Len(c) = Len(b) /\ \A i \in 1 .. Len(c) : c[i] = b[i]
    BY <1>3, <1>4, <1>5
  <2> HIDE DEF c
  <2>2. c = b
    BY <1>3, <2>1, SeqEqual
  <2> QED
    BY <2>2 DEF c
<1>7. (s \o u) \o t = s \o (u \o t)
  BY <1>2, Regroup
<1> QED
  BY <1>6, <1>7 DEF a, b, t, n

LEMMA NumberedIs ==
    ASSUME NEW f \in Files, NEW n \in Nat, NEW s \in Seq(Pieces), Numbered(f, s), Len(s) = n
    PROVE  s = AllText(f, n)
<1>1. DOMAIN s = 1 .. n
  BY LenProperties
<1> DEFINE a == AllText(f, n)
<1>2. a \in Seq(Pieces) /\ Len(a) = n /\ \A i \in 1 .. Len(s) : s[i] = a[i]
  BY <1>1, AllTextFacts DEF Numbered
<1> HIDE DEF a
<1>3. s = a
  BY <1>2, SeqEqual
<1> QED
  BY <1>3 DEF a

\* If nothing written waits elsewhere, all of it is sent.
LEMMA AllSent ==
    ASSUME NEW f \in Files, NEW n \in Nat, NEW s \in Seq(Pieces),
           Numbered(f, s), Len(s) <= n, {Own(f, i) : i \in 1 .. n} \subseteq Elements(s)
    PROVE  s = AllText(f, n) /\ Len(s) = n
<1>1. Len(s) \in Nat /\ DOMAIN s = 1 .. Len(s)
  BY LenProperties
<1>2. Len(s) = n
  <2> SUFFICES ASSUME Len(s) # n PROVE FALSE
    OBVIOUS
  <2> DEFINE l == Len(s)
  <2>1. l \in Nat /\ l <= n /\ l # n
    BY <1>1
  <2> HIDE DEF l
  <2>0. n \in 1 .. n /\ l < n
    BY <2>1
  <2>2. PICK j \in DOMAIN s : s[j] = Own(f, n)
    BY <2>0 DEF Elements
  <2>3. Own(f, j) = Own(f, n)
    BY <2>2 DEF Numbered
  <2>4. j = n
    BY <2>3 DEF Own
  <2>5. n \in 1 .. l
    BY <1>1, <2>2, <2>4 DEF l
  <2> QED
    BY <2>1, <2>5
<1> QED
  BY <1>2, NumberedIs

\* The k-th text is the one written after k - 1 of them.
LEMMA NumberOfText ==
    ASSUME Inv, NEW f \in Files, NEW q \in Nat, log[f].written = q * TextSize
    PROVE  /\ Number(f) = q + 1 /\ log[f].written + TextSize = (q + 1) * TextSize
           /\ TextOf(f, q + 1) = Elements(Text(f))
<1>1. TextSize \in Nat \ {0} /\ q * TextSize \in Nat /\ (q + 1) * TextSize = q * TextSize + TextSize
  BY StreamAssumption
<1>2. (q * TextSize) \div TextSize = q
  BY <1>1
<1>3. Number(f) = q + 1
  BY <1>2 DEF Number
<1>4. TextOf(f, q + 1) = {Own(f, i) : i \in q * TextSize + 1 .. q * TextSize + TextSize}
  <2>1. (q + 1) - 1 = q
    OBVIOUS
  <2> QED
    BY <1>1, <2>1 DEF TextOf
<1>5. Elements(Text(f)) = {Own(f, q * TextSize + i) : i \in 1 .. TextSize}
  BY <1>1 DEF Elements, Text
<1>6. {Own(f, q * TextSize + i) : i \in 1 .. TextSize}
         = {Own(f, i) : i \in q * TextSize + 1 .. q * TextSize + TextSize}
  <2> DEFINE m == q * TextSize
             t == TextSize
  <2>1. m \in Nat /\ t \in Nat
    BY <1>1
  <2> HIDE DEF m, t
  <2>2. /\ \A i \in 1 .. t : m + i \in m + 1 .. m + t
        /\ \A i \in m + 1 .. m + t : i - m \in 1 .. t /\ m + (i - m) = i
    BY <2>1
  <2>3. {Own(f, m + i) : i \in 1 .. t} = {Own(f, i) : i \in m + 1 .. m + t}
    BY <2>2
  <2> QED
    BY <2>3 DEF m, t
<1> QED
  BY <1>1, <1>3, <1>4, <1>5, <1>6


LEMMA Appended ==
    ASSUME NEW t \in Seq(Nat), NEW k \in Nat
    PROVE  /\ Append(t, k) \in Seq(Nat) /\ Elements(Append(t, k)) = Elements(t) \cup {k}
           /\ Increasing(t) /\ (\A j \in Elements(t) : j < k) => Increasing(Append(t, k))
<1> DEFINE u == Append(t, k)
           l == Len(t)
<1>1. /\ l \in Nat /\ DOMAIN t = 1 .. l
      /\ u \in Seq(Nat) /\ DOMAIN u = 1 .. l + 1 /\ u[l + 1] = k
      /\ \A i \in 1 .. l : u[i] = t[i] /\ t[i] \in Nat
  BY AppendProperties, LenProperties, ElementOfSeq
<1> HIDE DEF u, l
<1>2. \A i \in 1 .. l + 1 : i \in 1 .. l \/ i = l + 1
  BY <1>1
<1>3. \A i \in 1 .. l : i \in 1 .. l + 1
  BY <1>1
<1>4. l + 1 \in 1 .. l + 1
  BY <1>1
<1>5. Elements(u) = Elements(t) \cup {k}
  <2>1. Elements(u) \subseteq Elements(t) \cup {k}
    BY <1>1, <1>2 DEF Elements
  <2>2. Elements(t) \cup {k} \subseteq Elements(u)
    BY <1>1, <1>3, <1>4 DEF Elements
  <2> QED
    BY <2>1, <2>2
<1>6. ASSUME Increasing(t), \A j \in Elements(t) : j < k PROVE Increasing(u)
  <2>1. ASSUME NEW i \in 1 .. l + 1, NEW j \in 1 .. l + 1, i < j PROVE u[i] < u[j]
    <3>1. i \in 1 .. l
      BY <1>1, <2>1
    <3>2. CASE j \in 1 .. l
      BY <1>1, <1>6, <2>1, <3>1, <3>2 DEF Increasing
    <3>3. CASE j = l + 1
      BY <1>1, <1>6, <3>1, <3>3 DEF Elements
    <3> QED
      BY <1>2, <3>2, <3>3
  <2> QED
    BY <1>1, <2>1 DEF Increasing
<1> QED
  BY <1>1, <1>5, <1>6 DEF u

-----------------------------------------------------------------------------
(* What a step must leave for this to hold again. *)

LEMMA OrderedAfter ==
    ASSUME NEW f \in Files, NEW b, NEW x \in Seq(Pieces), NEW rest \in Seq(Pieces), NEW n \in Nat,
           x \o rest = AllText(f, n),
           log'[f].sent = x, log'[f].written = n, content'[b] = rest,
           b # buf'[f] => ~Holds(buf[f], "script")',
           watch'[f].op \in {"write", "until"} => watch'[f].buf = b,
           watch'[f].op \notin {"write", "until"} => rest = << >>
    PROVE  Ordered(f)'
<1>0. Len(x) \in Nat
  BY LenProperties
<1>1. Numbered(f, x) /\ Len(x) <= n /\ Len(x) + Len(rest) = n
  BY ONLY f \in Files, x \in Seq(Pieces), rest \in Seq(Pieces), n \in Nat,
     x \o rest = AllText(f, n), BeginningIsNumbered
<1>2. Numbered(f, log[f].sent)' /\ Len(log'[f].sent) <= log'[f].written
  BY <1>1 DEF Numbered
<1>3. watch'[f].op \in {"write", "until"} =>
         log'[f].sent \o content'[watch'[f].buf] = AllText(f, log[f].written)'
  BY DEF AllText
<1>4. buf'[f] # 0 /\ Holds(buf[f], "script")' =>
         /\ log'[f].sent \o content'[buf'[f]] = AllText(f, log[f].written)'
         /\ watch'[f].op = "write" => watch'[f].buf = buf'[f]
  BY DEF AllText
<1>5. watch'[f].op \notin {"write", "until"} => Len(log'[f].sent) = log'[f].written
  <2>1. rest = << >> => Len(rest) = 0
    OBVIOUS
  <2> QED
    BY <1>0, <1>1, <2>1
<1> QED
  BY <1>2, <1>3, <1>4, <1>5 DEF Ordered

LEMMA SentMore ==
    ASSUME NEW f \in Files, NEW q \in Nat, NEW r \in Logs, Confirms(f, q, r),
           NEW p, p.written = r.written, p.told = r.told, Elements(r.sent) \subseteq Elements(p.sent)
    PROVE  Confirms(f, q, p)
BY DEF Confirms

LEMMA ToldMore ==
    ASSUME NEW f \in Files, NEW q \in Nat, NEW r \in Logs, NEW k \in Nat, NEW text,
           Confirms(f, q, r), Awaits(f, q, k, text, r),
           NEW p, p.written = r.written, p.told = Append(r.told, k),
           Elements(r.sent) \cup Elements(text) \subseteq Elements(p.sent)
    PROVE  Confirms(f, q, p)
<1>1. r.told \in Seq(Nat)
  BY DEF Logs
<1>2. Elements(p.told) = Elements(r.told) \cup {k} /\ Increasing(p.told)
  BY <1>1, Appended DEF Confirms, Awaits
<1> QED
  BY <1>2 DEF Confirms, Awaits

-----------------------------------------------------------------------------
(* Steps of another connection change nothing of this. *)

LEMMA TextsElsewhere ==
    ASSUME Inv, AllTexts, NEW f \in Files, Only(f), Texts(f)',
           NEW b, \A g \in Files \ {f} : b \notin Owned(g),
           \A c \in Buffers : c # b /\ c # buf[f] => content'[c] = content[c]
    PROVE  AllTexts'
<1>1. ASSUME NEW g \in Files, g # f PROVE Texts(g)'
  <2>1. /\ buf'[g] = buf[g] /\ watch'[g] = watch[g] /\ log'[g] = log[g]
        /\ g \in open' <=> g \in open
    BY <1>1 DEF Only
  <2>2. \A c \in Owned(g) : content'[c] = content[c]
    <3>1. \A c \in Owned(g) : c \in Buffers
      BY OwnedFacts DEF Owned
    <3>2. \A c \in Owned(g) : c # buf[f]
      BY <1>1, <3>1, OwnedFacts DEF Buffers
    <3> QED
      BY <1>1, <3>1, <3>2
  <2>3. buf[g] # 0 => content'[buf[g]] = content[buf[g]]
    BY <2>2, OwnedFacts
  <2>4. watch[g].op \in {"write", "until"} => content'[watch[g].buf] = content[watch[g].buf]
    BY <2>2, OwnedFacts DEF Inv, FileOK
  <2>5. Confirmed(g) => Confirmed(g)'
    <3>1. ASSUME NEW q \in Nat, Confirms(g, q, log[g]),
                 watch[g].op = "write" => Awaits(g, q, watch[g].n, content[watch[g].buf], log[g])
          PROVE  Confirmed(g)'
      <4>1. Confirms(g, q, log[g])'
        BY <2>1, <3>1 DEF Confirms, TextOf, Elements, Increasing
      <4>2. watch'[g].op = "write" => Awaits(g, q, watch[g].n, content[watch[g].buf], log[g])'
        BY <2>1, <2>4, <3>1 DEF Awaits, TextOf, Elements
      <4> QED
        BY <4>1, <4>2 DEF Confirmed
    <3> QED
      BY <3>1 DEF Confirmed
  <2>6. Ordered(g) => Ordered(g)'
    BY <2>1, <2>3, <2>4 DEF Ordered, Numbered, AllText, Holds
  <2> QED
    BY <2>1, <2>5, <2>6 DEF AllTexts, Texts
<1> QED
  BY <1>1 DEF AllTexts

LEMMA SameTexts ==
    ASSUME NEW f \in Files, Texts(f), UNCHANGED <<open, watch, buf, content, log>>
    PROVE  Texts(f)'
<1>1. Confirmed(f) => Confirmed(f)'
  <2>1. ASSUME NEW q \in Nat, Confirms(f, q, log[f]),
               watch[f].op = "write" => Awaits(f, q, watch[f].n, content[watch[f].buf], log[f])
        PROVE  Confirmed(f)'
    <3>1. Confirms(f, q, log[f])'
      BY <2>1 DEF Confirms, TextOf, Elements, Increasing
    <3>2. watch'[f].op = "write" => Awaits(f, q, watch[f].n, content[watch[f].buf], log[f])'
      BY <2>1 DEF Awaits, TextOf, Elements
    <3> QED
      BY <3>1, <3>2 DEF Confirmed
  <2> QED
    BY <2>1 DEF Confirmed
<1>2. Ordered(f) => Ordered(f)'
  BY DEF Ordered, Numbered, AllText, Holds
<1> QED
  BY <1>1, <1>2 DEF Texts

LEMMA ClosingTexts ==
    ASSUME Inv, AllTexts, NEW f \in Files, f \in open, NEW free, NEW b,
           \A g \in Files \ {f} : b \notin Owned(g), Closing(f, free, content)
    PROVE  AllTexts'
<1>1. open' = open \ {f} /\ Only(f)
  BY DEF Closing, Only, Inv, TypeOK
<1>2. \A c \in Buffers : c # b /\ c # buf[f] => content'[c] = content[c]
  BY DEF Closing, Inv, TypeOK
<1>3. Texts(f)'
  BY <1>1 DEF Texts
<1> QED
  BY <1>1, <1>2, <1>3, TextsElsewhere

-----------------------------------------------------------------------------
(* Writing. *)

\* The script asks that the k-th text be written, and its callback be called after it.
Asks(f, k, text, r) == \E q \in Nat : Confirms(f, q, r) /\ Awaits(f, q, k, text, r)

\* All that is written is sent or in text, which is in b, and none of it elsewhere.
Follows(f, b, text, r) ==
    /\ r.sent \o text = AllText(f, r.written)
    /\ b # buf[f] => ~Holds(buf[f], "script")

LEMMA SendTexts ==
    ASSUME Inv, AllTexts, NEW f \in Files, f \in open,
           NEW b \in Buffers, \A g \in Files \ {f} : b \notin Owned(g),
           NEW text \in Seq(Pieces), NEW n \in 0 .. Len(text), NEW r \in Logs,
           Sending(f, b, text, n, r), UNCHANGED <<open, peer, buf>>,
           \A g \in Files \ {f} : watch'[g] = watch[g],
           watch'[f].op \in {"write", "until"} => watch'[f].buf = b,
           watch'[f].op \notin {"write", "until"} => n = Len(text),
           ~r.mixed => Confirmed(f)',
           ~r.mixed /\ ~r.overtaken => Follows(f, b, text, r)
    PROVE  AllTexts'
<1>1. /\ content'[b] = Rest(text, n) /\ \A c \in Buffers : c # b => content'[c] = content[c]
      /\ log'[f] = [r EXCEPT !.sent = @ \o SubSeq(text, 1, n)]
      /\ \A g \in Files \ {f} : log'[g] = log[g]
  BY DEF Sending, Inv, TypeOK
<1>2. /\ r.sent \in Seq(Pieces) /\ r.written \in Nat
      /\ log'[f].sent = r.sent \o SubSeq(text, 1, n) /\ log'[f].written = r.written
      /\ log'[f].mixed = r.mixed /\ log'[f].overtaken = r.overtaken
  BY <1>1 DEF Logs
<1>3. Only(f)
  BY <1>1 DEF Only
<1>4. ASSUME ~r.mixed, ~r.overtaken PROVE Ordered(f)'
  <2> DEFINE x == r.sent \o SubSeq(text, 1, n)
             rest == Rest(text, n)
  <2>1. /\ x \in Seq(Pieces) /\ rest \in Seq(Pieces)
        /\ x \o rest = r.sent \o text
    BY <1>2, CutInTwo, RestFacts
  <2>2. x \o rest = AllText(f, r.written)
    BY <1>4, <2>1 DEF Follows
  <2>3. b # buf'[f] => ~Holds(buf[f], "script")'
    <3>1. b # buf[f] => ~Holds(buf[f], "script") /\ content'[buf[f]] = content[buf[f]]
      <4>1. content' = [content EXCEPT ![b] = Rest(text, n)]
        BY DEF Sending
      <4> QED
        BY <1>4, <4>1 DEF Follows, Inv, TypeOK
    <3> QED
      BY <3>1 DEF Holds
  <2>4. watch'[f].op \notin {"write", "until"} => rest = << >>
    <3>1. n = Len(text) => Len(rest) = 0
      BY RestFacts, LenProperties
    <3> QED
      BY <2>1, <3>1, EmptySeq
  <2>5. log'[f].sent = x /\ log'[f].written = r.written /\ content'[b] = rest
    BY <1>1, <1>2
  <2> HIDE DEF x, rest
  <2> QED
    BY <1>2, <2>1, <2>2, <2>3, <2>4, <2>5, OrderedAfter
<1>5. Texts(f)'
  BY <1>2, <1>4 DEF Texts
<1>6. \A c \in Buffers : c # b /\ c # buf[f] => content'[c] = content[c]
  BY <1>1
<1> QED
  BY ONLY Inv, AllTexts, f \in Files, Only(f), Texts(f)', \A g \in Files \ {f} : b \notin Owned(g),
     \A c \in Buffers : c # b /\ c # buf[f] => content'[c] = content[c],
     <1>3, <1>5, <1>6, TextsElsewhere

LEMMA WriteTexts ==
    ASSUME Inv, AllTexts, NEW f \in Files, f \in open,
           NEW b \in Buffers, \A g \in Files \ {f} : b \notin Owned(g),
           NEW text \in Seq(Pieces), NEW k \in Nat, NEW free, NEW least \in Nat, NEW r \in Logs,
           WriteBuffer(f, b, text, k, free, least, r),
           ~r.mixed => Asks(f, k, text, r),
           ~r.mixed /\ ~r.overtaken => Follows(f, b, text, r)
    PROVE  AllTexts'
<1>0. Len(text) \in Nat /\ r.sent \in Seq(Pieces) /\ r.told \in Seq(Nat)
  BY LenProperties DEF Logs
<1>1. CASE SendFails(f, b, text, free)
  <2>1. CASE \E left : Closing(f, left, content)
    <3>1. PICK left : Closing(f, left, content)
      BY <2>1
    <3> QED
      BY <3>1, ClosingTexts
  <2>2. CASE UNCHANGED <<open, peer, watch, buf, content, log>>
    <3>1. Only(f)
      BY <2>2 DEF Only
    <3>2. Texts(f)'
      BY <2>2, SameTexts DEF AllTexts
    <3> QED
      BY <2>2, <3>1, <3>2, TextsElsewhere
  <2> QED
    BY <1>1, <2>1, <2>2 DEF SendFails
<1>2. CASE /\ Sending(f, b, text, Len(text), [r EXCEPT !.told = Append(@, k)])
           /\ Watching(f, "empty", 0, 0)
           /\ UNCHANGED <<open, peer, buf>>
  <2> DEFINE p == [r EXCEPT !.told = Append(@, k)]
             n == Len(text)
  <2>1. p \in Logs /\ n \in 0 .. Len(text)
    <3>1. Append(r.told, k) \in Seq(Nat)
      BY <1>0, Appended
    <3>2. p \in Logs
      BY <3>1 DEF Logs
    <3> QED
      BY <1>0, <3>2
  <2>2. /\ p.sent = r.sent /\ p.written = r.written /\ p.mixed = r.mixed
        /\ p.overtaken = r.overtaken /\ p.told = Append(r.told, k)
    BY DEF Logs
  <2>3. Sending(f, b, text, n, p)
    BY <1>2
  <2> HIDE DEF p
  <2>4. log'[f] = [p EXCEPT !.sent = @ \o SubSeq(text, 1, n)]
    BY <2>3 DEF Sending, Inv, TypeOK
  <2>5. watch'[f].op = "empty" /\ \A g \in Files \ {f} : watch'[g] = watch[g]
    BY <1>2 DEF Watching, Inv, TypeOK
  <2>6. ASSUME ~p.mixed PROVE Confirmed(f)'
    <3>1. PICK q \in Nat : Confirms(f, q, r) /\ Awaits(f, q, k, text, r)
      BY <2>2, <2>6 DEF Asks
    <3>2. /\ log'[f].written = r.written /\ log'[f].told = Append(r.told, k)
          /\ log'[f].sent = r.sent \o SubSeq(text, 1, n)
      BY <2>1, <2>2, <2>4 DEF Logs
    <3>3. SubSeq(text, 1, n) = text
      BY SubSeqFull
    <3>4. Elements(r.sent \o text) = Elements(r.sent) \cup Elements(text)
      BY <1>0, ElementsOfConcat
    <3>5. PICK l : l = log'[f]
      OBVIOUS
    <3>6. Confirms(f, q, l)
      <4>1. l.written = r.written /\ l.told = Append(r.told, k) /\ l.sent = r.sent \o text
        BY <3>2, <3>3, <3>5
      <4>2. Elements(r.sent) \cup Elements(text) \subseteq Elements(l.sent)
        BY <3>4, <4>1
      <4> QED
        BY <3>1, <4>1, <4>2, ToldMore
    <3>7. Confirms(f, q, log[f])'
      BY <3>5, <3>6 DEF Confirms, TextOf, Elements, Increasing
    <3> QED
      BY <2>5, <3>7 DEF Confirmed
  <2>7. ~p.mixed /\ ~p.overtaken => Follows(f, b, text, p)
    BY <2>2 DEF Follows
  <2> QED
    BY <1>2, <2>1, <2>3, <2>5, <2>6, <2>7, SendTexts
<1>3. CASE /\ \E n \in least .. Len(text) - 1 : Sending(f, b, text, n, r)
           /\ Watching(f, "write", b, k)
           /\ UNCHANGED <<open, peer, buf>>
  <2>1. PICK n \in 0 .. Len(text) : Sending(f, b, text, n, r)
    BY <1>0, <1>3
  <2>2. /\ log'[f] = [r EXCEPT !.sent = @ \o SubSeq(text, 1, n)]
        /\ content'[b] = Rest(text, n)
    BY <2>1 DEF Sending, Inv, TypeOK
  <2>3. /\ watch'[f].op = "write" /\ watch'[f].buf = b /\ watch'[f].n = k
        /\ \A g \in Files \ {f} : watch'[g] = watch[g]
    BY <1>3 DEF Watching, Inv, TypeOK
  <2>4. ASSUME ~r.mixed PROVE Confirmed(f)'
    <3>1. PICK q \in Nat : Confirms(f, q, r) /\ Awaits(f, q, k, text, r)
      BY <2>4 DEF Asks
    <3>2. PICK l : l = log'[f]
      OBVIOUS
    <3>3. /\ l.written = r.written /\ l.told = r.told
          /\ l.sent = r.sent \o SubSeq(text, 1, n)
      BY <2>2, <3>2 DEF Logs
    <3>4. /\ Elements(r.sent) \subseteq Elements(l.sent)
          /\ Elements(r.sent) \cup Elements(text) = Elements(l.sent) \cup Elements(Rest(text, n))
      BY <1>0, <3>3, ElementsOfCut
    <3>5. Confirms(f, q, l)
      BY <3>1, <3>3, <3>4, SentMore
    <3>6. Awaits(f, q, k, Rest(text, n), l)
      BY <3>1, <3>3, <3>4 DEF Awaits
    <3>7. Confirms(f, q, log[f])'
      BY <3>2, <3>5 DEF Confirms, TextOf, Elements, Increasing
    <3>8. Awaits(f, q, watch[f].n, content[watch[f].buf], log[f])'
      <4>1. watch'[f].n = k /\ content'[watch'[f].buf] = Rest(text, n) /\ log'[f] = l
        BY <2>2, <2>3, <3>2
      <4> QED
        BY <3>6, <4>1 DEF Awaits, TextOf, Elements
    <3> QED
      BY <3>7, <3>8 DEF Confirmed
  <2> QED
    BY <1>3, <2>1, <2>3, <2>4, SendTexts
<1> QED
  BY <1>1, <1>2, <1>3 DEF WriteBuffer

LEMMA AsksNext ==
    ASSUME Inv, AllTexts, NEW f \in Files, f \in open, ~log[f].mixed,
           NEW before, NEW text, Elements(Text(f)) \subseteq Elements(text)
    PROVE  Asks(f, Number(f), text, Written(f, before))
<1>1. PICK q \in Nat : Confirms(f, q, log[f])
  BY DEF AllTexts, Texts, Confirmed
<1>2. /\ Number(f) = q + 1 /\ log[f].written + TextSize = (q + 1) * TextSize
      /\ TextOf(f, q + 1) = Elements(Text(f))
  BY <1>1, NumberOfText DEF Confirms
<1>3. PICK r : r = Written(f, before)
  OBVIOUS
<1>4. r.written = (q + 1) * TextSize /\ r.told = log[f].told /\ r.sent = log[f].sent
  BY <1>2, <1>3, WrittenFields
<1>5. Elements(r.told) \subseteq 1 .. q /\ q + 1 \in Nat
  BY <1>1, <1>4 DEF Confirms
<1>6. Confirms(f, q + 1, r)
  <2>1. Elements(r.told) \subseteq 1 .. q + 1
    BY <1>5
  <2> QED
    BY <1>1, <1>4, <2>1 DEF Confirms
<1>7. Awaits(f, q + 1, Number(f), text, r)
  <2>1. Number(f) \in 1 .. q + 1 /\ \A j \in Elements(r.told) : j < Number(f)
    BY <1>2, <1>5
  <2>2. TextOf(f, Number(f)) \subseteq Elements(r.sent) \cup Elements(text)
    BY <1>2
  <2> QED
    BY <2>1, <2>2 DEF Awaits
<1> QED
  BY <1>3, <1>5, <1>6, <1>7 DEF Asks

LEMMA EmptyBox ==
    ASSUME NEW f \in Files, NEW s \in Seq(Pieces), OwnText(f, s), ~Has(s, "script")
    PROVE  s = << >>
<1>1. DOMAIN s = 1 .. Len(s) /\ Len(s) \in Nat
  BY LenProperties
<1>2. DOMAIN s = {}
  BY DEF OwnText, Has, Elements
<1>3. Len(s) # 0 => 1 \in 1 .. Len(s)
  BY <1>1
<1> QED
  BY <1>1, <1>2, <1>3, EmptySeq

LEMMA NothingElsewhere ==
    ASSUME Inv, AllTexts, NEW f \in Files, f \in open, ~log[f].mixed, ~log[f].overtaken,
           Unsent(f) = {}
    PROVE  log[f].sent = AllText(f, log[f].written) /\ Len(log[f].sent) = log[f].written
<1>1. log[f].sent \in Seq(Pieces) /\ log[f].written \in Nat
  BY DEF Inv, TypeOK, Logs
<1>2. Numbered(f, log[f].sent) /\ Len(log[f].sent) <= log[f].written
  BY DEF AllTexts, Texts, Ordered
<1>3. {Own(f, i) : i \in 1 .. log[f].written} \subseteq Elements(log[f].sent)
  BY DEF Unsent
<1> QED
  BY <1>1, <1>2, <1>3, AllSent

\* If all that waits is in the stream's buffer, the buffer follows what is sent.
LEMMA BoxFollows ==
    ASSUME Inv, AllTexts, NEW f \in Files, f \in open, ~log[f].mixed, ~log[f].overtaken,
           buf[f] \in Buffers, OwnText(f, content[buf[f]]),
           Unsent(f) \subseteq Elements(content[buf[f]])
    PROVE  log[f].sent \o content[buf[f]] = AllText(f, log[f].written)
<1>1. content[buf[f]] \in Seq(Pieces) /\ log[f].sent \in Seq(Pieces) /\ buf[f] # 0
  BY DEF Inv, TypeOK, Logs, Buffers
<1>2. CASE Holds(buf[f], "script")
  BY <1>1, <1>2 DEF AllTexts, Texts, Ordered
<1>3. CASE ~Holds(buf[f], "script")
  <2>1. content[buf[f]] = << >>
    BY <1>1, <1>3, EmptyBox DEF Holds
  <2>2. Unsent(f) = {}
    BY <2>1 DEF Elements
  <2>3. log[f].sent \o << >> = log[f].sent
    BY <1>1, ConcatEmptySeq
  <2> QED
    BY <2>1, <2>2, <2>3, NothingElsewhere
<1> QED
  BY <1>2, <1>3

\* The next text behind the stream's buffer.
LEMMA BehindTheBox ==
    ASSUME Inv, AllSides, AllTexts, NEW f \in Files, f \in open, buf[f] # 0,
           NEW r, r = Written(f, content[buf[f]]), ~r.mixed
    PROVE  /\ Asks(f, Number(f), content[buf[f]] \o Text(f), r)
           /\ ~r.overtaken => Follows(f, buf[f], content[buf[f]] \o Text(f), r)
<1> DEFINE box == content[buf[f]]
           t == Text(f)
<1>1. /\ ~log[f].mixed /\ ~Holds(buf[f], "peer") /\ buf[f] \in Buffers
      /\ r.sent = log[f].sent /\ r.written = log[f].written + TextSize
      /\ r.overtaken = (log[f].overtaken \/ ~(Unsent(f) \subseteq Elements(box)))
  BY WrittenFields, OwnedFacts DEF Holds
<1>2. OwnText(f, box)
  BY <1>1, OpenBox, BoxFacts DEF OwnBox
<1>3. /\ box \in Seq(Pieces) /\ t \in Seq(Pieces) /\ log[f].sent \in Seq(Pieces)
  BY <1>1, TextFacts DEF Inv, TypeOK, Logs
<1>4. Asks(f, Number(f), box \o t, r)
  <2>1. Elements(t) \subseteq Elements(box \o t)
    BY <1>3, ElementsOfConcat
  <2> QED
    BY <1>1, <2>1, AsksNext
<1>5. ASSUME ~r.overtaken PROVE Follows(f, buf[f], box \o t, r)
  <2>1. log[f].sent \o box = AllText(f, log[f].written)
    BY <1>1, <1>2, <1>5, BoxFollows
  <2>2. log[f].sent \o (box \o t) = AllText(f, log[f].written + TextSize)
    BY <1>3, <2>1, NextText
  <2> QED
    BY <1>1, <2>2 DEF Follows
<1> QED
  BY <1>4, <1>5

LEMMA StreamWriteTexts ==
    ASSUME Inv, AllSides, AllTexts, NEW f \in Files, StreamWrite(f)
    PROVE  AllTexts'
<1> DEFINE b == buf[f]
           r == Written(f, content[b])
           text == content[b] \o Text(f)
<1>1. /\ f \in open /\ b # 0 /\ b \in Buffers /\ content[b] \in Seq(Pieces)
      /\ \A g \in Files \ {f} : b \notin Owned(g)
  BY KnownFacts, OwnedFacts DEF StreamWrite, Writing
<1>2. text \in Seq(Pieces) /\ Number(f) \in Nat /\ r \in Logs
  BY <1>1, TextFacts, WrittenType, ConcatProperties
<1>3. /\ ~r.mixed => Asks(f, Number(f), text, r)
      /\ ~r.mixed /\ ~r.overtaken => Follows(f, b, text, r)
  BY <1>1, BehindTheBox
<1>4. WriteBuffer(f, b, text, Number(f), pool, 0, r) /\ 0 \in Nat
  BY DEF StreamWrite
<1> HIDE DEF b, r, text
<1> QED
  BY <1>1, <1>2, <1>3, <1>4, WriteTexts

LEMMA WriteUntilTexts ==
    ASSUME Inv, AllSides, AllTexts, NEW f \in Files, WriteUntil(f)
    PROVE  AllTexts'
<1> DEFINE b == buf[f]
           r == Written(f, content[b])
           text == content[b] \o Text(f)
<1>1. /\ f \in open /\ b # 0 /\ b \in Buffers /\ content[b] \in Seq(Pieces)
      /\ \A g \in Files \ {f} : b \notin Owned(g)
  BY KnownFacts, OwnedFacts DEF WriteUntil, Writing
<1>2. text \in Seq(Pieces) /\ r \in Logs
  BY <1>1, TextFacts, WrittenType, ConcatProperties
<1>3. /\ content'[b] = text /\ log'[f] = r /\ watch'[f].op = "until" /\ watch'[f].buf = b
      /\ \A c \in Buffers : c # b => content'[c] = content[c]
      /\ buf' = buf /\ Only(f)
  BY <1>1 DEF WriteUntil, Watching, Only, Inv, TypeOK
<1>4. /\ ~r.mixed => Asks(f, Number(f), text, r)
      /\ ~r.mixed /\ ~r.overtaken => Follows(f, b, text, r)
  BY <1>1, BehindTheBox
<1>5. PICK l : l = r
  OBVIOUS
<1>6. PICK u : u = text
  OBVIOUS
<1>7. ASSUME ~r.mixed PROVE Confirmed(f)'
  <2>1. PICK q \in Nat : Confirms(f, q, l)
    BY <1>4, <1>5, <1>7 DEF Asks
  <2>2. Confirms(f, q, log[f])'
    <3>1. log'[f] = l
      BY <1>3, <1>5
    <3> QED
      BY <2>1, <3>1 DEF Confirms, TextOf, Elements, Increasing
  <2> QED
    BY <1>3, <2>2 DEF Confirmed
<1>8. ASSUME ~r.mixed, ~r.overtaken PROVE Ordered(f)'
  <2>1. /\ l.sent \in Seq(Pieces) /\ u \in Seq(Pieces) /\ l.written \in Nat
        /\ l.sent \o u = AllText(f, l.written)
    BY <1>2, <1>4, <1>5, <1>6, <1>8 DEF Follows, Logs
  <2>2. /\ log'[f].sent = l.sent /\ log'[f].written = l.written /\ content'[b] = u
        /\ watch'[f].op = "until" /\ watch'[f].buf = b /\ b = buf'[f]
    BY <1>3, <1>5, <1>6
  <2> HIDE DEF b, r, text
  <2> QED
    BY <2>1, <2>2, OrderedAfter
<1>9. Texts(f)'
  BY <1>3, <1>7, <1>8 DEF Texts
<1> QED
  BY <1>1, <1>3, <1>9, TextsElsewhere

LEMMA SocketWriteTexts ==
    ASSUME Inv, AllSides, AllTexts, NEW f \in Files, SocketWriteUtf8(f)
    PROVE  AllTexts'
<1> DEFINE b == Popped
           r == Written(f, << >>)
           t == Text(f)
<1>1. f \in open /\ buf[f] # 0 /\ buf[f] \in Owned(f) /\ buf[f] \in Buffers
  BY KnownFacts, OwnedFacts DEF SocketWriteUtf8, Writing
<1>2. b \in Buffers /\ (\A g \in Files : b \notin Owned(g)) /\ b # buf[f]
  BY <1>1, PopFacts DEF SocketWriteUtf8
<1>3. t \in Seq(Pieces) /\ Number(f) \in Nat /\ r \in Logs
  BY <1>2, TextFacts, WrittenType
<1>4. /\ r.sent = log[f].sent /\ r.written = log[f].written + TextSize
      /\ ~r.mixed => ~log[f].mixed
      /\ ~r.overtaken => ~log[f].overtaken /\ Unsent(f) = {}
  <2>1. Elements(<< >>) = {}
    BY DEF Elements
  <2>2. /\ r.sent = log[f].sent /\ r.written = log[f].written + TextSize
        /\ r.mixed = (log[f].mixed \/ Has(<< >>, "peer"))
        /\ r.overtaken = (log[f].overtaken \/ ~(Unsent(f) \subseteq Elements(<< >>)))
    BY WrittenFields
  <2> HIDE DEF r
  <2> QED
    BY <2>1, <2>2
<1>5. ~r.mixed => Asks(f, Number(f), t, r)
  BY <1>1, <1>4, AsksNext
<1>6. ASSUME ~r.mixed, ~r.overtaken PROVE Follows(f, b, t, r)
  <2>1. ~log[f].mixed /\ ~log[f].overtaken /\ Unsent(f) = {}
    BY <1>4, <1>6
  <2>2. /\ log[f].sent \in Seq(Pieces) /\ log[f].written \in Nat
        /\ content[buf[f]] \in Seq(Pieces)
    BY <1>1 DEF Inv, TypeOK, Logs
  <2>3. /\ log[f].sent = AllText(f, log[f].written) /\ Len(log[f].sent) = log[f].written
    BY <1>1, <2>1, NothingElsewhere
  <2>4. r.sent \o t = AllText(f, r.written)
    <3>1. log[f].sent \o << >> = log[f].sent /\ << >> \o t = t /\ << >> \in Seq(Pieces)
      BY <1>3, <2>2, ConcatEmptySeq
    <3>2. log[f].sent \o (<< >> \o t) = AllText(f, log[f].written + TextSize)
      BY <2>2, <2>3, <3>1, NextText
    <3> QED
      BY <1>4, <3>1, <3>2
  <2>5. ~Holds(buf[f], "script")
    <3>1. ASSUME Holds(buf[f], "script") PROVE FALSE
      <4>1. log[f].sent \o content[buf[f]] = AllText(f, log[f].written)
        BY <1>1, <2>1, <3>1 DEF AllTexts, Texts, Ordered
      <4>2. Len(log[f].sent) + Len(content[buf[f]]) = log[f].written
        BY <2>2, <4>1, BeginningIsNumbered
      <4>3. Len(content[buf[f]]) \in Nat
        BY <2>2, LenProperties
      <4>4. Len(content[buf[f]]) = 0
        BY <2>2, <2>3, <4>2, <4>3
      <4>5. content[buf[f]] = << >>
        BY <2>2, <4>4, EmptySeq
      <4> QED
        BY <3>1, <4>5 DEF Holds, Has, Elements
    <3> QED
      BY <3>1
  <2> QED
    BY <2>4, <2>5 DEF Follows
<1>7. WriteBuffer(f, b, t, Number(f), PoolLeft, 0, r) /\ 0 \in Nat
  BY DEF SocketWriteUtf8
<1> HIDE DEF b, r, t
<1> QED
  BY <1>1, <1>2, <1>3, <1>5, <1>6, <1>7, WriteTexts

LEMMA OutputTexts ==
    ASSUME Inv, AllTexts, NEW f \in Files, OutputEvent(f)
    PROVE  AllTexts'
<1> DEFINE b == watch[f].buf
           r == log[f]
           text == content[b]
<1>1. f \in open /\ watch[f].op \in {"write", "until"}
  BY DEF OutputEvent
<1>2. /\ buf[f] # 0 /\ b # 0 /\ b \in Buffers /\ r \in Logs /\ text \in Seq(Pieces)
      /\ watch[f].n \in Nat /\ \A g \in Files \ {f} : b \notin Owned(g)
      /\ watch[f].op = "until" => b = buf[f]
  <2>1. buf[f] # 0 /\ b # 0 /\ (watch[f].op = "until" => b = buf[f])
    BY <1>1 DEF Inv, FileOK
  <2>2. b \in Buffers /\ watch[f].n \in Nat /\ \A g \in Files \ {f} : b \notin Owned(g)
    BY <2>1, OwnedFacts
  <2> QED
    BY <2>1, <2>2 DEF Inv, TypeOK
<1>3. ~r.mixed /\ ~r.overtaken => Follows(f, b, text, r)
  BY <1>1, <1>2 DEF AllTexts, Texts, Ordered, Follows
<1>4. CASE watch[f].op = "write" /\ WriteBuffer(f, b, text, watch[f].n, pool, 1, r)
  <2>1. ~r.mixed => Asks(f, watch[f].n, text, r)
    BY <1>1, <1>4 DEF AllTexts, Texts, Confirmed, Asks
  <2>2. 1 \in Nat
    OBVIOUS
  <2> HIDE DEF b, r, text
  <2> QED
    BY <1>1, <1>2, <1>3, <1>4, <2>1, <2>2, WriteTexts
<1>5. CASE watch[f].op = "until" /\ WriteUntilOnce(f, b)
  <2>1. CASE SendFails(f, b, text, pool)
    <3>1. CASE \E free : Closing(f, free, content)
      <4>1. PICK free : Closing(f, free, content)
        BY <3>1
      <4> QED
        BY <1>1, <1>2, <4>1, ClosingTexts
    <3>2. CASE UNCHANGED <<open, peer, watch, buf, content, log>>
      <4>1. Only(f) /\ Texts(f)'
        BY <3>2, SameTexts DEF AllTexts, Only
      <4> QED
        BY <1>2, <3>2, <4>1, TextsElsewhere
    <3> QED
      BY <2>1, <3>1, <3>2 DEF SendFails
  <2>2. ASSUME NEW n \in 0 .. Len(text), Sending(f, b, text, n, r),
               UNCHANGED <<open, peer, watch, buf>>
        PROVE  AllTexts'
    <3>1. log'[f] = [r EXCEPT !.sent = @ \o SubSeq(text, 1, n)]
      BY <2>2 DEF Sending, Inv, TypeOK
    <3>2. PICK l : l = log'[f]
      OBVIOUS
    <3>3. /\ l.written = r.written /\ l.told = r.told
          /\ l.sent = r.sent \o SubSeq(text, 1, n) /\ r.sent \in Seq(Pieces)
      BY <1>2, <3>1, <3>2 DEF Logs
    <3>4. watch'[f].op = "until" /\ watch'[f].buf = b
      BY <1>5, <2>2
    <3>5. ASSUME ~r.mixed PROVE Confirmed(f)'
      <4>1. PICK q \in Nat : Confirms(f, q, r)
        BY <1>1, <3>5 DEF AllTexts, Texts, Confirmed
      <4>2. Elements(r.sent) \subseteq Elements(l.sent)
        BY <1>2, <2>2, <3>3, ElementsOfCut
      <4>3. Confirms(f, q, l)
        BY <1>2, <3>3, <4>1, <4>2, SentMore
      <4>4. Confirms(f, q, log[f])'
        BY <3>2, <4>3 DEF Confirms, TextOf, Elements, Increasing
      <4> QED
        BY <3>4, <4>4 DEF Confirmed
    <3> HIDE DEF b, r, text
    <3>6. \A g \in Files \ {f} : watch'[g] = watch[g]
      BY <2>2
    <3> QED
      BY <1>1, <1>2, <1>3, <2>2, <3>4, <3>5, <3>6, SendTexts
  <2>3. CASE \E n \in 0 .. Len(text) : /\ Sending(f, b, text, n, r)
                                       /\ UNCHANGED <<open, peer, watch, buf>>
    BY <2>2, <2>3
  <2>4. Len(text) \in Nat
    BY <1>2, LenProperties
  <2> QED
    <3>1. /\ Len(text) \in 0 .. Len(text)
          /\ \A n \in 1 .. Len(text) - 1 : n \in 0 .. Len(text)
      BY <2>4
    <3> QED
      BY <1>5, <2>1, <2>3, <3>1 DEF WriteUntilOnce
<1> QED
  BY <1>4, <1>5 DEF OutputEvent

-----------------------------------------------------------------------------
(* Reading: text that waits where a read turns the stream is dropped or mixed. *)

\* A step that sends nothing, writes nothing and calls nothing back.
LEMMA StillConfirmed ==
    ASSUME NEW f \in Files, Confirmed(f),
           log'[f].written = log[f].written, log'[f].sent = log[f].sent, log'[f].told = log[f].told,
           \/ watch'[f].op # "write"
           \/ watch'[f] = watch[f] /\ content'[watch[f].buf] = content[watch[f].buf]
    PROVE  Confirmed(f)'
<1>1. PICK q \in Nat : /\ Confirms(f, q, log[f])
                       /\ watch[f].op = "write" =>
                             Awaits(f, q, watch[f].n, content[watch[f].buf], log[f])
  BY DEF Confirmed
<1>2. Confirms(f, q, log[f])'
  BY <1>1 DEF Confirms, TextOf, Elements, Increasing
<1>3. watch'[f].op = "write" => Awaits(f, q, watch[f].n, content[watch[f].buf], log[f])'
  BY <1>1 DEF Awaits, TextOf, Elements
<1> QED
  BY <1>2, <1>3 DEF Confirmed

\* A read with no text in the stream's buffer: it drops the write that was pending.
LEMMA TurnedTexts ==
    ASSUME Inv, AllSides, NEW f \in Files, f \in open, buf[f] # 0,
           ~log[f].mixed, ~log[f].overtaken, Ordered(f), ~Holds(buf[f], "script"),
           UNCHANGED <<buf, content>>,
           log'[f].written = log[f].written, log'[f].sent = log[f].sent,
           watch'[f].op = "read", log'[f].dropped = Dropped(f)
    PROVE  Ordered(f)'
<1>1. /\ buf[f] \in Buffers /\ content[buf[f]] \in Seq(Pieces) /\ log[f].sent \in Seq(Pieces)
      /\ log[f].written \in Nat
  BY OwnedFacts DEF Inv, TypeOK, Logs
<1>2. Numbered(f, log[f].sent)' /\ Len(log'[f].sent) <= log'[f].written
  BY DEF Ordered, Numbered
<1>3. ~Holds(buf[f], "script")'
  BY DEF Holds
<1>4. ASSUME log'[f].dropped = {} PROVE Len(log'[f].sent) = log'[f].written
  <2>1. log[f].dropped = {} /\ watch[f].op # "write"
    BY <1>4 DEF Dropped
  <2>2. CASE watch[f].op = "until"
    <3>1. watch[f].buf = buf[f] /\ OwnText(f, content[buf[f]])
      BY <2>2 DEF Inv, FileOK, AllSides, Sides
    <3>2. content[buf[f]] = << >>
      BY <1>1, <3>1, EmptyBox DEF Holds
    <3>3. log[f].sent \o content[buf[f]] = AllText(f, log[f].written)
      BY <2>2, <3>1 DEF Ordered
    <3>4. Len(log[f].sent) + Len(content[buf[f]]) = log[f].written
      <4> DEFINE x == log[f].sent
                 u == content[buf[f]]
                 n == log[f].written
      <4>1. x \in Seq(Pieces) /\ u \in Seq(Pieces) /\ n \in Nat /\ x \o u = AllText(f, n)
        BY <1>1, <3>3
      <4> HIDE DEF x, u, n
      <4>2. Len(x) + Len(u) = n
        BY <4>1, BeginningIsNumbered
      <4> QED
        BY <4>2 DEF x, u, n
    <3>5. Len(content[buf[f]]) = 0 /\ Len(log[f].sent) \in Nat
      BY <1>1, <3>2, LenProperties
    <3> QED
      BY <3>4, <3>5
  <2>3. CASE watch[f].op # "until"
    BY <2>1, <2>3 DEF Ordered
  <2> QED
    BY <2>2, <2>3
<1> QED
  BY <1>2, <1>3, <1>4 DEF Ordered

\* A step that leaves text and callbacks alone, and the buffer without text.
LEMMA StillOrdered ==
    ASSUME NEW f \in Files, Ordered(f), buf'[f] = buf[f], watch'[f] = watch[f],
           log'[f].written = log[f].written, log'[f].sent = log[f].sent,
           log'[f].dropped = log[f].dropped,
           ~Holds(buf[f], "script")',
           watch[f].op \in {"write", "until"} => content'[watch[f].buf] = content[watch[f].buf]
    PROVE  Ordered(f)'
BY DEF Ordered, Numbered, AllText

LEMMA ReadUntilTexts ==
    ASSUME Inv, AllSides, AllTexts, NEW f \in Files, NEW n \in Nat, ReadUntil(f, n)
    PROVE  AllTexts'
<1>1. /\ f \in open /\ buf[f] # 0 /\ buf[f] \in Buffers /\ ~log[f].mixed /\ log[f] \in Logs
      /\ \A g \in Files \ {f} : buf[f] \notin Owned(g)
  BY KnownFacts, OwnedFacts DEF ReadUntil, Reading
<1>2. /\ log'[f] = [log[f] EXCEPT !.mixed = @ \/ Holds(buf[f], "script"), !.dropped = Dropped(f)]
      /\ \A g \in Files \ {f} : log'[g] = log[g] /\ watch'[g] = watch[g]
      /\ watch'[f].op = "read"
  BY DEF ReadUntil, Watching, Inv, TypeOK
<1>3. /\ log'[f].sent = log[f].sent /\ log'[f].written = log[f].written
      /\ log'[f].told = log[f].told /\ log'[f].dropped = Dropped(f)
      /\ log'[f].overtaken = log[f].overtaken
      /\ log'[f].mixed = (log[f].mixed \/ Holds(buf[f], "script"))
  BY <1>1, <1>2 DEF Logs
<1>4. UNCHANGED <<open, peer, buf, content>>
  BY DEF ReadUntil, buffers
<1>5. Confirmed(f)'
  BY <1>1, <1>2, <1>3, StillConfirmed DEF AllTexts, Texts
<1>6. ASSUME ~log'[f].mixed, ~log'[f].overtaken PROVE Ordered(f)'
  BY <1>1, <1>2, <1>3, <1>4, <1>6, TurnedTexts DEF AllTexts, Texts
<1>7. Texts(f)' /\ Only(f)
  BY <1>2, <1>4, <1>5, <1>6 DEF Texts, Only
<1> QED
  BY <1>1, <1>4, <1>7, TextsElsewhere

LEMMA ReadSizeTexts ==
    ASSUME Inv, AllSides, AllTexts, NEW f \in Files, NEW n \in Nat, ReadSize(f, n)
    PROVE  AllTexts'
<1>1. CASE ReadUntil(f, n)
  BY <1>1, ReadUntilTexts
<1>2. CASE /\ log' = [log EXCEPT ![f].mixed = @ \/ Holds(buf[f], "script")]
           /\ UNCHANGED <<open, peer, watch, buffers>>
  <2>1. /\ f \in open /\ buf[f] # 0 /\ buf[f] \in Buffers /\ ~log[f].mixed /\ log[f] \in Logs
        /\ \A g \in Files \ {f} : buf[f] \notin Owned(g)
    BY KnownFacts, OwnedFacts DEF ReadSize, Reading
  <2>2. /\ log'[f] = [log[f] EXCEPT !.mixed = @ \/ Holds(buf[f], "script")]
        /\ \A g \in Files \ {f} : log'[g] = log[g]
    BY <1>2 DEF Inv, TypeOK
  <2>3. /\ log'[f].sent = log[f].sent /\ log'[f].written = log[f].written
        /\ log'[f].told = log[f].told /\ log'[f].dropped = log[f].dropped
        /\ log'[f].overtaken = log[f].overtaken
        /\ log'[f].mixed = (log[f].mixed \/ Holds(buf[f], "script"))
    BY <2>1, <2>2 DEF Logs
  <2>4. UNCHANGED <<open, peer, watch, buf, content>>
    BY <1>2 DEF buffers
  <2>5. Confirmed(f)'
    BY <2>1, <2>3, <2>4, StillConfirmed DEF AllTexts, Texts
  <2>6. ASSUME ~log'[f].mixed, ~log'[f].overtaken PROVE Ordered(f)'
    <3>1. Ordered(f)
      BY <2>1, <2>3, <2>6 DEF AllTexts, Texts
    <3>2. ~Holds(buf[f], "script")'
      BY <2>3, <2>4, <2>6 DEF Holds
    <3> QED
      BY <2>3, <2>4, <3>1, <3>2, StillOrdered
  <2>7. Texts(f)' /\ Only(f)
    BY <2>2, <2>4, <2>5, <2>6 DEF Texts, Only
  <2> QED
    BY <2>1, <2>4, <2>7, TextsElsewhere
<1> QED
  BY <1>1, <1>2 DEF ReadSize

LEMMA InputHasNoText ==
    ASSUME NEW f \in Files, NEW m, NEW s, InputFrom(f, m, s)
    PROVE  ~Has(s, "script")
<1>1. \A n : Input(f, n).by = "peer"
  BY DEF Input
<1> QED
  BY <1>1 DEF InputFrom, Has, Elements

LEMMA TakeTexts ==
    ASSUME Inv, AllSides, AllTexts, NEW f \in Files, Take(f)
    PROVE  AllTexts'
<1> DEFINE b == buf[f]
           s == content[b]
<1>1. /\ f \in open /\ b # 0 /\ b \in Buffers /\ s \in Seq(Pieces) /\ Len(s) \in Nat
      /\ log[f] \in Logs /\ f \in ready /\ ~log[f].mixed
      /\ \A g \in Files \ {f} : b \notin Owned(g)
  BY KnownFacts, OwnedFacts, LenProperties DEF Take
<1>2. PICK n \in 1 .. Len(s) :
          /\ log' = [log EXCEPT ![f].taken = @ \o SubSeq(s, 1, n)]
          /\ content' = [content EXCEPT ![b] = Rest(@, n)]
  BY DEF Take
<1>3. /\ log'[f] = [log[f] EXCEPT !.taken = @ \o SubSeq(s, 1, n)]
      /\ \A g \in Files \ {f} : log'[g] = log[g]
      /\ content'[b] = Rest(s, n)
      /\ \A c \in Buffers : c # b => content'[c] = content[c]
  BY <1>1, <1>2 DEF Inv, TypeOK
<1>4. UNCHANGED <<open, peer, watch, buf>>
  BY DEF Take, script
<1>5. /\ log'[f].sent = log[f].sent /\ log'[f].written = log[f].written
      /\ log'[f].told = log[f].told /\ log'[f].dropped = log[f].dropped
      /\ log'[f].overtaken = log[f].overtaken /\ log'[f].mixed = log[f].mixed
  BY <1>1, <1>3 DEF Logs
<1>6. ~Has(s, "script") /\ 1 \in DOMAIN s /\ n \in 0 .. Len(s)
  <2>1. s # << >> /\ 1 \in 1 .. Len(s) /\ n \in 0 .. Len(s)
    BY <1>1
  <2>2. InBox(f, log[f])
    BY <1>1, <2>1 DEF AllSides, Sides
  <2>3. ~Has(s, "script")
    BY <2>2, InputHasNoText DEF InBox
  <2> QED
    BY <1>1, <2>1, <2>3, LenProperties
<1>7. watch[f].op \in {"write", "until"} =>
         content'[watch[f].buf] = content[watch[f].buf]
  <2>1. ASSUME watch[f].op \in {"write", "until"} PROVE watch[f].buf \in Buffers /\ watch[f].buf # b
    <3>1. watch[f].buf \in Buffers /\ OwnText(f, content[watch[f].buf])
      BY <1>1, <2>1, OwnedFacts DEF AllSides, Sides, Inv, FileOK
    <3>2. ~OwnText(f, s)
      BY <1>6 DEF OwnText, Has, Elements
    <3> QED
      BY <3>1, <3>2
  <2> QED
    BY <1>3, <2>1
<1>8. ~Holds(buf[f], "script")'
  <2>1. Elements(Rest(s, n)) \subseteq Elements(s)
    BY <1>1, <1>6, ElementsOfRest
  <2>2. ~Has(Rest(s, n), "script")
    BY <1>6, <2>1 DEF Has
  <2>3. content'[buf'[f]] = Rest(s, n)
    BY <1>3, <1>4
  <2> QED
    BY <2>2, <2>3 DEF Holds, Has, Elements
<1>9. Confirmed(f)'
  <2>1. \/ watch'[f].op # "write"
        \/ watch'[f] = watch[f] /\ content'[watch[f].buf] = content[watch[f].buf]
    BY <1>4, <1>7
  <2>2. Confirmed(f)
    BY <1>1 DEF AllTexts, Texts
  <2> QED
    BY <1>5, <2>1, <2>2, StillConfirmed
<1>10. ASSUME ~log'[f].overtaken PROVE Ordered(f)'
  <2>1. Ordered(f)
    BY <1>1, <1>5, <1>10 DEF AllTexts, Texts
  <2>2. buf'[f] = buf[f] /\ watch'[f] = watch[f]
    BY <1>4
  <2> QED
    BY <1>5, <1>7, <1>8, <2>1, <2>2, StillOrdered
<1>11. Texts(f)' /\ Only(f)
  BY <1>3, <1>4, <1>9, <1>10 DEF Texts, Only
<1> QED
  BY <1>1, <1>3, <1>11, TextsElsewhere

LEMMA InputTexts ==
    ASSUME Inv, AllSides, AllTexts, NEW f \in Files, InputEvent(f)
    PROVE  AllTexts'
<1> DEFINE b == buf[f]
           s == content[b]
<1>1. /\ f \in open /\ watch[f].op = "read" /\ b # 0 /\ watch[f].buf = b
  BY DEF InputEvent, Inv, FileOK
<1>2. /\ b \in Buffers /\ s \in Seq(Pieces) /\ peer[f].read \in Nat
      /\ \A g \in Files \ {f} : b \notin Owned(g)
  BY <1>1, OwnedFacts DEF Inv, TypeOK
<1>3. CASE Closing(f, pool, content)
  BY <1>1, <1>2, <1>3, ClosingTexts
<1>4. ASSUME NEW n \in 1 .. peer[f].sent - peer[f].read, NEW new,
             new = s \o [i \in 1 .. n |-> Input(f, peer[f].read + i)],
             \A g \in Files \ {f} : peer'[g] = peer[g],
             content' = [content EXCEPT ![b] = new],
             UNCHANGED <<open, watch, buf, log>>
      PROVE  AllTexts'
  <2> DEFINE t == [i \in 1 .. n |-> Input(f, peer[f].read + i)]
  <2>1. /\ content'[b] = new /\ \A c \in Buffers : c # b => content'[c] = content[c]
        /\ Only(f)
    BY <1>2, <1>4 DEF Inv, TypeOK, Only
  <2>2. ASSUME ~log[f].mixed PROVE ~Has(new, "script")
    <3>1. ~Has(s, "script")
      <4>1. CASE s = << >>
        BY <4>1 DEF Has, Elements
      <4>2. CASE InBox(f, log[f])
        BY <4>2, InputHasNoText DEF InBox
      <4> QED
        BY <1>1, <2>2, <4>1, <4>2 DEF AllSides, Sides
    <3>2. InputFrom(f, peer[f].read, t)
      BY DEF InputFrom
    <3>3. ~Has(t, "script")
      BY <3>2, InputHasNoText
    <3>4. t \in Seq(Pieces)
      <4>1. n \in Nat /\ \A i \in 1 .. n : peer[f].read + i \in Nat
        BY <1>2 DEF Inv, TypeOK
      <4> QED
        BY <4>1, PieceTypes
    <3> HIDE DEF t
    <3>5. Elements(s \o t) = Elements(s) \cup Elements(t)
      BY <1>2, <3>4, ElementsOfConcat
    <3> QED
      BY <1>4, <3>1, <3>3, <3>5 DEF Has, t
  <2>3. ASSUME ~log[f].mixed PROVE Confirmed(f)'
    BY <1>1, <1>4, <2>3, StillConfirmed DEF AllTexts, Texts
  <2>4. ASSUME ~log[f].mixed, ~log[f].overtaken PROVE Ordered(f)'
    <3>1. ~Holds(buf[f], "script")'
      <4>1. content'[buf'[f]] = new
        BY <1>4, <2>1
      <4> QED
        BY <2>2, <2>4, <4>1 DEF Holds, Has, Elements
    <3>2. Ordered(f)
      BY <1>1, <2>4 DEF AllTexts, Texts
    <3> QED
      BY <1>1, <1>4, <3>1, <3>2, StillOrdered
  <2>5. Texts(f)'
    BY <1>4, <2>3, <2>4 DEF Texts
  <2> QED
    BY <1>2, <2>1, <2>5, TextsElsewhere
<1>5. ASSUME NEW n \in 1 .. peer[f].sent - peer[f].read,
             LET c == watch[f].buf
                 new == content[c] \o [i \in 1 .. n |-> Input(f, peer[f].read + i)]
             IN  /\ peer' = [peer EXCEPT ![f].read = @ + n]
                 /\ content' = [content EXCEPT ![c] = new],
             UNCHANGED <<open, watch, buf, log>>
      PROVE  AllTexts'
  <2>1. \A g \in Files \ {f} : peer'[g] = peer[g]
    BY <1>5 DEF Inv, TypeOK
  <2> QED
    BY <1>1, <1>4, <1>5, <2>1
<1> QED
  BY <1>3, <1>5 DEF InputEvent

-----------------------------------------------------------------------------
(* New connections, and steps that change nothing of this. *)

LEMMA NewTexts ==
    ASSUME NEW f \in Files, log'[f] = NoLog, watch'[f].op \in {"none", "connect"},
           buf'[f] # 0 => content'[buf'[f]] = << >>
    PROVE  Texts(f)'
<1>1. Elements(<< >>) = {} /\ DOMAIN << >> = {} /\ Len(<< >>) = 0
  BY DEF Elements
<1>2. Confirmed(f)'
  <2>1. NoLog.written = 0 * TextSize /\ 0 \in Nat
    BY StreamAssumption DEF NoLog
  <2>2. Confirms(f, 0, NoLog)
    BY <1>1, <2>1 DEF Confirms, Increasing, NoLog
  <2>3. Confirms(f, 0, log[f])'
    BY <2>2 DEF Confirms, TextOf, Increasing, Elements
  <2> QED
    BY <2>1, <2>3 DEF Confirmed
<1>3. Ordered(f)'
  <2>1. Numbered(f, log[f].sent)' /\ Len(log'[f].sent) = 0 /\ log'[f].written = 0
    BY <1>1 DEF Numbered, NoLog
  <2>2. buf'[f] # 0 => ~Holds(buf[f], "script")'
    BY <1>1 DEF Holds, Has, Elements
  <2>3. Len(log'[f].sent) <= log'[f].written /\ Len(log'[f].sent) = log'[f].written
    BY <2>1
  <2>4. watch'[f].op \notin {"write", "until"}
    OBVIOUS
  <2> QED
    BY <2>1, <2>2, <2>3, <2>4, Zenon DEF Ordered
<1> QED
  BY <1>2, <1>3 DEF Texts

LEMMA CreateTexts ==
    ASSUME Inv, AllTexts, NEW f \in Files, Create(f), UNCHANGED <<peer, watch, log>>,
           open' = open \cup {f}, watch[f].op \in {"none", "connect"}, log[f] = NoLog
    PROVE  AllTexts'
<1>1. Popped \in Buffers /\ \A g \in Files : Popped \notin Owned(g)
  BY PopFacts DEF Create
<1>2. /\ buf'[f] = Popped /\ content'[Popped] = << >> /\ Only(f)
      /\ \A c \in Buffers : c # Popped => content'[c] = content[c]
  BY <1>1 DEF Create, Only, Inv, TypeOK
<1>3. Texts(f)'
  <2>1. log'[f] = NoLog /\ watch'[f].op \in {"none", "connect"} /\ content'[buf'[f]] = << >>
    BY <1>2
  <2> QED
    BY <2>1, NewTexts
<1> QED
  BY <1>1, <1>2, <1>3, TextsElsewhere

LEMMA AcceptTexts == ASSUME Inv, AllTexts, Accept PROVE AllTexts'
<1>1. PICK f \in Files : f = opened + 1
  BY NewFile DEF Accept
<1>2. f \notin open /\ open' = open \cup {f} /\ Create(f) /\ UNCHANGED <<peer, watch, log>>
  BY <1>1, NewFile DEF Accept
<1>3. watch[f].op = "none" /\ log[f] = NoLog
  BY <1>2 DEF Inv, FileOK, NoWatch
<1> QED
  BY <1>2, <1>3, CreateTexts

LEMMA ConnectedTexts ==
    ASSUME Inv, AllSides, AllTexts, NEW f \in Files, Connected(f)
    PROVE  AllTexts'
<1>1. /\ open' = open \cup {f} /\ Create(f) /\ UNCHANGED <<peer, watch, log>>
      /\ watch[f].op = "connect"
  BY DEF Connected
<1>2. log[f] = NoLog
  BY <1>1 DEF AllSides, Sides
<1> QED
  BY <1>1, <1>2, CreateTexts

LEMMA ConnectTexts == ASSUME Inv, AllTexts, Connect PROVE AllTexts'
<1>1. PICK f \in Files : f = opened + 1
  BY NewFile DEF Connect
<1>2. /\ f \notin open /\ open' = open \cup {f} /\ UNCHANGED <<peer, log, buf, content>>
      /\ watch'[f].op = "connect" /\ \A g \in Files \ {f} : watch'[g] = watch[g]
  BY <1>1, NewFile DEF Connect, Watching, Inv, TypeOK, buffers, script
<1>3. log'[f] = NoLog /\ buf'[f] = 0
  BY <1>2 DEF Inv, FileOK
<1>4. Texts(f)' /\ Only(f)
  BY <1>2, <1>3, NewTexts DEF Only
<1>5. \A g \in Files \ {f} : 0 \notin Owned(g)
  BY DEF Owned
<1> QED
  BY <1>2, <1>4, <1>5, TextsElsewhere

LEMMA QuietTexts ==
    ASSUME AllTexts, UNCHANGED <<open, watch, buf, content, log>>
    PROVE  AllTexts'
BY SameTexts DEF AllTexts

-----------------------------------------------------------------------------
LEMMA TextsInitially == ASSUME Init PROVE AllTexts
BY DEF Init, AllTexts, Texts

LEMMA TextsPreserved == ASSUME Inv, AllSides, AllTexts, [Next]_vars PROVE AllTexts'
<1>1. CASE Accept \/ Connect
  BY <1>1, AcceptTexts, ConnectTexts
<1>2. CASE Return \/ Over \/ UNCHANGED vars
  <2>1. UNCHANGED <<open, watch, buf, content, log>>
    BY <1>2 DEF Return, Over, vars, buffers, script
  <2> QED
    BY <2>1, QuietTexts
<1>3. ASSUME NEW f \in Files, PeerSends(f) \/ PeerLeaves(f)
      PROVE  AllTexts'
  <2>1. UNCHANGED <<open, watch, buf, content, log>>
    BY <1>3 DEF PeerSends, PeerLeaves, buffers, script
  <2> QED
    BY <2>1, QuietTexts
<1>4. ASSUME NEW f \in Files, Connected(f) \/ InputEvent(f) \/ OutputEvent(f)
      PROVE  AllTexts'
  BY <1>4, ConnectedTexts, InputTexts, OutputTexts
<1>5. ASSUME NEW f \in Files, ErrorEvent(f) \/ Close(f)
      PROVE  AllTexts'
  <2>1. f \in open /\ Closing(f, pool, content)
    BY <1>5 DEF ErrorEvent, Close, Known
  <2>2. \A g \in Files \ {f} : 0 \notin Owned(g)
    BY DEF Owned
  <2> QED
    BY <2>1, <2>2, ClosingTexts
<1>6. ASSUME NEW f \in Files,
             \/ ReadUntil(f, Needs[f]) \/ ReadSize(f, Needs[f])
             \/ Take(f) \/ StreamWrite(f) \/ SocketWriteUtf8(f) \/ WriteUntil(f)
      PROVE  AllTexts'
  <2>1. Needs[f] \in Nat
    BY StreamAssumption
  <2> QED
    BY <1>6, <2>1, ReadUntilTexts, ReadSizeTexts, TakeTexts, StreamWriteTexts, SocketWriteTexts,
       WriteUntilTexts
<1> QED
  BY <1>1, <1>2, <1>3, <1>4, <1>5, <1>6 DEF Next, Script

LEMMA TextsInvariant == Spec => [](Inv /\ AllSides /\ AllTexts)
<1>1. Init => Inv /\ AllSides /\ AllTexts
  BY Initially, SidesInitially, TextsInitially
<1>2. Inv /\ AllSides /\ AllTexts /\ [Next]_vars => (Inv /\ AllSides /\ AllTexts)'
  BY Preserved, SidesPreserved, TextsPreserved
<1> QED
  BY <1>1, <1>2, PTL DEF Spec

\* Whatever functions a script writes with, and however the kernel cuts what it is given,
\* texts go out whole and in order, and what is not out yet is what the output callback
\* holds, unless a write overtook text that waits elsewhere or a callback was replaced.
THEOREM TextsInOrder == Spec => []InOrder
<1>1. ASSUME Inv, AllTexts PROVE InOrder
  <2>1. open \subseteq Files
    BY <1>1, StreamAssumption DEF Inv, TypeOK, Files
  <2>2. ASSUME NEW f \in open, ~log[f].mixed, ~log[f].overtaken
        PROVE  /\ \A i \in DOMAIN log[f].sent : log[f].sent[i] = Own(f, i)
               /\ log[f].dropped = {} =>
                     log[f].sent \o Waiting(f) = [i \in 1 .. log[f].written |-> Own(f, i)]
    <3>1. f \in Files /\ Ordered(f)
      BY <1>1, <2>1, <2>2 DEF AllTexts, Texts
    <3>2. \A i \in DOMAIN log[f].sent : log[f].sent[i] = Own(f, i)
      BY <3>1 DEF Ordered, Numbered
    <3>3. log[f].sent \in Seq(Pieces) /\ log[f].written \in Nat
      BY <1>1, <3>1 DEF Inv, TypeOK, Logs
    <3>4. ASSUME log[f].dropped = {}
          PROVE  log[f].sent \o Waiting(f) = AllText(f, log[f].written)
      <4>1. CASE watch[f].op \in {"write", "until"}
        BY <3>1, <4>1 DEF Ordered, Waiting
      <4>2. CASE watch[f].op \notin {"write", "until"}
        <5>1. Len(log[f].sent) = log[f].written /\ Numbered(f, log[f].sent)
          BY <3>1, <3>4, <4>2 DEF Ordered
        <5>2. log[f].sent = AllText(f, log[f].written)
          BY <3>1, <3>3, <5>1, NumberedIs
        <5>3. Waiting(f) = << >> /\ log[f].sent \o << >> = log[f].sent
          BY <3>3, <4>2, ConcatEmptySeq DEF Waiting
        <5> QED
          BY <5>2, <5>3
      <4> QED
        BY <4>1, <4>2
    <3> QED
      BY <3>2, <3>4 DEF AllText
  <2> QED
    BY <2>2 DEF InOrder
<1> QED
  BY <1>1, TextsInvariant, PTL

\* The callback of a write is called once, later ones after earlier ones, and not before
\* the kernel has all of the text, be it in one send or in many.
THEOREM ToldOnce == Spec => []Told
<1>1. ASSUME Inv, AllTexts PROVE Told
  <2>1. open \subseteq Files
    BY <1>1, StreamAssumption DEF Inv, TypeOK, Files
  <2>2. ASSUME NEW f \in open, ~log[f].mixed
        PROVE  /\ Increasing(log[f].told)
               /\ \A k \in Elements(log[f].told) : TextOf(f, k) \subseteq Elements(log[f].sent)
    BY <1>1, <2>1, <2>2 DEF AllTexts, Texts, Confirmed, Confirms
  <2> QED
    BY <2>2 DEF Told, Increasing, TextOf
<1> QED
  BY <1>1, TextsInvariant, PTL


-----------------------------------------------------------------------------
(* What WritesEnd rests on: a pending write stays one until it is settled, and what it  *)
(* has to send gets less.                                                               *)

Left(f) == Len(content[watch[f].buf])

Lessens(f, k) ==
    Pending(f, k) =>
        \/ Settled(f, k)'
        \/ Pending(f, k)' /\ Left(f)' <= Left(f) /\ (OutputEvent(f) => Left(f)' < Left(f))

LEMMA PendingFacts ==
    ASSUME Inv, NEW f \in Files, watch[f].op = "write"
    PROVE  /\ f \in open /\ watch[f].buf \in Buffers /\ buf[f] \in Buffers
           /\ content[watch[f].buf] \in Seq(Pieces) /\ Left(f) \in Nat
           /\ \A g \in Files \ {f} : watch[f].buf # buf[g] /\ watch[f].buf # watch[g].buf
           /\ Pop => watch[f].buf # Popped
<1>1. f \in open
  BY DEF Inv, FileOK, NoWatch
<1>2. watch[f].buf # 0 /\ buf[f] # 0
  BY DEF Inv, FileOK
<1>3. watch[f].buf \in Buffers /\ buf[f] \in Buffers /\ watch[f].buf \in Owned(f)
      /\ \A g \in Files \ {f} : watch[f].buf \notin Owned(g)
  BY <1>2, OwnedFacts
<1>4. \A g \in Files \ {f} : watch[f].buf # buf[g] /\ watch[f].buf # watch[g].buf
  BY <1>2, <1>3 DEF Owned
<1>5. content[watch[f].buf] \in Seq(Pieces)
  BY <1>3 DEF Inv, TypeOK
<1>6. Pop => watch[f].buf # Popped
  BY <1>3, PopFacts
<1> QED
  BY <1>1, <1>3, <1>4, <1>5, <1>6, LenProperties DEF Left

\* A step that leaves the callback and its buffer alone.
LEMMA StillPending ==
    ASSUME NEW f \in Files, NEW k \in Nat, Left(f) \in Nat, Pending(f, k), watch'[f] = watch[f],
           content'[watch[f].buf] = content[watch[f].buf], ~OutputEvent(f)
    PROVE  Lessens(f, k)
<1>1. Left(f)' = Left(f)
  BY DEF Left
<1>2. mode' # "killed" => Pending(f, k)'
  BY DEF Pending
<1> QED
  BY <1>1, <1>2 DEF Lessens, Settled

\* What is asked for next settles it: its callback was dropped.
LEMMA DroppedSettles ==
    ASSUME NEW f \in Files, NEW k \in Nat, Pending(f, k), Dropped(f) \subseteq log'[f].dropped
    PROVE  Lessens(f, k)
BY DEF Pending, Dropped, Settled, Lessens

LEMMA ClosedSettles ==
    ASSUME NEW f \in Files, NEW k \in Nat, f \notin open'
    PROVE  Lessens(f, k)
BY DEF Settled, Lessens

\* Another stream's writes leave this one's callback and buffer alone.
LEMMA WriteElsewhere ==
    ASSUME Inv, NEW f \in Files, watch[f].op = "write", NEW g \in Files, g # f,
           NEW b, b # watch[f].buf, NEW text, NEW k, NEW free, NEW least, NEW r,
           WriteBuffer(g, b, text, k, free, least, r)
    PROVE  watch'[f] = watch[f] /\ content'[watch[f].buf] = content[watch[f].buf]
<1> DEFINE w == watch[f].buf
<1>1. w \in Buffers /\ w # buf[g]
  BY PendingFacts
<1>2. CASE SendFails(g, b, text, free)
  BY <1>1, <1>2 DEF SendFails, Closing, Inv, TypeOK
<1>3. CASE ~SendFails(g, b, text, free)
  <2>1. PICK op, c, i : Watching(g, op, c, i)
    BY <1>3 DEF WriteBuffer
  <2>2. PICK n, p : Sending(g, b, text, n, p)
    BY <1>3 DEF WriteBuffer
  <2> QED
    BY <1>1, <2>1, <2>2 DEF Watching, Sending, Inv, TypeOK
<1> QED
  BY <1>2, <1>3

LEMMA StepElsewhere ==
    ASSUME Inv, NEW f \in Files, watch[f].op = "write", NEW g \in Files, g # f,
           \/ PeerSends(g) \/ PeerLeaves(g) \/ Connected(g) \/ InputEvent(g) \/ OutputEvent(g)
           \/ ErrorEvent(g) \/ Script(g)
    PROVE  watch'[f] = watch[f] /\ content'[watch[f].buf] = content[watch[f].buf]
<1> DEFINE w == watch[f].buf
<1>1. w \in Buffers /\ w # buf[g] /\ w # watch[g].buf /\ (Pop => w # Popped)
  BY PendingFacts
<1>2. CASE PeerSends(g) \/ PeerLeaves(g)
  BY <1>2 DEF PeerSends, PeerLeaves, buffers
<1>3. CASE Connected(g)
  BY <1>1, <1>3 DEF Connected, Create, Inv, TypeOK
<1>4. CASE Closing(g, pool, content)
  BY <1>1, <1>4 DEF Closing, Inv, TypeOK
<1>5. CASE InputEvent(g)
  BY <1>1, <1>4, <1>5 DEF InputEvent, Inv, TypeOK
<1>6. CASE OutputEvent(g)
  <2>1. CASE WriteBuffer(g, watch[g].buf, content[watch[g].buf], watch[g].n, pool, 1, log[g])
    BY <1>1, <2>1, WriteElsewhere
  <2>2. CASE WriteUntilOnce(g, watch[g].buf)
    <3>1. CASE SendFails(g, watch[g].buf, content[watch[g].buf], pool)
      BY <1>1, <3>1 DEF SendFails, Closing, Inv, TypeOK
    <3>2. CASE ~SendFails(g, watch[g].buf, content[watch[g].buf], pool)
      <4>1. watch' = watch /\ \E n, r : Sending(g, watch[g].buf, content[watch[g].buf], n, r)
        BY <2>2, <3>2 DEF WriteUntilOnce
      <4> QED
        BY <1>1, <4>1 DEF Sending, Inv, TypeOK
    <3> QED
      BY <3>1, <3>2
  <2> QED
    BY <1>6, <2>1, <2>2 DEF OutputEvent
<1>7. CASE ErrorEvent(g) \/ Close(g)
  BY <1>4, <1>7 DEF ErrorEvent, Close
<1>8. ASSUME NEW n, ReadUntil(g, n) \/ ReadSize(g, n) \/ Take(g) PROVE watch'[f] = watch[f] /\ content'[w] = content[w]
  BY <1>1, <1>8 DEF ReadUntil, ReadSize, Take, Watching, buffers, Inv, TypeOK
<1>9. CASE StreamWrite(g)
  BY <1>1, <1>9, WriteElsewhere DEF StreamWrite
<1>10. CASE SocketWriteUtf8(g)
  BY <1>1, <1>10, WriteElsewhere DEF SocketWriteUtf8
<1>11. CASE WriteUntil(g)
  BY <1>1, <1>11 DEF WriteUntil, Watching, Inv, TypeOK
<1> QED
  BY <1>2, <1>3, <1>5, <1>6, <1>7, <1>8, <1>9, <1>10, <1>11 DEF Script

\* A new write, in whatever way, drops the callback of the pending one.
LEMMA WriteDrops ==
    ASSUME Inv, NEW f \in Files, NEW k \in Nat, Pending(f, k),
           NEW b, NEW text, NEW j, NEW free, NEW least, NEW before,
           WriteBuffer(f, b, text, j, free, least, Written(f, before))
    PROVE  Lessens(f, k)
<1>1. CASE SendFails(f, b, text, free)
  BY <1>1 DEF SendFails, Closing, Lessens, Settled
<1>2. CASE ~SendFails(f, b, text, free)
  <2>1. Written(f, before).dropped = Dropped(f)
    BY DEF Written, Inv, TypeOK, Logs
  <2>2. PICK n, r : /\ Sending(f, b, text, n, r) /\ r.dropped = Dropped(f)
                    /\ "sent" \in DOMAIN r
    BY <1>2, <2>1, WrittenType DEF WriteBuffer, Logs
  <2>3. log'[f].dropped = Dropped(f)
    BY <2>2 DEF Sending, Inv, TypeOK
  <2> QED
    BY <2>3, DroppedSettles
<1> QED
  BY <1>1, <1>2

\* Each output event takes some of what is left, or ends the write.
LEMMA OutputLessens ==
    ASSUME Inv, NEW f \in Files, NEW k \in Nat, Pending(f, k), OutputEvent(f)
    PROVE  Lessens(f, k)
<1> DEFINE b == watch[f].buf
           text == content[b]
<1>1. /\ watch[f].op = "write" /\ watch[f].n = k /\ mode = "waiting"
      /\ WriteBuffer(f, b, text, k, pool, 1, log[f])
  BY DEF Pending, OutputEvent
<1>2. b \in Buffers /\ text \in Seq(Pieces) /\ Len(text) \in Nat /\ f \in open
      /\ log[f] \in Logs
  BY <1>1, PendingFacts DEF Left, Inv, TypeOK
<1>3. CASE SendFails(f, b, text, pool)
  BY <1>3 DEF SendFails, Closing, Lessens, Settled
<1>4. CASE /\ Sending(f, b, text, Len(text), [log[f] EXCEPT !.told = Append(@, k)])
           /\ Watching(f, "empty", 0, 0)
  <2>1. log'[f].told = Append(log[f].told, k)
    BY <1>2, <1>4 DEF Sending, Inv, TypeOK, Logs
  <2>2. k \in Elements(log'[f].told)
    <3>1. log[f].told \in Seq(Nat)
      BY <1>2 DEF Logs
    <3>2. Len(log[f].told) + 1 \in DOMAIN Append(log[f].told, k)
          /\ Append(log[f].told, k)[Len(log[f].told) + 1] = k
      BY <3>1, AppendProperties, LenProperties
    <3> QED
      BY <2>1, <3>2 DEF Elements
  <2> QED
    BY <2>2 DEF Lessens, Settled
<1>5. CASE /\ \E n \in 1 .. Len(text) - 1 : Sending(f, b, text, n, log[f])
           /\ Watching(f, "write", b, k) /\ UNCHANGED mode
  <2>1. PICK n \in 1 .. Len(text) - 1 : Sending(f, b, text, n, log[f])
    BY <1>5
  <2>2. n \in 0 .. Len(text) /\ content'[b] = Rest(text, n)
    <3>1. n \in 0 .. Len(text)
      BY <1>2
    <3> QED
      BY <1>2, <2>1, <3>1 DEF Sending, Inv, TypeOK
  <2>3. Len(content'[b]) = Len(text) - n
    BY <1>2, <2>2, RestFacts
  <2>4. Len(content'[b]) < Len(text)
    BY <1>2, <2>1, <2>3
  <2>5. watch'[f] = [op |-> "write", buf |-> b, n |-> k]
    BY <1>5 DEF Watching, Inv, TypeOK
  <2>6. Pending(f, k)'
    BY <1>1, <1>5, <2>5 DEF Pending
  <2>7. Left(f)' < Left(f)
    BY <2>4, <2>5 DEF Left
  <2>8. Left(f)' <= Left(f)
    BY <1>2, <2>3, <2>5, <2>1 DEF Left
  <2> QED
    BY <2>6, <2>7, <2>8 DEF Lessens
<1> QED
  BY <1>1, <1>3, <1>4, <1>5 DEF WriteBuffer

\* A read drops the callback too, unless the buffer has enough; taking leaves less.
LEMMA ReadLessens ==
    ASSUME Inv, NEW f \in Files, NEW k \in Nat, Pending(f, k), NEW n,
           ReadUntil(f, n) \/ ReadSize(f, n) \/ Take(f)
    PROVE  Lessens(f, k)
<1>1. watch[f].op = "write" /\ mode = "callback" /\ ~OutputEvent(f)
  BY DEF Pending, ReadUntil, ReadSize, Take, Reading, Known, OutputEvent
<1>2. /\ watch[f].buf \in Buffers /\ buf[f] \in Buffers /\ Left(f) \in Nat
      /\ content[watch[f].buf] \in Seq(Pieces)
  BY <1>1, PendingFacts
<1>3. CASE ReadUntil(f, n)
  <2>1. log'[f].dropped = Dropped(f)
    BY <1>3 DEF ReadUntil, Inv, TypeOK, Logs
  <2> QED
    BY <2>1, DroppedSettles
<1>4. CASE UNCHANGED <<watch, content>>
  BY <1>1, <1>2, <1>4, StillPending
<1>5. CASE Take(f)
  <2>1. PICK m \in 1 .. Len(content[buf[f]]) : content' = [content EXCEPT ![buf[f]] = Rest(@, m)]
    BY <1>5 DEF Take
  <2>2. watch' = watch /\ mode' = mode
    BY <1>5 DEF Take, script
  <2>3. CASE watch[f].buf = buf[f]
    <3>1. Len(content[buf[f]]) \in Nat /\ m \in 0 .. Len(content[buf[f]])
      BY <1>2, <2>3 DEF Left
    <3>2. Len(Rest(content[buf[f]], m)) = Len(content[buf[f]]) - m
      BY <1>2, <2>3, <3>1, RestFacts
    <3>3. content'[buf[f]] = Rest(content[buf[f]], m)
      BY <1>2, <2>1 DEF Inv, TypeOK
    <3>4. Left(f)' <= Left(f)
      BY <2>2, <2>3, <3>1, <3>2, <3>3 DEF Left
    <3> QED
      BY <1>1, <2>2, <3>4 DEF Lessens, Pending
  <2>4. CASE watch[f].buf # buf[f]
    <3>1. content'[watch[f].buf] = content[watch[f].buf]
      BY <1>2, <2>1, <2>4 DEF Inv, TypeOK
    <3> QED
      BY <1>1, <1>2, <2>2, <3>1, StillPending
  <2> QED
    BY <2>3, <2>4
<1> QED
  BY <1>3, <1>4, <1>5 DEF ReadSize, buffers

LEMMA StepLessens ==
    ASSUME Inv, NEW f \in Files, NEW k \in Nat, Pending(f, k), [Next]_vars
    PROVE  Lessens(f, k) \/ UNCHANGED vars
<1>1. watch[f].op = "write" /\ Left(f) \in Nat /\ f \in open /\ watch[f].buf \in Buffers
  BY PendingFacts DEF Pending
<1>2. CASE Accept \/ Connect
  <2>1. PICK g \in Files : g = opened + 1 /\ g \notin open
    BY <1>2, NewFile DEF Accept, Connect
  <2>2. g # f
    BY <1>1, <2>1
  <2>3. watch'[f] = watch[f] /\ content'[watch[f].buf] = content[watch[f].buf]
    BY <1>1, <1>2, <2>1, <2>2, PendingFacts DEF Accept, Connect, Create, Watching, buffers, Inv, TypeOK
  <2>4. ~OutputEvent(f)
    BY <1>2, <2>1 DEF Accept, Connect, OutputEvent, Inv, TypeOK
  <2> QED
    BY <1>1, <2>3, <2>4, StillPending
<1>3. CASE Return \/ Over
  <2>1. UNCHANGED vars \/ (UNCHANGED <<watch, content>> /\ mode = "callback")
    BY <1>3 DEF Return, Over, buffers
  <2> QED
    BY <1>1, <2>1, StillPending DEF OutputEvent
<1>4. ASSUME NEW g \in Files, g # f, ~OutputEvent(f),
             \/ PeerSends(g) \/ PeerLeaves(g) \/ Connected(g) \/ InputEvent(g) \/ OutputEvent(g)
             \/ ErrorEvent(g) \/ Script(g)
      PROVE  Lessens(f, k)
  BY <1>1, <1>4, StepElsewhere, StillPending
<1>5. CASE OutputEvent(f)
  BY <1>5, OutputLessens
<1>6. CASE (PeerSends(f) \/ PeerLeaves(f)) /\ ~OutputEvent(f)
  BY <1>1, <1>6, StillPending DEF PeerSends, PeerLeaves, buffers
<1>7. CASE Connected(f) \/ InputEvent(f)
  BY <1>1, <1>7 DEF Connected, InputEvent
<1>8. CASE ErrorEvent(f) \/ Close(f)
  <2>1. f \notin open'
    BY <1>8 DEF ErrorEvent, Close, Closing
  <2> QED
    BY <2>1, ClosedSettles
<1>9. CASE ReadUntil(f, Needs[f]) \/ ReadSize(f, Needs[f]) \/ Take(f)
  BY <1>9, ReadLessens
<1>10. CASE StreamWrite(f) \/ SocketWriteUtf8(f)
  BY <1>10, WriteDrops DEF StreamWrite, SocketWriteUtf8
<1>11. CASE WriteUntil(f)
  <2>1. log'[f].dropped = Dropped(f)
    BY <1>11 DEF WriteUntil, Written, Inv, TypeOK, Logs
  <2> QED
    BY <2>1, DroppedSettles
<1> QED
  BY <1>2, <1>3, <1>4, <1>5, <1>6, <1>7, <1>8, <1>9, <1>10, <1>11 DEF Next, Script

\* Whatever scripts do, a pending write stays pending, in its own buffer that no other
\* connection touches, until its callback is called, the script asks for something else
\* or the connection ends; what it has to send never grows, and each output event takes
\* some of it (writeBuffer of socket.coffee).
THEOREM WritesLessen ==
    Spec => [][\A f \in Files : \A k \in 1 .. MaxTexts[f] : Lessens(f, k)]_vars
<1>1. Init => Inv
  BY Initially
<1>2. Inv /\ [Next]_vars => Inv'
  BY Preserved
<1>3. Inv /\ [Next]_vars => [\A f \in Files : \A k \in 1 .. MaxTexts[f] : Lessens(f, k)]_vars
  <2> SUFFICES ASSUME Inv, [Next]_vars, ~UNCHANGED vars, NEW f \in Files, NEW k \in 1 .. MaxTexts[f]
               PROVE  Lessens(f, k)
    OBVIOUS
  <2>1. k \in Nat
    BY StreamAssumption
  <2>2. CASE Pending(f, k)
    BY <2>1, <2>2, StepLessens
  <2>3. CASE ~Pending(f, k)
    BY <2>3 DEF Lessens
  <2> QED
    BY <2>2, <2>3
<1> QED
  BY <1>1, <1>2, <1>3, PTL DEF Spec
=============================================================================
