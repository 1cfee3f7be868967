--------------------------- MODULE RequireProofs ---------------------------
(***************************************************************************)
(* require(), for every set of scripts, names and directories, whatever    *)
(* scripts require, throw and catch.                                       *)
(***************************************************************************)
EXTENDS Require, SequenceTheorems, TLAPS

Kept == {"none", "mark"}

\* A frame remembers the directory of the script that asked, and a key that leads to
\* its script; no script is on the stack twice.
StackInv ==
    /\ \A i \in DOMAIN stack :
          /\ stack[i].saved = IF i = 1 THEN CoreDir ELSE DirOf[stack[i - 1].script]
          /\ Real[stack[i].key] = stack[i].script
    /\ \A i, j \in DOMAIN stack : stack[i].script = stack[j].script => i = j

\* A script that shares the global `exports' finds in it what it put there itself, unless
\* another such script was run inside it.
ExportsInv ==
    /\ \A s \in OnStack \ (Local \cup clobbered) : exports \in Kept \cup {s}
    /\ \A i, j \in DOMAIN stack :
          i < j /\ stack[i].script \notin Local /\ stack[j].script \notin Local =>
             stack[i].script \in clobbered

\* What has no entry has not run or left none, and what runs has no other mark.
HistoryInv ==
    /\ \A s \in Scripts : cache[s] = "none" /\ s \in ran => s \in empty
    /\ OnStack \cap (failed \cup ones) = {}

Inv ==
    /\ TypeOK
    /\ DirOfRunning
    /\ MarksInProgress
    /\ RunsOnce
    /\ KeysAgree
    /\ OwnExports
    /\ MarkHidden
    /\ StackInv
    /\ ExportsInv
    /\ HistoryInv

-----------------------------------------------------------------------------
(* The stack. *)

LEMMA PushFacts ==
    ASSUME stack \in Seq(Frames), NEW f \in Frames, stack' = Append(stack, f)
    PROVE  /\ stack' \in Seq(Frames) /\ stack' # << >>
           /\ Len(stack') = Len(stack) + 1
           /\ \A i \in DOMAIN stack : stack'[i] = stack[i]
           /\ Top' = f
           /\ OnStack' = OnStack \cup {f.script}
<1>1. /\ stack' \in Seq(Frames) /\ Len(stack') = Len(stack) + 1
      /\ \A i \in 1 .. Len(stack) : stack'[i] = stack[i]
      /\ stack'[Len(stack) + 1] = f
      /\ DOMAIN stack = 1 .. Len(stack) /\ DOMAIN stack' = 1 .. Len(stack) + 1
  OBVIOUS
<1>2. OnStack' = OnStack \cup {f.script}
  BY <1>1 DEF OnStack
<1> QED
  BY <1>1, <1>2 DEF Top

LEMMA PopFacts ==
    ASSUME stack \in Seq(Frames), stack # << >>, stack' = Popped
    PROVE  /\ stack' \in Seq(Frames)
           /\ Len(stack') = Len(stack) - 1 /\ Len(stack) \in Nat \ {0}
           /\ \A i \in DOMAIN stack' : i \in DOMAIN stack /\ stack'[i] = stack[i]
           /\ Top \in Frames
           /\ OnStack = OnStack' \cup {Top.script}
           /\ stack' # << >> => Top' = stack[Len(stack) - 1]
<1>1. /\ stack' \in Seq(Frames)
      /\ Len(stack') = Len(stack) - 1 /\ Len(stack) \in Nat \ {0}
      /\ \A i \in 1 .. Len(stack) - 1 : stack'[i] = stack[i]
      /\ DOMAIN stack = 1 .. Len(stack) /\ DOMAIN stack' = 1 .. Len(stack) - 1
      /\ stack[Len(stack)] \in Frames
  <2>1. Len(stack) \in Nat \ {0} /\ DOMAIN stack = 1 .. Len(stack)
    BY EmptySeq, LenProperties
  <2>2. \A i \in 1 .. Len(stack) : stack[i] \in Frames
    BY ElementOfSeq
  <2>3. /\ stack' \in Seq(Frames) /\ Len(stack') = Len(stack) - 1
        /\ \A i \in 1 .. Len(stack) - 1 : stack'[i] = stack[i]
    BY <2>1, <2>2, SubSeqProperties DEF Popped
  <2> QED
    BY <2>1, <2>2, <2>3, LenProperties
<1>2. OnStack = OnStack' \cup {Top.script}
  BY <1>1 DEF OnStack, Top
<1> QED
  BY <1>1, <1>2 DEF Top

\* The script on top is on no other place of the stack.
LEMMA PopApart ==
    ASSUME TypeOK, StackInv, stack # << >>, stack' = Popped
    PROVE  /\ Top.script \notin OnStack' /\ Top.script \in OnStack
           /\ Real[Top.key] = Top.script
           /\ Top.saved = IF stack' = << >> THEN CoreDir ELSE DirOf[Top'.script]
           /\ StackInv'
<1>1. /\ stack' \in Seq(Frames) /\ Len(stack') = Len(stack) - 1 /\ Len(stack) \in Nat \ {0}
      /\ \A i \in DOMAIN stack' : i \in DOMAIN stack /\ stack'[i] = stack[i]
      /\ stack' # << >> => Top' = stack[Len(stack) - 1]
  BY PopFacts DEF TypeOK
<1>2. DOMAIN stack = 1 .. Len(stack) /\ DOMAIN stack' = 1 .. Len(stack) - 1
  BY <1>1 DEF TypeOK
<1>3. Top.script \notin OnStack'
  BY <1>1, <1>2 DEF OnStack, StackInv, Top
<1>4. StackInv'
  BY <1>1, <1>2 DEF StackInv
<1>5. Top.saved = IF stack' = << >> THEN CoreDir ELSE DirOf[Top'.script]
  BY <1>1, <1>2 DEF StackInv, Top
<1> QED
  BY <1>1, <1>2, <1>3, <1>4, <1>5 DEF StackInv, OnStack, Top

-----------------------------------------------------------------------------
(* The calls. *)

LEMMA InvInitial == Init => Inv
<1> SUFFICES ASSUME Init PROVE Inv
  OBVIOUS
<1> USE RequireAssumption DEF Init
<1>1. OnStack = {} /\ DOMAIN stack = {}
  BY DEF OnStack
<1>2. Scripts \subseteq Keys
  BY DEF Keys
<1>3. \A k \in Keys : cache[k] = "none"
  OBVIOUS
<1>4. << >> \in Seq(Frames)
  BY EmptySeq
<1>5. TypeOK
  BY <1>4 DEF TypeOK
<1> QED
  BY <1>1, <1>2, <1>3, <1>5 DEF Inv, DirOfRunning, MarksInProgress, RunsOnce,
     KeysAgree, OwnExports, MarkHidden, StackInv, ExportsInv, HistoryInv

LEMMA KeyTypes ==
    ASSUME TypeOK, NEW name \in Asked
    PROVE  KeyOf(name) \in Keys
<1>1. name \in AbsNames \cup Names
  <2>1. CASE Starting
    <3>1. booted + 1 \in 1 .. Len(Boot) /\ Boot \in Seq(AbsNames \cup Names)
      BY <2>1, RequireAssumption DEF TypeOK, Starting
    <3>2. Boot[booted + 1] \in AbsNames \cup Names
      BY <3>1
    <3> QED
      BY <2>1, <3>2 DEF Asked
  <2>2. CASE ~Starting
    BY <2>2 DEF Asked
  <2> QED
    BY <2>1, <2>2
<1> QED
  BY <1>1 DEF TypeOK, KeyOf, Keys

\* A step that leaves the cache, the stack and the histories alone.
LEMMA InvKept ==
    ASSUME Inv, UNCHANGED <<cache, stack, currentDir, exports, histories>>, TypeOK'
    PROVE  Inv'
  BY DEF Inv, histories, DirOfRunning, MarksInProgress, RunsOnce, KeysAgree, OwnExports,
     MarkHidden, StackInv, ExportsInv, HistoryInv, OnStack, Top

LEMMA CachedStep == ASSUME Inv, NEW name \in Asked, Cached(name) PROVE Inv'
<1>1. booted' \in Nat
  BY DEF Inv, TypeOK, Cached, Returns
<1>2. TypeOK'
  BY <1>1 DEF Inv, TypeOK, Cached, histories
<1> QED
  BY <1>2, InvKept DEF Cached

LEMMA QuietSteps ==
    ASSUME Inv, \/ Throw \/ Catch \/ End \/ Over
                \/ \E name \in Asked : Refused(name) \/ Uncompilable(name)
    PROVE  Inv'
<1>1. UNCHANGED <<cache, stack, currentDir, exports, histories, booted>>
      /\ throwing' \in BOOLEAN /\ mode' \in {"running", "ended", "crashed"}
  BY DEF Inv, TypeOK, Throw, Catch, End, Over, Refused, Uncompilable, vars, histories
<1>2. TypeOK'
  BY <1>1 DEF Inv, TypeOK, histories
<1> QED
  BY <1>1, <1>2, InvKept

\* The entry of a key that leads to a script.
LEMMA HeldFacts ==
    ASSUME TypeOK, NEW k \in Keys, Held(k) # "missing"
    PROVE  Real[k] \in Scripts /\ Real[k] \in Keys /\ Held(k) = cache[Real[k]]
           /\ cache[Real[k]] \in Scripts \cup Kept
  BY RequireAssumption DEF TypeOK, Held, Kept, Keys

LEMMA KnownStep == ASSUME Inv, NEW name \in Asked, Known(name) PROVE Inv'
<1> DEFINE k == KeyOf(name)
<1>1. /\ k \in Keys /\ Real[k] \in Scripts /\ Real[k] \in Keys
      /\ Held(k) = cache[Real[k]] /\ cache[Real[k]] \in Scripts \cup Kept
      /\ cache[Real[k]] \notin Kept
      /\ cache[k] = "none"
  BY KeyTypes, HeldFacts DEF Inv, Known, Kept
<1>2. k \notin Scripts
  BY <1>1, RequireAssumption DEF Inv
<1>3. /\ \A x \in Keys \ {k} : cache'[x] = cache[x]
      /\ cache'[k] = cache[Real[k]]
      /\ UNCHANGED <<stack, currentDir, exports, throwing, mode, histories>>
  BY <1>1 DEF Known, Inv, TypeOK
<1>4. \A s \in Scripts : cache'[s] = cache[s] /\ s \in Keys
  BY <1>2, <1>3, RequireAssumption DEF Keys
<1>5. TypeOK'
  <2>1. booted' \in Nat
    BY DEF Inv, TypeOK, Known, Returns
  <2> QED
    BY <1>1, <2>1 DEF Inv, TypeOK, Known, Kept, histories
<1>6. KeysAgree'
  BY <1>1, <1>2, <1>3, <1>4 DEF Inv, KeysAgree
<1>7. MarkHidden'
  BY <1>1, <1>3, RequireAssumption DEF Inv, MarkHidden, Kept, histories
<1>8. MarksInProgress' /\ RunsOnce' /\ OwnExports' /\ HistoryInv'
  BY <1>3, <1>4 DEF Inv, MarksInProgress, RunsOnce, OwnExports, HistoryInv, OnStack, histories
<1>9. DirOfRunning' /\ StackInv' /\ ExportsInv'
  BY <1>3 DEF Inv, DirOfRunning, StackInv, ExportsInv, OnStack, Top, histories
<1> QED
  BY <1>5, <1>6, <1>7, <1>8, <1>9 DEF Inv

\* The file that is to be read.
LEMMA NewFacts ==
    ASSUME Inv, NEW name \in Asked, New(name), NEW s, s = Real[KeyOf(name)]
    PROVE  /\ KeyOf(name) \in Keys /\ s \in Scripts /\ s \in Keys
           /\ cache[s] = "none" /\ cache[KeyOf(name)] = "none"
           /\ s \notin OnStack /\ s \notin failed /\ s \notin ones
           /\ s \in ran => s \in empty
<1>1. KeyOf(name) \in Keys
  BY KeyTypes DEF Inv
<1>2. s \in Scripts /\ s \in Keys /\ cache[s] = "none"
  BY <1>1, HeldFacts DEF Inv, New
<1>3. s \notin OnStack /\ s \notin failed /\ s \notin ones
  BY <1>2 DEF Inv, MarksInProgress
<1> QED
  BY <1>1, <1>2, <1>3 DEF Inv, HistoryInv, New

\* Marking a script that has no entry.
LEMMA MarkStep ==
    ASSUME Inv, NEW s \in Scripts, cache[s] = "none", UNCHANGED ones,
           cache' = [cache EXCEPT ![s] = "mark"]
    PROVE  /\ cache' \in [Keys -> Scripts \cup {"none", "mark"}]
           /\ cache'[s] = "mark" /\ \A k \in Keys \ {s} : cache'[k] = cache[k]
           /\ KeysAgree' /\ MarkHidden'
<1>1. s \in Keys /\ Real[s] = s /\ \A k \in Keys : Real[k] \in Scripts => Real[k] \in Keys
  BY RequireAssumption DEF Keys
<1>2. /\ cache' \in [Keys -> Scripts \cup {"none", "mark"}]
      /\ cache'[s] = "mark" /\ \A k \in Keys \ {s} : cache'[k] = cache[k]
  BY <1>1 DEF Inv, TypeOK
<1>3. KeysAgree'
  BY <1>1, <1>2 DEF Inv, KeysAgree
<1>4. MarkHidden'
  BY <1>1, <1>2 DEF Inv, MarkHidden
<1> QED
  BY <1>2, <1>3, <1>4

LEMMA UnreadableStep == ASSUME Inv, NEW name \in Asked, Unreadable(name) PROVE Inv'
<1> DEFINE s == Real[KeyOf(name)]
<1> USE DEF Unreadable
<1>1. s \in Scripts /\ cache[s] = "none" /\ s \notin OnStack /\ s \in Keys
  BY NewFacts
<1>2. /\ cache' \in [Keys -> Scripts \cup {"none", "mark"}]
      /\ cache'[s] = "mark" /\ \A k \in Keys \ {s} : cache'[k] = cache[k]
      /\ KeysAgree' /\ MarkHidden'
  BY <1>1, MarkStep
<1>3. OnStack' = OnStack /\ Scripts \subseteq Keys
  BY RequireAssumption DEF OnStack, Keys
<1>4. TypeOK'
  BY <1>1, <1>2 DEF Inv, TypeOK
<1>5. MarksInProgress'
  BY <1>1, <1>2, <1>3 DEF Inv, MarksInProgress
<1>6. RunsOnce' /\ HistoryInv'
  BY <1>1, <1>2, <1>3 DEF Inv, RunsOnce, HistoryInv
<1>7. OwnExports'
  BY <1>1, <1>2, <1>3 DEF Inv, OwnExports
<1>8. DirOfRunning' /\ StackInv' /\ ExportsInv'
  BY <1>3 DEF Inv, DirOfRunning, StackInv, ExportsInv, Top
<1> QED
  BY <1>2, <1>4, <1>5, <1>6, <1>7, <1>8 DEF Inv

LEMMA LoadStep == ASSUME Inv, NEW name \in Asked, Load(name) PROVE Inv'
<1> DEFINE s == Real[KeyOf(name)]
           f == [script |-> s, key |-> KeyOf(name), saved |-> currentDir]
<1> USE DEF Load, Wrapped, Begun
<1>1. /\ s \in Scripts /\ cache[s] = "none" /\ s \notin OnStack /\ s \in Keys
      /\ s \notin failed /\ s \notin ones /\ KeyOf(name) \in Keys
      /\ s \in ran => s \in empty
  BY NewFacts
<1>2. /\ cache' \in [Keys -> Scripts \cup {"none", "mark"}]
      /\ cache'[s] = "mark" /\ \A k \in Keys \ {s} : cache'[k] = cache[k]
      /\ KeysAgree' /\ MarkHidden'
  BY <1>1, MarkStep
<1>3. f \in Frames /\ stack' = Append(stack, f)
  BY <1>1 DEF Frames, Inv, TypeOK
<1>4. /\ stack' \in Seq(Frames) /\ stack' # << >> /\ Len(stack') = Len(stack) + 1
      /\ \A i \in DOMAIN stack : stack'[i] = stack[i]
      /\ Top' = f /\ OnStack' = OnStack \cup {s}
  BY <1>3, PushFacts DEF Inv, TypeOK
<1>5. OnStack \subseteq Scripts /\ Scripts \subseteq Keys
  <2>1. \A i \in DOMAIN stack : stack[i] \in Frames
    BY LenProperties, ElementOfSeq DEF Inv, TypeOK
  <2> QED
    BY <2>1, RequireAssumption DEF OnStack, Keys, Frames
<1>6. TypeOK'
  <2>1. currentDir' \in Dirs
    <3>1. currentDir' = DirOf[s]
      OBVIOUS
    <3> QED
      BY <1>1, <3>1, RequireAssumption
  <2>2. /\ exports' \in Scripts \cup {"none", "mark"}
        /\ clobbered' \subseteq Scripts
        /\ again' \subseteq ran' /\ ran' \subseteq Scripts
    BY <1>1, <1>5 DEF Inv, TypeOK
  <2>3. /\ throwing' = throwing /\ booted' = booted /\ mode' = mode
        /\ failed' = failed /\ empty' = empty /\ ones' = ones
    OBVIOUS
  <2> QED
    BY <1>2, <1>4, <2>1, <2>2, <2>3 DEF Inv, TypeOK
<1>7. MarksInProgress'
  BY <1>1, <1>2, <1>4, <1>5 DEF Inv, MarksInProgress
<1>8. RunsOnce' /\ HistoryInv'
  BY <1>1, <1>2, <1>4, <1>5 DEF Inv, TypeOK, RunsOnce, HistoryInv
<1>9. OwnExports'
  BY <1>1, <1>2, <1>5 DEF Inv, OwnExports
<1>10. DirOfRunning'
  BY <1>4 DEF DirOfRunning
<1>11. StackInv'
  <2>1. DOMAIN stack = 1 .. Len(stack) /\ DOMAIN stack' = 1 .. Len(stack) + 1 /\ Len(stack) \in Nat
    BY <1>4, LenProperties DEF Inv, TypeOK
  <2>2. stack'[Len(stack) + 1] = f
    BY <1>4 DEF Top
  <2>3. f.saved = IF Len(stack) + 1 = 1 THEN CoreDir ELSE DirOf[stack[Len(stack)].script]
    BY <2>1, EmptySeq DEF Inv, TypeOK, DirOfRunning, Top
  <2>4. \A i \in 1 .. Len(stack) : stack[i].script # s
    BY <1>1, <2>1 DEF OnStack
  <2>5. \A i \in DOMAIN stack' : /\ Real[stack'[i].key] = stack'[i].script
                                 /\ stack'[i].saved =
                                      IF i = 1 THEN CoreDir ELSE DirOf[stack'[i - 1].script]
    BY <1>4, <2>1, <2>2, <2>3 DEF Inv, StackInv
  <2>6. \A i, j \in DOMAIN stack' : stack'[i].script = stack'[j].script => i = j
    BY <1>4, <2>1, <2>2, <2>4 DEF Inv, StackInv
  <2> QED
    BY <2>5, <2>6 DEF StackInv
<1>12. ExportsInv'
  <2>1. DOMAIN stack = 1 .. Len(stack) /\ DOMAIN stack' = 1 .. Len(stack) + 1 /\ Len(stack) \in Nat
    BY <1>4, LenProperties DEF Inv, TypeOK
  <2>2. stack'[Len(stack) + 1] = f /\ f.script = s
    BY <1>4 DEF Top
  <2>3. \A x \in OnStack' \ (Local \cup clobbered') : exports' \in Kept \cup {x}
    BY <1>1, <1>4, <1>5 DEF Inv, ExportsInv
  <2>4. ASSUME NEW i \in DOMAIN stack', NEW j \in DOMAIN stack', i < j,
               stack'[i].script \notin Local, stack'[j].script \notin Local
        PROVE  stack'[i].script \in clobbered'
    <3>1. i \in DOMAIN stack /\ stack'[i] = stack[i] /\ stack[i].script \in OnStack
      BY <1>4, <2>1, <2>4 DEF OnStack
    <3>2. CASE j \in DOMAIN stack
      BY <1>4, <2>4, <3>1, <3>2 DEF Inv, ExportsInv
    <3>3. CASE j = Len(stack) + 1
      BY <2>2, <2>4, <3>1, <3>3
    <3> QED
      BY <2>1, <3>2, <3>3
  <2> QED
    BY <2>3, <2>4 DEF ExportsInv
<1> QED
  BY <1>2, <1>6, <1>7, <1>8, <1>9, <1>10, <1>11, <1>12 DEF Inv

-----------------------------------------------------------------------------
(* The way back. *)

LEMMA UnwindStep == ASSUME Inv, Unwind PROVE Inv'
<1> USE DEF Unwind
<1>1. /\ stack' \in Seq(Frames) /\ Top \in Frames /\ OnStack = OnStack' \cup {Top.script}
  BY PopFacts DEF Inv, TypeOK
<1>2. /\ Top.script \notin OnStack' /\ Top.script \in OnStack
      /\ Top.saved = IF stack' = << >> THEN CoreDir ELSE DirOf[Top'.script]
      /\ StackInv'
  BY PopApart DEF Inv
<1>3. TypeOK'
  BY <1>1 DEF Inv, TypeOK, Frames
<1>4. DirOfRunning'
  BY <1>2 DEF DirOfRunning
<1>5. MarksInProgress' /\ HistoryInv'
  BY <1>1, <1>2 DEF Inv, MarksInProgress, HistoryInv
<1>6. ExportsInv'
  BY <1>1, PopFacts DEF Inv, TypeOK, ExportsInv
<1>7. RunsOnce' /\ KeysAgree' /\ OwnExports' /\ MarkHidden'
  BY DEF Inv, RunsOnce, KeysAgree, OwnExports, MarkHidden
<1> QED
  BY <1>2, <1>3, <1>4, <1>5, <1>6, <1>7 DEF Inv

\* What the wrapper returns is what the script left itself if no other one got in between.
LEMMA ExportsFacts ==
    ASSUME Inv, NEW s \in OnStack, s \in Scripts, NEW v \in Returned(s)
    PROVE  v \in Scripts \cup Kept /\ (s \notin clobbered => v \in Kept \cup {s})
<1>1. Besides[s] \subseteq Kept
  BY RequireAssumption DEF Kept
<1>2. exports \in Scripts \cup Kept /\ (s \notin Local \cup clobbered => exports \in Kept \cup {s})
  BY DEF Inv, TypeOK, ExportsInv, Kept
<1> QED
  BY <1>1, <1>2 DEF ExportsOf, Returned

LEMMA AssignStep == ASSUME Inv, NEW value, Assign(value) PROVE Inv'
<1> USE DEF Assign
<1>1. /\ stack \in Seq(Frames) /\ stack # << >> /\ Top.script \notin Local
      /\ Len(stack) \in Nat \ {0} /\ DOMAIN stack = 1 .. Len(stack)
  BY EmptySeq, LenProperties DEF Inv, TypeOK
<1>2. Top \in Frames
  BY <1>1, ElementOfSeq DEF Top
<1>3. Top.script \in Scripts /\ exports' \in Kept \cup {Top.script}
  BY <1>2, RequireAssumption DEF Frames, Kept
<1>4. UNCHANGED <<cache, stack, currentDir, throwing, booted, mode, histories>>
  OBVIOUS
<1>5. OnStack' = OnStack
  BY <1>4 DEF OnStack
<1>6. TypeOK'
  BY <1>3, <1>4 DEF Inv, TypeOK, Kept, histories
<1>7. ASSUME NEW s \in OnStack \ (Local \cup clobbered) PROVE s = Top.script
  <2>1. PICK i \in 1 .. Len(stack) : stack[i].script = s
    BY <1>1 DEF OnStack
  <2>2. CASE i < Len(stack)
    BY <1>1, <1>7, <2>1, <2>2 DEF Inv, ExportsInv, Top
  <2>3. CASE i = Len(stack)
    BY <2>1, <2>3 DEF Top
  <2>4. i < Len(stack) \/ i = Len(stack)
    <3>1. PICK n : n = Len(stack)
      OBVIOUS
    <3>2. n \in Nat /\ i \in 1 .. n
      BY <1>1, <3>1
    <3>3. i < n \/ i = n
      BY ONLY <3>2
    <3> QED
      BY <3>1, <3>3
  <2> QED
    BY <2>2, <2>3, <2>4
<1>8. ExportsInv'
  <2>1. \A s \in OnStack' \ (Local \cup clobbered') : exports' \in Kept \cup {s}
    BY <1>3, <1>4, <1>5, <1>7 DEF histories
  <2>2. \A i, j \in DOMAIN stack' :
           i < j /\ stack'[i].script \notin Local /\ stack'[j].script \notin Local =>
              stack'[i].script \in clobbered'
    BY <1>4 DEF Inv, ExportsInv, histories
  <2> QED
    BY <2>1, <2>2 DEF ExportsInv
<1>9. /\ DirOfRunning' /\ MarksInProgress' /\ RunsOnce' /\ KeysAgree' /\ OwnExports'
      /\ MarkHidden' /\ StackInv' /\ HistoryInv'
  BY <1>4, <1>5 DEF Inv, DirOfRunning, MarksInProgress, RunsOnce, KeysAgree, OwnExports,
     MarkHidden, StackInv, HistoryInv, Top, histories
<1> QED
  BY <1>6, <1>8, <1>9 DEF Inv

LEMMA FinishStep == ASSUME Inv, Finish PROVE Inv'
<1> DEFINE s == Top.script
<1>0. PICK v \in Returned(s) :
         /\ cache' = [cache EXCEPT ![s] = v, ![Top.key] = v]
         /\ Left(s, v)
  BY DEF Finish
<1> USE DEF Finish, Left
<1>1. /\ stack' \in Seq(Frames) /\ Top \in Frames /\ OnStack = OnStack' \cup {s}
      /\ Len(stack) \in Nat
  BY PopFacts DEF Inv, TypeOK
<1>2. /\ s \notin OnStack' /\ s \in OnStack /\ Real[Top.key] = s
      /\ Top.saved = IF stack' = << >> THEN CoreDir ELSE DirOf[Top'.script]
      /\ StackInv'
  BY PopApart DEF Inv
<1>3. s \in Scripts /\ Top.key \in Keys /\ Scripts \subseteq Keys
  BY <1>1, RequireAssumption DEF Frames, Keys
<1>4. v \in Scripts \cup Kept /\ (s \notin clobbered => v \in Kept \cup {s})
  BY <1>2, <1>3, ExportsFacts
<1>5. cache[s] = "mark" /\ s \notin failed /\ s \notin ones
  BY <1>2, <1>3 DEF Inv, MarksInProgress, HistoryInv
<1>6. /\ cache' \in [Keys -> Scripts \cup {"none", "mark"}]
      /\ \A k \in Keys : cache'[k] = IF k = s \/ k = Top.key THEN v ELSE cache[k]
  BY <1>0, <1>3, <1>4 DEF Inv, TypeOK, Kept
<1>7. \A k \in Scripts : k = Top.key => k = s
  BY <1>2, RequireAssumption
<1>8. TypeOK'
  <2>1. currentDir' \in Dirs
    BY <1>1 DEF Frames
  <2>2. booted' \in Nat
    BY DEF Inv, TypeOK
  <2>3. empty' \subseteq Scripts /\ ones' \subseteq Scripts
    BY <1>0, <1>3 DEF Inv, TypeOK
  <2>4. UNCHANGED <<exports, throwing, mode, ran, again, failed, clobbered>>
    BY <1>0
  <2> QED
    BY <1>1, <1>6, <2>1, <2>2, <2>3, <2>4 DEF Inv, TypeOK
<1>9. KeysAgree'
  <2>1. \A k \in Keys : cache[k] # "none" /\ Real[k] = s => k = s
    <3> SUFFICES ASSUME NEW k \in Keys, cache[k] # "none", Real[k] = s PROVE k = s
      OBVIOUS
    <3>1. cache[k] = "mark"
      BY <1>5 DEF Inv, KeysAgree
    <3>2. k \in Scripts
      BY <1>5, <3>1 DEF Inv, MarkHidden
    <3> QED
      BY <3>2, RequireAssumption
  <2>2. Real[s] = s
    BY <1>3, RequireAssumption
  <2>3. ASSUME NEW k \in Keys, cache'[k] # "none"
        PROVE  Real[k] \in Scripts /\ cache'[k] = cache'[Real[k]]
    <3>1. CASE k = s \/ k = Top.key
      BY <3>1, <1>2, <1>3, <1>6, <2>2
    <3>2. CASE k # s /\ k # Top.key
      <4>1. cache'[k] = cache[k] /\ Real[k] \in Scripts /\ cache[k] = cache[Real[k]] /\ Real[k] # s
        BY <3>2, <1>6, <2>1, <2>3 DEF Inv, KeysAgree
      <4> QED
        BY <4>1, <1>3, <1>6, <1>7
    <3> QED
      BY <3>1, <3>2
  <2> QED
    BY <2>3 DEF KeysAgree
<1>10. MarkHidden'
  BY <1>0, <1>2, <1>3, <1>6 DEF Inv, MarkHidden
<1>11. MarksInProgress'
  <2>1. failed' = failed /\ ones' = IF v = "mark" THEN ones \cup {s} ELSE ones
    BY <1>0
  <2>2. ASSUME NEW x \in Scripts
        PROVE  cache'[x] = "mark" <=> x \in OnStack' \cup failed' \cup ones'
    <3>1. CASE x = s
      BY <1>2, <1>3, <1>5, <1>6, <2>1, <3>1
    <3>2. CASE x # s
      <4>1. cache'[x] = cache[x]
        BY <1>3, <1>6, <1>7, <3>2
      <4> QED
        BY <1>1, <2>1, <3>2, <4>1 DEF Inv, MarksInProgress
    <3> QED
      BY <3>1, <3>2
  <2> QED
    BY <2>2 DEF MarksInProgress
<1>12. RunsOnce' /\ HistoryInv'
  <2>1. /\ empty' = (IF v = "none" THEN empty \cup {s} ELSE empty)
        /\ ones' = (IF v = "mark" THEN ones \cup {s} ELSE ones)
        /\ UNCHANGED <<ran, again, failed>>
    BY <1>0
  <2>2. RunsOnce'
    BY <2>1 DEF Inv, RunsOnce
  <2>3. ASSUME NEW x \in Scripts, cache'[x] = "none", x \in ran' PROVE x \in empty'
    <3>1. CASE x = s
      BY <1>3, <1>6, <2>1, <2>3, <3>1
    <3>2. CASE x # s
      BY <1>3, <1>6, <1>7, <2>1, <2>3, <3>2 DEF Inv, HistoryInv
    <3> QED
      BY <3>1, <3>2
  <2>4. OnStack' \cap (failed' \cup ones') = {}
    BY <1>1, <1>2, <2>1 DEF Inv, HistoryInv
  <2> QED
    BY <2>2, <2>3, <2>4 DEF HistoryInv
<1>13. OwnExports'
  BY <1>0, <1>3, <1>4, <1>6, <1>7 DEF Inv, OwnExports, Kept
<1>14. DirOfRunning' /\ ExportsInv'
  <2>1. DirOfRunning'
    BY <1>2 DEF DirOfRunning
  <2>2. UNCHANGED <<exports, clobbered>>
    BY <1>0
  <2>3. ExportsInv'
    BY <1>1, <2>2, PopFacts DEF Inv, TypeOK, ExportsInv
  <2> QED
    BY <2>1, <2>3
<1> QED
  BY <1>2, <1>8, <1>9, <1>10, <1>11, <1>12, <1>13, <1>14 DEF Inv

-----------------------------------------------------------------------------

LEMMA InvStep == Inv /\ [Next]_vars => Inv'
<1> SUFFICES ASSUME Inv, [Next]_vars PROVE Inv'
  OBVIOUS
<1>1. CASE UNCHANGED vars
  <2>1. TypeOK'
    BY <1>1 DEF vars, histories, Inv, TypeOK
  <2> QED
    BY <1>1, <2>1, InvKept DEF vars, histories
<1>2. CASE \E name \in Asked : Ask(name)
  BY <1>2, CachedStep, QuietSteps, KnownStep, UnreadableStep, LoadStep DEF Ask
<1>3. CASE Throw \/ Catch \/ End \/ Over
  BY <1>3, QuietSteps
<1>4. CASE \E value \in Scripts \cup {"none", "mark"} : Assign(value)
  BY <1>4, AssignStep
<1> QED
  BY <1>1, <1>2, <1>3, <1>4, UnwindStep, FinishStep DEF Next

LEMMA Invariant == Spec => []Inv
  BY InvInitial, InvStep, PTL DEF Spec

\* The cache holds exports or marks only, and the stack well-formed requires.
THEOREM TypeCorrect == Spec => []TypeOK
<1>1. Inv => TypeOK
  BY DEF Inv
<1> QED
  BY <1>1, Invariant, PTL

\* However deep requires nest and from wherever they throw, $currentDir is that of the
\* script that is running.
THEOREM DirAlwaysRestored == Spec => []DirOfRunning
<1>1. Inv => DirOfRunning
  BY DEF Inv
<1> QED
  BY <1>1, Invariant, PTL

\* The mark is on the scripts being required, on those that failed and on those that
\* left the number 1, and on no others.
THEOREM MarksAreAccounted == Spec => []MarksInProgress
<1>1. Inv => MarksInProgress
  BY DEF Inv
<1> QED
  BY <1>1, Invariant, PTL

\* No script but one that left null or undefined is run a second time, under any name.
THEOREM ScriptsRunOnce == Spec => []RunsOnce
<1>1. Inv => RunsOnce
  BY DEF Inv
<1> QED
  BY <1>1, Invariant, PTL

\* All names of a file lead to the same exports.
THEOREM NamesAgree == Spec => []KeysAgree
<1>1. Inv => KeysAgree
  BY DEF Inv
<1> QED
  BY <1>1, Invariant, PTL

\* Under a name that is no real path the mark is found only for a script that left it.
THEOREM MarkStaysHidden == Spec => []MarkHidden
<1>1. Inv => MarkHidden
  BY DEF Inv
<1> QED
  BY <1>1, Invariant, PTL

\* Exports are a script's own unless it shares the global with one run inside it.
THEOREM ExportsAreOwn == Spec => []OwnExports
<1>1. Inv => OwnExports
  BY DEF Inv
<1> QED
  BY <1>1, Invariant, PTL
=============================================================================
