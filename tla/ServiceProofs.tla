--------------------------- MODULE ServiceProofs ---------------------------
(***************************************************************************)
(* The event loop, for every number of descriptors, files and events.      *)
(***************************************************************************)
EXTENDS Service, FiniteSetTheorems, TLAPS

-----------------------------------------------------------------------------
(* What holds whatever scripts call. *)

AnyInv == TypeOK /\ Watched /\ CountMatches

LEMMA CallbackTypes ==
    /\ \A f \in 0 .. MaxFiles, k \in Kinds :
          [file |-> f, event |-> k] \in Callbacks /\ [file |-> f, event |-> k] # None
    /\ \A f \in 0 .. MaxFiles : [file |-> f, event |-> "error"] \in ErrorCallbacks
    /\ None \notin Callbacks
  BY DEF Callbacks, ErrorCallbacks, None, Kinds

\* in_or_out counts a descriptor exactly when it is new, del when it was there.
LEMMA CountAdded ==
    ASSUME TypeOK, CountMatches, NEW fd \in Fds, NEW cb \in Callbacks,
           fds' = [fds EXCEPT ![fd] = cb],
           fdsNumber' = IF fds[fd] # None THEN fdsNumber ELSE fdsNumber + 1
    PROVE  CountMatches'
<1>1. Registered \subseteq Fds /\ IsFiniteSet(Registered)
  BY ServiceAssumption, FS_Subset DEF Registered
<1>2. Registered' = Registered \cup {fd}
  BY CallbackTypes DEF Registered, TypeOK
<1>3. fd \in Registered <=> fds[fd] # None
  BY DEF Registered
<1>4. Cardinality(Registered \cup {fd}) =
        IF fd \in Registered THEN Cardinality(Registered) ELSE Cardinality(Registered) + 1
  BY <1>1, FS_AddElement
<1> QED
  BY <1>2, <1>3, <1>4 DEF CountMatches

LEMMA CountRemoved ==
    ASSUME TypeOK, CountMatches, NEW fd \in Fds, Unregister(fd)
    PROVE  CountMatches'
<1>1. Registered \subseteq Fds /\ IsFiniteSet(Registered)
  BY ServiceAssumption, FS_Subset DEF Registered
<1>2. Registered' = Registered \ {fd}
  BY DEF Registered, TypeOK, Unregister
<1>3. fd \in Registered <=> fds[fd] # None
  BY DEF Registered
<1>4. Cardinality(Registered \ {fd}) =
        IF fd \in Registered THEN Cardinality(Registered) - 1 ELSE Cardinality(Registered)
  BY <1>1, FS_RemoveElement
<1> QED
  BY <1>2, <1>3, <1>4 DEF CountMatches, Unregister

LEMMA CountKept ==
    ASSUME CountMatches, UNCHANGED <<fds, fdsNumber>>
    PROVE  CountMatches'
  BY DEF CountMatches, Registered

LEMMA AnyInitial == Init => AnyInv
<1> SUFFICES ASSUME Init PROVE AnyInv
  OBVIOUS
<1>1. Registered = {}
  BY DEF Init, Registered
<1>2. CountMatches
  BY <1>1, FS_EmptySet DEF Init, CountMatches
<1>3. TypeOK
  BY ServiceAssumption DEF Init, TypeOK, Modes, Kinds
<1>4. Watched
  BY DEF Init, Watched
<1> QED
  BY <1>2, <1>3, <1>4 DEF AnyInv

LEMMA OpenStep == ASSUME AnyInv, NEW fd \in Fds, Open(fd) PROVE AnyInv'
<1> USE DEF AnyInv, Open, tables
<1>1. CountMatches'
  BY CountKept
<1>2. TypeOK'
  BY ServiceAssumption DEF TypeOK
<1>3. Watched'
  BY DEF TypeOK, Watched
<1> QED
  BY <1>1, <1>2, <1>3

LEMMA WaitingFiles == ASSUME TypeOK, NEW fd \in Fds PROVE Waiting(fd) \subseteq 0 .. MaxFiles
<1>1. \A e \in Events \cup Garbage : e.file \in 0 .. MaxFiles
  BY ServiceAssumption DEF Events, Garbage, Files
<1> QED
  BY <1>1 DEF TypeOK, Waiting

LEMMA InOrOutStep ==
    ASSUME AnyInv, NEW fd \in Fds, NEW k \in Kinds, InOrOut(fd, k) PROVE AnyInv'
<1> USE DEF AnyInv, InOrOut, Mod, Add
<1> DEFINE cb == [file |-> file[fd], event |-> k]
<1>0. cb \in Callbacks /\ cb # None
  BY CallbackTypes DEF TypeOK
<1>1. CountMatches'
  BY <1>0, CountAdded
<1>2. TypeOK'
  <2>1. turned' \subseteq 0 .. MaxFiles
    BY WaitingFiles DEF TypeOK
  <2>2. interest' \in [Fds -> Kinds \cup {"none"}] /\ fds' \in [Fds -> Callbacks \cup {None}]
    BY <1>0 DEF TypeOK
  <2>3. fdsNumber' \in Int
    BY DEF TypeOK
  <2> QED
    BY <2>1, <2>2, <2>3 DEF TypeOK
<1>3. Watched'
  BY <1>0 DEF TypeOK, Watched
<1> QED
  BY <1>1, <1>2, <1>3

LEMMA SetErrorStep == ASSUME AnyInv, NEW fd \in Fds, SetError(fd) PROVE AnyInv'
<1> USE DEF AnyInv, SetError, kernel
<1>1. CountMatches'
  BY CountKept
<1>2. TypeOK'
  BY CallbackTypes DEF TypeOK
<1>3. Watched'
  BY DEF Watched
<1> QED
  BY <1>1, <1>2, <1>3

LEMMA DelStep == ASSUME AnyInv, NEW fd \in Fds, Del(fd) PROVE AnyInv'
<1> USE DEF AnyInv, Del
<1>1. CountMatches'
  BY CountRemoved
<1>2. TypeOK'
  BY DEF TypeOK, Unregister
<1>3. Watched'
  BY DEF TypeOK, Watched, Unregister
<1> QED
  BY <1>1, <1>2, <1>3

LEMMA ReleaseFacts ==
    ASSUME AnyInv, NEW fd \in Fds, Release(fd)
    PROVE  /\ file' \in [Fds -> 0 .. MaxFiles] /\ opened' \in 0 .. MaxFiles
           /\ interest' \in [Fds -> Kinds \cup {"none"}]
           /\ batch' \subseteq Events \cup Garbage /\ slot' \subseteq Events
           /\ driver' \in {"run", "runJS"} /\ mode' \in Modes
           /\ mine' \subseteq Fds /\ hit' \subseteq 0 .. MaxFiles
           /\ turned' \subseteq 0 .. MaxFiles
           /\ \A x \in Fds : interest'[x] # "none" =>
                 x # fd /\ file'[x] # 0 /\ fds[x] # None
<1> USE DEF AnyInv, TypeOK, Release
<1>1. hit' \subseteq 0 .. MaxFiles
  BY WaitingFiles
<1>2. file' \in [Fds -> 0 .. MaxFiles] /\ interest' \in [Fds -> Kinds \cup {"none"}]
  BY ServiceAssumption
<1>3. \A x \in Fds : interest'[x] # "none" => x # fd /\ file'[x] # 0 /\ fds[x] # None
  BY DEF Watched
<1> QED
  BY <1>1, <1>2, <1>3

LEMMA CloseStep == ASSUME AnyInv, NEW fd \in Fds, Close(fd) PROVE AnyInv'
<1>1. CountMatches'
  BY CountRemoved DEF AnyInv, Close
<1>2. TypeOK'
  BY ReleaseFacts DEF AnyInv, TypeOK, Close, Unregister
<1>3. Watched'
  BY ReleaseFacts DEF AnyInv, TypeOK, Watched, Close, Unregister
<1> QED
  BY <1>1, <1>2, <1>3 DEF AnyInv

LEMMA RawCloseStep == ASSUME AnyInv, NEW fd \in Fds, RawClose(fd) PROVE AnyInv'
<1>1. CountMatches'
  BY CountKept DEF AnyInv, RawClose, tables
<1>2. TypeOK'
  BY ReleaseFacts DEF AnyInv, TypeOK, RawClose, tables
<1>3. Watched'
  BY ReleaseFacts DEF Watched, RawClose, tables
<1> QED
  BY <1>1, <1>2, <1>3 DEF AnyInv

LEMMA EventTypes == \A e \in Events \cup Garbage : e.fd \in Fds /\ e.file \in 0 .. MaxFiles
  BY ServiceAssumption DEF Events, Garbage, Files

LEMMA WantedTypes == AnyInv => Wanted \subseteq Events
  BY DEF AnyInv, TypeOK, Watched, Wanted, Reportable, Events, Files, Kinds

\* Dispatch takes an event of the batch, whichever comes first.
LEMMA DispatchFacts ==
    ASSUME Dispatch
    PROVE  /\ UNCHANGED <<kernel, tables, slot, driver, hit, turned>>
           /\ \E e \in batch :
                 /\ batch' = batch \ {e}
                 /\ mode' = IF Chosen(e) = None THEN "crashed" ELSE "callback"
                 /\ mine' = {e.fd}
<1>1. Foremost \subseteq batch
  BY DEF Foremost
<1> QED
  BY <1>1 DEF Dispatch

LEMMA LoopStep == ASSUME AnyInv, Loop PROVE AnyInv'
<1> USE DEF AnyInv, kernel, tables
<1>1. UNCHANGED <<file, opened, interest, fds, fdsError, fdsNumber>>
  BY DEF Loop, Run, Wait, WaitFails, WaitFailsJS, LoopEnds, Dispatch, Return, Throw, Ended, vars
<1>2. CountMatches'
  BY <1>1, CountKept
<1>3. Watched'
  BY <1>1 DEF Watched
<1>4. /\ batch' \subseteq Events \cup Garbage /\ slot' \subseteq Events
      /\ driver' \in {"run", "runJS"} /\ mode' \in Modes
      /\ mine' \subseteq Fds /\ hit' \subseteq 0 .. MaxFiles /\ turned' \subseteq 0 .. MaxFiles
  <2> USE DEF TypeOK, Modes
  <2>1. CASE Wait
    BY <2>1, WantedTypes DEF Wait
  <2>2. CASE Dispatch
    BY <2>2, DispatchFacts, EventTypes
  <2>4. CASE WaitFailsJS
    <3>1. batch' \subseteq Events \cup Garbage
      BY <2>4 DEF WaitFailsJS
    <3>2. hit' \subseteq 0 .. MaxFiles
      BY <2>4, <3>1, EventTypes DEF WaitFailsJS
    <3> QED
      BY <2>4, <3>1, <3>2 DEF WaitFailsJS
  <2>3. CASE Run \/ WaitFails \/ LoopEnds \/ Return \/ Throw \/ Ended
    BY <2>3 DEF Run, WaitFails, LoopEnds, Return, Throw, Ended, vars
  <2> QED
    BY <2>1, <2>2, <2>3, <2>4 DEF Loop
<1>5. TypeOK'
  BY <1>1, <1>4 DEF TypeOK
<1> QED
  BY <1>2, <1>3, <1>5

LEMMA ScriptStep == ASSUME AnyInv, AnyScript PROVE AnyInv'
  BY OpenStep, InOrOutStep, SetErrorStep, DelStep, CloseStep, RawCloseStep
     DEF AnyScript, In, Out, Kinds

LEMMA AnyStep == AnyInv /\ [AnyNext]_vars => AnyInv'
<1> SUFFICES ASSUME AnyInv, [AnyNext]_vars PROVE AnyInv'
  OBVIOUS
<1>1. CASE UNCHANGED vars
  BY <1>1, CountKept DEF vars, AnyInv, TypeOK, Watched
<1> QED
  BY <1>1, LoopStep, ScriptStep DEF AnyNext

LEMMA AnyInvariant == AnySpec => []AnyInv
  BY AnyInitial, AnyStep, PTL DEF AnySpec

\* Whatever scripts call, the tables hold callbacks, the batch events and the loop's
\* bookkeeping numbers of files: no call order leaves a half-written entry.
THEOREM TypeCorrect == AnySpec => []TypeOK
<1>1. AnyInv => TypeOK
  BY DEF AnyInv
<1> QED
  BY <1>1, AnyInvariant, PTL

\* Whatever scripts call, in whatever order, fds_number is the number of registered
\* descriptors: the loop neither ends too early nor waits for nobody.
THEOREM CountAlwaysMatches == AnySpec => []CountMatches
<1>1. AnyInv => CountMatches
  BY DEF AnyInv
<1> QED
  BY <1>1, AnyInvariant, PTL

\* Whatever scripts call, epoll watches only open descriptors with a callback.
THEOREM WatchedAlways == AnySpec => []Watched
<1>1. AnyInv => Watched
  BY DEF AnyInv
<1> QED
  BY <1>1, AnyInvariant, PTL

-----------------------------------------------------------------------------
(* What BatchDrains rests on, whatever scripts call: the measure that falls. *)

\* A batch is finite, and the loop goes through one only while it has events.
BatchInv ==
    /\ IsFiniteSet(batch)
    /\ slot = {} \/ \E e : slot = {e}
    /\ mode = "dispatch" => batch # {}

\* Each turn takes one event; what a callback does adds none and drops none; and
\* the loop waits again only when none is left.
Drains ==
    /\ mode = "dispatch" => /\ Cardinality(batch) \in Nat \ {0}
                            /\ Cardinality(batch') = Cardinality(batch) - 1
                            /\ mode' \in {"callback", "crashed"}
    /\ mode = "callback" => /\ batch' = batch
                            /\ mode' \in {"callback", "dispatch", "waiting", "thrown"}
                            /\ mode' = "waiting" => batch = {}

\* one event a descriptor, of finitely many descriptors
LEMMA FiniteBatch ==
    ASSUME NEW some, some \subseteq Events, \A e, f \in some : e.fd = f.fd => e = f
    PROVE  IsFiniteSet(some)
<1> DEFINE Of == [e \in some |-> e.fd]
<1>1. Of \in [some -> Fds]
  BY DEF Events
<1>2. Of \in Injection(some, Fds)
  BY <1>1 DEF Injection, IsInjective
<1> QED
  BY <1>2, ServiceAssumption, FS_Injection DEF ExistsInjection

LEMMA BatchStep == AnyInv /\ BatchInv /\ [AnyNext]_vars => BatchInv'
<1> SUFFICES ASSUME AnyInv, BatchInv, [AnyNext]_vars PROVE BatchInv'
  OBVIOUS
<1>1. CASE Wait
  <2>1. PICK some \in SUBSET Wanted :
          /\ some # {}
          /\ \A e, f \in some : e.fd = f.fd => e = f
          /\ batch' = some
          /\ \E e \in some : slot' = {e}
    BY <1>1 DEF Wait
  <2>2. IsFiniteSet(some)
    BY <2>1, WantedTypes, FiniteBatch
  <2> QED
    BY <2>1, <2>2 DEF BatchInv
<1>2. CASE WaitFailsJS
  <2>1. \E e : batch' = {e}
    BY <1>2 DEF WaitFailsJS, BatchInv
  <2>2. IsFiniteSet(batch') /\ batch' # {}
    BY <2>1, FS_Singleton
  <2> QED
    BY <1>2, <2>2 DEF WaitFailsJS, BatchInv
<1>3. CASE Dispatch
  <2>1. PICK e \in batch : /\ batch' = batch \ {e} /\ slot' = slot
                           /\ mode' \in {"crashed", "callback"}
    BY <1>3, DispatchFacts
  <2>2. IsFiniteSet(batch')
    BY <2>1, FS_RemoveElement DEF BatchInv
  <2> QED
    BY <2>1, <2>2 DEF BatchInv
<1>4. CASE Run \/ WaitFails \/ LoopEnds \/ Return \/ Throw \/ Ended \/ UNCHANGED vars
  BY <1>4 DEF Run, WaitFails, LoopEnds, Return, Throw, Ended, vars, BatchInv
<1>5. CASE AnyScript
  <2>1. UNCHANGED <<batch, slot, mode>>
    BY <1>5 DEF AnyScript, Open, In, Out, InOrOut, SetError, Del, Close, RawClose, Release
  <2> QED
    BY <2>1 DEF BatchInv
<1> QED
  BY <1>1, <1>2, <1>3, <1>4, <1>5 DEF AnyNext, Loop

\* Whatever callbacks call, a batch is taken event by event and to its end, unless a
\* callback throws or an event has none: an event that was reported is not lost to what
\* the callbacks of the others do, and only a wait adds to the batch (run and $runJS).
THEOREM BatchShrinks == AnySpec => [][Drains]_vars
<1>1. Init => BatchInv
  BY FS_EmptySet DEF Init, BatchInv
<1>2. AnyInv /\ BatchInv /\ [AnyNext]_vars => [Drains]_vars
  <2> SUFFICES ASSUME AnyInv, BatchInv, AnyNext PROVE Drains \/ UNCHANGED vars
    OBVIOUS
  <2>1. CASE mode = "dispatch"
    <3>1. Dispatch
      BY <2>1 DEF AnyNext, Loop, AnyScript, Running, Run, Wait, WaitFails, WaitFailsJS,
                  LoopEnds, Return, Throw, Ended
    <3>2. PICK e \in batch : /\ batch' = batch \ {e}
                             /\ mode' \in {"crashed", "callback"}
      BY <3>1, DispatchFacts
    <3>3. Cardinality(batch') = Cardinality(batch) - 1
      BY <3>2, FS_RemoveElement DEF BatchInv
    <3>4. Cardinality(batch) \in Nat /\ Cardinality(batch) # 0
      BY <2>1, FS_CardinalityType, FS_EmptySet DEF BatchInv
    <3> QED
      BY <2>1, <3>2, <3>3, <3>4 DEF Drains
  <2>2. CASE mode = "callback"
    <3>1. CASE AnyScript
      <4>1. UNCHANGED <<batch, mode>>
        BY <3>1 DEF AnyScript, Open, In, Out, InOrOut, SetError, Del, Close, RawClose, Release
      <4> QED
        BY <2>2, <4>1 DEF Drains
    <3>2. CASE Return \/ Throw
      BY <2>2, <3>2 DEF Return, Throw, Drains
    <3> QED
      BY <2>2, <3>1, <3>2 DEF AnyNext, Loop, Run, Wait, WaitFails, WaitFailsJS, LoopEnds,
                              Dispatch, Ended
  <2> QED
    BY <2>1, <2>2 DEF Drains
<1> QED
  BY <1>1, <1>2, AnyInvariant, BatchStep, PTL DEF AnySpec

-----------------------------------------------------------------------------
(* What holds for scripts that close with Socket.close and set the error    *)
(* callback first.                                                          *)

\* The running script's descriptors have no pending event that still counts.
Apart == mode = "callback" => \A e \in batch : e.fd \in mine => e.file \in hit

\* events[0] is one event, and memory no wait has written is not a file's.
Singular ==
    /\ \A e, f \in slot : e = f
    /\ \A e \in batch : e.file = 0 => 0 \in hit

OwnInv ==
    /\ AnyInv
    /\ Mirrors
    /\ Fresh
    /\ Apart
    /\ Singular
    /\ \A e, f \in batch : e.fd = f.fd => e = f
    /\ mode = "setup" => batch = {}
    /\ CrashOnlyIfHit
    /\ ~CrossClose /\ driver = "run" => hit = {}
    /\ mode = "setup" => hit = {}

LEMMA OwnInitial == Init => OwnInv
<1> SUFFICES ASSUME Init PROVE OwnInv
  OBVIOUS
<1>1. AnyInv
  BY AnyInitial
<1> QED
  BY <1>1 DEF Init, OwnInv, Mirrors, Fresh, Apart, Singular, CrashOnlyIfHit, None

\* A call on a descriptor that no counting event is pending for leaves Fresh alone.
LEMMA FreshKept ==
    ASSUME OwnInv, NEW fd \in Fds,
           UNCHANGED <<batch, driver>>, hit \subseteq hit', turned \subseteq turned',
           \A x \in Fds \ {fd} : /\ file'[x] = file[x]
                                 /\ fds'[x] = fds[x] /\ fdsError'[x] = fdsError[x],
           \A e \in batch : e.fd = fd => e.file \in hit'
    PROVE  Fresh'
<1> SUFFICES ASSUME NEW e \in batch, e.file \notin hit'
             PROVE  /\ file'[e.fd] = e.file
                    /\ Chosen(e)'.file = e.file
                    /\ e.event = "error" /\ driver' = "run" => Chosen(e)'.event = "error"
                    /\ e.event # "error" => Chosen(e)'.event = e.event \/ e.file \in turned'
  BY DEF Fresh
<1>1. e.fd \in Fds \ {fd} /\ e.file \notin hit
  BY EventTypes DEF OwnInv, AnyInv, TypeOK
<1> QED
  BY <1>1 DEF OwnInv, Fresh, Chosen

LEMMA OwnOpen ==
    ASSUME OwnInv, Running, NEW fd \in Fds, Open(fd), AnyInv' PROVE OwnInv'
<1> USE DEF Open, tables
<1>1. \A e \in batch : e.fd = fd => e.file \in hit
  BY DEF OwnInv, Fresh, AnyInv, TypeOK, Singular
<1>2. \A x \in Fds \ {fd} : file'[x] = file[x]
  BY DEF OwnInv, AnyInv, TypeOK
<1>3. Fresh'
  BY <1>1, <1>2, FreshKept
<1>4. Mirrors'
  BY DEF OwnInv, AnyInv, TypeOK, Mirrors
<1>5. Apart'
  BY <1>1 DEF OwnInv, Apart
<1> QED
  BY <1>3, <1>4, <1>5 DEF OwnInv, CrashOnlyIfHit, Running, Singular

\* The calls that change the tables but close nothing.
LEMMA OwnTables ==
    ASSUME OwnInv, Running, AnyInv', Mirrors', Fresh',
           UNCHANGED <<file, batch, slot, driver, mode, mine, hit>>
    PROVE  OwnInv'
  BY DEF OwnInv, Apart, CrashOnlyIfHit, Singular

\* An event that counts is of the file open now.
LEMMA CountedOpen ==
    ASSUME OwnInv, NEW e \in batch, e.file \notin hit
    PROVE  e.fd \in Fds /\ file[e.fd] = e.file /\ e.file # 0
  BY EventTypes DEF OwnInv, AnyInv, TypeOK, Fresh, Singular

LEMMA OwnSetError ==
    ASSUME OwnInv, Running, NEW fd \in Fds, file[fd] # 0, SetError(fd), AnyInv'
    PROVE  OwnInv'
<1> USE DEF SetError, kernel
<1>1. Mirrors'
  BY DEF OwnInv, AnyInv, TypeOK, Mirrors
<1>2. Fresh'
  <2> SUFFICES ASSUME NEW e \in batch, e.file \notin hit
               PROVE  /\ Chosen(e)'.file = e.file
                      /\ e.event = "error" /\ driver = "run" => Chosen(e)'.event = "error"
                      /\ e.event # "error" =>
                            Chosen(e)'.event = e.event \/ e.file \in turned
    BY DEF OwnInv, Fresh
  <2>1. e.fd \in Fds /\ file[e.fd] = e.file
    BY CountedOpen
  <2>2. CASE e.fd = fd /\ e.event = "error" /\ driver = "run"
    <3>1. Chosen(e)' = [file |-> file[fd], event |-> "error"]
      BY <2>2 DEF Chosen, OwnInv, AnyInv, TypeOK
    <3> QED
      BY <2>1, <2>2, <3>1
  <2>3. CASE ~(e.fd = fd /\ e.event = "error" /\ driver = "run")
    <3>1. Chosen(e)' = Chosen(e)
      BY <2>1, <2>3 DEF Chosen, OwnInv, AnyInv, TypeOK
    <3> QED
      BY <3>1 DEF OwnInv, Fresh
  <2> QED
    BY <2>2, <2>3
<1> QED
  BY <1>1, <1>2, OwnTables

LEMMA OwnDel ==
    ASSUME OwnInv, Running, NEW fd \in mine, Del(fd), AnyInv' PROVE OwnInv'
<1> USE DEF Del, Unregister
<1>1. Mirrors'
  BY DEF OwnInv, AnyInv, TypeOK, Mirrors, None
<1>2. fd \in Fds /\ \A x \in Fds \ {fd} : fds'[x] = fds[x] /\ fdsError'[x] = fdsError[x]
  BY DEF OwnInv, AnyInv, TypeOK
<1>3. \A e \in batch : e.fd = fd => e.file \in hit
  BY DEF OwnInv, Apart, Running
<1>4. Fresh'
  BY <1>2, <1>3, FreshKept
<1> QED
  BY <1>1, <1>4, OwnTables

LEMMA OwnInOrOut ==
    ASSUME OwnInv, Running, NEW fd \in Fds, NEW k \in Kinds,
           file[fd] # 0, fdsError[fd] # None, InOrOut(fd, k), AnyInv'
    PROVE  OwnInv'
<1> USE DEF InOrOut, Mod, Add
<1>0. [file |-> file[fd], event |-> k] # None
  BY CallbackTypes DEF OwnInv, AnyInv, TypeOK
<1>1. interest[fd] # "none" <=> fds[fd] # None
  BY <1>0 DEF OwnInv, AnyInv, TypeOK, Mirrors, Callbacks, None, Kinds
<1>2. interest' = [interest EXCEPT ![fd] = k]
  BY <1>1
<1>3. Mirrors'
  BY <1>0, <1>2 DEF OwnInv, AnyInv, TypeOK, Mirrors
<1>4. Fresh'
  <2> SUFFICES ASSUME NEW e \in batch, e.file \notin hit
               PROVE  /\ Chosen(e)'.file = e.file
                      /\ e.event = "error" /\ driver = "run" => Chosen(e)'.event = "error"
                      /\ e.event # "error" =>
                            Chosen(e)'.event = e.event \/ e.file \in turned'
    BY DEF OwnInv, Fresh
  <2>1. e.fd \in Fds /\ file[e.fd] = e.file
    BY CountedOpen
  <2>2. CASE e.fd = fd /\ ~(e.event = "error" /\ driver = "run")
    <3>1. Chosen(e)' = [file |-> file[fd], event |-> k]
      BY <2>2 DEF Chosen, OwnInv, AnyInv, TypeOK
    <3>2. e.file \in turned'
      BY <2>2 DEF Waiting
    <3> QED
      BY <2>1, <2>2, <3>1, <3>2
  <2>3. CASE ~(e.fd = fd /\ ~(e.event = "error" /\ driver = "run"))
    <3>1. Chosen(e)' = Chosen(e)
      BY <2>1, <2>3 DEF Chosen, OwnInv, AnyInv, TypeOK
    <3> QED
      BY <3>1 DEF OwnInv, Fresh
  <2> QED
    BY <2>2, <2>3
<1> QED
  BY <1>3, <1>4, OwnTables

LEMMA OwnClose ==
    ASSUME OwnInv, Running, NEW fd \in Fds, Close(fd), fd \in mine \/ CrossClose, AnyInv'
    PROVE  OwnInv'
<1> USE DEF Close, Unregister, Release
<1>1. Mirrors'
  BY DEF OwnInv, AnyInv, TypeOK, Mirrors, None
<1>2. \A x \in Fds \ {fd} :
         file'[x] = file[x] /\ fds'[x] = fds[x] /\ fdsError'[x] = fdsError[x]
  BY DEF OwnInv, AnyInv, TypeOK
<1>3. hit \subseteq hit' /\ \A e \in batch : e.fd = fd => e.file \in hit'
  BY DEF Waiting
<1>4. Fresh'
  BY <1>2, <1>3, FreshKept
<1>5. Apart'
  BY <1>3 DEF OwnInv, Apart
<1>6. ASSUME ~CrossClose, driver = "run" PROVE hit' = {}
  <2>1. \A e \in batch : e.fd # fd
    BY <1>6 DEF OwnInv, Apart, Running
  <2>2. Waiting(fd) = {}
    BY <2>1 DEF Waiting
  <2> QED
    BY <1>6, <2>2 DEF OwnInv
<1>7. Singular' /\ CrashOnlyIfHit' /\ (mode' = "setup" => batch' = {})
      /\ \A e, f \in batch' : e.fd = f.fd => e = f
  BY <1>3 DEF OwnInv, CrashOnlyIfHit, Running, Singular
<1>8. mode' = "setup" => hit' = {}
  BY DEF OwnInv, Waiting
<1> QED
  BY <1>1, <1>4, <1>5, <1>6, <1>7, <1>8 DEF OwnInv

LEMMA OwnScript == ASSUME OwnInv, Script, AnyInv' PROVE OwnInv'
<1>1. mine \subseteq Fds
  BY DEF OwnInv, AnyInv, TypeOK
<1> QED
  BY <1>1, OwnOpen, OwnSetError, OwnDel, OwnInOrOut, OwnClose DEF Script, In, Out, Kinds

-----------------------------------------------------------------------------
(* The loop under that discipline. *)

LEMMA OwnWait == ASSUME OwnInv, Wait, AnyInv' PROVE OwnInv'
<1> USE DEF Wait, kernel, tables
<1>1. PICK some \in SUBSET Wanted :
         /\ batch' = some /\ \A e, f \in some : e.fd = f.fd => e = f
         /\ \E e \in some : slot' = {e}
  OBVIOUS
<1>2. ASSUME NEW e \in Wanted
      PROVE  /\ file[e.fd] = e.file /\ e.file # 0
             /\ Chosen(e).file = e.file
             /\ e.event = "error" /\ driver = "run" => Chosen(e).event = "error"
             /\ e.event # "error" => Chosen(e).event = e.event
  <2>1. e.fd \in Fds /\ interest[e.fd] # "none" /\ e.file = file[e.fd]
        /\ e.event \in {interest[e.fd], "error"}
    BY DEF Wanted, Reportable
  <2>2. fds[e.fd] # None /\ fds[e.fd].event = interest[e.fd] /\ fds[e.fd].file = file[e.fd]
        /\ fdsError[e.fd] = [file |-> file[e.fd], event |-> "error"]
    BY <2>1 DEF OwnInv, AnyInv, Watched, Mirrors
  <2>3. fds[e.fd] = [file |-> fds[e.fd].file, event |-> fds[e.fd].event]
    BY <2>1, <2>2 DEF OwnInv, AnyInv, TypeOK, Callbacks
  <2>4. interest[e.fd] # "error"
    BY <2>1 DEF OwnInv, AnyInv, TypeOK, Kinds
  <2>5. file[e.fd] # 0
    BY <2>1 DEF OwnInv, AnyInv, Watched
  <2> QED
    BY <2>1, <2>2, <2>3, <2>4, <2>5 DEF Chosen
<1>3. Fresh'
  BY <1>1, <1>2 DEF Fresh, Chosen
<1>4. Mirrors'
  BY DEF OwnInv, Mirrors
<1> QED
  BY <1>1, <1>2, <1>3, <1>4 DEF OwnInv, Apart, CrashOnlyIfHit, Singular

LEMMA OwnDispatch == ASSUME OwnInv, Dispatch, AnyInv' PROVE OwnInv'
<1>0. UNCHANGED <<kernel, tables, slot, driver, hit, turned>> /\ mode = "dispatch"
  BY DEF Dispatch
<1> USE <1>0 DEF kernel, tables
<1>1. PICK e \in batch : /\ batch' = batch \ {e}
                         /\ mode' = IF Chosen(e) = None THEN "crashed" ELSE "callback"
                         /\ mine' = {e.fd}
  BY DispatchFacts
<1>2. Fresh'
  BY <1>1 DEF OwnInv, Fresh, Chosen
<1>3. Mirrors'
  BY DEF OwnInv, Mirrors
<1>4. Apart'
  BY <1>1 DEF OwnInv, Apart
<1>5. CrashOnlyIfHit'
  <2>1. e.file = 0 => 0 \in hit
    BY <1>1 DEF OwnInv, Singular
  <2>2. Chosen(e) = None => e.file \in hit
    BY <1>1, <2>1 DEF OwnInv, Fresh, None
  <2> QED
    BY <1>1, <2>2 DEF CrashOnlyIfHit
<1> QED
  BY <1>1, <1>2, <1>3, <1>4, <1>5 DEF OwnInv, Singular

LEMMA OwnWaitFailsJS == ASSUME OwnInv, WaitFailsJS, AnyInv' PROVE OwnInv'
<1> USE DEF WaitFailsJS, kernel, tables
<1>1. \A e \in batch' : e.file \in hit'
  OBVIOUS
<1>2. \A e, f \in batch' : e.fd = f.fd => e = f
  BY DEF OwnInv, Singular
<1>3. Mirrors'
  BY DEF OwnInv, Mirrors
<1> QED
  BY <1>1, <1>2, <1>3 DEF OwnInv, Fresh, Apart, CrashOnlyIfHit, Singular

\* $run or $runJS is called before any event was fetched.
LEMMA OwnRun == ASSUME OwnInv, Run, AnyInv' PROVE OwnInv'
<1> USE DEF Run, kernel, tables
<1>1. batch = {} /\ hit = {}
  BY DEF OwnInv
<1>2. Mirrors' /\ Fresh'
  BY <1>1 DEF OwnInv, Mirrors, Fresh
<1> QED
  BY <1>1, <1>2 DEF OwnInv, Apart, CrashOnlyIfHit, Singular

LEMMA OwnOtherLoop ==
    ASSUME OwnInv, WaitFails \/ LoopEnds \/ Return \/ Throw \/ Ended, AnyInv'
    PROVE  OwnInv'
<1>1. UNCHANGED <<file, interest, fds, fdsError, batch, slot, driver, hit, turned>>
      /\ (mode' \in {"callback", "setup", "crashed"} => mode' = mode /\ mine' = mine)
  BY DEF WaitFails, LoopEnds, Return, Throw, Ended, vars, kernel, tables
<1> QED
  BY <1>1 DEF OwnInv, Fresh, Chosen, Mirrors, Apart, CrashOnlyIfHit, Singular

LEMMA OwnStep == OwnInv /\ [Next]_vars => OwnInv'
<1> SUFFICES ASSUME OwnInv, [Next]_vars PROVE OwnInv'
  OBVIOUS
<1>1. CASE Script
  <2>1. AnyScript
    BY <1>1 DEF Script, AnyScript, OwnInv, AnyInv, TypeOK
  <2>2. AnyInv'
    BY <2>1, ScriptStep DEF OwnInv
  <2> QED
    BY <1>1, <2>2, OwnScript
<1>2. CASE Loop
  <2>1. AnyInv'
    BY <1>2, LoopStep DEF OwnInv
  <2> QED
    BY <1>2, <2>1, OwnRun, OwnWait, OwnWaitFailsJS, OwnDispatch, OwnOtherLoop DEF Loop
<1>3. CASE UNCHANGED vars
  <2>1. AnyInv'
    BY <1>3, AnyStep DEF OwnInv
  <2> QED
    BY <1>3, <2>1 DEF vars, OwnInv, Mirrors, Fresh, Chosen, Apart, CrashOnlyIfHit, Singular
<1> QED
  BY <1>1, <1>2, <1>3 DEF Next

LEMMA OwnInvariant == Spec => []OwnInv
  BY OwnInitial, OwnStep, PTL DEF Spec

\* A callback a loop calls for an event is that of the connection it was reported for,
\* unless that was closed after the wait, and one that asked for that kind of event,
\* unless another connection's callback registered the connection anew in between.
THEOREM FreshAlways == Spec => []Fresh
<1>1. OwnInv => Fresh
  BY DEF OwnInv
<1> QED
  BY <1>1, OwnInvariant, PTL

\* epoll's interest and the two callback tables describe the same open files.
THEOREM MirrorsAlways == Spec => []Mirrors
<1>1. OwnInv => Mirrors
  BY DEF OwnInv
<1> QED
  BY <1>1, OwnInvariant, PTL

\* A loop calls undefined only after a callback closed another connection, or after
\* $runJS's wait failed.
THEOREM CrashesOnlyIfHit == Spec => []CrashOnlyIfHit
<1>1. OwnInv => CrashOnlyIfHit
  BY DEF OwnInv
<1> QED
  BY <1>1, OwnInvariant, PTL

\* If callbacks close only what is theirs, run() never calls undefined.
THEOREM OwnersNeverCrash ==
    ASSUME ~CrossClose PROVE Spec => [](driver = "run" => mode # "crashed")
<1>1. OwnInv => (driver = "run" => mode # "crashed")
  BY DEF OwnInv, CrashOnlyIfHit
<1> QED
  BY <1>1, OwnInvariant, PTL

\* What ClosedEndsRun rests on: for scripts that close with Socket.close, a descriptor
\* that is closed is counted no longer, whichever callback closed it and whatever file
\* had its number before; with all closed, run() has no reason to wait.
THEOREM NothingOpenEndsRun ==
    Spec => []((driver = "run" /\ \A fd \in Fds : file[fd] = 0) => ~GoesOn)
<1>1. ASSUME OwnInv, driver = "run", \A fd \in Fds : file[fd] = 0
      PROVE  ~GoesOn
  <2>1. Registered = {}
    BY <1>1 DEF OwnInv, Mirrors, Registered
  <2>2. fdsNumber = 0
    BY <1>1, <2>1, FS_EmptySet DEF OwnInv, AnyInv, CountMatches
  <2> QED
    BY <1>1, <2>2 DEF GoesOn
<1> QED
  BY <1>1, OwnInvariant, PTL
=============================================================================
