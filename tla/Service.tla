------------------------------ MODULE Service ------------------------------
(***************************************************************************)
(* The event loop: src/service.cc over Linux epoll, with the wrappers of   *)
(* coffee/core/service.coffee and Socket.close.  Everything runs in one    *)
(* thread; what makes it hard is that epoll_wait hands over a batch of     *)
(* events which is not looked at again while callbacks of earlier events   *)
(* in the batch open, close and re-register descriptors, and that the      *)
(* kernel gives the number of a closed descriptor to the next open file.   *)
(*                                                                         *)
(* A callback is whatever script is running between two loop steps: it may *)
(* open descriptors, register any open connection anew, as late answers    *)
(* do, unregister or close its own and those it opened (`mine'), and close *)
(* others only if CrossClose.  AnyNext drops that discipline.              *)
(* A callback is known by the open file it was registered for, so that     *)
(* `called for the wrong connection' can be said.                          *)
(*                                                                         *)
(* There are two loops: run() in C++, and $runJS, which scripts may call   *)
(* in its stead.  $runJS never ends, gives hang-ups to the ordinary        *)
(* callback, and takes the -1 of a failed wait as a count, so that it      *)
(* dispatches the first event of an earlier wait again.                    *)
(***************************************************************************)
EXTENDS Integers, FiniteSets

CONSTANTS
    Fds,        \* descriptor numbers
    MaxFiles,   \* bound: files opened in one behaviour
    MaxEvents,  \* events one epoll_wait returns at most (1024)
    CrossClose  \* whether callbacks may close descriptors of other connections

ASSUME ServiceAssumption ==
    /\ IsFiniteSet(Fds)
    /\ MaxFiles \in Nat
    /\ MaxEvents \in Nat \ {0}
    /\ CrossClose \in BOOLEAN

VARIABLES
    file,       \* kernel: the file open on each descriptor, 0 if none
    opened,     \* kernel: files opened so far
    interest,   \* kernel: the event epoll watches each descriptor for, or "none"
    fds,        \* service.fds: the callback of a descriptor
    fdsError,   \* service.fds_error: its error callback
    fdsNumber,  \* Service::fds_number
    batch,      \* events of the last wait not dispatched yet
    slot,       \* Service::events[0], as the last successful wait left it
    driver,     \* the loop that is used, run or runJS
    mode,       \* where the thread is
    mine,       \* descriptors the running script knows
    hit,        \* history: files whose event in the batch does not count: they were
                \* closed while it waited, or an earlier wait reported it
    turned      \* history: files a script registered anew while their event waited

kernel == <<file, opened, interest>>
tables == <<fds, fdsError, fdsNumber>>
vars == <<file, opened, interest, fds, fdsError, fdsNumber, batch, slot, driver, mode, mine, hit, turned>>

Files == 1 .. MaxFiles
Kinds == {"in", "out"}
None == [file |-> 0, event |-> "none"]              \* undefined
Callbacks == [file : 0 .. MaxFiles, event : Kinds]
ErrorCallbacks == [file : 0 .. MaxFiles, event : {"error"}]
Events == [fd : Fds, file : Files, event : Kinds \cup {"error"}]
Garbage == [fd : Fds, file : {0}, event : {"in"}]   \* memory no wait has written
Modes == {"setup", "waiting", "dispatch", "callback",
          "returned", "failed", "thrown", "crashed"}

Registered == {fd \in Fds : fds[fd] # None}
Running == mode \in {"setup", "callback"}           \* a script is running

-----------------------------------------------------------------------------
(* Calls a script makes. *)

\* socket() or accept(): the kernel picks a free number
Open(fd) ==
    /\ file[fd] = 0
    /\ opened < MaxFiles
    /\ opened' = opened + 1
    /\ file' = [file EXCEPT ![fd] = opened + 1]
    /\ mine' = mine \cup {fd}
    /\ UNCHANGED <<interest, tables, batch, slot, driver, mode, hit, turned>>

\* EPOLL_CTL_MOD and EPOLL_CTL_ADD, whose errors the service ignores
Mod(fd, event) == interest' = IF interest[fd] # "none" THEN [interest EXCEPT ![fd] = event]
                              ELSE interest        \* ENOENT or EBADF
Add(fd, event) == interest' = IF file[fd] # 0 /\ interest[fd] = "none"
                              THEN [interest EXCEPT ![fd] = event]
                              ELSE interest        \* EBADF or EEXIST

InOrOutRecounting(fd, event) ==                               \* mutant
    /\ IF fds[fd] # None THEN Mod(fd, event) ELSE Add(fd, event)
    /\ fdsNumber' = fdsNumber + 1
    /\ fds' = [fds EXCEPT ![fd] = [file |-> file[fd], event |-> event]]
    /\ UNCHANGED <<file, opened, fdsError, batch, slot, driver, mode, mine, hit, turned>>

\* files of the batch's events for fd
Waiting(fd) == {e.file : e \in {x \in batch : x.fd = fd}}

\* in_or_out: $in and $out
InOrOut(fd, event) ==
    /\ IF fds[fd] # None
       THEN Mod(fd, event) /\ UNCHANGED fdsNumber
       ELSE Add(fd, event) /\ fdsNumber' = fdsNumber + 1
    /\ fds' = [fds EXCEPT ![fd] = [file |-> file[fd], event |-> event]]
    /\ turned' = turned \cup Waiting(fd)
    /\ UNCHANGED <<file, opened, fdsError, batch, slot, driver, mode, mine, hit>>

In(fd) == InOrOut(fd, "in")
Out(fd) == InOrOut(fd, "out")

SetErrorInFds(fd) ==                                          \* mutant
    /\ fds' = [fds EXCEPT ![fd] = [file |-> file[fd], event |-> "error"]]
    /\ UNCHANGED <<kernel, fdsError, fdsNumber, batch, slot, driver, mode, mine, hit, turned>>

\* $error
SetError(fd) ==
    /\ fdsError' = [fdsError EXCEPT ![fd] = [file |-> file[fd], event |-> "error"]]
    /\ UNCHANGED <<kernel, fds, fdsNumber, batch, slot, driver, mode, mine, hit, turned>>

UnregisterUncounted(fd) ==                                    \* mutant
    /\ fds' = [fds EXCEPT ![fd] = None]
    /\ fdsError' = [fdsError EXCEPT ![fd] = None]
    /\ UNCHANGED fdsNumber

\* what $del does to the service's tables
Unregister(fd) ==
    /\ fdsNumber' = IF fds[fd] # None THEN fdsNumber - 1 ELSE fdsNumber
    /\ fds' = [fds EXCEPT ![fd] = None]
    /\ fdsError' = [fdsError EXCEPT ![fd] = None]

DelKeepingInterest(fd) ==                                     \* mutant
    /\ Unregister(fd)
    /\ UNCHANGED <<kernel, batch, slot, driver, mode, mine, hit, turned>>

Del(fd) ==
    /\ Unregister(fd)
    /\ interest' = IF fds[fd] # None THEN [interest EXCEPT ![fd] = "none"] ELSE interest
    /\ UNCHANGED <<file, opened, batch, slot, driver, mode, mine, hit, turned>>

\* ::close: the kernel also forgets the interest in the descriptor
Release(fd) ==
    /\ file' = [file EXCEPT ![fd] = 0]
    /\ interest' = [interest EXCEPT ![fd] = "none"]
    /\ hit' = hit \cup Waiting(fd)
    /\ mine' = mine \ {fd}
    /\ UNCHANGED <<opened, batch, slot, driver, mode, turned>>

CloseWithoutDel(fd) == Release(fd) /\ UNCHANGED tables         \* mutant

\* Socket.close: $del, then Socket._close
Close(fd) == Unregister(fd) /\ Release(fd)

\* Socket._close alone
RawClose(fd) == Release(fd) /\ UNCHANGED tables

-----------------------------------------------------------------------------
(* The loops: Service::run and $runJS. *)

\* $run() or $runJS()
Run ==
    /\ mode = "setup"
    /\ mode' = "waiting"
    /\ driver' \in {"run", "runJS"}
    /\ mine' = {}
    /\ UNCHANGED <<kernel, tables, batch, slot, hit, turned>>

\* what epoll may report now; hang-up and error are reported unasked
Reportable == {[fd |-> fd, file |-> file[fd], event |-> k] :
                  fd \in {x \in Fds : interest[x] # "none"}, k \in {"in", "out", "error"}}
Wanted == {e \in Reportable : e.event \in {interest[e.fd], "error"}}

\* run() looks at fds_number before it waits, $runJS does not
GoesOn == driver = "runJS" \/ fdsNumber # 0

\* epoll_wait returns one to MaxEvents events, one a descriptor; a timeout stutters
Wait ==
    /\ mode = "waiting"
    /\ GoesOn
    /\ \E some \in SUBSET Wanted :
          /\ some # {}
          /\ Cardinality(some) <= MaxEvents
          /\ \A e, f \in some : e.fd = f.fd => e = f
          /\ batch' = some
          /\ \E e \in some : slot' = {e}
    /\ mode' = "dispatch"
    /\ hit' = {} /\ turned' = {}
    /\ UNCHANGED <<kernel, tables, driver, mine>>

\* -1, an interrupting signal included, ends run()
WaitFails ==
    /\ mode = "waiting"
    /\ driver = "run" /\ fdsNumber # 0
    /\ mode' = "failed"
    /\ UNCHANGED <<kernel, tables, batch, slot, driver, mine, hit, turned>>

\* for i in [0...-1] is one turn with i = 0
WaitFailsJS ==
    /\ mode = "waiting"
    /\ driver = "runJS"
    /\ batch' \in IF slot # {} THEN {slot} ELSE {{e} : e \in Garbage}
    /\ hit' = {e.file : e \in batch'} /\ turned' = {}
    /\ mode' = "dispatch"
    /\ UNCHANGED <<kernel, tables, slot, driver, mine>>

LoopEnds ==
    /\ mode = "waiting"
    /\ ~GoesOn
    /\ mode' = "returned"
    /\ UNCHANGED <<kernel, tables, batch, slot, driver, mine, hit, turned>>

ChosenIgnoringErrors(e) == fds[e.fd]                          \* mutant

\* the callback the loop looks up for an event; triggerByEventId knows only fds
Chosen(e) == IF e.event = "error" /\ driver = "run" THEN fdsError[e.fd] ELSE fds[e.fd]

\* events[0] comes first
Foremost == IF slot # {} /\ slot \subseteq batch THEN slot ELSE batch

\* calling undefined ends the process
Dispatch ==
    /\ mode = "dispatch"
    /\ \E e \in Foremost :
          /\ batch' = batch \ {e}
          /\ mode' = IF Chosen(e) = None THEN "crashed" ELSE "callback"
          /\ mine' = {e.fd}
    /\ UNCHANGED <<kernel, tables, slot, driver, hit, turned>>

ReturnOneMore ==                                              \* mutant
    /\ mode = "callback"
    /\ mode' = "dispatch"
    /\ mine' = {}
    /\ UNCHANGED <<kernel, tables, batch, slot, driver, hit, turned>>

\* the callback returns
Return ==
    /\ mode = "callback"
    /\ mode' = IF batch = {} THEN "waiting" ELSE "dispatch"
    /\ mine' = {}
    /\ UNCHANGED <<kernel, tables, batch, slot, driver, hit, turned>>

\* an exception, that of $triggerError without a handler included, leaves either loop
Throw ==
    /\ mode = "callback"
    /\ mode' = "thrown"
    /\ UNCHANGED <<kernel, tables, batch, slot, driver, mine, hit, turned>>

Ended == mode \in {"returned", "failed", "thrown", "crashed"} /\ UNCHANGED vars

-----------------------------------------------------------------------------
Init ==
    /\ file = [fd \in Fds |-> 0]
    /\ opened = 0
    /\ interest = [fd \in Fds |-> "none"]
    /\ fds = [fd \in Fds |-> None]
    /\ fdsError = [fd \in Fds |-> None]
    /\ fdsNumber = 0
    /\ batch = {} /\ slot = {}
    /\ driver = "run"
    /\ mode = "setup"
    /\ mine = {}
    /\ hit = {} /\ turned = {}

Loop == Run \/ Wait \/ WaitFails \/ WaitFailsJS \/ LoopEnds \/ Dispatch \/ Return \/ Throw \/ Ended

\* a script that knows its descriptors sets the error callback first and closes
\* with Socket.close; it may write to or read from any connection, as a late answer does
Script ==
    /\ Running
    /\ \/ \E fd \in Fds : Open(fd)
       \/ \E fd \in {x \in mine : file[x] # 0} : Del(fd) \/ Close(fd)
       \/ \E fd \in {x \in Fds : file[x] # 0} :
             \/ SetError(fd)
             \/ fdsError[fd] # None /\ (In(fd) \/ Out(fd))
       \/ CrossClose /\ \E fd \in {x \in Fds \ mine : file[x] # 0} : Close(fd)

AnyScript ==
    /\ Running
    /\ \E fd \in Fds : \/ Open(fd) \/ In(fd) \/ Out(fd) \/ SetError(fd)
                       \/ Del(fd) \/ Close(fd) \/ RawClose(fd)

Next == Loop \/ Script

AnyNext == Loop \/ AnyScript

Spec == Init /\ [][Next]_vars

AnySpec == Init /\ [][AnyNext]_vars

\* the thread runs: the loop goes on and every callback returns or throws
FairSpec == Spec /\ WF_vars(Run) /\ WF_vars(Dispatch) /\ WF_vars(LoopEnds)
                 /\ WF_vars(Return \/ Throw)

-----------------------------------------------------------------------------
(* Properties. *)

TypeOK ==
    /\ file \in [Fds -> 0 .. MaxFiles]
    /\ opened \in 0 .. MaxFiles
    /\ interest \in [Fds -> Kinds \cup {"none"}]
    /\ fds \in [Fds -> Callbacks \cup {None}]
    /\ fdsError \in [Fds -> ErrorCallbacks \cup {None}]
    /\ fdsNumber \in Int
    /\ batch \subseteq Events \cup Garbage
    /\ slot \subseteq Events
    /\ driver \in {"run", "runJS"}
    /\ mode \in Modes
    /\ mine \subseteq Fds
    /\ hit \subseteq 0 .. MaxFiles
    /\ turned \subseteq 0 .. MaxFiles

\* Whatever scripts call, fds_number, which decides whether run() goes on, is the
\* number of descriptors in service.fds.
CountMatches == fdsNumber = Cardinality(Registered)

\* Whatever scripts call, epoll watches open descriptors only, and only those that
\* have a callback: a wait never reports one that run() cannot serve.
Watched == \A fd \in Fds : interest[fd] # "none" => file[fd] # 0 /\ fds[fd] # None

\* For scripts that close with Socket.close and set the error callback first, epoll
\* watches each descriptor for the event its callback waits for, the callback is of
\* the file now open there, and it has an error callback of that file.
Mirrors ==
    \A fd \in Fds :
        /\ interest[fd] = fds[fd].event
        /\ fds[fd] # None => fdsError[fd] # None /\ fds[fd].file = file[fd]
        /\ fdsError[fd] # None =>
              file[fd] # 0 /\ fdsError[fd] = [file |-> file[fd], event |-> "error"]

\* The connection an event was reported for is the one whose callback the loop will
\* call, although numbers are reused and registrations change while the batch waits.
\* Exempt are only events that do not count: of files closed meanwhile, and the old one
\* that $runJS dispatches after a failed wait.  It is called for what it asked for, too,
\* unless another connection's callback registered it anew in between, as a late answer
\* does whose $out takes the place of a waiting read; hang-ups get the error callback
\* (but $runJS gives them to the ordinary one).
Fresh == \A e \in batch : e.file \notin hit =>
            /\ file[e.fd] = e.file
            /\ Chosen(e).file = e.file
            /\ e.event = "error" /\ driver = "run" => Chosen(e).event = "error"
            /\ e.event # "error" => Chosen(e).event = e.event \/ e.file \in turned

\* A loop calls undefined, and dies, only if a callback closed another connection
\* with an event in the same batch, or $runJS's wait failed.
CrashOnlyIfHit == mode = "crashed" => hit # {}

\* Every event of a batch gets its callback, unless one throws.
BatchDrains == mode = "dispatch" ~> mode \in {"waiting", "thrown", "crashed"}

\* Once every descriptor is closed, run() returns: nothing is still counted.
ClosedEndsRun == (mode = "waiting" /\ driver = "run" /\ \A fd \in Fds : file[fd] = 0) ~> mode = "returned"
=============================================================================
