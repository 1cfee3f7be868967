------------------------------ MODULE Require ------------------------------
(***************************************************************************)
(* require() of coffee/core/startup.coffee over System::require of         *)
(* src/system.cc, and the start-up that uses it.                           *)
(*                                                                         *)
(* A script runs inside the require that loads it, so the calls in         *)
(* progress are a stack.  Three things are global and change under a       *)
(* script while it runs: the cache requiredFiles, $currentDir, by which    *)
(* relative names are resolved, and `exports', which the wrapper around    *)
(* each script assigns without declaring it.  What a script does between   *)
(* its calls is left open; it may throw, and its requirer may catch that.  *)
(* What a script exports is known by the script; but it may also leave     *)
(* null or undefined, which the cache cannot tell from no entry, or the    *)
(* number 1, which it cannot tell from its own mark.                       *)
(***************************************************************************)
EXTENDS Integers, Sequences

CONSTANTS
    Scripts,    \* the real paths of scripts
    AbsNames,   \* names that begin with '/', the real paths among them
    Names,      \* other names, './' and those for the include path
    Dirs,       \* directories
    CoreDir,    \* that of startup.js
    DirOf,      \* the directory of a script
    Real,       \* the script a cache key leads to, or "missing"
    Local,      \* scripts that declare `exports', as CoffeeScript's do if they assign it
    Besides,    \* what else than exports of its own a script may leave: "none", "mark"
    Boot        \* the names startup.js requires, the script of the command line last

Keys == AbsNames \cup (Dirs \X Names)

ASSUME RequireAssumption ==
    /\ Scripts \subseteq AbsNames
    /\ AbsNames \cap (Dirs \X Names) = {}
    /\ Scripts \cap {"none", "mark", "missing"} = {}
    /\ CoreDir \in Dirs /\ DirOf \in [Scripts -> Dirs]
    /\ Real \in [Keys -> Scripts \cup {"missing"}]
    /\ \A s \in Scripts : Real[s] = s
    /\ Local \subseteq Scripts
    /\ Besides \in [Scripts -> SUBSET {"none", "mark"}]
    /\ Boot \in Seq(AbsNames \cup Names)

VARIABLES
    cache,      \* requiredFiles: exports, "mark" for 1, "none" for null and no entry
    stack,      \* the requires that run a script: [script, key, saved]
    currentDir, \* $currentDir
    exports,    \* the global `exports'
    throwing,   \* an exception is on its way
    booted,     \* requires of startup.js that are done
    mode,       \* "running", "ended", "crashed"
    ran,        \* history: scripts that were run
    again,      \* history: those that were run again
    failed,     \* history: scripts that threw or could not be read
    empty,      \* history: scripts that left null or undefined
    ones,       \* history: scripts that left the number 1
    clobbered   \* history: scripts under which `exports' was assigned by another

histories == <<ran, again, failed, empty, ones, clobbered>>
vars == <<cache, stack, currentDir, exports, throwing, booted, mode, histories>>

Frames == [script : Scripts, key : Keys, saved : Dirs]
Top == stack[Len(stack)]
OnStack == {stack[i].script : i \in DOMAIN stack}
Starting == stack = << >> /\ booted < Len(Boot)
Quiet == mode = "running" /\ ~throwing       \* a script or a callback is running

-----------------------------------------------------------------------------
(* require(name), up to the point where a script runs. *)

\* originalFileName
KeyOf(name) == IF name \in AbsNames THEN name ELSE <<currentDir, name>>

\* what requireAbsolute finds for it: no file, or the entry of its real path
Held(key) == IF Real[key] = "missing" THEN "missing" ELSE cache[Real[key]]

\* startup.js asks for one script after the other, everyone else for anything
Asked == IF Starting THEN {Boot[booted + 1]} ELSE AbsNames \cup Names

\* require returns, to a script or to startup.js, what the cache then has for the name
Returns == booted' = IF Starting THEN booted + 1 ELSE booted

\* the name was asked for before: whatever is there is returned
Cached(name) ==
    /\ Quiet
    /\ cache[KeyOf(name)] # "none"
    /\ Returns
    /\ UNCHANGED <<cache, stack, currentDir, exports, throwing, mode, histories>>

\* no such file, or `loop require'
Refused(name) ==
    /\ Quiet
    /\ cache[KeyOf(name)] = "none"
    /\ Held(KeyOf(name)) \in {"missing", "mark"}
    /\ throwing' = TRUE
    /\ UNCHANGED <<cache, stack, currentDir, exports, booted, mode, histories>>

\* the file is there under another name
KnownUnmarked(name) ==                                        \* mutant
    /\ Quiet
    /\ cache[KeyOf(name)] = "none"
    /\ Held(KeyOf(name)) \notin {"missing", "none"}
    /\ cache' = [cache EXCEPT ![KeyOf(name)] = Held(KeyOf(name))]
    /\ Returns
    /\ UNCHANGED <<stack, currentDir, exports, throwing, mode, histories>>

Known(name) ==
    /\ Quiet
    /\ cache[KeyOf(name)] = "none"
    /\ Held(KeyOf(name)) \notin {"missing", "none", "mark"}
    /\ cache' = [cache EXCEPT ![KeyOf(name)] = Held(KeyOf(name))]
    /\ Returns
    /\ UNCHANGED <<stack, currentDir, exports, throwing, mode, histories>>

\* the file is there, and new
New(name) == Quiet /\ cache[KeyOf(name)] = "none" /\ Held(KeyOf(name)) = "none"

\* fopen or fread fails: nothing was changed yet but the mark
Unreadable(name) ==
    /\ New(name)
    /\ cache' = [cache EXCEPT ![Real[KeyOf(name)]] = "mark"]
    /\ failed' = failed \cup {Real[KeyOf(name)]}
    /\ throwing' = TRUE
    /\ UNCHANGED <<stack, currentDir, exports, booted, mode, ran, again, empty, ones, clobbered>>

\* Script::New gives an empty handle for what does not compile, and Run() is called on
\* it.  That includes a script that is longer than the room prepare() made: it loses
\* its end.
Uncompilable(name) ==
    /\ New(name)
    /\ mode' = "crashed"
    /\ UNCHANGED <<cache, stack, currentDir, exports, throwing, booted, histories>>

\* the wrapper's first statement; a script that declares `exports' assigns its own
Wrapped(s) ==
    /\ exports' = IF s \in Local THEN exports ELSE s
    /\ clobbered' = IF s \in Local THEN clobbered ELSE clobbered \cup (OnStack \ Local)

Begun(s) ==
    /\ ran' = ran \cup {s}
    /\ again' = IF s \in ran THEN again \cup {s} ELSE again
    /\ UNCHANGED <<failed, empty, ones>>

LoadInPlace(name) ==                                          \* mutant
    /\ New(name)
    /\ LET s == Real[KeyOf(name)]
       IN  /\ cache' = [cache EXCEPT ![s] = "mark"]
           /\ stack' = Append(stack, [script |-> s, key |-> KeyOf(name), saved |-> DirOf[s]])
           /\ currentDir' = DirOf[s]
           /\ Wrapped(s)
           /\ Begun(s)
    /\ UNCHANGED <<throwing, booted, mode>>

Load(name) ==
    /\ New(name)
    /\ LET s == Real[KeyOf(name)]
       IN  /\ cache' = [cache EXCEPT ![s] = "mark"]
           /\ stack' = Append(stack, [script |-> s, key |-> KeyOf(name), saved |-> currentDir])
           /\ currentDir' = DirOf[s]
           /\ Wrapped(s)
           /\ Begun(s)
    /\ UNCHANGED <<throwing, booted, mode>>

-----------------------------------------------------------------------------
(* The way back. *)

Popped == SubSeq(stack, 1, Len(stack) - 1)

Throw ==
    /\ Quiet
    /\ throwing' = TRUE
    /\ UNCHANGED <<cache, stack, currentDir, exports, booted, mode, histories>>

\* startup.js catches nothing
Catch ==
    /\ mode = "running" /\ throwing /\ ~Starting
    /\ throwing' = FALSE
    /\ UNCHANGED <<cache, stack, currentDir, exports, booted, mode, histories>>

UnwindUnmarking ==                                            \* mutant
    /\ mode = "running" /\ throwing /\ stack # << >>
    /\ stack' = Popped
    /\ cache' = [cache EXCEPT ![Top.script] = "none"]
    /\ currentDir' = Top.saved
    /\ failed' = failed \cup {Top.script}
    /\ UNCHANGED <<exports, throwing, booted, mode, ran, again, empty, ones, clobbered>>

\* Run() returns an empty handle: $currentDir is set back, and nothing else
Unwind ==
    /\ mode = "running" /\ throwing /\ stack # << >>
    /\ stack' = Popped
    /\ currentDir' = Top.saved
    /\ failed' = failed \cup {Top.script}
    /\ UNCHANGED <<cache, exports, throwing, booted, mode, ran, again, empty, ones, clobbered>>

\* a script that does not declare `exports' assigns the global one
Assign(value) ==
    /\ Quiet /\ stack # << >> /\ Top.script \notin Local
    /\ value \in {Top.script} \cup Besides[Top.script]
    /\ exports' = value
    /\ UNCHANGED <<cache, stack, currentDir, throwing, booted, mode, histories>>

ExportsOfGlobal(s) == exports                                 \* mutant

\* `return exports' at the end of the wrapper
ExportsOf(s) == IF s \in Local THEN s ELSE exports

\* what the wrapper returns: that, or what a script that declares `exports' assigned or
\* any script returns itself at its top level
Returned(s) == {ExportsOf(s)} \cup Besides[s]

Left(s, value) ==
    /\ empty' = IF value = "none" THEN empty \cup {s} ELSE empty
    /\ ones' = IF value = "mark" THEN ones \cup {s} ELSE ones
    /\ UNCHANGED <<ran, again, failed, clobbered>>

FinishOneName ==                                              \* mutant
    /\ Quiet /\ stack # << >>
    /\ stack' = Popped
    /\ currentDir' = Top.saved
    /\ \E value \in Returned(Top.script) :
          /\ cache' = [cache EXCEPT ![Top.key] = value]
          /\ Left(Top.script, value)
    /\ booted' = IF Len(stack) = 1 /\ booted < Len(Boot) THEN booted + 1 ELSE booted
    /\ UNCHANGED <<exports, throwing, mode>>

\* the script is done: what it left goes to the cache, under both names
Finish ==
    /\ Quiet /\ stack # << >>
    /\ stack' = Popped
    /\ currentDir' = Top.saved
    /\ \E value \in Returned(Top.script) :
          /\ cache' = [cache EXCEPT ![Top.script] = value, ![Top.key] = value]
          /\ Left(Top.script, value)
    /\ booted' = IF Len(stack) = 1 /\ booted < Len(Boot) THEN booted + 1 ELSE booted
    /\ UNCHANGED <<exports, throwing, mode>>

\* main() prints the exception, or run() has returned; an absolute name on the command
\* line is a ReferenceError in startup.js
End ==
    /\ mode = "running" /\ stack = << >>
    /\ throwing \/ booted + 1 >= Len(Boot)
    /\ mode' = "ended"
    /\ UNCHANGED <<cache, stack, currentDir, exports, throwing, booted, histories>>

Over == mode # "running" /\ UNCHANGED vars

-----------------------------------------------------------------------------
Init ==
    /\ cache = [k \in Keys |-> "none"]
    /\ stack = << >>
    /\ currentDir = CoreDir
    /\ exports = "none"
    /\ throwing = FALSE
    /\ booted = 0
    /\ mode = "running"
    /\ ran = {} /\ again = {} /\ failed = {} /\ empty = {} /\ ones = {} /\ clobbered = {}

Ask(name) == Cached(name) \/ Refused(name) \/ Known(name) \/ Unreadable(name)
             \/ Uncompilable(name) \/ Load(name)

Next == \/ \E name \in Asked : Ask(name)
        \/ \E value \in Scripts \cup {"none", "mark"} : Assign(value)
        \/ Throw \/ Catch \/ Unwind \/ Finish \/ End \/ Over

Spec == Init /\ [][Next]_vars

-----------------------------------------------------------------------------
(* Properties. *)

TypeOK ==
    /\ cache \in [Keys -> Scripts \cup {"none", "mark"}]
    /\ stack \in Seq(Frames)
    /\ currentDir \in Dirs
    /\ exports \in Scripts \cup {"none", "mark"}
    /\ throwing \in BOOLEAN
    /\ booted \in Nat
    /\ mode \in {"running", "ended", "crashed"}
    /\ again \subseteq ran /\ ran \subseteq Scripts
    /\ failed \subseteq Scripts /\ empty \subseteq Scripts /\ ones \subseteq Scripts
    /\ clobbered \subseteq Scripts

\* $currentDir is the directory of the script that is running, also after a script it
\* required threw from any depth: relative names mean what the script's author meant.
DirOfRunning ==
    currentDir = IF stack = << >> THEN CoreDir ELSE DirOf[Top.script]

\* The mark is on exactly the scripts being required, on those that failed and on those
\* that left the number 1: a loop is always noticed, and is only reported wrongly of a
\* script that threw, could not be read or exports what the mark is.
MarksInProgress ==
    \A s \in Scripts : cache[s] = "mark" <=> s \in OnStack \cup failed \cup ones

\* No script is run twice, whatever names it is asked for by and whoever caught what,
\* but one that left null or undefined, whose entry is none.
RunsOnce == again \subseteq empty

\* Two names of a file give the same exports: what is cached under a name is what is
\* cached for the file, also after the file was run again.
KeysAgree ==
    \A k \in Keys : cache[k] # "none" =>
        Real[k] \in Scripts /\ cache[k] = cache[Real[k]]

\* What is cached for a script is what it left itself, unless it shares the global
\* `exports' and another one that does so was run inside it.
OwnExports ==
    \A s \in Scripts \ clobbered : cache[s] \in {"none", "mark", s}

\* A name other than a real path leads to the mark only if the script exports it:
\* require() returns the mark instead of exports, or instead of reporting a loop, only
\* to who asks by the real path.
MarkHidden == \A k \in Keys \ Scripts : cache[k] = "mark" => Real[k] \in ones
=============================================================================
