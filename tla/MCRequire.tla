----------------------------- MODULE MCRequire -----------------------------
(***************************************************************************)
(* Require with four scripts in three directories: logger beside           *)
(* startup.js, main and helper in the application's, parser on the include *)
(* path.  The relative name means another file in each directory, and one  *)
(* absolute name is not a real path.  Helper, that declares `exports', and  *)
(* parser, that does not, may also leave null or the number 1.             *)
(***************************************************************************)
EXTENDS Require, TLC

CONSTANTS logger, main, helper, parser, link, core, app, lib, rel, inc

MCScripts == {logger, main, helper, parser}
MCAbsNames == MCScripts \cup {link}
MCNames == {rel, inc}
MCDirs == {core, app, lib}
MCDirOf == (logger :> core) @@ (main :> app) @@ (helper :> app) @@ (parser :> lib)
MCReal == [k \in MCAbsNames \cup (MCDirs \X MCNames) |->
             CASE k \in MCScripts -> k
               [] k = link -> main
               [] k = <<core, rel>> -> logger
               [] k = <<app, rel>> -> helper
               [] k = <<lib, rel>> -> "missing"
               [] OTHER -> parser]
MCLocal == {logger, helper}
MCBesides == [s \in MCScripts |-> IF s \in {helper, parser} THEN {"none", "mark"} ELSE {}]
MCBoot == <<rel, link>>
=============================================================================
