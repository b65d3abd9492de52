--------------------------- MODULE LibraryPrograms ---------------------------
(***************************************************************************)
(* The programs and wrappers of the repository that use a sandboxed        *)
(* library, executed: every outcome of every call, with a sandboxee that   *)
(* may be gone from any call on.  The texts of the programs are in the     *)
(* Programs* modules.  SAPI variables (arrays, structures, strings) free   *)
(* their own remote memory and are the subject of SapiVars; here only the  *)
(* objects that the library hands out are followed.                        *)
(***************************************************************************)
EXTENDS ProgramsArchives, ProgramsMinitar, ProgramsText, ProgramsImages, ProgramsNetwork,
        ProgramsExamples, FiniteSets

\* program: its text; at: the statement; objects: what became of the library's
\* objects; alive: the sandboxee answers; sapiOk: no request has failed yet;
\* verdict: what the program or the function reports; done, missed: the parts
\* of its purpose that succeeded and failed; misused: the call just made, if it
\* reached the library with an object that does not exist; dropped: the objects
\* whose only pointer was just overwritten.
VARIABLES program, at, objects, alive, sapiOk, verdict, done, missed, misused, dropped

runVars == <<program, at, objects, alive, sapiOk, verdict, done, missed, misused, dropped>>

TextsOf(table) == {table[name] : name \in DOMAIN table}
Programs ==
    TextsOf(ArchivePrograms) \cup TextsOf(MinitarPrograms) \cup TextsOf(TextPrograms)
    \cup TextsOf(ImagePrograms) \cup TextsOf(NetworkPrograms) \cup TextsOf(ExamplePrograms)

Code == program.code
Objects ==
    program.given \cup UNION {s.uses \cup s.makes \cup s.frees \cup s.given :
                                s \in {Code[i] : i \in DOMAIN Code}}

StartOf(text) ==
    /\ program = text
    /\ at = 1
    /\ objects = [o \in Objects |-> IF o \in program.given THEN "live" ELSE "none"]
    /\ alive = TRUE /\ sapiOk = TRUE /\ verdict = "running"
    /\ done = {} /\ missed = {} /\ misused = {} /\ dropped = {}

ProgramInit == \E text \in Programs : StartOf(text)

Finished == at > Len(Code)
LiveObjects == {o \in DOMAIN objects : objects[o] = "live"}
OwnsSandbox == program.aborts \/ \E i \in DOMAIN Code : Code[i].fn = "Init"
Now == Code[at]

Place(label) == CHOOSE i \in DOMAIN Code : Code[i].op = "at" /\ Code[i].to = {label}
HasCleanup == \E i \in DOMAIN Code : Code[i].op = "at" /\ Code[i].to = {"cleanup"}

\* Where a statement leads.  Leaving a scope runs its cleanups and destructors.
Go(label) ==
    IF label \in {"fail", "return"}
    THEN /\ verdict' = IF label = "fail" \/ "failure noted" \in done THEN "failed" ELSE "ok"
         /\ at' = IF HasCleanup THEN Place("cleanup") ELSE Len(Code) + 1
    ELSE /\ verdict' = verdict
         /\ at' = IF label = "next" THEN at + 1 ELSE Place(label)

\* The program's pointer is not null (it may be dangling).
Held(o) == objects[o] \in {"live", "freed"}
Applies == \A o \in Now.given : Held(o)

Quietly == misused' = {} /\ dropped' = {}

Skip ==
    /\ ~Finished /\ ~Applies
    /\ Go(IF Now.op = "need" THEN Now.bad ELSE "next")
    /\ Quietly
    /\ UNCHANGED <<program, objects, alive, sapiOk, done, missed>>

Branch ==
    /\ ~Finished /\ Applies /\ Now.op \in {"at", "goto", "need"}
    /\ \E l \in (IF Now.op = "at" THEN {"next"} ELSE Now.to) : Go(l)
    /\ Quietly
    /\ UNCHANGED <<program, objects, alive, sapiOk, done, missed>>

Assign ==
    /\ ~Finished /\ Applies /\ Now.op \in {"reset", "note"}
    /\ objects' = [o \in DOMAIN objects |-> IF o \in Now.frees THEN "none" ELSE objects[o]]
    /\ done' = IF Now.op = "note" THEN done \cup {"failure noted"} ELSE done
    /\ dropped' = {o \in Now.frees : objects[o] = "live"}
    /\ Go("next")
    /\ UNCHANGED <<program, alive, sapiOk, missed>>
    /\ misused' = {}

Executes == ~Finished /\ Applies /\ Now.op \in {"call", "host"}
Misuse == {Now.fn : o \in {o \in Now.uses : objects[o] # "live"}}

Succeeds ==
    /\ Executes /\ (alive \/ Now.op = "host")
    /\ objects' = [o \in DOMAIN objects |->
                      CASE o \in Now.makes -> "live"
                        [] o \in Now.frees -> "freed"
                        [] OTHER -> objects[o]]
    /\ done' = done \cup Now.does
    /\ misused' = Misuse
    /\ dropped' = {o \in Now.makes : objects[o] = "live"}
    /\ Go("next")
    /\ UNCHANGED <<program, alive, sapiOk, missed>>

\* The library, or the system call of the program, reports a failure.
Fails ==
    /\ Executes /\ (alive \/ Now.op = "host")
    /\ Now.bad # "never"
    /\ Now.bad # "next" \/ Now.makes # {} \/ Now.does # {}
    /\ objects' = [o \in DOMAIN objects |-> IF o \in Now.makes THEN "null" ELSE objects[o]]
    /\ missed' = missed \cup Now.does
    /\ misused' = Misuse
    /\ dropped' = {o \in Now.makes : objects[o] = "live"}
    /\ Go(Now.bad)
    /\ UNCHANGED <<program, alive, sapiOk, done>>

\* The SAPI layer reports a failure; the sandboxee may be gone for good.
SapiFails ==
    /\ Executes /\ Now.op = "call"
    /\ alive' \in {FALSE, alive}
    /\ sapiOk' = FALSE
    /\ missed' = missed \cup Now.does
    /\ Go(Now.sapi)
    /\ Quietly
    /\ UNCHANGED <<program, objects, done>>

RunNext == Skip \/ Branch \/ Assign \/ Succeeds \/ Fails \/ SapiFails

(***************************************************************************)
(* Properties                                                              *)
(***************************************************************************)
\* On any path through the early returns, the cleanups and the order in which
\* the methods of a wrapper are called, no library function is handed an object
\* that was given back, was never made or could not be made.  When a function
\* returns and no request has failed, nothing the library handed out is left in
\* the sandboxee, whether it succeeded or not, except what the caller is meant
\* to get from a success; a program that gives up takes its sandboxee along.
\* And no pointer is overwritten before its object was given back.  (The calls
\* and objects that a program's text marks as careless, leaking or abandoned
\* are left out.)
ObjectsAreAccountedFor ==
    /\ misused \subseteq program.careless
    /\ sapiOk =>
        /\ dropped \subseteq program.leaks
        /\ (Finished /\ (verdict = "ok" \/ ~OwnsSandbox)) =>
              LiveObjects \subseteq
                  program.given \cup program.leaks
                  \cup IF verdict = "ok" THEN program.keeps ELSE program.abandons

\* A program reports success only if everything it is for has been done, and
\* no part of it has failed on the way (but for what its text marks).
SuccessIsEarned ==
    verdict = "ok" => /\ program.goal \subseteq done \cup program.unearned
                      /\ missed \subseteq program.unearned
================================================================================
