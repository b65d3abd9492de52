----------------------------- MODULE ProgramLang -----------------------------
(***************************************************************************)
(* How the programs that use a sandboxed library are written down.  A      *)
(* program is a sequence of statements.  A call into the sandboxee can go  *)
(* wrong in two ways that the programs treat differently: the SAPI layer   *)
(* returns an error (sapi: the request did not reach the library or its    *)
(* answer did not come back), or the library answers that it failed (bad:  *)
(* a null pointer, an error code).  What is kept of the data is which      *)
(* library objects exist: uses, makes and frees name them; does names the  *)
(* part of the program's purpose that a successful statement completes.    *)
(***************************************************************************)
EXTENDS Sequences, Naturals

Call(fn, uses) ==
    [op |-> "call", fn |-> fn, uses |-> uses, makes |-> {}, frees |-> {}, does |-> {},
     sapi |-> "fail", bad |-> "fail", given |-> {}, to |-> {}]

Makes(s, o) == [s EXCEPT !.makes = {o}]
Frees(s, o) == [s EXCEPT !.frees = {o}]
Does(s, goal) == [s EXCEPT !.does = {goal}]
OnBad(s, label) == [s EXCEPT !.bad = label]
OnSapi(s, label) == [s EXCEPT !.sapi = label]
Else(s, label) ==
    [s EXCEPT !.sapi = label, !.bad = IF @ = "never" THEN @ ELSE label]

\* A request of the SAPI layer itself: memory is allocated or copied, a
\* descriptor is sent.  No library can fail at it.
Transfer(fn, uses) == [Call(fn, uses) EXCEPT !.bad = "never"]

\* The answer of the library is not looked at; nor is the status.
Rpc(fn, uses) == OnBad(Call(fn, uses), "next")
Try(fn, uses) == Else(Call(fn, uses), "next")

\* Pointers the library returns, tested for null or not; giving them back.
New(fn, uses, o) == Makes(Call(fn, uses), o)
NewRaw(fn, uses, o) == Makes(Rpc(fn, uses), o)
Free(fn, o) == Frees(Try(fn, {o}), o)
Give(fn, o) == Frees(Rpc(fn, {o}), o)

\* What the program does itself, without the sandboxee.
Host(fn) == [Call(fn, {}) EXCEPT !.op = "host"]
Local(s) == [s EXCEPT !.op = "host"]
HostNew(fn, o) == Makes(Host(fn), o)
HostFree(fn, o) == Frees(Else([Host(fn) EXCEPT !.uses = {o}], "next"), o)

\* Executed only when the program's pointer to o is not null.
If(o, s) == [s EXCEPT !.given = {o}]
\* The pointer itself is reset.
Reset(o) == [Host("reset") EXCEPT !.op = "reset", !.frees = {o}]

\* Flow of control.  Choose: the flags, the input or the caller decide.
Jump(op, labels) == [Call(op, {}) EXCEPT !.op = op, !.to = labels]
At(label) == Jump("at", {label})
Goto(label) == Jump("goto", {label})
Choose(labels) == Jump("goto", labels)
Either(label) == Jump("goto", {label, "next"})
Return == Goto("return")
Fail == Goto("fail")
Need(o) == If(o, Jump("need", {"next"}))
NeedElse(o, label) == If(o, Else(Jump("need", {"next"}), label))
\* EXIT_FAILURE is remembered for the end.
NoteFailure == [Host("retval") EXCEPT !.op = "note"]

\* A method or a function called from a place that goes on at label whatever
\* it returns.
Redirected(s, label) ==
    LET L(t) == IF t \in {"fail", "return"} THEN label ELSE t
    IN  [s EXCEPT !.sapi = L(s.sapi), !.bad = L(s.bad), !.to = {L(t) : t \in s.to}]

Within(code, label) == [i \in 1..Len(code) |-> Redirected(code[i], label)]

Method(name, code) == <<At(name)>> \o Within(code, "calls") \o <<Goto("calls")>>

\* The preparations of every program.
Start == Host("Init")
Usage == Host("arguments")

\* given: the objects the caller hands in; keeps: the ones it gets back;
\* goal: the purpose.  Where a program departs from the properties, its text
\* says how: leaks, the objects it leaves behind; abandons, the ones it leaves
\* behind when it fails; careless, the calls that it makes with a pointer it
\* has not tested; unearned, the parts of its purpose that can fail without it
\* saying so; aborts, that its failures end the program.
Function(given, keeps, goal, code) ==
    [given |-> given, keeps |-> keeps, goal |-> goal, leaks |-> {}, abandons |-> {},
     careless |-> {}, unearned |-> {}, aborts |-> FALSE, code |-> code \o <<Return>>]

\* What runs when the function is left, on every path.
Cleanup(f, code) == [f EXCEPT !.code = @ \o <<At("cleanup")>> \o code]

\* A class whose methods its user calls in any order, any number of times.
\* When it ends, the destructor runs.
Class(names, constructor, methods, destructor) ==
    Cleanup(Function({}, {}, {},
                     Within(constructor, "calls")
                       \o <<At("calls"), Choose(names \cup {"return"})>> \o methods),
            destructor)

Leaking(f, left) == [f EXCEPT !.leaks = left]
Aborting(f) == [f EXCEPT !.aborts = TRUE]
Abandoning(f, left) == [f EXCEPT !.abandons = left]
Careless(f, fns) == [f EXCEPT !.careless = fns]
Unearned(f, goals) == [f EXCEPT !.unearned = goals]
================================================================================
