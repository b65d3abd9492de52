-------------------------------- MODULE MCSapi --------------------------------
(***************************************************************************)
(* The SAPI layer and the programs that use it, for TLC.  The four         *)
(* specifications share nothing, so they are explored side by side: part   *)
(* says which of them this behaviour is about, and the variables of the    *)
(* others keep their initial values.  Every program of the tables is an    *)
(* initial state.                                                          *)
(***************************************************************************)
EXTENDS SapiSandbox, SapiVars, SapiFd, LibraryPrograms

CONSTANT MaxDepartures \* after more than these, the variable is not followed further

VARIABLE part

vars == <<part, sapiVars, varVars, fdVars, runVars>>

\* The program that the others keep.
NoProgram == Function({}, {}, {}, <<>>)

Init ==
    /\ part \in {"sandbox", "vars", "fd", "program"}
    /\ SapiInit /\ (part # "sandbox" => sapiMode = "txn")
    /\ VarsInit /\ (part # "vars" => arrayLocal.size = 1 /\ ~arrayLocal.owned)
    /\ FdInit /\ (part # "fd" => fdValue = FdNumber)
    /\ IF part = "program" THEN ProgramInit ELSE StartOf(NoProgram)

InSandbox == part = "sandbox" /\ UNCHANGED <<part, varVars, fdVars, runVars>>
InVars ==
    part = "vars" /\ Cardinality(departures) <= MaxDepartures
    /\ UNCHANGED <<part, sapiVars, fdVars, runVars>>
InFd == part = "fd" /\ UNCHANGED <<part, sapiVars, varVars, runVars>>
InProgram == part = "program" /\ UNCHANGED <<part, sapiVars, varVars, fdVars>>

Next == (InSandbox /\ SapiNext) \/ (InVars /\ VarsNext) \/ (InFd /\ FdNext)
        \/ (InProgram /\ RunNext)

\* Every host thread, the library and the monitor run; a library function in
\* state "hung" is not obliged to return.
Fairness ==
    /\ \A t \in Threads : WF_vars(InSandbox /\ ThreadStep(t))
    /\ WF_vars(InSandbox /\ TxnStep)
    /\ WF_vars(InSandbox /\ LibraryStep)
    /\ WF_vars(InSandbox /\ MonitorKills)
    /\ WF_vars(InSandbox /\ MonitorDone)

Spec == Init /\ [][Next]_vars /\ Fairness
=============================================================================
