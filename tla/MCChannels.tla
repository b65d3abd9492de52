------------------------------ MODULE MCChannels ------------------------------
(***************************************************************************)
(* The channels between host and sandboxee for TLC.  The specifications    *)
(* share nothing, so they are explored side by side: part says which of    *)
(* them this behaviour is about, and the variables of the others keep      *)
(* their initial values.                                                   *)
(***************************************************************************)
EXTENDS NetworkProxy, ForkClients, CommsChannel

VARIABLE part

vars == <<part, proxyVars, forkVars, commsVars>>

Init ==
    /\ part \in {"proxy", "fork", "comms"}
    /\ ProxyInit /\ (part # "proxy" => proxied)
    /\ ForkInit /\ (part # "fork" => forkMode = "global")
    /\ CommsInit

InProxy == part = "proxy" /\ UNCHANGED <<part, forkVars, commsVars>>
InFork == part = "fork" /\ UNCHANGED <<part, proxyVars, commsVars>>
InComms == part = "comms" /\ UNCHANGED <<part, proxyVars, forkVars>>

Next == (InProxy /\ ProxyNext) \/ (InFork /\ ForkNext) \/ (InComms /\ CommsNext)

\* Every thread and process runs; a waiter of an absl::Mutex gets it in the end,
\* also when others come back for it again and again.
Fairness ==
    /\ \A t \in ProxyThreads : WF_vars(InProxy /\ ProxyClientStep(t))
    /\ WF_vars(InProxy /\ ProxyServerStep) /\ WF_vars(InProxy /\ WatcherStep)
    /\ \A t \in ForkThreads : WF_vars(InFork /\ ForkThreadStep(t))
    /\ WF_vars(InFork /\ ServeFork)
    /\ \A g \in Servers : WF_vars(InFork /\ ServerHangsUp(g))
    /\ \A t \in Senders : WF_vars(InComms /\ SenderStep(t))
    /\ \A r \in Receivers : SF_vars(InComms /\ ReceiverStep(r))

Spec == Init /\ [][Next]_vars /\ Fairness
=============================================================================
