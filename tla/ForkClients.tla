----------------------------- MODULE ForkClients -----------------------------
(***************************************************************************)
(* Threads of the host that ask fork-servers for sandboxees: through the   *)
(* global fork-server (sandbox2/global_forkclient.cc), which is started    *)
(* when it is first needed and again when it was lost, or through a        *)
(* ForkClient that they share (fork_client.cc).  What one request does to  *)
(* the sandboxee is the subject of module Launch; here a request is        *)
(* answered by two pids, and a fork-server may die at any moment.          *)
(***************************************************************************)
EXTENDS Naturals, Sequences

CONSTANTS ForkThreads,   \* threads of the host
          MaxForkCalls,  \* calls made by each of them
          MaxServers     \* fork-servers started in a behaviour

ASSUME MaxServersAssumption == MaxServers \in Nat \ {0}

VARIABLES
    forkMode,        \* "global", or "custom" for a shared ForkClient
    forkPc, forkOp,  \* where each thread is, and in which call
    forkCalls,
    forkGot,         \* the pids of its last request
    waitsFor,        \* the server whose exit it waits for
    instanceMutex, commsMutex,   \* the threads past these locks
    instance,        \* the server of the current ForkClient; 0 is nullptr
    servers,         \* the state of each server: "none", "alive", "dead", "reaped"
    requestQ, replyQ,    \* the channel of the current ForkClient
    forkTerminated,  \* comms_.IsTerminated() of the current ForkClient
    forkAborted      \* the host has aborted

callVars == <<forkPc, forkOp, forkCalls, forkGot, waitsFor>>
channelVars == <<requestQ, replyQ, forkTerminated>>
forkVars == <<forkMode, callVars, instanceMutex, commsMutex, instance, servers,
              channelVars, forkAborted>>

Servers == 1..MaxServers
NoPid == <<"none", "none">>
NoPids == <<NoPid, NoPid>>

\* A ForkClient for a custom fork-server is made with a server that runs.
ForkInit ==
    /\ forkMode \in {"global", "custom"}
    /\ forkPc = [t \in ForkThreads |-> "idle"]
    /\ forkOp = [t \in ForkThreads |-> "none"]
    /\ forkCalls = [t \in ForkThreads |-> 0]
    /\ forkGot = [t \in ForkThreads |-> NoPids]
    /\ waitsFor = [t \in ForkThreads |-> 0]
    /\ instanceMutex = {} /\ commsMutex = {}
    /\ instance = (IF forkMode = "custom" THEN 1 ELSE 0)
    /\ servers = [g \in Servers |->
                    IF forkMode = "custom" /\ g = 1 THEN "alive" ELSE "none"]
    /\ requestQ = <<>> /\ replyQ = <<>> /\ forkTerminated = FALSE
    /\ forkAborted = FALSE

ForkOps == IF forkMode = "custom" THEN {"request"}
           ELSE {"request", "ensure", "force", "shutdown"}

CallFork(t, op) ==
    /\ ~forkAborted /\ forkPc[t] = "idle" /\ forkCalls[t] < MaxForkCalls
    /\ op \in ForkOps
    /\ forkPc' = [forkPc EXCEPT ![t] = IF forkMode = "custom" THEN "comms" ELSE "lock"]
    /\ forkOp' = [forkOp EXCEPT ![t] = op]
    /\ forkCalls' = [forkCalls EXCEPT ![t] = @ + 1]
    /\ UNCHANGED <<forkMode, forkGot, waitsFor, instanceMutex, commsMutex, instance,
                   servers, channelVars, forkAborted>>

-----------------------------------------------------------------------------
(* GlobalForkClient                                                        *)

NextServer == CHOOSE g \in Servers : servers[g] = "none"
MayStart == \E g \in Servers : servers[g] = "none"

\* StartGlobalForkServer: a new process, and a new channel.
StartGlobalForkServer ==
    /\ MayStart
    /\ instance' = NextServer
    /\ servers' = [servers EXCEPT ![NextServer] = "alive"]
    /\ requestQ' = <<>> /\ replyQ' = <<>> /\ forkTerminated' = FALSE

NotStarted == UNCHANGED <<instance, servers, channelVars>>

\* A call that is over releases instance_mutex_, which it took in this step.
ReturnAtOnce(t) ==
    /\ forkPc' = [forkPc EXCEPT ![t] = "idle"]
    /\ UNCHANGED instanceMutex

HoldInstance(t, pc) ==
    /\ forkPc' = [forkPc EXCEPT ![t] = pc]
    /\ instanceMutex' = {t}

\* With instance_mutex_, EnsureStartedLocked(): the server runs, is started, or is
\* not to be started (environment or flag).  A start that fails ends the host,
\* for the value of a failed StatusOr is released.
LockAndEnsureStarted(t) ==
    /\ ~forkAborted /\ forkPc[t] = "lock" /\ forkOp[t] \in {"request", "ensure"}
    /\ instanceMutex = {}
    /\ \/ /\ IF instance # 0 THEN NotStarted ELSE StartGlobalForkServer
          /\ IF forkOp[t] = "request" THEN HoldInstance(t, "comms") ELSE ReturnAtOnce(t)
          /\ UNCHANGED <<forkGot, forkAborted>>
       \/ /\ instance = 0 /\ NotStarted
          /\ ReturnAtOnce(t)
          /\ forkGot' = [forkGot EXCEPT ![t] = NoPids]
          /\ UNCHANGED forkAborted
       \/ /\ instance = 0 /\ NotStarted
          /\ forkAborted' = TRUE
          /\ UNCHANGED <<forkPc, instanceMutex, forkGot>>
    /\ UNCHANGED <<forkMode, forkOp, forkCalls, waitsFor, commsMutex>>

\* ForceStart CHECKs that there is no server yet, and that the start succeeds.
ForceStart(t) ==
    /\ ~forkAborted /\ forkPc[t] = "lock" /\ forkOp[t] = "force" /\ instanceMutex = {}
    /\ \/ /\ instance = 0 /\ StartGlobalForkServer
          /\ ReturnAtOnce(t)
          /\ UNCHANGED forkAborted
       \/ /\ forkAborted' = TRUE /\ NotStarted
          /\ UNCHANGED <<forkPc, instanceMutex>>
    /\ UNCHANGED <<forkMode, forkOp, forkCalls, forkGot, waitsFor, commsMutex>>

\* Shutdown deletes the ForkClient, closing the channel, and waits for the server
\* without the lock.
Shutdown(t) ==
    /\ ~forkAborted /\ forkPc[t] = "lock" /\ forkOp[t] = "shutdown" /\ instanceMutex = {}
    /\ instance' = 0
    /\ waitsFor' = [waitsFor EXCEPT ![t] = instance]
    /\ forkPc' = [forkPc EXCEPT ![t] = IF instance = 0 THEN "idle" ELSE "wait"]
    /\ UNCHANGED <<forkMode, forkOp, forkCalls, forkGot, instanceMutex, commsMutex,
                   servers, channelVars, forkAborted>>

WaitForForkserver(t) ==
    /\ ~forkAborted /\ forkPc[t] = "wait" /\ servers[waitsFor[t]] = "dead"
    /\ servers' = [servers EXCEPT ![waitsFor[t]] = "reaped"]
    /\ forkPc' = [forkPc EXCEPT ![t] = "idle"]
    /\ UNCHANGED <<forkMode, forkOp, forkCalls, forkGot, waitsFor, instanceMutex,
                   commsMutex, instance, channelVars, forkAborted>>

-----------------------------------------------------------------------------
(* ForkClient::SendRequest, and what GlobalForkClient does after it        *)

\* Mutant: the mutex of the channel is not taken.
CommsFreeAlways == TRUE

CommsFree == commsMutex = {}

ServerAnswers == ~forkTerminated /\ servers[instance] = "alive"

\* The request and its descriptors are sent, or the sending fails.
SendForkRequest(t) ==
    /\ ~forkAborted /\ forkPc[t] = "comms" /\ CommsFree
    /\ forkGot' = [forkGot EXCEPT ![t] = NoPids]
    /\ IF ServerAnswers
       THEN /\ requestQ' = Append(requestQ, t)
            /\ forkPc' = [forkPc EXCEPT ![t] = "init"]
            /\ commsMutex' = commsMutex \cup {t}
            /\ UNCHANGED forkTerminated
       ELSE /\ forkTerminated' = TRUE
            /\ forkPc' = [forkPc EXCEPT ![t] = "sent"]
            /\ UNCHANGED <<requestQ, commsMutex>>
    /\ UNCHANGED <<forkMode, forkOp, forkCalls, waitsFor, instanceMutex, instance,
                   servers, replyQ, forkAborted>>

\* The two pids are received one after the other; a lost connection ends it.
ReceivePid(t) ==
    /\ ~forkAborted /\ forkPc[t] \in {"init", "main"}
    /\ \/ /\ replyQ # <<>>
          /\ replyQ' = Tail(replyQ)
          /\ forkGot' = [forkGot EXCEPT ![t][IF forkPc[t] = "init" THEN 1 ELSE 2] =
                                          Head(replyQ)]
          /\ forkPc' = [forkPc EXCEPT ![t] = IF @ = "init" THEN "main" ELSE "sent"]
          /\ UNCHANGED forkTerminated
       \/ /\ replyQ = <<>> /\ servers[instance] # "alive"
          /\ forkTerminated' = TRUE
          /\ forkPc' = [forkPc EXCEPT ![t] = "sent"]
          /\ UNCHANGED <<replyQ, forkGot>>
    /\ UNCHANGED <<forkMode, forkOp, forkCalls, waitsFor, instanceMutex, commsMutex,
                   instance, servers, requestQ, forkAborted>>

Lost == forkTerminated

\* Mutant: the mutex of the channel is kept.
ReleaseInstanceOnly(t) == instanceMutex' = instanceMutex \ {t} /\ UNCHANGED commsMutex

Release(t) == instanceMutex' = instanceMutex \ {t} /\ commsMutex' = commsMutex \ {t}

\* The mutex of the channel is released.  GlobalForkClient then deletes a
\* ForkClient whose channel is terminated, and waits for the server after it has
\* released instance_mutex_.
RequestDone(t) ==
    /\ ~forkAborted /\ forkPc[t] = "sent"
    /\ Release(t)
    /\ IF forkMode = "global" /\ Lost
       THEN /\ instance' = 0
            /\ waitsFor' = [waitsFor EXCEPT ![t] = instance]
            /\ forkPc' = [forkPc EXCEPT ![t] = "wait"]
       ELSE /\ forkPc' = [forkPc EXCEPT ![t] = "idle"]
            /\ UNCHANGED <<instance, waitsFor>>
    /\ UNCHANGED <<forkMode, forkOp, forkCalls, forkGot, servers, channelVars,
                   forkAborted>>

-----------------------------------------------------------------------------
(* The fork-servers                                                        *)

ServeFork ==
    /\ instance # 0 /\ servers[instance] = "alive" /\ requestQ # <<>>
    /\ requestQ' = Tail(requestQ)
    /\ replyQ' = replyQ \o <<<<Head(requestQ), "init">>, <<Head(requestQ), "main">>>>
    /\ UNCHANGED <<forkMode, callVars, instanceMutex, commsMutex, instance, servers,
                   forkTerminated, forkAborted>>

\* A server dies, possibly between the two pids.
ServerDies(g) ==
    /\ servers[g] = "alive"
    /\ servers' = [servers EXCEPT ![g] = "dead"]
    /\ \/ UNCHANGED replyQ
       \/ /\ g = instance /\ requestQ # <<>>
          /\ replyQ' = Append(replyQ, <<Head(requestQ), "init">>)
    /\ UNCHANGED <<forkMode, callVars, instanceMutex, commsMutex, instance, requestQ,
                   forkTerminated, forkAborted>>

\* A server whose channel was closed by the host ends.
ServerHangsUp(g) ==
    /\ servers[g] = "alive" /\ instance # g
    /\ servers' = [servers EXCEPT ![g] = "dead"]
    /\ UNCHANGED <<forkMode, callVars, instanceMutex, commsMutex, instance, channelVars,
                   forkAborted>>

ForkThreadStep(t) ==
    LockAndEnsureStarted(t) \/ ForceStart(t) \/ Shutdown(t) \/ WaitForForkserver(t)
      \/ SendForkRequest(t) \/ ReceivePid(t) \/ RequestDone(t)

ForkServerStep == ServeFork \/ \E g \in Servers : ServerHangsUp(g)

ForkNext ==
    \/ \E t \in ForkThreads : (\E op \in ForkOps : CallFork(t, op)) \/ ForkThreadStep(t)
    \/ ForkServerStep
    \/ \E g \in Servers : ServerDies(g)

ForkSpec == ForkInit /\ [][ForkNext]_forkVars

-----------------------------------------------------------------------------
\* A request returns the pids of its own sandboxee, init and main each in its
\* place, or none, although threads share the channel and the fork-server may
\* die between the two: no later request reads what an earlier one left.
PidsAreOwn ==
    \A t \in ForkThreads :
      /\ forkGot[t][1] \in {NoPid, <<t, "init">>}
      /\ forkGot[t][2] \in {NoPid, <<t, "main">>}

\* A thread that finds instance_mutex_ free never gets a ForkClient whose channel
\* is known to be lost: the request that lost it has deleted it.
LostServerIsReplaced ==
    forkMode = "global" /\ instanceMutex = {} /\ instance # 0 => ~forkTerminated

\* Every call returns, also while servers die, unless the host aborts: nobody
\* waits with a lock for a server that waits for the host.  And a global
\* fork-server that has been given up is reaped.
ForkCallsReturn ==
    /\ \A t \in ForkThreads : forkPc[t] # "idle" ~> forkPc[t] = "idle" \/ forkAborted
    /\ \A g \in Servers :
         (forkMode = "global" /\ servers[g] # "none" /\ instance # g)
           ~> (servers[g] = "reaped" \/ forkAborted)
=============================================================================
