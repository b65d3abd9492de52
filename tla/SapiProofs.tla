----------------------------- MODULE SapiProofs -----------------------------
(***************************************************************************)
(* The SAPI layer for any number of threads, retries and sandboxees, any   *)
(* memory and any descriptors: a reply goes to the thread that called, the *)
(* Init() hook runs once on the sandboxee that Main() runs in, Terminate() *)
(* returns when the sandboxee is gone, a variable neither damages nor      *)
(* leaks the memory of the sandboxee, and a descriptor closes what it owns.*)
(***************************************************************************)
EXTENDS SapiSandbox, SapiVars, SapiFd, WellFoundedInduction, TLAPS

(***************************************************************************)
(* RPCChannel.  A thread that waits for an answer holds mutex_, and        *)
(* nothing else is on its way than its request or the reply to it.         *)
(***************************************************************************)
SapiPcs == {"idle", "call", "lock", "recv", "returned", "terminate", "exit", "exitRecv",
            "await", "collect", "terminated", "end", "init", "limit", "cleanup"}
Waits == {"recv", "exitRecv"}

ChannelInv ==
    /\ sapiPc \in [Threads -> SapiPcs]
    /\ \A t \in Threads : sapiPc[t] \in Waits <=> rpcMutex = t
    /\ request \in Threads => reply = NoThread
    /\ RepliesAreOwn

\* A thread that neither waits nor begins to wait leaves the channel alone.
LEMMA ChannelKept ==
    ASSUME ChannelInv, NEW t \in Threads, NEW where \in SapiPcs \ Waits,
           sapiPc[t] \notin Waits, MoveTo(t, where), UNCHANGED rpcMutex,
           UNCHANGED <<request, reply>> \/ (request' = NoThread /\ reply' = NoThread)
    PROVE  ChannelInv'
<1>1. sapiPc' = [sapiPc EXCEPT ![t] = where]
    BY Zenon DEF MoveTo
<1>2. sapiPc' \in [Threads -> SapiPcs] /\ \A u \in Threads : u # t => sapiPc'[u] = sapiPc[u]
    BY <1>1, Zenon DEF ChannelInv
<1>3. sapiPc'[t] = where
    BY <1>1, Zenon DEF ChannelInv
<1>4. \A u \in Threads : sapiPc'[u] \in Waits <=> rpcMutex' = u
    BY <1>2, <1>3, Zenon DEF ChannelInv
<1>5. RepliesAreOwn' /\ (request' \in Threads => reply' = NoThread)
    <2>1. CASE request' = NoThread /\ reply' = NoThread
        BY <2>1, SapiAssumption, Zenon DEF RepliesAreOwn, NoThread
    <2>2. CASE UNCHANGED <<request, reply>>
        <3>1. request \in Threads => request # t
            BY Zenon DEF ChannelInv, RepliesAreOwn, Waits
        <3>2. reply # NoThread => reply # t
            BY Zenon DEF ChannelInv, RepliesAreOwn, Waits
        <3>3. \A u : u # t => sapiPc'[u] = sapiPc[u]
            BY <1>1 DEF ChannelInv
        <3> QED BY <2>2, <3>1, <3>2, <3>3, Zenon DEF ChannelInv, RepliesAreOwn
    <2> QED BY <2>1, <2>2, Zenon
<1> QED BY <1>2, <1>4, <1>5, Zenon DEF ChannelInv

\* The steps of a thread in a call.
LEMMA ThreadKeepsChannel ==
    ASSUME ChannelInv, NEW t \in Threads,
           ThreadStep(t) \/ PlainCall(t) \/ PlainTerminate(t)
    PROVE  ChannelInv'
<1> USE DEF SapiPcs, Waits
<1>1. CASE CallIfActive(t) \/ Terminate(t) \/ AwaitResult(t) \/ CollectResult(t)
           \/ PlainReturned(t) \/ PlainTerminated(t) \/ PlainCall(t) \/ PlainTerminate(t)
    <2>1. PICK where \in SapiPcs \ Waits : MoveTo(t, where)
        BY <1>1, Zenon DEF CallIfActive, Terminate, AwaitResult, CollectResult, PlainReturned,
              PlainTerminated, PlainCall, PlainTerminate
    <2>2. sapiPc[t] \notin Waits /\ UNCHANGED rpcVars
        BY <1>1, Zenon DEF CallIfActive, Terminate, AwaitResult, CollectResult, PlainReturned,
              PlainTerminated, PlainCall, PlainTerminate
    <2> QED BY <2>1, <2>2, ChannelKept, Zenon DEF rpcVars
<1> DEFINE Quiet == request \notin Threads /\ reply = NoThread
<1>q. rpcMutex = NoThread => Quiet
    BY SapiAssumption, Zenon DEF ChannelInv, RepliesAreOwn, NoThread
<1>o. ASSUME NEW where \in SapiPcs, MoveTo(t, where)
      PROVE  /\ sapiPc' \in [Threads -> SapiPcs] /\ sapiPc'[t] = where
             /\ \A u \in Threads : u # t => sapiPc'[u] = sapiPc[u]
    BY <1>o, Zenon DEF MoveTo, ChannelInv
<1>2. CASE RpcSend(t)
    <2>1. CASE connection = "open" /\ LibraryAlive
        <3>1. /\ request' = t /\ rpcMutex' = t /\ MoveTo(t, "recv") /\ UNCHANGED reply
              /\ rpcMutex = NoThread
            BY <1>2, <2>1, Zenon DEF RpcSend, MutexFree
        <3>2. /\ sapiPc' \in [Threads -> SapiPcs] /\ sapiPc'[t] = "recv"
              /\ \A u \in Threads : u # t => sapiPc'[u] = sapiPc[u]
            BY <1>o, <3>1, Zenon
        <3>3. \A u \in Threads : sapiPc'[u] \in Waits <=> rpcMutex' = u
            BY <3>1, <3>2, SapiAssumption, Zenon DEF ChannelInv, NoThread
        <3> QED BY <1>q, <3>1, <3>2, <3>3, Zenon DEF ChannelInv, RepliesAreOwn
    <2>2. CASE ~(connection = "open" /\ LibraryAlive)
        <3>1. /\ UNCHANGED <<request, rpcMutex, reply>> /\ MoveTo(t, "returned")
              /\ sapiPc[t] = "lock"
            BY <1>2, <2>2, Zenon DEF RpcSend
        <3> QED BY <3>1, ChannelKept, Zenon
    <2> QED BY <2>1, <2>2, Zenon
<1>3. CASE RpcReturn(t)
    <2>1. /\ rpcMutex = t /\ rpcMutex' = NoThread /\ MoveTo(t, "returned")
          /\ reply' = NoThread /\ (request' = NoThread \/ (reply # NoThread /\ UNCHANGED request))
        BY <1>3, Zenon DEF RpcReturn, ChannelInv
    <2>2. request' \notin Threads
        BY <2>1, SapiAssumption, Zenon DEF ChannelInv, NoThread
    <2>3. /\ sapiPc' \in [Threads -> SapiPcs] /\ sapiPc'[t] = "returned"
          /\ \A u \in Threads : u # t => sapiPc'[u] = sapiPc[u]
        BY <1>o, <2>1, Zenon
    <2>4. \A u \in Threads : sapiPc'[u] \in Waits <=> rpcMutex' = u
        BY <2>1, <2>3, SapiAssumption, Zenon DEF ChannelInv, NoThread
    <2> QED BY <2>1, <2>2, <2>3, <2>4, Zenon DEF ChannelInv, RepliesAreOwn
<1>4. CASE ExitSend(t)
    <2>1. CASE connection = "open" /\ LibraryAlive
        <3>1. /\ request' = "exit" /\ rpcMutex' = t /\ MoveTo(t, "exitRecv")
              /\ UNCHANGED reply /\ rpcMutex = NoThread
            BY <1>4, <2>1, Zenon DEF ExitSend, MutexFree
        <3>2. /\ sapiPc' \in [Threads -> SapiPcs] /\ sapiPc'[t] = "exitRecv"
              /\ \A u \in Threads : u # t => sapiPc'[u] = sapiPc[u]
            BY <1>o, <3>1, Zenon
        <3>3. \A u \in Threads : sapiPc'[u] \in Waits <=> rpcMutex' = u
            BY <3>1, <3>2, SapiAssumption, Zenon DEF ChannelInv, NoThread
        <3>4. request' \notin Threads
            BY <3>1, SapiAssumption, Zenon
        <3> QED BY <1>q, <3>1, <3>2, <3>3, <3>4, Zenon DEF ChannelInv, RepliesAreOwn
    <2>2. CASE ~(connection = "open" /\ LibraryAlive)
        <3>1. /\ UNCHANGED <<request, rpcMutex, reply>> /\ MoveTo(t, "await")
              /\ sapiPc[t] = "exit"
            BY <1>4, <2>2, Zenon DEF ExitSend
        <3> QED BY <3>1, ChannelKept, Zenon
    <2> QED BY <2>1, <2>2, Zenon
<1>5. CASE ExitRecv(t)
    <2>1. /\ rpcMutex = t /\ rpcMutex' = NoThread /\ MoveTo(t, "await") /\ UNCHANGED reply
          /\ request' = NoThread \/ UNCHANGED request
          /\ sapiPc[t] = "exitRecv"
        BY <1>5, Zenon DEF ExitRecv, ChannelInv
    <2>2. request' \notin Threads /\ reply' = NoThread
        BY <2>1, SapiAssumption, Zenon DEF ChannelInv, NoThread, RepliesAreOwn
    <2>3. /\ sapiPc' \in [Threads -> SapiPcs] /\ sapiPc'[t] = "await"
          /\ \A u \in Threads : u # t => sapiPc'[u] = sapiPc[u]
        BY <1>o, <2>1, Zenon
    <2>4. \A u \in Threads : sapiPc'[u] \in Waits <=> rpcMutex' = u
        BY <2>1, <2>3, SapiAssumption, Zenon DEF ChannelInv, NoThread
    <2> QED BY <2>2, <2>3, <2>4, Zenon DEF ChannelInv, RepliesAreOwn
<1> QED BY <1>1, <1>2, <1>3, <1>4, <1>5, Zenon DEF ThreadStep

\* The Transaction: its own steps, and Sandbox::Init() with its new channel.
LEMMA TxnKeepsChannel ==
    ASSUME ChannelInv, TxnStep \/ Run \/ Restart \/ Destroy
    PROVE  ChannelInv'
<1> USE DEF SapiPcs, Waits
<1>1. PICK where \in SapiPcs \ Waits : MoveTo(MainThread, where)
    BY Zenon DEF TxnStep, RunInit, SetWallTimeLimit, HookReturned, MainReturned, TimeCleanup,
           FailureTerminates, RetryOrGiveUp, FinishReturned, RestartTerminated,
           RestartInit, Destroyed, Run, Restart, Destroy
<1>2. sapiPc[MainThread] \notin Waits
    BY Zenon DEF TxnStep, RunInit, SetWallTimeLimit, HookReturned, MainReturned, TimeCleanup,
           RetryOrGiveUp, FinishReturned, RestartTerminated,
           RestartInit, Destroyed, Run, Restart, Destroy, Txn
<1>3. /\ UNCHANGED rpcMutex
      /\ UNCHANGED <<request, reply>> \/ (request' = NoThread /\ reply' = NoThread)
    BY Zenon DEF TxnStep, RunInit, SetWallTimeLimit, HookReturned, MainReturned, TimeCleanup,
           RetryOrGiveUp, FinishReturned, RestartTerminated, RestartInit, Destroyed,
           Run, Restart, Destroy, SandboxInitOk, SandboxInitFails, AlreadyActive,
           StartSandboxee, StartFails, NoForkServer, rpcVars
<1> QED BY <1>1, <1>2, <1>3, ChannelKept, SapiAssumption, Zenon

\* For any number of threads that share one RPCChannel and end it at any moment, a
\* request or a reply on its way belongs to the thread that holds mutex_.
THEOREM RepliesGoToTheirCallers == SapiSpec => []RepliesAreOwn
<1>1. SapiInit => ChannelInv
    BY SapiAssumption, Zenon DEF SapiInit, ChannelInv, RepliesAreOwn, SapiPcs, Waits, NoThread
<1>2. ChannelInv /\ [SapiNext]_sapiVars => ChannelInv'
    <2> SUFFICES ASSUME ChannelInv, [SapiNext]_sapiVars PROVE ChannelInv'
        OBVIOUS
    <2>1. CASE ServeRequest \/ LibraryDies \/ MonitorStep \/ UNCHANGED sapiVars
               \/ \E duration \in TimeLimits : SetTimeLimit(duration)
        BY <2>1, Zenon DEF ServeRequest, SetTimeLimit, LibraryDies, MonitorStep, MonitorKills, MonitorDone,
              sapiVars, rpcVars, ChannelInv, RepliesAreOwn
    <2>2. CASE SendReturn
        <3>1. /\ request \in Threads /\ reply' = request /\ request' = NoThread
              /\ UNCHANGED <<rpcMutex, sapiPc>>
            BY <2>2, Zenon DEF SendReturn
        <3> QED BY <3>1, SapiAssumption, Zenon DEF ChannelInv, RepliesAreOwn, NoThread
    <2> QED BY <2>1, <2>2, ThreadKeepsChannel, TxnKeepsChannel, Zenon DEF SapiNext, LibraryStep
<1>3. ChannelInv => RepliesAreOwn
    BY Zenon DEF ChannelInv
<1> QED BY <1>1, <1>2, <1>3, PTL DEF SapiSpec

-----------------------------------------------------------------------------
(***************************************************************************)
(* Transactions.  What the thread that runs one is about, against the      *)
(* sandboxee it has.                                                       *)
(***************************************************************************)
Ends == {"terminate", "exit", "exitRecv", "await", "collect"}
mainPc == sapiPc[MainThread]

TxnInv ==
    /\ sapiPc \in [Threads -> SapiPcs]
    /\ sandboxee \in Nat /\ hookDoneOn \in Nat /\ attempt \in Nat
    /\ hookDoneOn <= sandboxee
    /\ sapiMode = "plain" => hookDoneOn # sandboxee /\ stage = "none" /\ attempt = 0
    /\ stage # "none" => mainPc \in {"call", "lock", "recv", "returned"}
    /\ stage = "hook" => hookDoneOn # sandboxee
    /\ stage = "main" /\ attempt > 0 => hookDoneOn = sandboxee
    /\ mainPc = "limit" => afterwards = "retry"
    /\ afterwards = "retry" /\ attempt > 0 /\ mainPc \in {"init", "limit"} => ~initialized
    \* A sandboxee whose preparation is forgotten is not used any more.
    /\ ~initialized /\ hookDoneOn = sandboxee => ~IsActive \/ mainPc \in Ends
    /\ sapiMode = "txn" /\ mainPc = "terminated" => ~IsActive
    /\ s2Awaited => ~IsActive
    /\ sapiMode \in {"txn", "plain"}

\* Sandbox::Init() gives a sandboxee that is active: the one that was, or the next.
LEMMA InitGivesNext ==
    ASSUME SandboxInitOk \/ SandboxInitFails, sandboxee \in Nat
    PROVE  \/ UNCHANGED <<sandboxee, s2, s2Awaited>>
           \/ sandboxee' = sandboxee + 1 /\ ~s2Awaited'
           \/ sandboxee' = sandboxee /\ s2' = "done" /\ ~s2Awaited'
BY Zenon DEF SandboxInitOk, SandboxInitFails, AlreadyActive, StartSandboxee, StartFails,
       NoForkServer, boxVars

\* The steps of a thread in a call or in Terminate().
LEMMA ThreadKeepsTxn ==
    ASSUME TxnInv, NEW t \in Threads, ThreadStep(t) \/ PlainCall(t) \/ PlainTerminate(t)
    PROVE  TxnInv' /\ UNCHANGED initialized
<1>1. /\ UNCHANGED <<sapiMode, txnVars, sandboxee, s2>>
      /\ \E where \in SapiPcs : MoveTo(t, where)
    BY Zenon DEF ThreadStep, CallIfActive, RpcSend, RpcReturn, Terminate, ExitSend, ExitRecv,
           AwaitResult, CollectResult, PlainReturned, PlainTerminated, PlainCall, PlainTerminate,
           SapiPcs, boxVars
<1>a. s2Awaited' => s2Awaited \/ ~IsActive
    <2>1. CASE CollectResult(t)
        BY <2>1, Zenon DEF CollectResult, ResultReady, IsActive
    <2>2. CASE ~CollectResult(t)
        BY <2>2, Zenon DEF ThreadStep, CallIfActive, RpcSend, RpcReturn, Terminate, ExitSend,
              ExitRecv, AwaitResult, PlainReturned, PlainTerminated, PlainCall,
              PlainTerminate, boxVars
    <2> QED BY <2>1, <2>2, Zenon
<1>2. PICK where \in SapiPcs : sapiPc' = [sapiPc EXCEPT ![t] = where]
    BY <1>1, Zenon DEF MoveTo
<1>3. sapiPc' \in [Threads -> SapiPcs]
    BY <1>2, Zenon DEF TxnInv
<1>4. CASE t # MainThread
    <2>1. sapiPc'[MainThread] = sapiPc[MainThread]
        BY <1>2, <1>4, SapiAssumption, Zenon DEF TxnInv
    <2> QED BY <1>1, <1>a, <1>3, <2>1, Zenon DEF TxnInv, mainPc, txnVars, IsActive
<1>5. CASE t = MainThread
    <2>1. sapiPc'[MainThread] = where
        BY <1>2, <1>5, Zenon DEF TxnInv
    <2>2. \/ mainPc = "call" /\ where \in {"lock", "returned"}
          \/ mainPc = "lock" /\ where \in {"recv", "returned"}
          \/ mainPc = "recv" /\ where = "returned"
          \/ mainPc \in Ends /\ where \in Ends
          \/ mainPc \in Ends /\ where = "terminated" /\ ~IsActive
          \/ sapiMode = "plain" /\ mainPc \in {"returned", "idle", "terminated"}
             /\ where \in {"idle", "end", "call", "terminate"}
        <3> USE <1>2, <1>5, <2>1 DEF MoveTo, mainPc, Ends, TxnInv
        <3>1. CASE CallIfActive(t) \/ RpcSend(t) \/ RpcReturn(t)
            BY <3>1, Zenon DEF CallIfActive, RpcSend, RpcReturn
        <3>2. CASE Terminate(t) \/ ExitSend(t) \/ ExitRecv(t) \/ AwaitResult(t) \/ CollectResult(t)
            BY <3>2, Zenon DEF Terminate, ExitSend, ExitRecv, AwaitResult, CollectResult,
                  ResultReady, IsActive
        <3>3. CASE PlainReturned(t) \/ PlainTerminated(t) \/ PlainCall(t) \/ PlainTerminate(t)
            BY <3>3, Zenon DEF PlainReturned, PlainTerminated, PlainCall, PlainTerminate
        <3> QED BY <3>1, <3>2, <3>3, Zenon DEF ThreadStep
    <2> QED BY <1>1, <1>a, <1>3, <2>1, <2>2, Zenon DEF TxnInv, mainPc, txnVars, IsActive, Ends
<1> QED BY <1>4, <1>5, Zenon

\* The steps of the Transaction itself.
LEMMA TxnKeepsTxn ==
    ASSUME TxnInv, TxnStep \/ Run \/ Restart \/ Destroy
    PROVE  TxnInv' /\ (initialized' /\ ~initialized => hookDoneOn # sandboxee)
<1> DEFINE Kept == TxnInv' /\ (initialized' /\ ~initialized => hookDoneOn # sandboxee)
<1>m. ASSUME NEW where \in SapiPcs, MoveTo(MainThread, where)
      PROVE  sapiPc' \in [Threads -> SapiPcs] /\ mainPc' = where
    BY <1>m, SapiAssumption, Zenon DEF MoveTo, TxnInv, mainPc
<1> USE DEF TxnInv, SapiPcs, Ends, IsActive
<1>1. CASE Run
    <2>1. mainPc' = "init" /\ sapiPc' \in [Threads -> SapiPcs] /\ mainPc = "idle"
        BY <1>1, <1>m, Zenon DEF Run, Txn, mainPc
    <2> QED BY <1>1, <2>1 DEF Run, Txn, boxVars
<1>2. CASE RunInit
    <2>1. /\ mainPc' \in {"limit", "terminate"} /\ sapiPc' \in [Threads -> SapiPcs]
          /\ mainPc = "init" /\ afterwards = "retry"
        BY <1>2, <1>m, Zenon DEF RunInit, Txn, mainPc
    <2>2. \/ UNCHANGED <<sandboxee, s2, s2Awaited>>
          \/ sandboxee' = sandboxee + 1 /\ ~s2Awaited'
          \/ sandboxee' = sandboxee /\ s2' = "done" /\ ~s2Awaited'
        BY <1>2, InitGivesNext, Zenon DEF RunInit
    <2> QED BY <1>2, <2>1, <2>2 DEF RunInit, Txn, txnVars
<1>3. CASE SetWallTimeLimit
    <2>1. CASE IsActive
        <3>1. mainPc' = "call" /\ sapiPc' \in [Threads -> SapiPcs] /\ mainPc = "limit"
            BY <1>3, <1>m, <2>1, Zenon DEF SetWallTimeLimit, Txn, mainPc
        <3> QED BY <1>3, <2>1, <3>1, Zenon DEF SetWallTimeLimit, Txn
    <2>2. CASE ~IsActive
        <3>1. mainPc' = "terminate" /\ sapiPc' \in [Threads -> SapiPcs] /\ mainPc = "limit"
            BY <1>3, <1>m, <2>2, Zenon DEF SetWallTimeLimit, Txn, mainPc
        <3> QED BY <1>3, <2>2, <3>1, Zenon DEF SetWallTimeLimit, Txn
    <2> QED BY <2>1, <2>2, Zenon
<1>4. CASE HookReturned
    <2>1. CASE callOk[MainThread]
        <3>1. mainPc' = "call" /\ sapiPc' \in [Threads -> SapiPcs] /\ mainPc = "returned"
            BY <1>4, <1>m, <2>1, Zenon DEF HookReturned, Txn, mainPc
        <3> QED BY <1>4, <2>1, <3>1 DEF HookReturned, Txn, boxVars
    <2>2. CASE ~callOk[MainThread]
        <3>1. mainPc' = "cleanup" /\ sapiPc' \in [Threads -> SapiPcs] /\ mainPc = "returned"
            BY <1>4, <1>m, <2>2, Zenon DEF HookReturned, Txn, mainPc
        <3> QED BY <1>4, <2>2, <3>1 DEF HookReturned, Txn, boxVars
    <2> QED BY <2>1, <2>2, Zenon
<1>5. CASE MainReturned
    <2>1. mainPc' = "cleanup" /\ sapiPc' \in [Threads -> SapiPcs] /\ mainPc = "returned"
        BY <1>5, <1>m, Zenon DEF MainReturned, Txn, mainPc
    <2> QED BY <1>5, <2>1, Zenon DEF MainReturned, Txn, boxVars
<1>6. CASE TimeCleanup
    <2>1. mainPc' \in {"idle", "terminate"} /\ sapiPc' \in [Threads -> SapiPcs] /\ mainPc = "cleanup"
        BY <1>6, <1>m, Zenon DEF TimeCleanup, Txn, mainPc, FailureTerminates
    <2> QED BY <1>6, <2>1, Zenon DEF TimeCleanup, Txn
<1>7. CASE RetryOrGiveUp
    <2>1. CASE MoreTries
        <3>1. mainPc' = "init" /\ sapiPc' \in [Threads -> SapiPcs] /\ mainPc = "terminated"
            BY <1>7, <1>m, <2>1, Zenon DEF RetryOrGiveUp, Txn, mainPc
        <3> QED BY <1>7, <2>1, <3>1 DEF RetryOrGiveUp, Txn, boxVars, HookForgotten
    <2>2. CASE ~MoreTries
        <3>1. mainPc' = "idle" /\ sapiPc' \in [Threads -> SapiPcs] /\ mainPc = "terminated"
            BY <1>7, <1>m, <2>2, Zenon DEF RetryOrGiveUp, Txn, mainPc
        <3> QED BY <1>7, <2>2, <3>1, Zenon DEF RetryOrGiveUp, Txn, boxVars, HookForgotten
    <2> QED BY <2>1, <2>2, Zenon
<1>8. CASE Restart
    <2>1. CASE initialized
        <3>1. mainPc' = "call" /\ sapiPc' \in [Threads -> SapiPcs] /\ mainPc = "idle"
            BY <1>8, <1>m, <2>1, Zenon DEF Restart, Txn, mainPc
        <3> QED BY <1>8, <2>1, <3>1, Zenon DEF Restart, Txn, boxVars
    <2>2. CASE ~initialized
        <3>1. mainPc' = "terminate" /\ sapiPc' \in [Threads -> SapiPcs] /\ mainPc = "idle"
            BY <1>8, <1>m, <2>2, Zenon DEF Restart, Txn, mainPc
        <3> QED BY <1>8, <2>2, <3>1, Zenon DEF Restart, Txn, boxVars
    <2> QED BY <2>1, <2>2, Zenon
<1>9. CASE FinishReturned
    <2>1. mainPc' = "terminate" /\ sapiPc' \in [Threads -> SapiPcs] /\ mainPc = "returned"
        BY <1>9, <1>m, Zenon DEF FinishReturned, Txn, mainPc
    <2> QED BY <1>9, <2>1, Zenon DEF FinishReturned, Txn, boxVars
<1>10. CASE RestartTerminated \/ Destroyed
    <2>1. /\ mainPc' \in {"init", "end"} /\ sapiPc' \in [Threads -> SapiPcs]
          /\ mainPc = "terminated" /\ afterwards # "retry"
        BY <1>10, <1>m, Zenon DEF RestartTerminated, Destroyed, Txn, mainPc
    <2> QED BY <1>10, <2>1 DEF RestartTerminated, Destroyed, Txn, boxVars, txnVars
<1>11. CASE RestartInit
    <2>1. mainPc' = "idle" /\ sapiPc' \in [Threads -> SapiPcs] /\ mainPc = "init"
        BY <1>11, <1>m, Zenon DEF RestartInit, Txn, mainPc
    <2>2. \/ UNCHANGED <<sandboxee, s2, s2Awaited>>
          \/ sandboxee' = sandboxee + 1 /\ ~s2Awaited'
          \/ sandboxee' = sandboxee /\ s2' = "done" /\ ~s2Awaited'
        BY <1>11, InitGivesNext, Zenon DEF RestartInit
    <2> QED BY <1>11, <2>1, <2>2 DEF RestartInit, Txn
<1>12. CASE Destroy
    <2>1. mainPc' = "terminate" /\ sapiPc' \in [Threads -> SapiPcs] /\ mainPc = "idle"
        BY <1>12, <1>m, Zenon DEF Destroy, Txn, mainPc
    <2> QED BY <1>12, <2>1, Zenon DEF Destroy, Txn, boxVars
<1> QED BY <1>1, <1>2, <1>3, <1>4, <1>5, <1>6, <1>7, <1>8, <1>9, <1>10, <1>11, <1>12, Zenon
           DEF TxnStep

\* Every step.
LEMMA TxnInvStep ==
    ASSUME TxnInv, [SapiNext]_sapiVars
    PROVE  TxnInv' /\ (initialized' /\ ~initialized => hookDoneOn # sandboxee)
<1>1. CASE LibraryStep \/ LibraryDies \/ MonitorStep \/ UNCHANGED sapiVars
           \/ \E duration \in TimeLimits : SetTimeLimit(duration)
    <2>1. /\ UNCHANGED <<sapiMode, txnVars, sandboxee, s2Awaited, sapiPc>>
          /\ s2' \in {s2, "done"}
        BY <1>1, Zenon DEF LibraryStep, SetTimeLimit, ServeRequest, SendReturn, LibraryDies, MonitorStep,
              MonitorKills, MonitorDone, sapiVars, boxVars
    <2> QED BY <2>1, Zenon DEF TxnInv, mainPc, txnVars, IsActive
<1> QED BY <1>1, ThreadKeepsTxn, TxnKeepsTxn, Zenon DEF SapiNext

\* However often a Transaction is retried and restarted, and whenever its sandboxee
\* dies: a retry runs Main() in a sandboxee that the Init() hook has prepared, and
\* the hook never succeeds twice on one sandboxee.
THEOREM HookRunsOnce == SapiSpec => InitOncePerSandboxee
<1>1. SapiInit => TxnInv
    <2> SUFFICES ASSUME SapiInit PROVE TxnInv
        OBVIOUS
    <2>1. sapiPc \in [Threads -> SapiPcs] /\ mainPc = "idle"
        BY SapiAssumption, Zenon DEF SapiInit, SapiPcs, mainPc
    <2> QED BY <2>1 DEF SapiInit, TxnInv, IsActive
<1>2. TxnInv /\ [SapiNext]_sapiVars => TxnInv'
    BY TxnInvStep, Zenon
<1>3. TxnInv => (attempt > 0 /\ stage = "main" /\ sapiPc[MainThread] \in {"lock", "recv"} =>
                     hookDoneOn = sandboxee)
    BY Zenon DEF TxnInv
<1>4. TxnInv /\ [SapiNext]_sapiVars =>
          [initialized' /\ ~initialized => hookDoneOn # sandboxee]_sapiVars
    BY TxnInvStep, Zenon
<1> QED BY <1>1, <1>2, <1>3, <1>4, PTL DEF SapiSpec, InitOncePerSandboxee

-----------------------------------------------------------------------------
(***************************************************************************)
(* Terminate().  Only the thread of a Transaction starts sandboxees.       *)
(***************************************************************************)
GoneInv ==
    /\ sapiPc \in [Threads -> SapiPcs]
    /\ s2 # "running" => ~LibraryAlive
    /\ \A t \in Threads : sapiPc[t] = "terminated" => s2 # "running"
    /\ s2Awaited => s2 # "running"
    /\ sapiMode = "txn" => \A t \in Threads \ {MainThread} : sapiPc[t] = "idle"

\* When Terminate() returns, the sandboxee is gone and its result collected,
\* whatever the other threads do.
TerminatedIsGone ==
    \A t \in Threads : sapiPc[t] = "terminated" => ~LibraryAlive /\ s2 # "running"

\* Terminate() of any thread, graceful or not, waits for the end of the sandboxee.
THEOREM TerminateWaits == SapiSpec => []TerminatedIsGone
<1>1. SapiInit => GoneInv
    BY Zenon DEF SapiInit, GoneInv, SapiPcs, LibraryAlive
<1>2. GoneInv /\ [SapiNext]_sapiVars => GoneInv'
    <2> SUFFICES ASSUME GoneInv, [SapiNext]_sapiVars PROVE GoneInv'
        OBVIOUS
    <2>m. ASSUME NEW t \in Threads, NEW where \in SapiPcs, MoveTo(t, where)
          PROVE  /\ sapiPc' \in [Threads -> SapiPcs] /\ sapiPc'[t] = where
                 /\ \A u \in Threads : u # t => sapiPc'[u] = sapiPc[u]
        BY <2>m, Zenon DEF MoveTo, GoneInv
    <2>1. CASE LibraryStep \/ LibraryDies \/ MonitorStep \/ UNCHANGED sapiVars
               \/ \E duration \in TimeLimits : SetTimeLimit(duration)
        <3>1. /\ UNCHANGED <<sapiMode, sapiPc, s2Awaited>> /\ s2' \in {s2, "done"}
              /\ s2' # "running" => ~LibraryAlive'
            BY <2>1, Zenon DEF GoneInv, SetTimeLimit, LibraryStep, ServeRequest, SendReturn, LibraryDies,
                  MonitorStep, MonitorKills, MonitorDone, sapiVars, boxVars, LibraryAlive
        <3> QED BY <3>1, Zenon DEF GoneInv
    <2>2. ASSUME NEW t \in Threads, ThreadStep(t) \/ PlainCall(t) \/ PlainTerminate(t)
          PROVE  GoneInv'
        <3>1. /\ UNCHANGED <<sapiMode, s2, library>>
              /\ \E where \in SapiPcs : /\ MoveTo(t, where)
                                        /\ where = "terminated" => s2 # "running"
            BY <2>2, Zenon DEF ThreadStep, CallIfActive, RpcSend, RpcReturn, Terminate, ExitSend,
                  ExitRecv, AwaitResult, CollectResult, GoneInv, PlainReturned, PlainTerminated, PlainCall,
                  PlainTerminate, SapiPcs, boxVars, IsActive, ResultReady
        <3>a. s2Awaited' => s2 # "running"
            <4>1. CASE CollectResult(t)
                BY <4>1, Zenon DEF CollectResult, ResultReady
            <4>2. CASE ~CollectResult(t)
                BY <2>2, <4>2, Zenon DEF ThreadStep, CallIfActive, RpcSend, RpcReturn, Terminate,
                      ExitSend, ExitRecv, AwaitResult, PlainReturned, PlainTerminated,
                      PlainCall, PlainTerminate, boxVars, GoneInv
            <4> QED BY <4>1, <4>2, Zenon
        <3>2. sapiMode = "plain" \/ sapiPc[t] # "idle"
            BY <2>2, Zenon DEF ThreadStep, CallIfActive, RpcSend, RpcReturn, Terminate, ExitSend,
                  ExitRecv, AwaitResult, CollectResult, GoneInv, PlainReturned, PlainTerminated, PlainCall,
                  PlainTerminate
        <3>3. PICK where \in SapiPcs : /\ MoveTo(t, where)
                                       /\ where = "terminated" => s2 # "running"
            BY <3>1, Zenon
        <3>4. /\ sapiPc' \in [Threads -> SapiPcs] /\ sapiPc'[t] = where
              /\ \A u \in Threads : u # t => sapiPc'[u] = sapiPc[u]
            BY <2>m, <3>3, Zenon
        <3> QED BY <3>1, <3>a, <3>2, <3>3, <3>4, Zenon DEF GoneInv, LibraryAlive
    <2>3. CASE TxnStep \/ Run \/ Restart \/ Destroy
        <3>1. /\ UNCHANGED sapiMode /\ sapiMode = "txn"
              /\ \E where \in SapiPcs \ {"terminated"} : MoveTo(MainThread, where)
            BY <2>3, Zenon DEF TxnStep, RunInit, SetWallTimeLimit, HookReturned, MainReturned,
                  TimeCleanup, FailureTerminates, RetryOrGiveUp, FinishReturned,
                  RestartTerminated, RestartInit, Destroyed, Run, Restart, Destroy, Txn,
                  SapiPcs
        <3>a. s2Awaited' => s2' # "running"
            <4>1. CASE RetryOrGiveUp
                BY <4>1, SapiAssumption, Zenon DEF RetryOrGiveUp, Txn, GoneInv
            <4>2. CASE ~RetryOrGiveUp
                BY <2>3, <4>2, Zenon DEF GoneInv, TxnStep, RunInit, SetWallTimeLimit,
                      HookReturned, MainReturned, TimeCleanup, FinishReturned,
                      RestartTerminated, RestartInit, Destroyed, Run, Restart, Destroy,
                      SandboxInitOk, SandboxInitFails, AlreadyActive, StartSandboxee,
                      StartFails, NoForkServer, boxVars
            <4> QED BY <4>1, <4>2, Zenon
        <3>2. s2' # "running" => ~LibraryAlive'
            BY <2>3, Zenon DEF GoneInv, TxnStep, RunInit, SetWallTimeLimit, HookReturned,
                  MainReturned, TimeCleanup, RetryOrGiveUp, FinishReturned,
                  RestartTerminated, RestartInit, Destroyed, Run, Restart, Destroy,
                  SandboxInitOk, SandboxInitFails, AlreadyActive, StartSandboxee,
                  StartFails, NoForkServer, boxVars, LibraryAlive
        <3>3. PICK where \in SapiPcs \ {"terminated"} : MoveTo(MainThread, where)
            BY <3>1, Zenon
        <3>4. /\ sapiPc' \in [Threads -> SapiPcs] /\ sapiPc'[MainThread] = where
              /\ \A u \in Threads : u # MainThread => sapiPc'[u] = sapiPc[u]
            BY <2>m, <3>3, SapiAssumption, Zenon
        <3> QED BY <3>1, <3>a, <3>2, <3>3, <3>4, Zenon DEF GoneInv
    <2> QED BY <2>1, <2>2, <2>3, Zenon DEF SapiNext
<1>3. GoneInv => TerminatedIsGone
    BY Zenon DEF GoneInv, TerminatedIsGone
<1> QED BY <1>1, <1>2, <1>3, PTL DEF SapiSpec

-----------------------------------------------------------------------------
(***************************************************************************)
(* A variable and its memory.  While a call is on, until its result is     *)
(* synchronised, it is the remote structure that tells where the array is  *)
(* and how long.                                                           *)
(***************************************************************************)
At == IF varPc = "returned" THEN remoteStruct.data ELSE arrayAt
Cur == IF varPc = "returned" THEN remoteStruct ELSE structLocal
Pointers == Blocks \cup {Null}
Structs == [size : Lengths, data : Pointers]
Locals == [size : Lengths, data : Contents, owned : BOOLEAN]

VarsType ==
    /\ allocated \in SUBSET Blocks /\ heap \in [Blocks -> Nat] /\ content \in [Blocks -> Contents]
    /\ remoteStruct \in Structs /\ structLocal \in Structs /\ arrayLocal \in Locals
    /\ structAt \in Pointers /\ arrayAt \in Pointers
    /\ damage \in BOOLEAN /\ departures \in SUBSET Departures

\* What went wrong so far, in three degrees.
Seen == "unread" \notin departures
Harmless == departures \subseteq {"early"}
Kept == departures \subseteq {"resize", "empty"}

\* What the host knows of the array, and what a call in progress says of the copies.
LinkInv ==
    /\ varPc \in {"called", "returned"} =>
         structAt # Null /\ arrayAt # Null /\ remoteStruct.data # Null
    /\ varPc = "called" => remoteStruct = structLocal
    /\ arrayAt # Null => structLocal.data = arrayAt
    /\ varOk /\ structAt # Null => arrayAt # Null
    /\ "resize" \notin departures => structLocal.size = arrayLocal.size

\* Structure and array are blocks of their own, of the length the structure says.
SafeInv ==
    /\ structAt # Null => structAt \in allocated
    /\ At # Null => At \in allocated /\ At # structAt /\ heap[At] = Cur.size

\* Nothing else is allocated, and what is will be freed.
OwnInv ==
    /\ structAt = Null => arrayAt = Null
    /\ arrayAt # Null => arrayAuto
    /\ allocated \subseteq {structAt, At}

Linked == Seen => LinkInv
Safe == Harmless => ~damage /\ (varPc # "destroyed" => SafeInv)
Owned ==
    Kept => /\ varPc # "destroyed" => OwnInv
            /\ varPc = "destroyed" /\ structAuto => allocated = {}

VarsInv == VarsType /\ Linked /\ Safe /\ Owned

\* A null pointer is no block of the memory.
LEMMA NullIsNoBlock ==
    /\ Null \notin Blocks /\ Null \in Pointers /\ Blocks \subseteq Pointers
    /\ 0 \in Lengths /\ 0 \in Nat /\ StructLength \in Nat /\ Lengths \subseteq Nat
    /\ 0 \in Contents /\ 1 \in Contents
BY VarsAssumption DEF Null, Lengths, Pointers, StructLength, Contents

\* Every block keeps a value when one gets another, or loses its own when it is freed.
LEMMA PutFacts ==
    ASSUME NEW S, NEW f \in [Blocks -> S], NEW b \in Blocks, NEW v \in S
    PROVE  Put(f, b, v) \in [Blocks -> S]
BY Zenon DEF Put

LEMMA EraseFacts ==
    ASSUME NEW S, NEW f \in [Blocks -> S], NEW p \in Pointers, 0 \in S
    PROVE  Erase(f, p) \in [Blocks -> S]
BY Zenon DEF Erase, Pointers

\* What a step adds to the departures is one of them, and none is taken back.
LEMMA DepartureFacts ==
    /\ Unread \in SUBSET Departures /\ Early \in SUBSET Departures
    /\ \A n \in Lengths : Emptied(n) \in SUBSET Departures
    /\ VarsStep => departures \subseteq departures'
<1>1. /\ Unread \in SUBSET Departures /\ Early \in SUBSET Departures
      /\ \A n \in Lengths : Emptied(n) \in SUBSET Departures
    BY Zenon DEF Unread, Early, Emptied, Departures
<1>2. SynchronizePtrAfter => departures \subseteq departures'
    BY Zenon DEF SynchronizePtrAfter, NotSynchronized, TransferFromSandboxee
<1>3. \A n \in Lengths : ResizeData(n) => departures \subseteq departures'
    BY Zenon DEF ResizeData
<1>4. AllocateForCall \/ LibraryReads \/ LibraryWrites \/ LibraryReplaces \/ CallFails
      \/ FreeVar \/ VarDestroy => departures \subseteq departures'
    BY Zenon DEF AllocateForCall, LibraryReads, LibraryWrites, LibraryReplaces, CallFails,
                 FreeVar, VarDestroy
<1>5. /\ \A sync \in Syncs : SynchronizePtrBefore(sync) => departures \subseteq departures'
      /\ \A automatic \in BOOLEAN : AllocateVar(automatic) => departures \subseteq departures'
    BY Zenon DEF SynchronizePtrBefore, AllocateVar
<1> QED BY <1>1, <1>2, <1>3, <1>4, <1>5, Zenon DEF VarsStep

\* Allocating the structure, or structure and array.
LEMMA AllocateInv ==
    ASSUME VarsInv, varPc = "idle", structAt = Null, NEW automatic \in BOOLEAN,
           Allocate(automatic),
           UNCHANGED <<content, remoteStruct, syncType, varPc, damage, departures>>
    PROVE  VarsInv'
<1> USE NullIsNoBlock
<1>0. VarsType /\ Linked /\ Safe /\ Owned
    BY Zenon DEF VarsInv
<1>1. CASE UNCHANGED <<allocated, heap, structVars, arrayVars>> /\ varOk' = FALSE
    <2>1. VarsType' /\ Linked'
        BY <1>0, <1>1, ZenonT(30) DEF VarsType, Linked, Seen, LinkInv, structVars, arrayVars
    <2>2. Safe' /\ Owned'
        BY <1>0, <1>1, ZenonT(30) DEF Safe, Harmless, Owned, Kept, SafeInv, OwnInv, At, Cur,
           structVars, arrayVars
    <2> QED BY <2>1, <2>2, Zenon DEF VarsInv
<1>2. ASSUME NEW s \in Blocks \ allocated, structAt' = s,
             allocated' = allocated \cup {s}, heap' = Put(heap, s, StructLength),
             varOk' = FALSE, UNCHANGED <<structLocal, arrayVars>>
      PROVE  VarsInv'
    <2>1. /\ heap' \in [Blocks -> Nat]
          /\ \A b \in Blocks : heap'[b] = IF b = s THEN StructLength ELSE heap[b]
        <3>1. heap \in [Blocks -> Nat] /\ s \in Blocks
            BY <1>0, Zenon DEF VarsType
        <3>2. /\ Put(heap, s, StructLength) \in [Blocks -> Nat]
              /\ \A b \in Blocks : Put(heap, s, StructLength)[b] =
                                     IF b = s THEN StructLength ELSE heap[b]
            BY <3>1, Zenon DEF Put
        <3> QED BY <1>2, <3>2, Zenon
    <2>2. VarsType'
        BY <1>0, <1>2, <2>1, Zenon DEF VarsType, arrayVars
    <2>3. Linked'
        BY <1>0, <1>2, Zenon DEF Linked, Seen, LinkInv, arrayVars
    <2>4. At' = arrayAt /\ Cur' = structLocal /\ At = arrayAt /\ Cur = structLocal
        BY <1>2, Zenon DEF At, Cur, arrayVars
    <2>5. Safe'
        <3>1. Harmless => SafeInv' /\ ~damage'
            BY <1>0, <1>2, <2>1, <2>4, Zenon DEF Safe, SafeInv, VarsType
        <3> QED BY <3>1, Zenon DEF Safe, Harmless
    <2>6. Owned'
        <3>1. Kept => OwnInv'
            BY <1>0, <1>2, <2>4, Zenon DEF Owned, OwnInv, VarsType, arrayVars
        <3> QED BY <3>1, Zenon DEF Owned, Kept
    <2> QED BY <2>2, <2>3, <2>5, <2>6, Zenon DEF VarsInv
<1>3. ASSUME NEW s \in Blocks \ allocated, structAt' = s,
             NEW a \in Blocks \ (allocated \cup {s}), allocated' = allocated \cup {s, a},
             heap' = Put(Put(heap, s, StructLength), a, arrayLocal.size),
             arrayAt' = a, arrayAuto' = TRUE,
             structLocal' = [structLocal EXCEPT !.data = a],
             varOk' = TRUE, UNCHANGED arrayLocal
      PROVE  VarsInv'
    <2>1. /\ arrayLocal.size \in Nat /\ structLocal' \in Structs
          /\ structLocal'.data = a /\ structLocal'.size = structLocal.size
        BY <1>0, <1>3, Zenon DEF VarsType, Structs, Locals
    <2>2. heap' \in [Blocks -> Nat] /\ heap'[a] = arrayLocal.size
        <3> DEFINE h == Put(heap, s, StructLength)
        <3>1. h \in [Blocks -> Nat]
            BY <1>0, PutFacts, Zenon DEF VarsType
        <3> HIDE DEF h
        <3>2. a \in Blocks /\ Put(h, a, arrayLocal.size) \in [Blocks -> Nat]
            BY <2>1, <3>1, PutFacts, Zenon
        <3>3. Put(h, a, arrayLocal.size)[a] = arrayLocal.size
            BY <3>1, Zenon DEF Put
        <3> QED BY <1>3, <3>2, <3>3, Zenon DEF h
    <2>3. VarsType'
        BY <1>0, <1>3, <2>1, <2>2, Zenon DEF VarsType
    <2>4. Linked'
        BY <1>0, <1>3, <2>1, Zenon DEF Linked, Seen, LinkInv
    <2>5. At' = a /\ Cur' = structLocal' /\ At = arrayAt
        BY <1>3, Zenon DEF At, Cur
    <2>6. Safe'
        <3>1. Harmless => Seen /\ "resize" \notin departures
            BY Zenon DEF Harmless, Seen
        <3>2. Harmless => SafeInv' /\ ~damage'
            BY <1>0, <1>3, <2>1, <2>2, <2>5, <3>1, Zenon DEF Safe, SafeInv, Linked, LinkInv
        <3> QED BY <3>2, Zenon DEF Safe, Harmless
    <2>7. Owned'
        <3>1. Kept => OwnInv'
            BY <1>0, <1>3, <2>5, Zenon DEF Owned, OwnInv, VarsType
        <3> QED BY <3>1, Zenon DEF Owned, Kept
    <2> QED BY <2>3, <2>4, <2>6, <2>7, Zenon DEF VarsInv
<1> QED BY <1>1, <1>2, <1>3, Zenon DEF Allocate, ArrayAuto

\* Before the call.
LEMMA SynchronizePtrBeforeInv ==
    ASSUME VarsInv, NEW sync \in Syncs, SynchronizePtrBefore(sync)
    PROVE  VarsInv'
<1> USE NullIsNoBlock
<1>0. VarsType /\ Linked /\ Safe /\ Owned /\ varPc = "idle" /\ structAt # Null
    BY Zenon DEF VarsInv, SynchronizePtrBefore
<1>1. UNCHANGED <<allocated, heap, structVars, arrayVars, departures>>
    BY Zenon DEF SynchronizePtrBefore
<1>2. Harmless => /\ Seen /\ "resize" \notin departures /\ "empty" \notin departures
                  /\ LinkInv /\ SafeInv /\ ~damage /\ At = arrayAt /\ Cur = structLocal
    BY <1>0, Zenon DEF Harmless, Seen, Linked, Safe, At, Cur
<1>3. Harmless => WriteIsSound
    <2>1. Harmless /\ arrayAt # Null => arrayLocal.size = heap[arrayAt] /\ heap[arrayAt] \in Nat
        BY <1>0, <1>2, Zenon DEF LinkInv, SafeInv, VarsType
    <2>2. Harmless /\ arrayAt # Null => arrayLocal.size <= heap[arrayAt]
        BY <2>1
    <2> QED BY <1>0, <1>2, <2>2, Zenon DEF WriteIsSound, Live, SafeInv
<1>4. /\ varPc' \in {"idle", "called"} /\ damage' \in BOOLEAN /\ (Harmless => ~damage')
      /\ remoteStruct' \in Structs /\ content' \in [Blocks -> Contents]
      /\ Seen /\ varPc' = "called" => arrayAt # Null /\ remoteStruct' = structLocal
      /\ Seen /\ varOk' => arrayAt # Null
    <2>1. CASE sync \in {"before", "both"} /\ arrayAt = Null
        <3>1. /\ remoteStruct' = structLocal /\ varOk' = FALSE /\ varPc' = "idle"
              /\ damage' = (damage \/ ~WriteIsSound) /\ UNCHANGED content
            BY <2>1, Zenon DEF SynchronizePtrBefore, TransferToSandboxee
        <3> QED BY <1>0, <1>2, <1>3, <3>1, Zenon DEF VarsType
    <2>2. CASE sync \in {"before", "both"} /\ arrayAt # Null
        <3>1. /\ remoteStruct' = structLocal /\ varOk' = TRUE /\ varPc' = "called"
              /\ damage' = (damage \/ ~WriteIsSound)
              /\ content' = Put(content, arrayAt, arrayLocal.data)
            BY <2>2, Zenon DEF SynchronizePtrBefore, TransferToSandboxee
        <3>2. content' \in [Blocks -> Contents]
            BY <1>0, <2>2, <3>1, PutFacts, Zenon DEF VarsType, Pointers, Locals
        <3> QED BY <1>0, <1>2, <1>3, <2>2, <3>1, <3>2, Zenon DEF VarsType
    <2>3. CASE sync \notin {"before", "both"}
        <3>1. /\ varPc' = "called" /\ UNCHANGED <<remoteStruct, content, varOk, damage>>
              /\ varOk /\ (Seen => remoteStruct = structLocal)
            BY <2>3, Zenon DEF SynchronizePtrBefore, CallerContract, Seen
        <3> QED BY <1>0, <1>2, <3>1, Zenon DEF Linked, LinkInv, VarsType
    <2> QED BY <2>1, <2>2, <2>3, Zenon
<1>5. VarsType'
    BY <1>0, <1>1, <1>4, Zenon DEF VarsType, structVars, arrayVars
<1>6. Linked'
    BY <1>0, <1>1, <1>4, Zenon DEF Linked, Seen, LinkInv, structVars, arrayVars
<1>7. At' = arrayAt /\ Cur' = structLocal /\ At = arrayAt
    BY <1>0, <1>1, <1>4, Zenon DEF At, Cur, structVars, arrayVars
<1>8. Safe'
    <2>1. Harmless => SafeInv'
        BY <1>1, <1>2, <1>7, Zenon DEF SafeInv, structVars
    <2> QED BY <1>1, <1>4, <2>1, Zenon DEF Safe, Harmless
<1>9. Owned'
    BY <1>0, <1>1, <1>4, <1>7, Zenon DEF Owned, Kept, OwnInv, structVars, arrayVars
<1> QED BY <1>5, <1>6, <1>8, <1>9, Zenon DEF VarsInv

\* The library function reads, writes in place or replaces the array.
LEMMA LibraryInv ==
    ASSUME VarsInv, LibraryReads \/ LibraryWrites \/ LibraryReplaces
    PROVE  VarsInv'
<1> USE NullIsNoBlock
<1>0. VarsType /\ Linked /\ Safe /\ Owned /\ varPc = "called" /\ At = arrayAt
    BY Zenon DEF VarsInv, At, LibraryReads, LibraryWrites, LibraryReplaces
<1>1. /\ varPc' = "returned" /\ UNCHANGED <<structVars, arrayVars, varOk, departures>>
      /\ damage' = (damage \/ ~ArgumentIsSound)
    BY Zenon DEF LibraryReads, LibraryWrites, LibraryReplaces
<1>2. Seen => /\ LinkInv /\ structAt # Null /\ arrayAt # Null /\ remoteStruct = structLocal
              /\ structLocal.data = arrayAt
    BY <1>0, Zenon DEF Linked, LinkInv
<1>3. /\ Harmless => Seen /\ SafeInv /\ ~damage /\ Cur = structLocal
      /\ Kept => Seen /\ OwnInv
    BY <1>0, Zenon DEF Harmless, Kept, Seen, Safe, Owned, Cur
<1>4. damage' \in BOOLEAN /\ (Harmless => ~damage')
    <2>1. Harmless => /\ remoteStruct.data = arrayAt /\ Live(arrayAt)
                      /\ remoteStruct.size = heap[arrayAt] /\ heap[arrayAt] \in Nat
        BY <1>0, <1>2, <1>3, Zenon DEF SafeInv, Live, VarsType
    <2>2. Harmless => remoteStruct.size <= heap[remoteStruct.data]
        BY <2>1
    <2>3. Harmless => ArgumentIsSound
        BY <2>1, <2>2, Zenon DEF ArgumentIsSound
    <2> QED BY <1>0, <1>1, <1>3, <2>3, Zenon DEF VarsType
<1>5. CASE LibraryReads \/ LibraryWrites
    <2>1. UNCHANGED <<allocated, heap, remoteStruct>>
        BY <1>5, Zenon DEF LibraryReads, LibraryWrites, remoteVars
    <2>2. content' \in [Blocks -> Contents]
        <3>1. CASE LibraryReads
            BY <1>0, <3>1, Zenon DEF LibraryReads, remoteVars, VarsType
        <3>2. CASE LibraryWrites
            <4>1. /\ content' = [content EXCEPT ![remoteStruct.data] = 1 - @]
                  /\ remoteStruct.data \in Blocks
                BY <1>0, <3>2, Zenon DEF LibraryWrites, Live, VarsType
            <4>2. /\ content[remoteStruct.data] \in {0, 1}
                  /\ \A c \in {0, 1} : 1 - c \in {0, 1}
                BY <1>0, <4>1 DEF VarsType, Contents
            <4> QED BY <1>0, <4>1, <4>2, Zenon DEF VarsType, Contents
        <3> QED BY <1>5, <3>1, <3>2, Zenon
    <2>3. VarsType'
        BY <1>0, <1>1, <1>4, <2>1, <2>2, Zenon DEF VarsType, structVars, arrayVars
    <2>4. Linked'
        <3>1. Seen => LinkInv'
            BY <1>1, <1>2, <2>1, Zenon DEF LinkInv, structVars, arrayVars
        <3> QED BY <1>1, <3>1, Zenon DEF Linked, Seen
    <2>5. At' = remoteStruct.data /\ Cur' = remoteStruct
        BY <1>1, <2>1, Zenon DEF At, Cur
    <2>6. Safe'
        <3>1. Harmless => SafeInv'
            BY <1>0, <1>1, <1>2, <1>3, <2>1, <2>5, Zenon DEF SafeInv, structVars
        <3> QED BY <1>1, <1>4, <3>1, Zenon DEF Safe, Harmless
    <2>7. Owned'
        <3>1. Kept => OwnInv'
            BY <1>0, <1>1, <1>2, <1>3, <2>1, <2>5, Zenon DEF OwnInv, structVars, arrayVars
        <3> QED BY <1>1, <3>1, Zenon DEF Owned, Kept
    <2> QED BY <2>3, <2>4, <2>6, <2>7, Zenon DEF VarsInv
<1>6. CASE LibraryReplaces
    <2>1. PICK a \in (Blocks \ allocated) \cup {remoteStruct.data}, n \in Lengths :
            /\ allocated' = (allocated \ {remoteStruct.data}) \cup {a}
            /\ heap' = Put(Erase(heap, remoteStruct.data), a, n)
            /\ remoteStruct' = [size |-> n, data |-> a]
            /\ \E c \in Contents : content' = Put(Erase(content, remoteStruct.data), a, c)
        BY <1>6, Zenon DEF LibraryReplaces
    <2>2. /\ remoteStruct.data \in allocated /\ remoteStruct.data \in Blocks
          /\ a \in Blocks /\ a # Null /\ n \in Nat
        BY <1>0, <1>6, Zenon DEF LibraryReplaces, Live, VarsType
    <2>3. heap' \in [Blocks -> Nat] /\ heap'[a] = n
        <3> DEFINE h == Erase(heap, remoteStruct.data)
        <3>1. h \in [Blocks -> Nat]
            BY <1>0, <2>2, EraseFacts, Zenon DEF VarsType
        <3> HIDE DEF h
        <3>2. Put(h, a, n) \in [Blocks -> Nat] /\ Put(h, a, n)[a] = n
            BY <2>2, <3>1, Zenon DEF Put
        <3> QED BY <2>1, <3>2, Zenon DEF h
    <2>4. content' \in [Blocks -> Contents]
        <3> DEFINE h == Erase(content, remoteStruct.data)
        <3>1. h \in [Blocks -> Contents]
            BY <1>0, <2>2, EraseFacts, Zenon DEF VarsType
        <3> HIDE DEF h
        <3>2. \A c \in Contents : Put(h, a, c) \in [Blocks -> Contents]
            BY <2>2, <3>1, Zenon DEF Put
        <3> QED BY <2>1, <3>2, Zenon DEF h
    <2>5. /\ remoteStruct'.size = n /\ remoteStruct'.data = a /\ remoteStruct' \in Structs
          /\ allocated' \in SUBSET Blocks
        BY <1>0, <2>1, <2>2, ZenonT(30) DEF Structs, VarsType
    <2>6. VarsType'
        BY <1>0, <1>1, <1>4, <2>3, <2>4, <2>5, Zenon DEF VarsType, structVars, arrayVars
    <2>7. Linked'
        <3>1. Seen => LinkInv'
            BY <1>1, <1>2, <2>2, <2>5, Zenon DEF LinkInv, structVars, arrayVars
        <3> QED BY <1>1, <3>1, Zenon DEF Linked, Seen
    <2>8. At' = a /\ Cur' = remoteStruct'
        BY <1>1, <2>5, Zenon DEF At, Cur
    <2>9. Safe'
        <3>1. Harmless => structAt \in allocated /\ structAt # remoteStruct.data
            BY <1>0, <1>2, <1>3, Zenon DEF SafeInv
        <3>2. Harmless => structAt \in allocated' /\ structAt # a
            BY <2>1, <3>1, Zenon
        <3>3. Harmless => SafeInv'
            BY <1>1, <2>1, <2>3, <2>5, <2>8, <3>2, Zenon DEF SafeInv, structVars
        <3> QED BY <1>1, <1>4, <3>3, Zenon DEF Safe, Harmless
    <2>10. Owned'
        <3>1. Kept => OwnInv'
            BY <1>0, <1>1, <1>2, <1>3, <2>1, <2>8, Zenon DEF OwnInv, structVars, arrayVars
        <3> QED BY <1>1, <3>1, Zenon DEF Owned, Kept
    <2> QED BY <2>6, <2>7, <2>9, <2>10, Zenon DEF VarsInv
<1> QED BY <1>5, <1>6, Zenon

\* The call ends early.
LEMMA CallFailsInv ==
    ASSUME VarsInv, CallFails
    PROVE  VarsInv'
<1>0. VarsType /\ Linked /\ Safe /\ Owned /\ varPc = "called" /\ At = arrayAt /\ Cur = structLocal
    BY Zenon DEF VarsInv, At, Cur, CallFails
<1>1. /\ varPc' = "idle" /\ varOk' = FALSE
      /\ UNCHANGED <<remoteVars, structVars, arrayVars, damage, departures>>
    BY Zenon DEF CallFails
<1>2. At' = At /\ Cur' = Cur
    BY <1>0, <1>1, Zenon DEF At, Cur, structVars, arrayVars
<1>3. VarsType' /\ Linked'
    BY <1>0, <1>1, ZenonT(30) DEF VarsType, Linked, Seen, LinkInv, remoteVars, structVars, arrayVars
<1>4. Safe' /\ Owned'
    BY <1>0, <1>1, <1>2, ZenonT(30)
       DEF Safe, Harmless, SafeInv, Owned, Kept, OwnInv, remoteVars, structVars, arrayVars
<1> QED BY <1>3, <1>4, Zenon DEF VarsInv

\* After the call: the host takes over where the array is and how long, or loses
\* sight of it.
LEMMA SynchronizePtrAfterInv ==
    ASSUME VarsInv, SynchronizePtrAfter
    PROVE  VarsInv'
<1> USE NullIsNoBlock
<1>0. /\ VarsType /\ Linked /\ Safe /\ Owned /\ varPc = "returned"
      /\ At = remoteStruct.data /\ Cur = remoteStruct
    BY Zenon DEF VarsInv, At, Cur, SynchronizePtrAfter
<1>1. /\ varPc' = "idle" /\ UNCHANGED <<remoteVars, structAt, structAuto, arrayAuto>>
      /\ departures \subseteq departures'
    BY DepartureFacts, Zenon DEF SynchronizePtrAfter, VarsStep
<1>2. /\ Seen' => /\ Seen /\ LinkInv /\ structAt # Null /\ arrayAt # Null
                  /\ remoteStruct.data # Null /\ structLocal.data = arrayAt
      /\ Harmless' => Seen' /\ Harmless /\ SafeInv /\ ~damage
      /\ Kept' => Seen' /\ Kept /\ OwnInv
    BY <1>0, <1>1, ZenonT(30) DEF Harmless, Kept, Seen, Safe, Owned, Linked, LinkInv
<1>3. CASE /\ structLocal' \in {structLocal, remoteStruct} /\ UNCHANGED <<arrayAt, arrayLocal>>
           /\ varOk' = FALSE \/ UNCHANGED varOk
           /\ Seen' => remoteStruct = structLocal
           /\ damage' \in BOOLEAN /\ (Harmless' => ~damage')
           /\ departures' \in SUBSET Departures
    <2>1. VarsType'
        BY <1>0, <1>1, <1>3, Zenon DEF VarsType, remoteVars
    <2>2. Seen' => UNCHANGED structLocal
        BY <1>3, Zenon
    <2>3. Linked'
        <3>1. "resize" \notin departures' => "resize" \notin departures
            BY <1>1, Zenon
        <3> QED BY <1>1, <1>2, <1>3, <2>2, <3>1, Zenon DEF Linked, LinkInv
    <2>4. Seen' => At' = At /\ Cur' = Cur
        BY <1>0, <1>1, <1>2, <1>3, Zenon DEF At, Cur
    <2>5. Safe'
        <3>1. Harmless' => SafeInv'
            BY <1>1, <1>2, <2>4, ZenonT(30) DEF SafeInv, remoteVars
        <3> QED BY <1>3, <3>1, Zenon DEF Safe
    <2>6. Owned'
        <3>1. Kept' => OwnInv'
            BY <1>1, <1>2, <1>3, <2>4, Zenon DEF OwnInv, remoteVars
        <3> QED BY <1>1, <3>1, Zenon DEF Owned
    <2> QED BY <2>1, <2>3, <2>5, <2>6, Zenon DEF VarsInv
<1>4. CASE /\ structLocal' = remoteStruct /\ arrayAt' = remoteStruct.data
           /\ arrayLocal' = [size |-> remoteStruct.size, owned |-> TRUE,
                             data |-> IF Live(arrayAt') THEN content[arrayAt']
                                                        ELSE arrayLocal.data]
           /\ damage' = (damage \/ BufferIsGone) /\ UNCHANGED departures
    <2>1. arrayLocal' \in Locals /\ arrayLocal'.size = remoteStruct.size
        <3>1. (IF Live(arrayAt') THEN content[arrayAt'] ELSE arrayLocal.data) \in Contents
            BY <1>0, Zenon DEF VarsType, Live, Locals
        <3>2. remoteStruct.size \in Lengths
            BY <1>0, Zenon DEF VarsType, Structs
        <3> QED BY <1>4, <3>1, <3>2, Zenon DEF Locals
    <2>2. remoteStruct.data \in Pointers /\ damage' \in BOOLEAN
        BY <1>0, <1>4, Zenon DEF VarsType, Structs
    <2>3. VarsType'
        BY <1>0, <1>1, <1>4, <2>1, <2>2, Zenon DEF VarsType, remoteVars
    <2>4. Linked'
        BY <1>1, <1>2, <1>4, <2>1, Zenon DEF Linked, LinkInv
    <2>5. At' = At /\ Cur' = Cur
        BY <1>0, <1>1, <1>4, Zenon DEF At, Cur
    <2>6. Safe'
        <3>1. Harmless' => ~BufferIsGone
            BY <1>2, Zenon DEF Harmless, BufferIsGone
        <3>2. Harmless' => SafeInv'
            BY <1>1, <1>2, <2>5, ZenonT(30) DEF SafeInv, remoteVars
        <3> QED BY <1>2, <1>4, <3>1, <3>2, Zenon DEF Safe
    <2>7. Owned'
        <3>1. Kept' => OwnInv'
            BY <1>1, <1>2, <1>4, <2>5, Zenon DEF OwnInv, remoteVars
        <3> QED BY <1>1, <3>1, Zenon DEF Owned
    <2> QED BY <2>3, <2>4, <2>6, <2>7, Zenon DEF VarsInv
<1>5. CASE NotSynchronized
    <2>1. /\ UNCHANGED <<structLocal, arrayAt, arrayLocal, damage>>
          /\ varOk' = FALSE \/ UNCHANGED varOk
          /\ departures' = departures \cup Unread
        BY <1>5, Zenon DEF NotSynchronized
    <2>2. Seen' => remoteStruct = structLocal
        BY <2>1, Zenon DEF Seen, Unread
    <2>3. damage' \in BOOLEAN /\ departures' \in SUBSET Departures
        BY <1>0, <2>1, DepartureFacts, Zenon DEF VarsType
    <2> QED BY <1>2, <1>3, <2>1, <2>2, <2>3, Zenon
<1>6. CASE TransferFromSandboxee(LengthAfter(remoteStruct))
    <2>0. LengthAfter(remoteStruct) = remoteStruct.size /\ remoteStruct.size \in Lengths
        BY <1>0, Zenon DEF LengthAfter, VarsType, Structs
    <2>1. CASE /\ structLocal' = remoteStruct /\ damage' = (damage \/ BufferIsGone)
               /\ varOk' = FALSE /\ UNCHANGED <<arrayAt, arrayLocal>>
               /\ departures' = departures \cup Unread \cup Emptied(remoteStruct.size)
        <3>1. Seen' => remoteStruct = structLocal
            BY <2>1, Zenon DEF Seen, Unread
        <3>2. damage' \in BOOLEAN /\ departures' \in SUBSET Departures
            BY <1>0, <2>0, <2>1, DepartureFacts, Zenon DEF VarsType
        <3>3. Harmless' => ~BufferIsGone
            BY <1>2, Zenon DEF Harmless, BufferIsGone
        <3> QED BY <1>2, <1>3, <2>1, <3>1, <3>2, <3>3, Zenon
    <2> QED BY <1>4, <1>6, <2>0, <2>1, Zenon DEF TransferFromSandboxee, AddressAfter
<1> QED BY <1>5, <1>6, Zenon DEF SynchronizePtrAfter

\* The local buffer, then realloc() in the sandboxee.
LEMMA ResizeDataInv ==
    ASSUME VarsInv, NEW n \in Lengths, ResizeData(n)
    PROVE  VarsInv'
<1> USE NullIsNoBlock
<1>0. /\ VarsType /\ Linked /\ Safe /\ Owned /\ varPc = "idle"
      /\ At = arrayAt /\ Cur = structLocal
    BY Zenon DEF VarsInv, At, Cur, ResizeData
<1>1. /\ UNCHANGED <<remoteStruct, structAt, structAuto, arrayAuto, varPc>>
      /\ departures \subseteq departures'
    BY DepartureFacts, Zenon DEF ResizeData, VarsStep
<1>2. /\ Seen' => Seen /\ LinkInv
      /\ Harmless' => /\ Seen' /\ Harmless /\ SafeInv /\ ~damage /\ ~BufferIsGone
                      /\ FreeIsSound(allocated, arrayAt)
      /\ Kept' => Seen' /\ Kept /\ OwnInv
    BY <1>0, <1>1, ZenonT(30)
       DEF Harmless, Kept, Seen, Safe, Owned, Linked, BufferIsGone, FreeIsSound, SafeInv
<1>3. CASE /\ departures' = departures \cup Emptied(n) /\ damage' = (damage \/ BufferIsGone)
           /\ varOk' = FALSE
           /\ UNCHANGED <<allocated, heap, content, structLocal, arrayAt, arrayLocal>>
    <2>1. departures' \in SUBSET Departures
        BY <1>0, <1>3, DepartureFacts, Zenon DEF VarsType
    <2>2. VarsType'
        BY <1>0, <1>1, <1>3, <2>1, Zenon DEF VarsType
    <2>3. At' = At /\ Cur' = Cur
        BY <1>1, <1>3, Zenon DEF At, Cur
    <2>4. Linked'
        <3>1. "resize" \notin departures' => "resize" \notin departures
            BY <1>1, Zenon
        <3> QED BY <1>1, <1>2, <1>3, <3>1, ZenonT(30) DEF Linked, LinkInv
    <2>5. Safe'
        <3>1. Harmless' => SafeInv'
            BY <1>1, <1>2, <1>3, <2>3, Zenon DEF SafeInv
        <3> QED BY <1>2, <1>3, <3>1, Zenon DEF Safe
    <2>6. Owned'
        <3>1. Kept' => OwnInv'
            BY <1>1, <1>2, <1>3, <2>3, Zenon DEF OwnInv
        <3> QED BY <1>0, <1>1, <3>1, Zenon DEF Owned
    <2> QED BY <2>2, <2>4, <2>5, <2>6, Zenon DEF VarsInv
<1>a. arrayLocal' = [arrayLocal EXCEPT !.size = n, !.owned = TRUE]
        => arrayLocal' \in Locals /\ arrayLocal'.size = n
    BY <1>0, Zenon DEF VarsType, Locals
<1>b. /\ Erase(heap, arrayAt) \in [Blocks -> Nat]
      /\ Erase(content, arrayAt) \in [Blocks -> Contents]
    BY <1>0, EraseFacts, Zenon DEF VarsType
<1>4. CASE /\ NoBlockGiven(n) /\ varOk' = FALSE
           /\ arrayLocal' = [arrayLocal EXCEPT !.size = n, !.owned = TRUE]
           /\ damage' = (damage \/ (BufferIsGone /\ ~BufferFits(n))
                                \/ ~FreeIsSound(allocated, arrayAt))
           /\ departures' = departures \cup {"resize"} \cup Early
           /\ UNCHANGED <<structLocal, arrayAt>>
    <2>1. /\ allocated' \in SUBSET Blocks /\ allocated' \subseteq allocated
          /\ heap' \in [Blocks -> Nat] /\ content' \in [Blocks -> Contents]
        BY <1>0, <1>4, <1>b, Zenon DEF NoBlockGiven, VarsType
    <2>2. departures' \in SUBSET Departures /\ "resize" \in departures'
        BY <1>0, <1>4, DepartureFacts, Zenon DEF VarsType, Departures
    <2>3. VarsType'
        BY <1>0, <1>1, <1>4, <1>a, <2>1, <2>2, Zenon DEF VarsType
    <2>4. At' = At
        BY <1>1, <1>4, Zenon DEF At
    <2>5. Linked'
        BY <1>0, <1>1, <1>2, <1>4, <2>2, Zenon DEF Linked, LinkInv
    <2>6. Safe'
        BY <2>2, Zenon DEF Safe, Harmless
    <2>7. Owned'
        <3>1. Kept' => OwnInv'
            BY <1>1, <1>2, <1>4, <2>1, <2>4, Zenon DEF OwnInv
        <3> QED BY <1>0, <1>1, <3>1, Zenon DEF Owned
    <2> QED BY <2>3, <2>5, <2>6, <2>7, Zenon DEF VarsInv
<1>5. ASSUME NEW a \in (Blocks \ allocated) \cup ({arrayAt} \ {Null}),
             BlockGiven(n, a), arrayAt' = a, structLocal' = [size |-> n, data |-> a],
             arrayLocal' = [arrayLocal EXCEPT !.size = n, !.owned = TRUE],
             damage' = (damage \/ (BufferIsGone /\ ~BufferFits(n))
                               \/ ~FreeIsSound(allocated, arrayAt)),
             varOk' = TRUE, departures' = departures \cup Early
      PROVE  VarsInv'
    <2>1. a \in Blocks /\ a # Null /\ n \in Nat
        BY <1>0, Zenon DEF VarsType, Pointers
    <2>2. allocated' = (allocated \ {arrayAt}) \cup {a} /\ allocated' \in SUBSET Blocks
        BY <1>0, <1>5, <2>1, Zenon DEF BlockGiven, VarsType
    <2>3. heap' \in [Blocks -> Nat] /\ heap'[a] = n
        <3> DEFINE h == Erase(heap, arrayAt)
        <3>1. h \in [Blocks -> Nat]
            BY <1>b, Zenon
        <3> HIDE DEF h
        <3>2. Put(h, a, n) \in [Blocks -> Nat] /\ Put(h, a, n)[a] = n
            BY <2>1, <3>1, Zenon DEF Put
        <3> QED BY <1>5, <3>2, Zenon DEF h, BlockGiven
    <2>4. content' \in [Blocks -> Contents]
        <3> DEFINE h == Erase(content, arrayAt)
                   c == IF arrayAt = Null THEN content[a] ELSE content[arrayAt]
        <3>1. h \in [Blocks -> Contents] /\ c \in Contents
            BY <1>0, <1>b, <2>1, Zenon DEF VarsType, Pointers
        <3>2. content' = Put(h, a, c)
            BY <1>5, Zenon DEF BlockGiven
        <3> HIDE DEF h, c
        <3>3. Put(h, a, c) \in [Blocks -> Contents]
            BY <2>1, <3>1, Zenon DEF Put
        <3> QED BY <3>2, <3>3, Zenon
    <2>5. structLocal' \in Structs /\ structLocal'.size = n /\ structLocal'.data = a
        BY <1>5, <2>1, Zenon DEF Structs
    <2>6. departures' \in SUBSET Departures /\ damage' \in BOOLEAN
        BY <1>0, <1>5, DepartureFacts, Zenon DEF VarsType
    <2>7. VarsType'
        BY <1>0, <1>1, <1>5, <1>a, <2>1, <2>2, <2>3, <2>4, <2>5, <2>6, Zenon DEF VarsType
    <2>8. Linked'
        BY <1>0, <1>1, <1>5, <1>a, <2>1, <2>5, Zenon DEF Linked, LinkInv
    <2>9. At' = a /\ Cur' = structLocal'
        BY <1>0, <1>1, <1>5, Zenon DEF At, Cur
    <2>10. Safe'
        <3>1. Harmless' /\ structAt # Null => structAt # a /\ structAt \in allocated'
            <4>1. Harmless' /\ structAt # Null => structAt \in allocated /\ structAt # arrayAt
                BY <1>0, <1>2, Zenon DEF SafeInv
            <4> QED BY <2>2, <4>1, Zenon
        <3>2. Harmless' => SafeInv'
            BY <1>1, <2>1, <2>2, <2>3, <2>5, <2>9, <3>1, Zenon DEF SafeInv
        <3> QED BY <1>2, <1>5, <3>2, Zenon DEF Safe
    <2>11. Owned'
        <3>1. Kept' => arrayAt # Null
            BY <1>5, Zenon DEF Kept, Early
        <3>2. Kept' => OwnInv'
            BY <1>0, <1>1, <1>2, <2>2, <2>9, <3>1, ZenonT(30) DEF OwnInv
        <3> QED BY <1>0, <1>1, <3>2, Zenon DEF Owned
    <2> QED BY <2>7, <2>8, <2>10, <2>11, Zenon DEF VarsInv
<1> QED BY <1>3, <1>4, <1>5, Zenon DEF ResizeData

\* free() of the array, then of the structure.
LEMMA FreeVarInv ==
    ASSUME VarsInv, FreeVar
    PROVE  VarsInv'
<1> USE NullIsNoBlock
<1>0. VarsType /\ Linked /\ Safe /\ Owned /\ varPc = "idle" /\ At = arrayAt
    BY Zenon DEF VarsInv, At, FreeVar
<1>1. /\ allocated' = allocated \ {arrayAt, structAt}
      /\ heap' = Erase(Erase(heap, arrayAt), structAt) /\ content' = Erase(content, arrayAt)
      /\ damage' = (damage \/ ~FreeIsSound(allocated, arrayAt)
                           \/ ~FreeIsSound(allocated \ {arrayAt}, structAt))
      /\ arrayAt' = Null /\ structAt' = Null /\ remoteStruct' = [size |-> 0, data |-> Null]
      /\ UNCHANGED <<structLocal, arrayLocal, varPc, departures>>
    BY Zenon DEF FreeVar
<1>2. VarsType'
    <2>1. Erase(heap, arrayAt) \in [Blocks -> Nat] /\ content' \in [Blocks -> Contents]
        BY <1>0, <1>1, EraseFacts, Zenon DEF VarsType
    <2>2. heap' \in [Blocks -> Nat]
        BY <1>0, <1>1, <2>1, EraseFacts, Zenon DEF VarsType
    <2>3. remoteStruct' \in Structs
        BY <1>1, Zenon DEF Structs
    <2> QED BY <1>0, <1>1, <2>1, <2>2, <2>3, Zenon DEF VarsType
<1>3. Linked'
    BY <1>0, <1>1, Zenon DEF Linked, Seen, LinkInv
<1>4. At' = Null
    BY <1>0, <1>1, Zenon DEF At
<1>5. Safe'
    <2>1. Harmless => ~damage'
        BY <1>0, <1>1, Zenon DEF Safe, SafeInv, FreeIsSound
    <2> QED BY <1>1, <1>4, <2>1, Zenon DEF Safe, Harmless, SafeInv
<1>6. Owned'
    <2>1. Kept => allocated' = {}
        BY <1>0, <1>1, Zenon DEF Owned, OwnInv
    <2> QED BY <1>0, <1>1, <2>1, Zenon DEF Owned, Kept, OwnInv
<1> QED BY <1>2, <1>3, <1>5, <1>6, Zenon DEF VarsInv

\* The destructors of the structure and of the array.
LEMMA VarDestroyInv ==
    ASSUME VarsInv, VarDestroy
    PROVE  VarsInv'
<1> USE NullIsNoBlock
<1> DEFINE array == IF arrayAuto THEN arrayAt ELSE Null
           struct == IF structAuto THEN structAt ELSE Null
<1>0. VarsType /\ Linked /\ Safe /\ Owned /\ varPc = "idle" /\ At = arrayAt
    BY Zenon DEF VarsInv, At, VarDestroy
<1>1. /\ varPc' = "destroyed" /\ allocated' = allocated \ {array, struct}
      /\ heap' = Erase(Erase(heap, struct), array)
      /\ damage' = (damage \/ ~FreeIsSound(allocated, struct)
                           \/ ~FreeIsSound(allocated \ {struct}, array) \/ BufferIsGone)
      /\ UNCHANGED <<content, remoteStruct, structVars, arrayVars, varOk, departures>>
    BY Zenon DEF VarDestroy
<1>2. struct \in Pointers /\ array \in Pointers
    BY <1>0, Zenon DEF VarsType
<1>3. Harmless => /\ ~damage /\ ~BufferIsGone
                  /\ struct = Null \/ (struct \in allocated /\ struct = structAt)
                  /\ array = Null \/ (array \in allocated /\ array # structAt)
    BY <1>0, Zenon DEF Safe, SafeInv, Harmless, BufferIsGone
<1>4. Kept /\ structAuto => allocated \subseteq {struct, array}
    BY <1>0, Zenon DEF Owned, OwnInv, VarsType
<1> HIDE DEF array, struct
<1>5. VarsType'
    <2>1. Erase(heap, struct) \in [Blocks -> Nat]
        BY <1>0, <1>2, EraseFacts, Zenon DEF VarsType
    <2>2. heap' \in [Blocks -> Nat]
        BY <1>1, <1>2, <2>1, EraseFacts, Zenon
    <2> QED BY <1>0, <1>1, <2>2, Zenon DEF VarsType, structVars, arrayVars
<1>6. Linked'
    BY <1>0, <1>1, Zenon DEF Linked, Seen, LinkInv, structVars, arrayVars
<1>7. Safe'
    <2>1. Harmless => ~damage'
        BY <1>1, <1>3, Zenon DEF FreeIsSound
    <2> QED BY <1>1, <2>1, Zenon DEF Safe, Harmless
<1>8. Owned'
    <2>1. Kept /\ structAuto => allocated' = {}
        BY <1>1, <1>4, Zenon
    <2> QED BY <1>1, <2>1, Zenon DEF Owned, Kept, structVars
<1> QED BY <1>5, <1>6, <1>7, <1>8, Zenon DEF VarsInv

\* For any memory, any lengths and any sequence of calls, whatever the library does
\* with the array and whichever operation fails: as long as the host does not lose
\* sight of the array and no resizing fails half way, it frees, reallocates and
\* writes only live blocks of the variable; it leaves none behind; and a call that
\* succeeds reads back what the library left.
THEOREM RemoteMemory == VarsSpec => RemoteMemoryIsSound
<1>1. VarsInit => VarsInv
    <2> SUFFICES ASSUME VarsInit PROVE VarsInv
        OBVIOUS
    <2> USE NullIsNoBlock
    <2>0. PICK n \in Lengths, owned \in BOOLEAN :
            /\ structLocal = [size |-> n, data |-> Null]
            /\ arrayLocal = [size |-> n, data |-> 1, owned |-> owned]
        BY Zenon DEF VarsInit
    <2>1. /\ remoteStruct = [size |-> 0, data |-> Null] /\ allocated = {} /\ departures = {}
          /\ structAt = Null /\ arrayAt = Null /\ varPc = "idle" /\ damage = FALSE
        BY Zenon DEF VarsInit
    <2>2. VarsType
        <3>1. heap \in [Blocks -> Nat] /\ content \in [Blocks -> Contents]
            BY Zenon DEF VarsInit
        <3>2. remoteStruct \in Structs /\ structLocal \in Structs /\ arrayLocal \in Locals
            BY <2>0, <2>1, Zenon DEF Structs, Locals
        <3> QED BY <2>1, <3>1, <3>2, Zenon DEF VarsType
    <2>3. Linked
        <3>1. structLocal.size = arrayLocal.size
            BY <2>0, Zenon
        <3> QED BY <2>1, <3>1, Zenon DEF Linked, LinkInv
    <2>4. At = Null
        BY <2>1, Zenon DEF At
    <2>5. Safe /\ Owned
        BY <2>1, <2>4, Zenon DEF Safe, SafeInv, Owned, OwnInv
    <2> QED BY <2>2, <2>3, <2>5, Zenon DEF VarsInv
<1>2. VarsInv /\ [VarsNext]_varVars => VarsInv'
    <2> SUFFICES ASSUME VarsInv, [VarsNext]_varVars PROVE VarsInv'
        OBVIOUS
    <2>1. CASE UNCHANGED varVars
        <3>1. /\ UNCHANGED <<allocated, heap, content, remoteStruct, structAt, structAuto>>
              /\ UNCHANGED <<structLocal, arrayAt, arrayAuto, arrayLocal, varPc, varOk>>
              /\ UNCHANGED <<damage, departures>>
            BY <2>1, Zenon DEF varVars, remoteVars, structVars, arrayVars
        <3>2. VarsType' = VarsType /\ Linked' = Linked
            BY <3>1, Zenon DEF VarsType, Linked, Seen, LinkInv
        <3>3. At' = At /\ Cur' = Cur
            BY <3>1, Zenon DEF At, Cur
        <3>4. SafeInv' = SafeInv /\ OwnInv' = OwnInv
            BY <3>1, <3>3, Zenon DEF SafeInv, OwnInv
        <3>5. Safe' = Safe /\ Owned' = Owned
            BY <3>1, <3>4, Zenon DEF Safe, Harmless, Owned, Kept
        <3> QED BY <3>2, <3>5, Zenon DEF VarsInv
    <2>2. CASE AllocateForCall
        BY <2>2, AllocateInv, ZenonT(30) DEF AllocateForCall
    <2>3. ASSUME NEW automatic \in BOOLEAN, AllocateVar(automatic)
          PROVE  VarsInv'
        BY <2>3, AllocateInv, Zenon DEF AllocateVar
    <2> QED BY <2>1, <2>2, <2>3, SynchronizePtrBeforeInv, LibraryInv, CallFailsInv,
               SynchronizePtrAfterInv, ResizeDataInv, FreeVarInv, VarDestroyInv, Zenon
            DEF VarsNext, VarsStep
<1>3. VarsInv => /\ departures \subseteq {"early"} => ~damage
                 /\ varPc = "destroyed" /\ structAuto /\ departures \subseteq {"resize", "empty"}
                       => allocated = {}
    BY Zenon DEF VarsInv, Safe, Harmless, Owned, Kept
<1>4. VarsInv /\ [VarsNext]_varVars =>
        [varPc = "returned" /\ syncType \in {"after", "both"} /\ varOk' =>
            /\ structLocal' = remoteStruct /\ arrayAt' = remoteStruct.data
            /\ arrayLocal'.size = remoteStruct.size
            /\ remoteStruct.size > 0 => arrayLocal'.data = content[remoteStruct.data]
            /\ departures' = departures]_varVars
    <2> SUFFICES ASSUME VarsInv, VarsNext, varPc = "returned", syncType \in {"after", "both"},
                        varOk'
                 PROVE  /\ structLocal' = remoteStruct /\ arrayAt' = remoteStruct.data
                        /\ arrayLocal'.size = remoteStruct.size
                        /\ remoteStruct.size > 0 =>
                             arrayLocal'.data = content[remoteStruct.data]
                        /\ departures' = departures
        OBVIOUS
    <2>1. SynchronizePtrAfter
        <3>1. ~\E n \in Lengths : ResizeData(n)
            BY Zenon DEF ResizeData
        <3> QED BY <3>1, Zenon
               DEF VarsNext, VarsStep, AllocateForCall, SynchronizePtrBefore, LibraryReads,
                   LibraryWrites, LibraryReplaces, CallFails, AllocateVar, FreeVar, VarDestroy
    <2>2. TransferFromSandboxee(remoteStruct.size)
        BY <2>1, Zenon DEF SynchronizePtrAfter, NotSynchronized, LengthAfter
    <2>3. /\ structLocal' = remoteStruct /\ arrayAt' = remoteStruct.data
          /\ arrayLocal' = [size |-> remoteStruct.size, owned |-> TRUE,
                            data |-> IF Live(arrayAt') THEN content[arrayAt']
                                                       ELSE arrayLocal.data]
          /\ varOk' = (Live(arrayAt') \/ remoteStruct.size = 0) /\ UNCHANGED departures
        BY <2>2, Zenon DEF TransferFromSandboxee, AddressAfter
    <2>4. remoteStruct.size > 0 => remoteStruct.size # 0
        OBVIOUS
    <2> QED BY <2>3, <2>4, Zenon
<1> QED BY <1>1, <1>2, <1>3, <1>4, PTL DEF VarsSpec, RemoteMemoryIsSound

-----------------------------------------------------------------------------
(***************************************************************************)
(* A descriptor.  Until it is the return value of a call, an Fd knows all  *)
(* that is open for it in the sandboxee.                                   *)
(***************************************************************************)
FdInv ==
    /\ fdRemote \in BoxFds \cup {-1}
    /\ fdGone \in BOOLEAN /\ fdReturned \in BOOLEAN
    /\ ~fdReturned /\ ~fdGone => boxOpen = IF fdRemote >= 0 THEN {fdRemote} ELSE {}
    /\ ~fdReturned /\ fdGone /\ fdChannel /\ ownRemote => boxOpen = {}

\* The lowest free number is a free number.
LEMMA LowestIsOne ==
    ASSUME NEW S \in SUBSET Nat, S # {}
    PROVE  Lowest(S) \in S
<1> DEFINE Less == {ss \in Nat \X Nat : ss[1] < ss[2]}
<1>1. Less = OpToRel(<, Nat)
    BY Zenon DEF OpToRel
<1>2. IsWellFoundedOn(Less, Nat)
    BY <1>1, NatLessThanWellFounded, Zenon
<1>3. ASSUME NEW m \in Nat, NEW n \in Nat, m < n
      PROVE  <<m, n>> \in Less
    <2>1. <<m, n>> \in Nat \X Nat /\ <<m, n>>[1] < <<m, n>>[2]
        BY <1>3, Zenon
    <2> QED BY <2>1, Zenon
<1> HIDE DEF Less
<1>4. PICK n \in S : \A m \in S : ~(<<m, n>> \in Less)
    BY <1>2, WFMin, Zenon
<1>5. \A m \in S : ~(m < n)
    BY <1>3, <1>4, Zenon
<1>6. \A m \in S : n <= m
    BY <1>5
<1> QED BY <1>6, Zenon DEF Lowest

\* Every operation of Fd keeps the invariant.
LEMMA FdInvStep ==
    ASSUME FdInv, [FdNext]_fdVars
    PROVE  FdInv'
<1>a. BoxFds \subseteq Nat /\ BoxFds \ boxOpen \in SUBSET Nat
    BY FdAssumption, Zenon
<1>l. BoxFds \ boxOpen # {} => Lowest(BoxFds \ boxOpen) \in BoxFds
    BY <1>a, LowestIsOne, Zenon
<1>1. CASE FdTransferToSandboxee \/ FdArgument
    <2>1. CASE UNCHANGED <<fdRemote, boxOpen>>
        BY <1>1, <2>1 DEF FdTransferToSandboxee, FdArgument, FdInv
    <2>2. CASE /\ BoxFds \ boxOpen # {} /\ fdRemote' = Lowest(BoxFds \ boxOpen)
               /\ boxOpen' = boxOpen \cup {fdRemote'} /\ ~(fdRemote >= 0)
        <3>0. fdRemote' \in BoxFds
            BY <1>l, <2>2, Zenon
        <3>1. fdRemote' \in BoxFds /\ fdRemote' >= 0
            BY <1>a, <3>0
        <3>2. ~fdGone /\ UNCHANGED <<fdReturned, fdGone>>
            BY <1>1, Zenon DEF FdTransferToSandboxee, FdArgument
        <3>3. boxOpen = {} \/ fdReturned
            BY <2>2, <3>2, Zenon DEF FdInv
        <3>4. boxOpen' = {fdRemote'} \/ fdReturned
            BY <2>2, <3>3, Zenon
        <3> QED BY <3>1, <3>2, <3>4, Zenon DEF FdInv
    <2> QED BY <1>1, <2>1, <2>2, ZenonT(30) DEF FdTransferToSandboxee, FdArgument, SendFD
<1>2. CASE FdTransferFromSandboxee
    BY <1>2, Zenon DEF FdTransferFromSandboxee, FdInv
<1>3. CASE FdReturnValue
    BY <1>3, Zenon DEF FdReturnValue, FdInv
<1>4. CASE SetRemoteFd
    <2>0. fdRemote' \in BoxFds /\ fdRemote < 0
        BY <1>4, <1>l, Zenon DEF SetRemoteFd
    <2>1. fdRemote' \in BoxFds /\ fdRemote' >= 0
        BY <1>a, <2>0
    <2>2. ~(fdRemote >= 0)
        BY <1>a, <2>0 DEF FdInv
    <2>3. ~fdGone /\ boxOpen' = boxOpen \cup {fdRemote'} /\ UNCHANGED <<fdReturned, fdGone>>
        BY <1>4, Zenon DEF SetRemoteFd
    <2>4. boxOpen = {} \/ fdReturned
        BY <2>2, <2>3, Zenon DEF FdInv
    <2>5. boxOpen' = {fdRemote'} \/ fdReturned
        BY <2>3, <2>4, Zenon
    <2> QED BY <2>1, <2>3, <2>5, Zenon DEF FdInv
<1>5. CASE CloseRemoteFd
    BY <1>5 DEF CloseRemoteFd, FdInv
<1>6. CASE CloseLocalFd \/ OwnFd \/ UNCHANGED fdVars
    BY <1>6 DEF CloseLocalFd, OwnFd, FdInv, fdVars
<1>7. CASE FdDestroy
    BY <1>7, Zenon DEF FdDestroy, RemoteToClose, FdInv
<1> QED BY <1>1, <1>2, <1>3, <1>4, <1>5, <1>6, <1>7, Zenon DEF FdNext

\* For any numbers the host and the sandboxee give out: the destructor of an Fd
\* closes its own descriptor of the host and no other, and leaves none of its own
\* open in the sandboxee.
THEOREM DescriptorsAreClosed == FdSpec => ClosesWhatItOwns
<1>1. FdInit => FdInv
    <2> SUFFICES ASSUME FdInit PROVE FdInv
        OBVIOUS
    <2>1. fdRemote = -1 /\ boxOpen = {} /\ fdReturned = FALSE /\ fdGone = FALSE
        BY Zenon DEF FdInit
    <2>2. ~(fdRemote >= 0) /\ fdRemote \in BoxFds \cup {-1}
        BY <2>1
    <2> QED BY <2>1, <2>2, Zenon DEF FdInv
<1>2. FdInv /\ [FdNext]_fdVars => FdInv'
    BY FdInvStep, Zenon
<1>3. FdInv => (fdGone /\ ownRemote /\ fdChannel /\ ~fdReturned => boxOpen = {})
    BY Zenon DEF FdInv
<1>4. FdInv /\ [FdNext]_fdVars =>
        [~fdReturned /\ fdGone' => HostFds \ hostOpen' \subseteq
            (HostFds \ hostOpen) \cup (IF ownLocal THEN {fdValue} ELSE {})]_fdVars
    <2> SUFFICES ASSUME FdInv, FdNext, fdGone'
                 PROVE  HostFds \ hostOpen' \subseteq
                            (HostFds \ hostOpen) \cup (IF ownLocal THEN {fdValue} ELSE {})
        OBVIOUS
    <2>1. FdDestroy
        BY Zenon DEF FdNext, FdTransferToSandboxee, FdArgument, FdTransferFromSandboxee,
              FdReturnValue, SetRemoteFd, CloseRemoteFd, CloseLocalFd, OwnFd, FdInv
    <2> QED BY <2>1, Zenon DEF FdDestroy, LocalToClose
<1> QED BY <1>1, <1>2, <1>3, <1>4, PTL DEF FdSpec, ClosesWhatItOwns
=============================================================================
