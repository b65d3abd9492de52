----------------------------- MODULE SapiSandbox -----------------------------
(***************************************************************************)
(* sapi::Sandbox, its RPCChannel, the request loop of the sandboxed        *)
(* library, and the Transactions that retry over it                        *)
(* (sandboxed_api/sandbox.cc, rpcchannel.cc, client.cc, transaction.cc).   *)
(*                                                                         *)
(* In mode "txn" one thread runs a Transaction, restarts it and destroys   *)
(* it; in mode "plain" two threads call library functions and either of    *)
(* them may Terminate() the sandbox while the other is in a call.  A       *)
(* library function may return, fail, never return, or crash.              *)
(***************************************************************************)
EXTENDS Naturals

CONSTANTS Threads,       \* host threads; MainThread is one of them
          MainThread,
          RetryCount,    \* TransactionBase::retry_count_
          TimeLimits,    \* durations given to SetTimeLimit(), in half seconds
          MaxSandboxees  \* bound: sandboxees started in one behaviour

ASSUME SapiAssumption == /\ MainThread \in Threads
                         /\ {"none", "exit"} \cap Threads = {}
                         /\ RetryCount \in Nat /\ MaxSandboxees \in Nat
                         /\ TimeLimits \subseteq Nat

NoThread == "none"

VARIABLES
    sapiMode,     \* "txn" or "plain"
    timeLimit,    \* TransactionBase::time_limit_, in seconds
    sandboxee,    \* number of the current sandboxee, 0 before the first
    s2,           \* Sandbox::s2_: "none", "running", "done" (IsTerminated)
    s2Awaited,    \* Sandbox::s2_awaited_
    library,      \* the sandboxee: "none", "serving", "busy", "hung", "dead"
    connection,   \* the host's end of comms_: "open" or "terminated"
    request,      \* the request on its way: NoThread, a thread, or "exit"
    reply,        \* the thread whose request the reply on its way answers
    rpcMutex,     \* RPCChannel::mutex_
    wallLimit,    \* whether a wall-time limit is set in the monitor
    killRequested,\* s2_->Kill() was called
    sapiPc,       \* where each thread is
    callOk,       \* status of the thread's last call
    stage,        \* what the main thread's call is part of
    attempt,      \* i of RunTransactionLoop
    initialized,  \* TransactionBase::initialized_
    hookDoneOn,   \* sandboxee on which the Init() hook last succeeded
    afterwards    \* what the main thread does after Terminate()

txnVars == <<stage, attempt, initialized, hookDoneOn, afterwards>>
rpcVars == <<connection, request, reply, rpcMutex>>
boxVars == <<sandboxee, s2, s2Awaited, library, wallLimit, killRequested>>
sapiVars == <<sapiMode, timeLimit, txnVars, rpcVars, boxVars, sapiPc, callOk>>

\* kDefaultTimeLimit
DefaultTimeLimit == 60

\* absl::ToTimeT() rounds a duration down to seconds.
ToTimeT(duration) == duration \div 2

SapiInit ==
    /\ sapiMode \in {"txn", "plain"} /\ timeLimit = DefaultTimeLimit
    /\ s2Awaited = FALSE
    /\ IF sapiMode = "plain"
       THEN sandboxee = 1 /\ s2 = "running" /\ library = "serving"
       ELSE sandboxee = 0 /\ s2 = "none" /\ library = "none"
    /\ connection = "open" /\ request = NoThread /\ reply = NoThread
    /\ rpcMutex = NoThread /\ wallLimit = FALSE /\ killRequested = FALSE
    /\ sapiPc = [t \in Threads |-> "idle"]
    /\ callOk = [t \in Threads |-> TRUE]
    /\ stage = "none" /\ attempt = 0 /\ initialized = FALSE
    /\ hookDoneOn = 0 /\ afterwards = "none"

\* Sandbox::is_active()
IsActive == s2 = "running"

LibraryAlive == library \in {"serving", "busy", "hung"}

MoveTo(t, where) == sapiPc' = [sapiPc EXCEPT ![t] = where]

-----------------------------------------------------------------------------
\* Sandbox::Init().

AlreadyActive == IsActive /\ UNCHANGED <<rpcVars, boxVars>>

\* RunAsync() succeeded: new Sandbox2, new RPCChannel, no wall-time limit.
StartSandboxee ==
    /\ ~IsActive /\ sandboxee < MaxSandboxees
    /\ sandboxee' = sandboxee + 1 /\ s2' = "running" /\ library' = "serving"
    /\ s2Awaited' = FALSE
    /\ connection' = "open" /\ request' = NoThread /\ reply' = NoThread
    /\ wallLimit' = FALSE /\ killRequested' = FALSE
    /\ UNCHANGED rpcMutex

\* RunAsync() failed: Terminate() has nothing to do, the run is over already.
StartFails ==
    /\ ~IsActive
    /\ s2' = "done" /\ library' = "none" /\ s2Awaited' = FALSE
    /\ connection' = "open" /\ request' = NoThread /\ reply' = NoThread
    /\ UNCHANGED <<sandboxee, rpcMutex, wallLimit, killRequested>>

\* No library descriptor or path, or StartForkServer() failed: s2_ is untouched.
NoForkServer == ~IsActive /\ UNCHANGED <<rpcVars, boxVars>>

SandboxInitOk == AlreadyActive \/ StartSandboxee
SandboxInitFails == StartFails \/ NoForkServer

-----------------------------------------------------------------------------
\* One call of the library: Sandbox::Call() and RPCChannel::Call()/Return().

CallIfActive(t) ==
    /\ sapiPc[t] = "call"
    /\ IF IsActive THEN MoveTo(t, "lock") /\ UNCHANGED callOk
                   ELSE MoveTo(t, "returned")
                        /\ callOk' = [callOk EXCEPT ![t] = FALSE]
    /\ UNCHANGED <<sapiMode, timeLimit, txnVars, rpcVars, boxVars>>

\* Mutant: mutex_ is not taken.
MutexIgnored == TRUE

\* absl::MutexLock lock(&mutex_)
MutexFree == rpcMutex = NoThread

\* Under mutex_: SendTLV().  A dead peer terminates the channel.
RpcSend(t) ==
    /\ sapiPc[t] = "lock" /\ MutexFree
    /\ IF connection = "open" /\ LibraryAlive
       THEN /\ request' = t /\ rpcMutex' = t /\ MoveTo(t, "recv")
            /\ UNCHANGED <<connection, callOk>>
       ELSE /\ connection' = "terminated" /\ MoveTo(t, "returned")
            /\ callOk' = [callOk EXCEPT ![t] = FALSE]
            /\ UNCHANGED <<request, rpcMutex>>
    /\ UNCHANGED <<sapiMode, timeLimit, txnVars, reply, boxVars>>

\* Return(): blocks until the reply or the end of the stream.  The reply says
\* whether the function was found and called.
RpcReturn(t) ==
    /\ sapiPc[t] = "recv"
    /\ \/ /\ reply # NoThread
          /\ reply' = NoThread
          /\ \E success \in BOOLEAN :
                callOk' = [callOk EXCEPT ![t] = success]
          /\ UNCHANGED <<connection, request>>
       \/ /\ reply = NoThread /\ ~LibraryAlive
          /\ connection' = "terminated" /\ request' = NoThread
          /\ callOk' = [callOk EXCEPT ![t] = FALSE]
          /\ UNCHANGED reply
    /\ rpcMutex' = NoThread
    /\ MoveTo(t, "returned")
    /\ UNCHANGED <<sapiMode, timeLimit, txnVars, boxVars>>

-----------------------------------------------------------------------------
\* client.cc: the request loop of the sandboxed library.

ServeRequest ==
    /\ library = "serving" /\ request # NoThread
    /\ library' \in IF request = "exit" THEN {"dead"} ELSE {"busy", "hung"}
    /\ UNCHANGED <<sapiMode, timeLimit, txnVars, rpcVars, sandboxee, s2, s2Awaited, wallLimit,
                   killRequested, sapiPc, callOk>>

SendReturn ==
    /\ library = "busy" /\ request \in Threads
    /\ library' = "serving" /\ reply' = request /\ request' = NoThread
    /\ UNCHANGED <<sapiMode, timeLimit, txnVars, connection, rpcMutex, sandboxee, s2, s2Awaited,
                   wallLimit, killRequested, sapiPc, callOk>>

\* The sandboxee is killed from outside, or crashes, in or between calls.
LibraryDies ==
    /\ LibraryAlive
    /\ library' = "dead"
    /\ UNCHANGED <<sapiMode, timeLimit, txnVars, rpcVars, sandboxee, s2, s2Awaited, wallLimit,
                   killRequested, sapiPc, callOk>>

\* The monitor kills on the wall-time limit or on Kill() ...
MonitorKills ==
    /\ LibraryAlive /\ (wallLimit \/ killRequested)
    /\ library' = "dead"
    /\ UNCHANGED <<sapiMode, timeLimit, txnVars, rpcVars, sandboxee, s2, s2Awaited, wallLimit,
                   killRequested, sapiPc, callOk>>

\* ... and reports the end of the run.
MonitorDone ==
    /\ library = "dead" /\ s2 = "running"
    /\ s2' = "done"
    /\ UNCHANGED <<sapiMode, timeLimit, txnVars, rpcVars, sandboxee, s2Awaited, library, wallLimit,
                   killRequested, sapiPc, callOk>>

-----------------------------------------------------------------------------
\* Sandbox::Terminate(), with Exit() when it is to be graceful.

\* Mutant: Exit() sets no limit.
NoExitLimit == wallLimit' = wallLimit

\* set_walltime_limit(absl::Seconds(1)) of Exit()
ExitLimit == wallLimit' = TRUE

Terminate(t) ==
    /\ sapiPc[t] = "terminate"
    /\ \/ ~IsActive /\ MoveTo(t, "terminated") /\ UNCHANGED boxVars
       \/ /\ IsActive /\ ExitLimit /\ MoveTo(t, "exit")
          /\ UNCHANGED <<sandboxee, s2, s2Awaited, library, killRequested>>
       \/ /\ IsActive /\ sapiMode = "plain"        \* not graceful
          /\ killRequested' = TRUE /\ MoveTo(t, "await")
          /\ UNCHANGED <<sandboxee, s2, s2Awaited, library, wallLimit>>
    /\ UNCHANGED <<sapiMode, timeLimit, txnVars, rpcVars, callOk>>

\* RPCChannel::Exit(): the request is sent unless the channel has ended.
ExitSend(t) ==
    /\ sapiPc[t] = "exit" /\ MutexFree
    /\ IF connection = "open" /\ LibraryAlive
       THEN /\ request' = "exit" /\ rpcMutex' = t /\ MoveTo(t, "exitRecv")
            /\ UNCHANGED connection
       ELSE /\ connection' = "terminated" /\ MoveTo(t, "await")
            /\ UNCHANGED <<request, rpcMutex>>
    /\ UNCHANGED <<sapiMode, timeLimit, txnVars, reply, boxVars, callOk>>

\* RecvBool(): only the end of the stream counts as success; an error that
\* leaves the channel open makes Exit() kill the sandboxee.
ExitRecv(t) ==
    /\ sapiPc[t] = "exitRecv"
    /\ \/ /\ ~LibraryAlive /\ connection' = "terminated" /\ request' = NoThread
          /\ UNCHANGED killRequested
       \/ /\ killRequested' = TRUE /\ UNCHANGED <<connection, request>>
    /\ rpcMutex' = NoThread /\ MoveTo(t, "await")
    /\ UNCHANGED <<sapiMode, timeLimit, txnVars, reply, sandboxee, s2, s2Awaited, library,
                   wallLimit, callOk>>

\* s2_->AwaitResult() returns when the monitor is done.
ResultReady == s2 = "done"

\* Sandbox::AwaitResult(): s2_awaited_ is read without a lock, so that two threads
\* that terminate at once may both collect the result.
AwaitResult(t) ==
    /\ sapiPc[t] = "await"
    /\ MoveTo(t, IF s2Awaited THEN "terminated" ELSE "collect")
    /\ UNCHANGED <<sapiMode, timeLimit, txnVars, rpcVars, boxVars, callOk>>

CollectResult(t) ==
    /\ sapiPc[t] = "collect" /\ ResultReady
    /\ s2Awaited' = TRUE /\ MoveTo(t, "terminated")
    /\ UNCHANGED <<sapiMode, timeLimit, txnVars, rpcVars, sandboxee, s2, library, wallLimit,
                   killRequested, callOk>>

-----------------------------------------------------------------------------
\* Two threads that call the library directly.

PlainCall(t) ==
    /\ sapiMode = "plain" /\ sapiPc[t] = "idle"
    /\ MoveTo(t, "call")
    /\ UNCHANGED <<sapiMode, timeLimit, txnVars, rpcVars, boxVars, callOk>>

PlainReturned(t) ==
    /\ sapiMode = "plain" /\ sapiPc[t] = "returned"
    /\ MoveTo(t, "idle")
    /\ UNCHANGED <<sapiMode, timeLimit, txnVars, rpcVars, boxVars, callOk>>

PlainTerminate(t) ==
    /\ sapiMode = "plain" /\ sapiPc[t] = "idle"
    /\ MoveTo(t, "terminate")
    /\ UNCHANGED <<sapiMode, timeLimit, txnVars, rpcVars, boxVars, callOk>>

PlainTerminated(t) ==
    /\ sapiMode = "plain" /\ sapiPc[t] = "terminated"
    /\ MoveTo(t, "end")
    /\ UNCHANGED <<sapiMode, timeLimit, txnVars, rpcVars, boxVars, callOk>>

-----------------------------------------------------------------------------
\* A Transaction: RunTransactionLoop() and RunTransactionFunctionInSandbox().

Txn(where) == sapiMode = "txn" /\ sapiPc[MainThread] = where

\* SetTimeLimit(), between two runs.
SetTimeLimit(duration) ==
    /\ Txn("idle")
    /\ timeLimit' = ToTimeT(duration)
    /\ UNCHANGED <<sapiMode, txnVars, rpcVars, boxVars, sapiPc, callOk>>

Run ==
    /\ Txn("idle")
    /\ attempt' = 0 /\ afterwards' = "retry" /\ MoveTo(MainThread, "init")
    /\ UNCHANGED <<sapiMode, timeLimit, rpcVars, boxVars, callOk, stage, initialized,
                   hookDoneOn>>

\* sandbox_->Init() at the head of a run.
RunInit ==
    /\ Txn("init") /\ afterwards = "retry"
    /\ \/ SandboxInitOk /\ MoveTo(MainThread, "limit")
       \/ SandboxInitFails /\ MoveTo(MainThread, "terminate")
    /\ callOk' = [callOk EXCEPT ![MainThread] = FALSE]
    /\ UNCHANGED <<sapiMode, timeLimit, txnVars>>

\* SetWallTimeLimit(absl::Seconds(GetTimeLimit())): "0 means: no wall-time limit".
RunLimited == wallLimit' = (timeLimit # 0)

\* SetWallTimeLimit(); then the Init() hook unless it was run already.
SetWallTimeLimit ==
    /\ Txn("limit")
    /\ IF IsActive
       THEN /\ RunLimited /\ MoveTo(MainThread, "call")
            /\ stage' = IF initialized THEN "main" ELSE "hook"
       ELSE /\ MoveTo(MainThread, "terminate") /\ UNCHANGED <<wallLimit, stage>>
    /\ UNCHANGED <<sapiMode, timeLimit, rpcVars, sandboxee, s2, s2Awaited, library, killRequested,
                   callOk, attempt, initialized, hookDoneOn, afterwards>>

HookReturned ==
    /\ Txn("returned") /\ stage = "hook"
    /\ IF callOk[MainThread]
       THEN /\ initialized' = TRUE /\ hookDoneOn' = sandboxee
            /\ stage' = "main" /\ MoveTo(MainThread, "call")
       ELSE /\ MoveTo(MainThread, "cleanup") /\ stage' = "none"
            /\ UNCHANGED <<initialized, hookDoneOn>>
    /\ UNCHANGED <<sapiMode, timeLimit, rpcVars, boxVars, callOk, attempt, afterwards>>

MainReturned ==
    /\ Txn("returned") /\ stage = "main"
    /\ MoveTo(MainThread, "cleanup") /\ stage' = "none"
    /\ UNCHANGED <<sapiMode, timeLimit, rpcVars, boxVars, callOk, attempt, initialized,
                   hookDoneOn, afterwards>>

\* SetWallTimeLimit(absl::ZeroDuration()), which fails on an ended sandbox
LimitLifted == wallLimit' = (wallLimit /\ ~IsActive)

\* A failed attempt ends the sandboxee.
FailureTerminates == MoveTo(MainThread, "terminate")

\* ~TimeCleanup(), and the end of the attempt.
TimeCleanup ==
    /\ Txn("cleanup")
    /\ LimitLifted
    /\ IF callOk[MainThread]
       THEN MoveTo(MainThread, "idle") /\ afterwards' = "none"
       ELSE FailureTerminates /\ UNCHANGED afterwards
    /\ UNCHANGED <<sapiMode, timeLimit, rpcVars, sandboxee, s2, s2Awaited, library, killRequested,
                   callOk, stage, attempt, initialized, hookDoneOn>>

\* Mutant: initialized_ is kept.
HookStillDone == initialized' = initialized

HookForgotten == initialized' = FALSE

MoreTries == attempt < RetryCount

\* sandbox_->Terminate() returned: initialized_ = false and the next try.  The
\* last one logs AwaitResult(), which finds the run over.
RetryOrGiveUp ==
    /\ Txn("terminated") /\ afterwards = "retry"
    /\ HookForgotten
    /\ IF MoreTries
       THEN attempt' = attempt + 1 /\ MoveTo(MainThread, "init")
            /\ UNCHANGED <<afterwards, s2Awaited>>
       ELSE MoveTo(MainThread, "idle") /\ afterwards' = "none"
            /\ s2Awaited' = (s2Awaited \/ s2 # "none")
            /\ UNCHANGED attempt
    /\ UNCHANGED <<sapiMode, timeLimit, rpcVars, sandboxee, s2, library, wallLimit,
                   killRequested, callOk, stage, hookDoneOn>>

\* TransactionBase::Restart(): Finish() hook, then Terminate() and Init().
Restart ==
    /\ Txn("idle")
    /\ afterwards' = "restart"
    /\ IF initialized THEN stage' = "finish" /\ MoveTo(MainThread, "call")
                      ELSE MoveTo(MainThread, "terminate") /\ UNCHANGED stage
    /\ UNCHANGED <<sapiMode, timeLimit, rpcVars, boxVars, callOk, attempt, initialized,
                   hookDoneOn>>

FinishReturned ==
    /\ Txn("returned") /\ stage = "finish"
    /\ initialized' = FALSE /\ stage' = "none" /\ MoveTo(MainThread, "terminate")
    /\ UNCHANGED <<sapiMode, timeLimit, rpcVars, boxVars, callOk, attempt, hookDoneOn,
                   afterwards>>

RestartTerminated ==
    /\ Txn("terminated") /\ afterwards = "restart"
    /\ MoveTo(MainThread, "init")
    /\ UNCHANGED <<sapiMode, timeLimit, txnVars, rpcVars, boxVars, callOk>>

RestartInit ==
    /\ Txn("init") /\ afterwards = "restart"
    /\ SandboxInitOk \/ SandboxInitFails
    /\ afterwards' = "none" /\ MoveTo(MainThread, "idle")
    /\ UNCHANGED <<sapiMode, timeLimit, callOk, stage, attempt, initialized, hookDoneOn>>

\* ~TransactionBase() calls Finish() of the base class, which does nothing;
\* ~Sandbox() terminates.
Destroy ==
    /\ Txn("idle")
    /\ afterwards' = "destroy" /\ MoveTo(MainThread, "terminate")
    /\ UNCHANGED <<sapiMode, timeLimit, rpcVars, boxVars, callOk, stage, attempt,
                   initialized, hookDoneOn>>

Destroyed ==
    /\ Txn("terminated") /\ afterwards = "destroy"
    /\ MoveTo(MainThread, "end")
    /\ UNCHANGED <<sapiMode, timeLimit, txnVars, rpcVars, boxVars, callOk>>

-----------------------------------------------------------------------------
ThreadStep(t) ==
    \/ CallIfActive(t) \/ RpcSend(t) \/ RpcReturn(t)
    \/ Terminate(t) \/ ExitSend(t) \/ ExitRecv(t) \/ AwaitResult(t)
    \/ CollectResult(t)
    \/ PlainReturned(t) \/ PlainTerminated(t)

TxnStep ==
    \/ RunInit \/ SetWallTimeLimit \/ HookReturned \/ MainReturned
    \/ TimeCleanup \/ RetryOrGiveUp \/ FinishReturned \/ RestartTerminated
    \/ RestartInit \/ Destroyed

LibraryStep == ServeRequest \/ SendReturn
MonitorStep == MonitorKills \/ MonitorDone

SapiNext ==
    \/ \E t \in Threads : ThreadStep(t) \/ PlainCall(t) \/ PlainTerminate(t)
    \/ TxnStep \/ LibraryStep \/ MonitorStep
    \/ Run \/ Restart \/ Destroy \/ LibraryDies
    \/ \E duration \in TimeLimits : SetTimeLimit(duration)

SapiSpec == SapiInit /\ [][SapiNext]_sapiVars

-----------------------------------------------------------------------------
\* Two threads share one channel: a request or reply on its way always belongs
\* to the thread that holds RPCChannel::mutex_, so no thread takes another's
\* return value.
RepliesAreOwn ==
    /\ request \in Threads => rpcMutex = request /\ sapiPc[request] = "recv"
    /\ reply # NoThread => rpcMutex = reply /\ sapiPc[reply] = "recv"

\* The Init() hook succeeds exactly once on a sandboxee that Main() runs in: a
\* retry never runs Main() in a sandboxee the hook has not prepared, since a
\* failed attempt forgets initialized_, and never prepares one again, since it
\* starts from a new one.
InitOncePerSandboxee ==
    /\ [](attempt > 0 /\ stage = "main" /\ sapiPc[MainThread] \in {"lock", "recv"} =>
              hookDoneOn = sandboxee)
    /\ [][initialized' /\ ~initialized => hookDoneOn # sandboxee]_sapiVars

\* Terminate(), called while another thread is in a library function that
\* never returns, returns, since the wall-time limit set by Exit() unblocks it,
\* and it returns only when the sandboxee is gone and its result collected.
\* Run() returns, whatever the library function does, unless the function hangs
\* in a run without time limit, and SetTimeLimit() makes that of every limit below
\* a second.  A sandboxee that outlives a run has no limit left: idle time between
\* two runs is not counted.
SandboxCallsReturn ==
    /\ \A t \in Threads : sapiPc[t] = "terminate" ~> sapiPc[t] = "terminated"
    /\ [](\A t \in Threads : sapiPc[t] = "terminated" => ~LibraryAlive /\ s2 # "running")
    /\ Txn("init") ~> Txn("idle") \/ (timeLimit = 0 /\ library = "hung")
    /\ [](Txn("idle") /\ IsActive => ~wallLimit)
=============================================================================
