------------------------------ MODULE SandboxRun ------------------------------
(***************************************************************************)
(* What one run of a sandbox promises the thread that started it           *)
(* (sandbox2/sandbox2.h, monitor_base.h), whichever monitor is used: the   *)
(* result is set once; only then is the run done; AwaitResult() returns    *)
(* only after that.  PtraceMonitor and UnotifyMonitor implement it.        *)
(***************************************************************************)
CONSTANTS Results,   \* the values of result_ other than UNSET
          Unset

VARIABLES result,    \* MonitorBase::result_
          done,      \* MonitorBase::done_notification_
          launcher   \* the thread that calls RunAsync() and AwaitResult()

vars == <<result, done, launcher>>

Init == result = Unset /\ done = FALSE /\ launcher = "waiting"

SetExitStatusCode ==
    /\ result = Unset /\ ~done
    /\ result' \in Results
    /\ UNCHANGED <<done, launcher>>

OnDone ==
    /\ result # Unset /\ ~done
    /\ done' = TRUE
    /\ UNCHANGED <<result, launcher>>

\* RunAsync() returns false only when the run has ended already.
RunAsync ==
    /\ launcher = "waiting"
    /\ launcher' \in {"started"} \cup (IF done THEN {"failed"} ELSE {})
    /\ UNCHANGED <<result, done>>

AwaitResult ==
    /\ launcher \in {"started", "failed"} /\ done
    /\ launcher' = "joined"
    /\ UNCHANGED <<result, done>>

Next == SetExitStatusCode \/ OnDone \/ RunAsync \/ AwaitResult

Spec == Init /\ [][Next]_vars

\* What a client of Sandbox2 relies on: AwaitResult() returns only when the run
\* is done, and then with a final status.
AwaitedResultIsFinal == launcher = "joined" => done /\ result \in Results
=============================================================================
