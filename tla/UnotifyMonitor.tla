--------------------------- MODULE UnotifyMonitor ---------------------------
(***************************************************************************)
(* The seccomp-user-notification monitor of Sandbox2                       *)
(* (sandbox2/monitor_unotify.cc): a thread that polls the status pipe of   *)
(* the init process, the seccomp notification fd and a pipe with which     *)
(* other threads wake it, and the init process (forkserver.cc,             *)
(* RunInitProcess) that writes how the sandboxee died into the status      *)
(* pipe.  FaultSets are the faults that an instance lets happen.           *)
(***************************************************************************)
EXTENDS Naturals

CONSTANTS Requests,     \* what the rest of the host does: "kill", "dump",
                        \* "limit", "proxy"
          MaxNotify     \* bytes that fit into monitor_notify_pipe_

CONSTANT FaultSets      \* the sets of faults that a behaviour may meet

ASSUME MaxNotifyAssumption == MaxNotify \in Nat \ {0}

\* The status may take longer than a second to arrive; a signal may take back a
\* notification (ENOENT); receiving a notification may fail in another way;
\* Regs::Fetch may fail with an errno other than ESRCH; the init process may be
\* killed from outside.
Faults == {"slow_exit", "notif_gone", "notif_error", "fetch_error", "init_killed"}

ASSUME FaultsAssumption == FaultSets \subseteq SUBSET Faults

VARIABLES
    faults,               \* the faults that may happen in this behaviour
    main,                 \* the sandboxee: "running", "notifying" or "dead"
    code,                 \* how it died: "none", "exited" or "killed"
    killed,               \* SIGKILL is on its way to it
    init,                 \* RunInitProcess: "waiting", "writing" or "dead"
    status_pipe,          \* integers in process_.status_fd: 0, 1 or 2
    pc,                   \* the monitor thread's place in Run()
    result, aborted,      \* result_, and whether a CHECK() failed
    wait_for_sandboxee, timed_out, external_kill, network_violation,
    notify_pipe,          \* bytes in monitor_notify_pipe_
    pipe_made,            \* monitor_notify_pipe_ exists
    stale,                \* something to act on changed since it was looked at
    setup_notified, done, launcher,
    deadline, kill_request, dump_request, proxy_violation,
    notifying             \* a thread is about to write to monitor_notify_pipe_

sandboxee == <<main, code, killed, init, status_pipe>>
outcome == <<result, aborted>>
flags == <<wait_for_sandboxee, timed_out, external_kill, network_violation>>
wakeup == <<notify_pipe, pipe_made, stale, notifying>>
handshake == <<setup_notified, done, launcher>>
requests == <<deadline, kill_request, dump_request, proxy_violation>>
state == <<sandboxee, pc, outcome, flags, wakeup, handshake, requests>>
vars == <<faults, state>>

Unset == [status |-> "UNSET", reason |-> "none"]

Init ==
    /\ faults \in FaultSets
    /\ main = "running" /\ code = "none" /\ killed = FALSE
    /\ init = "waiting" /\ status_pipe = 0
    /\ pc = "setup" /\ result = Unset /\ aborted = FALSE
    /\ wait_for_sandboxee = TRUE /\ timed_out = FALSE
    /\ external_kill = FALSE /\ network_violation = FALSE
    /\ notify_pipe = 0 /\ pipe_made = FALSE /\ stale = FALSE /\ notifying = FALSE
    /\ setup_notified = FALSE /\ done = FALSE /\ launcher = "waiting"
    /\ deadline \in {"disarmed"} \cup (IF "limit" \in Requests THEN {"armed"} ELSE {})
    /\ kill_request = FALSE /\ dump_request = FALSE /\ proxy_violation = FALSE

\* MonitorBase::SetExitStatusCode: CHECKs that no status was set before.
SetExitStatusCode(s, r) ==
    IF result = Unset
    THEN result' = [status |-> s, reason |-> r] /\ UNCHANGED aborted
    ELSE aborted' = TRUE /\ UNCHANGED result

(***************************************************************************)
(* Set-up: the notification fd comes over the Comms channel, the pipe is   *)
(* made.  On failure setup_notification_ is notified before OnDone().      *)
(***************************************************************************)
Setup ==
    /\ pc = "setup"
    /\ \/ /\ SetExitStatusCode("SETUP_ERROR", "FAILED_NOTIFY")
          /\ pc' = "setup_failed"
          /\ UNCHANGED <<pipe_made, setup_notified>>
       \/ /\ pipe_made' = TRUE /\ setup_notified' = TRUE
          /\ pc' = "loop"
          /\ UNCHANGED outcome
    /\ UNCHANGED <<sandboxee, flags, notify_pipe, stale, notifying, done, launcher,
                   requests>>

NotifySetupFailed ==
    /\ pc = "setup_failed"
    /\ setup_notified' = TRUE /\ pc' = "finish"
    /\ UNCHANGED <<sandboxee, outcome, flags, wakeup, done, launcher, requests>>

\* kill(2), whose failure is only logged.
Killed == killed \/ main # "dead"

\* MaybeGetStackTrace: an error in fetching the registers is a final status.
MaybeGetStackTrace ==
    \/ UNCHANGED outcome
    \/ "fetch_error" \in faults /\ SetExitStatusCode("INTERNAL_ERROR", "FAILED_FETCH")

(***************************************************************************)
(* The top of the loop.  A reason to kill the sandboxee ends the loop.     *)
(***************************************************************************)
KillAndBreak ==
    /\ MaybeGetStackTrace
    /\ killed' = Killed
    /\ pc' = "after_loop"
    /\ UNCHANGED <<main, code, init, status_pipe, wait_for_sandboxee, notify_pipe,
                   pipe_made, stale, notifying, handshake, deadline, dump_request,
                   proxy_violation>>

LeaveLoop ==
    /\ pc = "loop" /\ result # Unset
    /\ pc' = "after_loop"
    /\ UNCHANGED <<sandboxee, outcome, flags, wakeup, handshake, requests>>

CheckDeadline ==
    /\ pc = "loop" /\ result = Unset /\ deadline = "passed"
    /\ timed_out' = TRUE
    /\ KillAndBreak
    /\ UNCHANGED <<external_kill, network_violation, kill_request>>

CheckKill ==
    /\ pc = "loop" /\ result = Unset /\ deadline # "passed" /\ kill_request
    /\ kill_request' = FALSE /\ external_kill' = TRUE
    /\ KillAndBreak
    /\ UNCHANGED <<timed_out, network_violation>>

CheckNetwork ==
    /\ pc = "loop" /\ result = Unset /\ deadline # "passed" /\ ~kill_request
    /\ proxy_violation /\ ~network_violation
    /\ network_violation' = TRUE
    /\ KillAndBreak
    /\ UNCHANGED <<timed_out, external_kill, kill_request>>

\* Nothing to do: poll() is called with the time to the deadline or 30 s.
StartPoll ==
    /\ pc = "loop" /\ result = Unset /\ deadline # "passed" /\ ~kill_request
    /\ ~proxy_violation \/ network_violation
    /\ pc' = "poll" /\ stale' = FALSE
    /\ UNCHANGED <<sandboxee, outcome, flags, notify_pipe, pipe_made, notifying,
                   handshake, requests>>

(***************************************************************************)
(* poll() returns: on a timeout or EINTR, or for the first fd that is      *)
(* ready in the order the code looks at them.                              *)
(***************************************************************************)
PollTimeout ==
    /\ pc = "poll"
    /\ pc' = "loop"
    /\ UNCHANGED <<sandboxee, outcome, flags, wakeup, handshake, requests>>

PollNotifyPipe ==
    /\ pc = "poll" /\ notify_pipe > 0
    /\ notify_pipe' = notify_pipe - 1
    /\ pc' = "loop"
    /\ UNCHANGED <<sandboxee, outcome, flags, pipe_made, stale, notifying, handshake,
                   requests>>

HangUp == status_pipe = 0 /\ init = "dead"

PollStatusPipe ==
    /\ pc = "poll" /\ notify_pipe = 0
    /\ status_pipe > 0 \/ HangUp
    /\ wait_for_sandboxee' = FALSE
    /\ IF HangUp
       THEN SetExitStatusCode("INTERNAL_ERROR", "FAILED_MONITOR") /\ pc' = "after_loop"
       ELSE pc' = "read_status" /\ UNCHANGED outcome
    /\ UNCHANGED <<sandboxee, timed_out, external_kill, network_violation, wakeup,
                   handshake, requests>>

PollUnotify ==
    /\ pc = "poll" /\ notify_pipe = 0 /\ status_pipe = 0 /\ ~HangUp
    /\ main = "notifying"
    /\ pc' = "unotify"
    /\ UNCHANGED <<sandboxee, outcome, flags, wakeup, handshake, requests>>

\* Mutant: the monitor's own reasons for the death are forgotten.
StatusAsItIs ==
    /\ pc = "read_status" /\ status_pipe = 2
    /\ SetExitStatusCode(IF code = "exited" THEN "OK" ELSE "SIGNALED", "none")
    /\ status_pipe' = 0 /\ pc' = "kill_init"
    /\ UNCHANGED <<main, code, killed, init, flags, wakeup, handshake, requests>>

\* SetExitStatusFromStatusPipe: two reads, which block until the integer is
\* there and CHECK that it came.
SetExitStatusFromStatusPipe ==
    /\ pc = "read_status"
    /\ \/ /\ status_pipe = 2
          /\ IF code = "exited" THEN SetExitStatusCode("OK", "none")
             ELSE IF network_violation THEN SetExitStatusCode("VIOLATION", "NETWORK")
             ELSE IF external_kill THEN SetExitStatusCode("EXTERNAL_KILL", "none")
             ELSE IF timed_out THEN SetExitStatusCode("TIMEOUT", "none")
             ELSE SetExitStatusCode("SIGNALED", "none")
       \/ status_pipe = 1 /\ init = "dead" /\ aborted' = TRUE /\ UNCHANGED result
    /\ status_pipe' = 0
    /\ pc' = "kill_init"
    /\ UNCHANGED <<main, code, killed, init, flags, wakeup, handshake, requests>>

(***************************************************************************)
(* HandleUnotify.  In the end the loop goes on, and is left if there is a  *)
(* result now.                                                             *)
(***************************************************************************)
RecvFails ==
    /\ pc = "unotify"
    /\ \/ main # "notifying" /\ UNCHANGED outcome
       \/ "notif_error" \in faults /\ SetExitStatusCode("INTERNAL_ERROR", "FAILED_NOTIFY")
    /\ wait_for_sandboxee' = FALSE
    /\ pc' = "loop"
    /\ UNCHANGED <<sandboxee, timed_out, external_kill, network_violation, wakeup,
                   handshake, requests>>

RecvNotification ==
    /\ pc = "unotify" /\ main = "notifying"
    /\ MaybeGetStackTrace
    /\ pc' = "violation"
    /\ UNCHANGED <<sandboxee, flags, wakeup, handshake, requests>>

SetViolation ==
    /\ pc = "violation"
    /\ SetExitStatusCode("VIOLATION", "syscall")
    /\ killed' = Killed
    /\ wait_for_sandboxee' = FALSE
    /\ pc' = "loop"
    /\ UNCHANGED <<main, code, init, status_pipe, timed_out, external_kill,
                   network_violation, wakeup, handshake, requests>>

(***************************************************************************)
(* After the loop: wait a second for the status of a killed sandboxee.     *)
(***************************************************************************)
AfterLoop ==
    /\ pc = "after_loop"
    /\ pc' = IF wait_for_sandboxee THEN "wait_exit" ELSE "kill_init"
    /\ UNCHANGED <<sandboxee, outcome, flags, wakeup, handshake, requests>>

WaitForExit ==
    /\ pc = "wait_exit"
    /\ \/ status_pipe > 0 /\ pc' = "read_status" /\ UNCHANGED outcome
       \/ HangUp /\ SetExitStatusCode("INTERNAL_ERROR", "FAILED_MONITOR")
                 /\ pc' = "kill_init"
       \/ "slow_exit" \in faults /\ pc' = "kill_init" /\ UNCHANGED outcome
    /\ UNCHANGED <<sandboxee, flags, wakeup, handshake, requests>>

\* Mutant: the init process is left alone.
KillInitNot ==
    /\ pc = "kill_init" /\ pc' = "finish"
    /\ UNCHANGED <<sandboxee, outcome, flags, wakeup, handshake, requests>>

\* The whole pid namespace dies with its init process.
KillInit ==
    /\ pc = "kill_init"
    /\ pc' = "finish"
    /\ init' = "dead" /\ killed' = Killed
    /\ UNCHANGED <<main, code, status_pipe, outcome, flags, wakeup, handshake, requests>>

OnDone ==
    /\ pc = "finish"
    /\ done' = TRUE /\ pc' = "exited"
    /\ UNCHANGED <<sandboxee, outcome, flags, wakeup, setup_notified, launcher, requests>>

Monitor ==
    \/ Setup \/ NotifySetupFailed
    \/ LeaveLoop \/ CheckDeadline \/ CheckKill \/ CheckNetwork \/ StartPoll
    \/ PollTimeout \/ PollNotifyPipe \/ PollStatusPipe \/ PollUnotify
    \/ SetExitStatusFromStatusPipe \/ RecvFails \/ RecvNotification \/ SetViolation
    \/ AfterLoop \/ WaitForExit \/ KillInit \/ OnDone

(***************************************************************************)
(* The other threads of the host.  A request is stored first and the       *)
(* monitor woken after that, in two steps; one thread at a time does so.   *)
(***************************************************************************)
HostUnchanged == UNCHANGED <<sandboxee, pc, flags, notify_pipe, pipe_made>>

RunAsync ==
    /\ launcher = "waiting" /\ setup_notified
    /\ launcher' = IF done /\ result.status = "SETUP_ERROR" THEN "failed" ELSE "started"
    /\ UNCHANGED <<outcome, setup_notified, done, requests, stale, notifying>>
    /\ HostUnchanged

\* Mutant: Join() does not wait for the thread.
AwaitResultNoJoin ==
    /\ launcher \in {"started", "failed"}
    /\ launcher' = "joined"
    /\ UNCHANGED <<outcome, setup_notified, done, requests, stale, notifying>>
    /\ HostUnchanged

\* AwaitResult(): Join() waits for the thread and CHECKs what it left.
AwaitResult ==
    /\ launcher \in {"started", "failed"} /\ pc = "exited" /\ ~notifying
    /\ launcher' = "joined"
    /\ aborted' = (aborted \/ ~done \/ result = Unset)
    /\ UNCHANGED <<result, setup_notified, done, requests, stale, notifying>>
    /\ HostUnchanged

\* What the three requests have in common.
Request(name) ==
    /\ name \in Requests /\ launcher # "joined" /\ ~notifying
    /\ UNCHANGED <<outcome, handshake, proxy_violation>> /\ HostUnchanged

\* Mutant: the monitor is not woken.
KillSilently ==
    /\ Request("kill")
    /\ kill_request' = TRUE /\ stale' = TRUE
    /\ UNCHANGED <<deadline, dump_request, notifying>>

Kill ==
    /\ Request("kill")
    /\ kill_request' = TRUE
    /\ notifying' = TRUE /\ stale' = TRUE
    /\ UNCHANGED <<deadline, dump_request>>

DumpStackTrace ==
    /\ Request("dump")
    /\ dump_request' = TRUE
    /\ notifying' = TRUE
    /\ UNCHANGED <<deadline, kill_request, stale>>

\* Disarming does not wake the monitor, which has nothing to do earlier.
SetWallTimeLimit ==
    /\ Request("limit")
    /\ \/ deadline' = "disarmed" /\ UNCHANGED <<notifying, stale>>
       \/ deadline' = "armed" /\ notifying' = TRUE /\ stale' = TRUE
    /\ UNCHANGED <<kill_request, dump_request>>

\* A byte is written to the pipe, if there is one.
NotifyMonitor ==
    /\ notifying
    /\ pipe_made => notify_pipe < MaxNotify
    /\ notifying' = FALSE
    /\ notify_pipe' = IF pipe_made THEN notify_pipe + 1 ELSE notify_pipe
    /\ UNCHANGED <<sandboxee, pc, outcome, flags, pipe_made, stale, handshake, requests>>

DeadlinePasses ==
    /\ deadline = "armed"
    /\ deadline' = "passed"
    /\ UNCHANGED <<outcome, handshake, kill_request, dump_request, proxy_violation,
                   stale, notifying>>
    /\ HostUnchanged

\* NetworkProxyServer::NotifyViolation; its SIGCHLD goes to the thread that
\* launched the monitor (EnableNetworkProxyServer), not to the monitor.
ProxyViolation ==
    /\ "proxy" \in Requests /\ main # "dead" /\ pc # "setup" /\ ~proxy_violation
    /\ proxy_violation' = TRUE
    /\ UNCHANGED <<outcome, handshake, deadline, kill_request, dump_request, stale,
                   notifying>>
    /\ HostUnchanged

Host == RunAsync \/ AwaitResult \/ Kill \/ DumpStackTrace \/ SetWallTimeLimit
        \/ NotifyMonitor \/ DeadlinePasses \/ ProxyViolation

(***************************************************************************)
(* The sandboxee and its init process.                                     *)
(***************************************************************************)
Attached == pipe_made

SandboxeeUnchanged == UNCHANGED <<pc, outcome, flags, wakeup, handshake, requests>>

\* A syscall the policy does not allow waits for an answer to its notification.
DisallowedSyscall ==
    /\ Attached /\ main = "running"
    /\ main' = "notifying"
    /\ UNCHANGED <<code, killed, init, status_pipe>> /\ SandboxeeUnchanged

\* The notification is gone: a signal interrupted the syscall.
NotificationGone ==
    /\ "notif_gone" \in faults /\ main = "notifying"
    /\ main' = "running"
    /\ UNCHANGED <<code, killed, init, status_pipe>> /\ SandboxeeUnchanged

SandboxeeExits ==
    /\ Attached /\ main = "running"
    /\ main' = "dead" /\ killed' = FALSE
    /\ code' \in {"exited", "killed"}
    /\ UNCHANGED <<init, status_pipe>> /\ SandboxeeUnchanged

SigKillLands ==
    /\ killed /\ main # "dead"
    /\ main' = "dead" /\ killed' = FALSE /\ code' = "killed"
    /\ UNCHANGED <<init, status_pipe>> /\ SandboxeeUnchanged

\* RunInitProcess: waitid() returns the main process; si_code and si_status are
\* written one after the other, then init exits.
InitWritesCode ==
    /\ init = "waiting" /\ main = "dead"
    /\ init' = "writing" /\ status_pipe' = 1
    /\ UNCHANGED <<main, code, killed>> /\ SandboxeeUnchanged

InitWritesStatus ==
    /\ init = "writing"
    /\ init' = "dead" /\ status_pipe' = 2
    /\ UNCHANGED <<main, code, killed>> /\ SandboxeeUnchanged

InitIsKilled ==
    /\ "init_killed" \in faults /\ Attached /\ init # "dead"
    /\ init' = "dead" /\ killed' = Killed
    /\ UNCHANGED <<main, code, status_pipe>> /\ SandboxeeUnchanged

Sandboxee == DisallowedSyscall \/ NotificationGone \/ SandboxeeExits \/ SigKillLands
             \/ InitWritesCode \/ InitWritesStatus \/ InitIsKilled

Next == (Monitor \/ Host \/ Sandboxee) /\ UNCHANGED faults

Spec == Init /\ [][Next]_vars

\* The monitor never sleeps for good (poll() has a timeout), woken threads run,
\* a SIGKILL takes effect, and the init process reaps and writes.
Fairness == /\ WF_state(Monitor)
            /\ WF_state(RunAsync \/ AwaitResult) /\ WF_state(NotifyMonitor)
            /\ WF_state(SigKillLands) /\ WF_state(InitWritesCode \/ InitWritesStatus)

FairSpec == Spec /\ Fairness

-----------------------------------------------------------------------------
Results == [status : {"UNSET", "OK", "SETUP_ERROR", "VIOLATION", "SIGNALED",
                      "TIMEOUT", "EXTERNAL_KILL", "INTERNAL_ERROR"},
            reason : {"none", "syscall", "NETWORK", "FAILED_MONITOR",
                      "FAILED_NOTIFY", "FAILED_FETCH"}]

\* The abstract run that this monitor implements.
Run == INSTANCE SandboxRun WITH Results <- Results \ {Unset}, Unset <- Unset

\* The only fault that the monitor itself reports.
Expected == faults \subseteq {"notif_error"}

\* UnotifyMonitor implements SandboxRun: the result is set exactly once, before
\* OnDone(), and AwaitResult() returns after both, as long as the only fault is
\* a failure to receive a notification.
ImplementsSandboxRun == Run!Init /\ [][Expected => Run!Next]_(Run!vars)

\* Every variable has its type; the status pipe holds at most the two integers
\* that the init process writes.
TypeOK ==
    /\ main \in {"running", "notifying", "dead"} /\ code \in {"none", "exited", "killed"}
    /\ killed \in BOOLEAN /\ init \in {"waiting", "writing", "dead"}
    /\ status_pipe \in 0..2
    /\ pc \in {"setup", "setup_failed", "loop", "poll", "read_status", "unotify",
               "violation", "after_loop", "wait_exit", "kill_init", "finish", "exited"}
    /\ result \in Results /\ aborted \in BOOLEAN
    /\ wait_for_sandboxee \in BOOLEAN /\ timed_out \in BOOLEAN
    /\ external_kill \in BOOLEAN /\ network_violation \in BOOLEAN
    /\ notify_pipe \in 0..MaxNotify /\ pipe_made \in BOOLEAN
    /\ stale \in BOOLEAN /\ notifying \in BOOLEAN
    /\ setup_notified \in BOOLEAN /\ done \in BOOLEAN
    /\ launcher \in {"waiting", "started", "failed", "joined"}
    /\ deadline \in {"disarmed", "armed", "passed"}
    /\ kill_request \in BOOLEAN /\ dump_request \in BOOLEAN /\ proxy_violation \in BOOLEAN

\* No CHECK fails: SetExitStatusCode (monitor_base.cc) never meets a status set
\* before, Join() finds the monitor done with a result, and both integers of the
\* status pipe can be read, as long as the only fault is a failure to receive a
\* notification.
ChecksHold == Expected => ~aborted

\* "CHECK(result_.final_status() != Result::UNSET);" (Join): the monitor never
\* ends without having set a status.
JoinFindsStatus == done => result # Unset

\* No wake-up is lost: while the monitor sleeps in poll() although something it
\* has to act on changed, a byte is in its pipe or about to be written.
NoLostWakeup == (pc = "poll" /\ stale /\ ~notifying) => notify_pipe > 0

\* A sandboxee reported as OK did exit by itself, and one that was killed by the
\* monitor for a reason of its own is reported with that reason.
ResultFitsDeath ==
    /\ result.status = "OK" => code = "exited"
    /\ result.status = "SIGNALED" => ~(timed_out \/ external_kill \/ network_violation)

\* A run that is to end ends, whatever faults there are, and nothing of it is
\* left: a request to kill the sandboxee ends it, so does a deadline that passes
\* and is not moved, and once the run is done the sandboxee does not survive,
\* since KillInit() ends its pid namespace.
RunEnds ==
    /\ kill_request ~> done
    /\ deadline = "passed" ~> (done \/ deadline # "passed")
    /\ (done /\ Attached) ~> main = "dead"
=============================================================================
