---------------------------- MODULE PtraceMonitor ----------------------------
(***************************************************************************)
(* The ptrace monitor of Sandbox2 (sandbox2/monitor_ptrace.cc): the thread *)
(* that seizes the sandboxee, collects its wait statuses, decides about    *)
(* each stop and turns the death of the main process into the one final    *)
(* Result of the run, while other threads ask it to kill the sandboxee,    *)
(* move its deadline or wait for it, and while the kernel moves the        *)
(* tracees.                                                                *)
(*                                                                         *)
(* A tracee is a process of its own (init_pid, the main process and what   *)
(* they fork); threads of one process are not told apart.  A stop is       *)
(* collected with waitpid() long before its handler runs, so a handler     *)
(* reads the tracee as it is by then, not as it was when it stopped.       *)
(***************************************************************************)
EXTENDS Naturals, Sequences

CONSTANTS Main,          \* process_.main_pid
          Others,        \* every other tracee there can be
          InitPids,      \* the tracees besides Main that exist at attach (init_pid)
          Requests,      \* what the rest of the host does: "kill", "dump",
                         \* "limit", "proxy"
          Events,        \* what tracees do in this instance: stop events, exit
                         \* codes, "foreign" (architecture), "sigkill" (by others)
          PreExecve,     \* executor->enable_sandboxing_pre_execve_
          PtraceErrors,  \* may ptrace() fail with an errno other than ESRCH?
          LogAllStacks,  \* FLAGS_sandbox2_log_all_stack_traces
          PermitAll,     \* --sandbox2_danger_danger_permit_all[_and_log]
          StackOnExit,   \* policy_->collect_stacktrace_on_exit_
          DumpPossible   \* not the unwinder's own sandbox, policy has namespaces

ASSUME PidsAssumption == Main \notin Others /\ InitPids \subseteq Others

ASSUME FlagsAssumption ==
    {PtraceErrors, LogAllStacks, PermitAll, StackOnExit, DumpPossible, PreExecve}
        \subseteq BOOLEAN

VARIABLES
    task,                  \* kernel: the state of each tracee
    pc,                    \* the monitor thread's place in Run()
    result,                \* result_: final status and reason code
    aborted,               \* a CHECK() failed: the host process is gone
    statuses,              \* PidWaiter::statuses_
    last_errno,            \* PidWaiter::last_errno_ = ECHILD
    draining,              \* past the main loop, reaping the sandboxee
    sandboxee_exited,
    timed_out, external_kill, network_violation,
    should_dump_stack, wait_for_execve,
    syscalls_in_progress,
    setup_notified,        \* setup_notification_
    done,                  \* done_notification_
    deadline,              \* deadline_millis_, against absl::Now()
    kill_request,          \* external_kill_request_flag_ is clear
    dump_request,          \* dump_stack_request_flag_ is clear
    proxy_violation,       \* network_proxy_server_->violation_occurred_
    launcher,              \* the thread in Sandbox2::RunAsync()
    offence                \* history: the sandboxee did something not allowed

flags == <<timed_out, external_kill, network_violation, should_dump_stack,
           wait_for_execve>>
requests == <<deadline, kill_request, dump_request, proxy_violation>>
waiter == <<statuses, last_errno>>
outcome == <<result, aborted>>
handshake == <<setup_notified, done, launcher>>
vars == <<task, pc, outcome, waiter, draining, sandboxee_exited, flags,
          syscalls_in_progress, handshake, requests, offence>>

Pids == {Main} \cup Others

Unset == [status |-> "UNSET", reason |-> "none"]

(***************************************************************************)
(* The kernel's view of a tracee.  "reaped": the monitor collected its     *)
(* death; "gone": its parent did too and the pid is free.                  *)
(***************************************************************************)
Lives == {"none", "running", "stopped", "zombie", "reaped", "gone"}
StopEvents == {"signal", "seccomp", "sysexit", "newproc", "exec", "exit", "stop"}
Statuses == StopEvents \cup {"EXITED", "SIGNALED"}
SyscallClasses == {"none", "execveat", "fork", "other"}
ExitCodes == {"none", "exited", "SIGSYS", "killed"}

Task == [life : Lives, ev : StopEvents \cup {"none"}, code : ExitCodes,
         fresh : BOOLEAN, killed : BOOLEAN, arch : {"host", "foreign"},
         sys : SyscallClasses, mode : {"cont", "syscall"}]

NoTask == [life |-> "none", ev |-> "none", code |-> "none", fresh |-> FALSE,
           killed |-> FALSE, arch |-> "host", sys |-> "none", mode |-> "cont"]
RunningTask == [NoTask EXCEPT !.life = "running"]

Alive(p) == task[p].life \in {"running", "stopped"}
Traced(p) == task[p].life \in {"running", "stopped", "zombie"}

\* waitpid() has news of p: a stop or a death not yet collected.
Waitable(p) == task[p].fresh /\ task[p].life \in {"stopped", "zombie"}

WaitStatus(t) ==
    IF t.life = "stopped" THEN t.ev
    ELSE IF t.code = "exited" THEN "EXITED" ELSE "SIGNALED"

StopAt(t, ev) == [t EXCEPT !.life = "stopped", !.ev = ev, !.fresh = TRUE]
Dead(t) == [t EXCEPT !.life = "zombie", !.ev = "none", !.fresh = TRUE,
                     !.killed = FALSE, !.arch = "host", !.sys = "none",
                     !.mode = "cont"]

\* PTRACE_CONT and PTRACE_SYSCALL: a tracee resumed at its exit stop dies, one
\* that is not stopped any more (ESRCH) is left alone.
Resumed(t, how) ==
    IF t.life # "stopped" THEN t
    ELSE IF t.ev = "exit" THEN Dead(t)
    ELSE [t EXCEPT !.life = "running", !.ev = "none", !.fresh = FALSE,
                   !.arch = "host", !.mode = how,
                   !.sys = IF how = "cont" THEN "none" ELSE @]

\* kill(2) with SIGKILL: the tracee dies some time later.
SigKilled(t) ==
    IF t.life \in {"running", "stopped"} THEN [t EXCEPT !.killed = TRUE] ELSE t

(***************************************************************************)
(* Init: process_ is set, Launch() starts the monitor thread in            *)
(* RunInternal() and waits for setup_notification_.                        *)
(***************************************************************************)
Init ==
    /\ task = [p \in Pids |-> IF p \in {Main} \cup InitPids
                              THEN RunningTask ELSE NoTask]
    /\ pc = "setup"
    /\ result = Unset /\ aborted = FALSE
    /\ statuses = <<>> /\ last_errno = FALSE
    /\ draining = FALSE /\ sandboxee_exited = FALSE
    /\ timed_out = FALSE /\ external_kill = FALSE /\ network_violation = FALSE
    /\ should_dump_stack = FALSE /\ wait_for_execve = PreExecve
    /\ syscalls_in_progress = [p \in Pids |-> "none"]
    /\ setup_notified = FALSE /\ done = FALSE /\ launcher = "waiting"
    /\ deadline \in {"disarmed"} \cup (IF "limit" \in Requests THEN {"armed"} ELSE {})
    /\ kill_request = FALSE /\ dump_request = FALSE /\ proxy_violation = FALSE
    /\ offence = FALSE

(***************************************************************************)
(* MonitorBase::SetExitStatusCode: CHECKs that no status was set before.   *)
(***************************************************************************)
SetExitStatusCode(s, r) ==
    IF result = Unset
    THEN result' = [status |-> s, reason |-> r] /\ UNCHANGED aborted
    ELSE aborted' = TRUE /\ UNCHANGED result

(***************************************************************************)
(* Set-up.  InitPtraceAttach() is one step here (PtraceAttach has its      *)
(* steps).  On failure the cleanups of Run() go in reverse order of their  *)
(* declaration: setup_notification_ first, OnDone() second.                *)
(***************************************************************************)
SetupFailed(reason) ==
    /\ SetExitStatusCode("SETUP_ERROR", reason)
    /\ pc' = "setup_failed"
    /\ UNCHANGED <<task, waiter, draining, sandboxee_exited, flags,
                   syscalls_in_progress, handshake, requests, offence>>

SetupSignals ==
    /\ pc = "setup"
    /\ \/ SetupFailed("FAILED_SIGNALS")
       \/ /\ pc' = "attach"
          /\ UNCHANGED <<task, outcome, waiter, draining, sandboxee_exited, flags,
                         syscalls_in_progress, handshake, requests, offence>>

Attach ==
    /\ pc = "attach"
    /\ \/ SetupFailed("FAILED_PTRACE")
       \/ /\ \A p \in {Main} \cup InitPids : Alive(p)
          /\ setup_notified' = TRUE
          /\ pc' = "loop"
          /\ UNCHANGED <<task, outcome, waiter, draining, sandboxee_exited, flags,
                         syscalls_in_progress, done, launcher, requests, offence>>

NotifySetupFailed ==
    /\ pc = "setup_failed"
    /\ setup_notified' = TRUE
    /\ pc' = "finish"
    /\ UNCHANGED <<task, outcome, waiter, draining, sandboxee_exited, flags,
                   syscalls_in_progress, done, launcher, requests, offence>>

\* Mutant: the loop goes on when kill(2) failed.
KillSandboxeeGoesOn(next) ==
    /\ pc' = next
    /\ \/ /\ task[Main].life # "gone"
          /\ task' = [task EXCEPT ![Main] = SigKilled(@)]
          /\ UNCHANGED outcome
       \/ /\ task[Main].life = "gone"
          /\ SetExitStatusCode("INTERNAL_ERROR", "FAILED_KILL")
          /\ UNCHANGED task

(***************************************************************************)
(* KillSandboxee(): fails once the pid of the main process is free.        *)
(***************************************************************************)
KillSandboxee(next) ==
    \/ /\ task[Main].life # "gone"
       /\ task' = [task EXCEPT ![Main] = SigKilled(@)]
       /\ pc' = next
       /\ UNCHANGED outcome
    \/ /\ task[Main].life = "gone"
       /\ SetExitStatusCode("INTERNAL_ERROR", "FAILED_KILL")
       /\ pc' = "drain_start"
       /\ UNCHANGED task

\* InterruptSandboxee(): PTRACE_INTERRUPT fails once the monitor has collected
\* the death of the main process.  The stop it causes is a "stop" event.
InterruptSandboxee(next) ==
    \/ /\ Traced(Main)
       /\ pc' = next
       /\ UNCHANGED outcome
    \/ /\ ~Traced(Main) \/ PtraceErrors
       /\ SetExitStatusCode("INTERNAL_ERROR", "FAILED_INTERRUPT")
       /\ pc' = "drain_start"

(***************************************************************************)
(* The top of the main loop: the loop condition, then the four requests    *)
(* in the order of the code.                                               *)
(***************************************************************************)
LeaveLoop ==
    /\ pc = "loop" /\ result # Unset
    /\ pc' = "drain_start"
    /\ UNCHANGED <<task, outcome, waiter, draining, sandboxee_exited, flags,
                   syscalls_in_progress, handshake, requests, offence>>

CheckDeadline ==
    /\ pc = "loop" /\ result = Unset
    /\ IF deadline = "passed"
       THEN timed_out' = TRUE /\ KillSandboxee("dump")
       ELSE pc' = "dump" /\ UNCHANGED <<timed_out, task, outcome>>
    /\ UNCHANGED <<waiter, draining, sandboxee_exited, external_kill,
                   network_violation, should_dump_stack, wait_for_execve,
                   syscalls_in_progress, handshake, requests, offence>>

CheckDump ==
    /\ pc = "dump"
    /\ dump_request' = FALSE
    /\ IF dump_request
       THEN should_dump_stack' = TRUE /\ InterruptSandboxee("kill")
       ELSE pc' = "kill" /\ UNCHANGED <<should_dump_stack, outcome>>
    /\ UNCHANGED <<task, waiter, draining, sandboxee_exited, timed_out,
                   external_kill, network_violation, wait_for_execve,
                   syscalls_in_progress, handshake, deadline, kill_request,
                   proxy_violation, offence>>

\* Mutant: the request is taken, and the sandboxee not killed.
CheckKillOnly ==
    /\ pc = "kill" /\ pc' = "network"
    /\ kill_request' = FALSE
    /\ external_kill' = (external_kill \/ kill_request)
    /\ UNCHANGED <<task, outcome, waiter, draining, sandboxee_exited, timed_out,
                   network_violation, should_dump_stack, wait_for_execve,
                   syscalls_in_progress, handshake, deadline, dump_request,
                   proxy_violation, offence>>

CheckKill ==
    /\ pc = "kill"
    /\ kill_request' = FALSE
    /\ IF kill_request
       THEN external_kill' = TRUE /\ KillSandboxee("network")
       ELSE pc' = "network" /\ UNCHANGED <<external_kill, task, outcome>>
    /\ UNCHANGED <<waiter, draining, sandboxee_exited, timed_out,
                   network_violation, should_dump_stack, wait_for_execve,
                   syscalls_in_progress, handshake, deadline, dump_request,
                   proxy_violation, offence>>

CheckNetwork ==
    /\ pc = "network"
    /\ IF proxy_violation /\ ~network_violation
       THEN network_violation' = TRUE /\ KillSandboxee("wait")
       ELSE pc' = "wait" /\ UNCHANGED <<network_violation, task, outcome>>
    /\ UNCHANGED <<waiter, draining, sandboxee_exited, timed_out, external_kill,
                   should_dump_stack, wait_for_execve, syscalls_in_progress,
                   handshake, requests, offence>>

(***************************************************************************)
(* PidWaiter::Wait and RefillStatuses: one waitpid() call per step.  With  *)
(* WNOHANG its only error is ECHILD.                                       *)
(***************************************************************************)
WaiterUnchanged == UNCHANGED <<outcome, draining, sandboxee_exited, flags,
                               syscalls_in_progress, handshake, requests, offence>>

Collect(p) ==
    /\ statuses' = Append(statuses, [pid |-> p, st |-> WaitStatus(task[p])])
    /\ task' = [task EXCEPT ![p].fresh = FALSE,
                            ![p].life = IF @ = "zombie" THEN "reaped" ELSE @]

StartWait ==
    /\ pc = "wait"
    /\ pc' = IF statuses = <<>> /\ ~last_errno THEN "refill_main" ELSE "pop"
    /\ UNCHANGED <<task, waiter>> /\ WaiterUnchanged

\* Mutant: the status of the main process is looked at and left in the kernel.
RefillMainPeeks ==
    /\ pc = "refill_main" /\ pc' = "refill_any"
    /\ statuses' = IF Waitable(Main)
                   THEN Append(statuses, [pid |-> Main, st |-> WaitStatus(task[Main])])
                   ELSE statuses
    /\ UNCHANGED <<task, last_errno>> /\ WaiterUnchanged

RefillMain ==
    /\ pc = "refill_main"
    /\ \/ /\ Waitable(Main) /\ Collect(Main)
          /\ pc' = "refill_any" /\ UNCHANGED last_errno
       \/ /\ ~Traced(Main) /\ last_errno' = TRUE
          /\ pc' = "pop" /\ UNCHANGED <<task, statuses>>
       \/ /\ Traced(Main) /\ ~Waitable(Main)
          /\ pc' = "refill_any" /\ UNCHANGED <<task, waiter>>
    /\ WaiterUnchanged

RefillAny ==
    /\ pc = "refill_any"
    /\ \/ /\ \E p \in Pids : Waitable(p) /\ Collect(p)
          /\ pc' = "refill_any" /\ UNCHANGED last_errno
       \/ /\ \A p \in Pids : ~Traced(p)
          /\ last_errno' = TRUE
          /\ pc' = "pop" /\ UNCHANGED <<task, statuses>>
       \/ /\ \E p \in Pids : Traced(p)
          /\ \A p \in Pids : ~Waitable(p)
          /\ pc' = "pop" /\ UNCHANGED <<task, waiter>>
    /\ WaiterUnchanged

\* Mutant: Wait() reports its saved errno before the statuses it has queued.
ErrnoFirst ==
    /\ pc = "pop" /\ ~draining /\ (statuses = <<>> \/ last_errno)
    /\ last_errno' = FALSE
    /\ IF last_errno THEN SetExitStatusCode("INTERNAL_ERROR", "FAILED_CHILD")
       ELSE UNCHANGED outcome
    /\ pc' = "loop"
    /\ UNCHANGED <<task, statuses, draining, sandboxee_exited, flags,
                   syscalls_in_progress, handshake, requests, offence>>

\* Wait() has nothing to return.  0: sigtimedwait() sleeps half a second at most,
\* or less when SIGCHLD (a tracee's or NotifyMonitor's) arrives.  -1: PANIC().
NothingWaiting ==
    /\ pc = "pop" /\ ~draining /\ statuses = <<>>
    /\ last_errno' = FALSE
    /\ IF last_errno THEN SetExitStatusCode("INTERNAL_ERROR", "FAILED_CHILD")
       ELSE UNCHANGED outcome
    /\ pc' = "loop"
    /\ UNCHANGED <<task, statuses, draining, sandboxee_exited, flags,
                   syscalls_in_progress, handshake, requests, offence>>

(***************************************************************************)
(* The body of the loop for one collected status: each handler pops it     *)
(* and goes back to the top.                                               *)
(***************************************************************************)
Pop(p, st) ==
    /\ pc = "pop" /\ ~draining
    /\ statuses # <<>> /\ Head(statuses) = [pid |-> p, st |-> st]
    /\ statuses' = Tail(statuses)
    /\ pc' = "loop"
    /\ UNCHANGED <<last_errno, draining, timed_out, external_kill,
                   network_violation, handshake, requests>>

\* What the death of the main process means: the monitor's own reasons to kill
\* it come first.
SetMainDeath(s) ==
    IF network_violation THEN SetExitStatusCode("VIOLATION", "NETWORK")
    ELSE IF external_kill THEN SetExitStatusCode("EXTERNAL_KILL", "none")
    ELSE IF timed_out THEN SetExitStatusCode("TIMEOUT", "none")
    ELSE SetExitStatusCode(s, "none")

\* Mutant: an exit before the execveat() counts as one of the program.
HandleExitedAnyway(p) ==
    /\ Pop(p, "EXITED")
    /\ IF p # Main THEN UNCHANGED <<outcome, sandboxee_exited>>
       ELSE sandboxee_exited' = TRUE /\ SetExitStatusCode("OK", "none")
    /\ UNCHANGED <<task, should_dump_stack, wait_for_execve,
                   syscalls_in_progress, offence>>

HandleExited(p) ==
    /\ Pop(p, "EXITED")
    /\ IF p # Main THEN UNCHANGED <<outcome, sandboxee_exited>>
       ELSE /\ sandboxee_exited' = TRUE
            /\ IF ~wait_for_execve THEN SetExitStatusCode("OK", "none")
               ELSE SetExitStatusCode("SETUP_ERROR", "FAILED_MONITOR")
    /\ UNCHANGED <<task, should_dump_stack, wait_for_execve,
                   syscalls_in_progress, offence>>

HandleSignaled(p) ==
    /\ Pop(p, "SIGNALED")
    /\ IF p # Main THEN UNCHANGED <<outcome, sandboxee_exited>>
       ELSE sandboxee_exited' = TRUE /\ SetMainDeath("SIGNALED")
    /\ UNCHANGED <<task, should_dump_stack, wait_for_execve,
                   syscalls_in_progress, offence>>

(***************************************************************************)
(* StateProcessStopped.                                                    *)
(***************************************************************************)
ContinueProcess(p) == task' = [task EXCEPT ![p] = Resumed(@, "cont")]
CompleteSyscall(p) == task' = [task EXCEPT ![p] = Resumed(@, "syscall")]

\* A ptrace() request on p fails with ESRCH when p has left its stop, which a
\* pending SIGKILL makes it do at any moment.
Escaped(p) == task[p].life # "stopped" \/ task[p].killed

\* A signal-delivery stop: EventSignal, then the signal is passed on.
HandleSignalStop(p) ==
    /\ Pop(p, "signal")
    /\ ContinueProcess(p)
    /\ UNCHANGED <<outcome, sandboxee_exited, should_dump_stack, wait_for_execve,
                   syscalls_in_progress, offence>>

\* PTRACE_GETEVENTMSG fails.
HandleNoEventMsg(p, st) ==
    /\ st \in StopEvents \ {"signal"}
    /\ Pop(p, st)
    /\ \/ Escaped(p) /\ UNCHANGED outcome
       \/ PtraceErrors /\ SetExitStatusCode("INTERNAL_ERROR", "FAILED_GETEVENT")
    /\ UNCHANGED <<task, sandboxee_exited, should_dump_stack, wait_for_execve,
                   syscalls_in_progress, offence>>

\* It succeeds, and a stack dump that is due is made.
PopEvent(p, st) ==
    /\ Pop(p, st)
    /\ task[p].life = "stopped"
    /\ should_dump_stack' = (should_dump_stack /\ ~(p = Main /\ DumpPossible))
    /\ UNCHANGED sandboxee_exited

\* Regs::Fetch fails: the handlers that tolerate a killed tracee.
FetchFails(p) ==
    /\ \/ Escaped(p) /\ UNCHANGED outcome
       \/ PtraceErrors /\ SetExitStatusCode("INTERNAL_ERROR", "FAILED_FETCH")
    /\ UNCHANGED <<task, wait_for_execve, syscalls_in_progress, offence>>

\* ActionProcessSyscallViolation: the tracee stays stopped until it is killed.
ActionProcessSyscallViolation ==
    /\ SetExitStatusCode("VIOLATION", "syscall")
    /\ UNCHANGED <<task, wait_for_execve>>

\* ActionProcessSyscall: "deny" is what EventSyscallTrace answers by default.
ActionProcessSyscall(p) ==
    IF task[p].sys = "execveat" /\ wait_for_execve
    THEN /\ ContinueProcess(p)
         /\ UNCHANGED <<outcome, wait_for_execve, syscalls_in_progress, offence>>
    ELSE \E trace_response \in {"allow", "inspect", "deny"} :
         \/ /\ trace_response = "allow" \/ (trace_response = "deny" /\ PermitAll)
            /\ ContinueProcess(p)
            /\ UNCHANGED <<outcome, wait_for_execve, syscalls_in_progress, offence>>
         \/ /\ trace_response = "inspect"
            /\ syscalls_in_progress' = [syscalls_in_progress EXCEPT ![p] = task[p].sys]
            /\ CompleteSyscall(p)
            /\ UNCHANGED <<outcome, wait_for_execve, offence>>
         \/ /\ trace_response = "deny" /\ ~PermitAll
            /\ offence' = TRUE
            /\ ActionProcessSyscallViolation
            /\ UNCHANGED syscalls_in_progress

\* Mutant: the event message is taken for an architecture in any case.
AnyArchitecture(t) == TRUE

\* The event message of a seccomp stop is the architecture of the syscall.  A
\* tracee killed at that stop is at its exit stop by now, and its event message
\* an exit status, which is outside the range of the architectures.
IsArchitecture(t) == t.ev = "seccomp"
SyscallArch(t) == IF t.ev = "seccomp" THEN t.arch ELSE "foreign"

EventPtraceSeccomp(p) ==
    /\ PopEvent(p, "seccomp")
    /\ \/ /\ ~IsArchitecture(task[p])
          /\ UNCHANGED <<task, outcome, wait_for_execve, syscalls_in_progress, offence>>
       \/ IsArchitecture(task[p]) /\ FetchFails(p)
       \/ /\ IsArchitecture(task[p]) /\ SyscallArch(task[p]) = "foreign"
          /\ ActionProcessSyscallViolation
          /\ UNCHANGED <<syscalls_in_progress, offence>>
       \/ /\ IsArchitecture(task[p]) /\ SyscallArch(task[p]) = "host"
          /\ ActionProcessSyscall(p)

\* An entry that should be there, or of another kind, is not: FAILED_INSPECT.
FailedInspect ==
    /\ SetExitStatusCode("INTERNAL_ERROR", "FAILED_INSPECT")
    /\ UNCHANGED <<task, wait_for_execve, syscalls_in_progress, offence>>

\* Mutant: the entry stays in syscalls_in_progress_.
ReturnSyscallKeepsEntry(p) ==
    /\ ContinueProcess(p)
    /\ UNCHANGED <<syscalls_in_progress, outcome, offence>>

\* EventSyscallReturn is called for the entry of p, if any, and p goes on.
ReturnSyscall(p) ==
    /\ syscalls_in_progress' = [syscalls_in_progress EXCEPT ![p] = "none"]
    /\ ContinueProcess(p)
    /\ UNCHANGED <<outcome, offence>>

EventSyscallExit(p) ==
    /\ PopEvent(p, "sysexit")
    /\ IF syscalls_in_progress[p] = "none" THEN FailedInspect
       ELSE FetchFails(p) \/ (ReturnSyscall(p) /\ UNCHANGED wait_for_execve)

EventPtraceNewProcess(p) ==
    /\ PopEvent(p, "newproc")
    /\ IF syscalls_in_progress[p] \notin {"none", "fork"} THEN FailedInspect
       ELSE ReturnSyscall(p) /\ UNCHANGED wait_for_execve

EventPtraceExec(p) ==
    /\ PopEvent(p, "exec")
    /\ IF wait_for_execve
       THEN /\ wait_for_execve' = FALSE
            /\ ContinueProcess(p)
            /\ UNCHANGED <<outcome, syscalls_in_progress, offence>>
       ELSE IF syscalls_in_progress[p] \notin {"none", "execveat"} THEN FailedInspect
       ELSE ReturnSyscall(p) /\ UNCHANGED wait_for_execve

\* EventPtraceExit.  Only the registers of a tracee whose result they go into are
\* fetched, and here a tracee that was killed again is an error.
EventPtraceExit(p) ==
    LET code == task[p].code IN
    /\ PopEvent(p, "exit")
    /\ syscalls_in_progress' = [syscalls_in_progress EXCEPT ![p] = "none"]
    /\ UNCHANGED <<wait_for_execve, offence>>
    /\ \/ /\ code = "exited" /\ ~(StackOnExit /\ p = Main)
          /\ ContinueProcess(p) /\ UNCHANGED outcome
       \/ /\ code # "exited" \/ (StackOnExit /\ p = Main)
          /\ \/ /\ code = "SIGSYS" \/ p = Main \/ LogAllStacks
                /\ Escaped(p) \/ PtraceErrors
                /\ SetExitStatusCode("INTERNAL_ERROR", "FAILED_FETCH")
                /\ UNCHANGED task
             \/ code = "SIGSYS" /\ ActionProcessSyscallViolation
             \/ /\ code # "SIGSYS" /\ p = Main
                /\ SetMainDeath(IF code = "exited" THEN "OK" ELSE "SIGNALED")
                /\ ContinueProcess(p)
             \/ /\ code # "SIGSYS" /\ p # Main
                /\ ContinueProcess(p) /\ UNCHANGED outcome

\* Mutant: only the main process is continued.
EventPtraceStopOfMain(p) ==
    /\ PopEvent(p, "stop")
    /\ IF p = Main THEN ContinueProcess(p) ELSE UNCHANGED task
    /\ UNCHANGED <<outcome, wait_for_execve, syscalls_in_progress, offence>>

\* EventPtraceStop; PTRACE_EVENT_VFORK_DONE is handled the same way.  A group-stop
\* is left with PTRACE_LISTEN, which like PTRACE_CONT lets the tracee report its
\* next event.
EventPtraceStop(p) ==
    /\ PopEvent(p, "stop")
    /\ ContinueProcess(p)
    /\ UNCHANGED <<outcome, wait_for_execve, syscalls_in_progress, offence>>

StateProcessStopped(p) ==
    \/ HandleSignalStop(p)
    \/ \E st \in StopEvents : HandleNoEventMsg(p, st)
    \/ EventPtraceSeccomp(p) \/ EventSyscallExit(p) \/ EventPtraceNewProcess(p)
    \/ EventPtraceExec(p) \/ EventPtraceExit(p) \/ EventPtraceStop(p)

(***************************************************************************)
(* After the loop: unless the main process was seen to die, kill it and    *)
(* reap for 200 ms (or log the stacks of all tracees for a while).         *)
(***************************************************************************)
log_stack_traces == result.status # "OK" /\ LogAllStacks

DrainUnchanged == UNCHANGED <<outcome, sandboxee_exited, flags,
                              syscalls_in_progress, handshake, requests, offence>>

DrainStart ==
    /\ pc = "drain_start"
    /\ IF sandboxee_exited
       THEN pc' = "finish" /\ UNCHANGED <<task, draining>>
       ELSE /\ pc' = "drain" /\ draining' = TRUE
            /\ task' = IF log_stack_traces THEN task
                       ELSE [task EXCEPT ![Main] = SigKilled(@)]
    /\ UNCHANGED waiter /\ DrainUnchanged

DrainTimeout ==
    /\ pc = "drain"
    /\ pc' = "finish"
    /\ UNCHANGED <<task, waiter, draining>> /\ DrainUnchanged

DrainWait ==
    /\ pc = "drain"
    /\ pc' = "wait"
    /\ UNCHANGED <<task, waiter, draining>> /\ DrainUnchanged

\* Wait() returned 0 (sigtimedwait sleeps for the time left) or -1 (give up).
DrainNothing ==
    /\ pc = "pop" /\ draining /\ statuses = <<>>
    /\ pc' = IF last_errno THEN "finish" ELSE "drain"
    /\ last_errno' = FALSE
    /\ UNCHANGED <<task, statuses, draining>> /\ DrainUnchanged

DrainStatus ==
    /\ pc = "pop" /\ draining /\ statuses # <<>>
    /\ statuses' = Tail(statuses)
    /\ LET p == Head(statuses).pid
           st == Head(statuses).st
       IN IF ~log_stack_traces /\ p = Main /\ st \in {"SIGNALED", "EXITED"}
          THEN pc' = "finish" /\ UNCHANGED task
          ELSE /\ pc' = "drain"
               /\ task' = IF st = "exit" THEN [task EXCEPT ![p] = Resumed(@, "cont")]
                          ELSE IF log_stack_traces THEN task
                          ELSE [task EXCEPT ![Main] = SigKilled(@)]
    /\ UNCHANGED <<last_errno, draining>> /\ DrainUnchanged

\* The cleanup monitor_done: OnDone() calls EventFinished and notifies
\* done_notification_.
OnDone ==
    /\ pc = "finish"
    /\ done' = TRUE
    /\ pc' = "exit"
    /\ UNCHANGED <<task, outcome, waiter, draining, sandboxee_exited, flags,
                   syscalls_in_progress, setup_notified, launcher, requests, offence>>

\* The reasons with which Run() returns before the sandboxee is attached.
SetupReasons == {"FAILED_SIGNALS", "FAILED_PTRACE"}
Attached == setup_notified /\ result.reason \notin SetupReasons

\* The thread is gone, and PTRACE_O_EXITKILL kills what it still traces.
ThreadExit ==
    /\ pc = "exit"
    /\ pc' = "exited"
    /\ task' = IF Attached THEN [p \in Pids |-> SigKilled(task[p])] ELSE task
    /\ UNCHANGED <<outcome, waiter, draining, sandboxee_exited, flags,
                   syscalls_in_progress, handshake, requests, offence>>

Monitor ==
    \/ SetupSignals \/ Attach \/ NotifySetupFailed
    \/ LeaveLoop \/ CheckDeadline \/ CheckDump \/ CheckKill \/ CheckNetwork
    \/ StartWait \/ RefillMain \/ RefillAny \/ NothingWaiting
    \/ \E p \in Pids : HandleExited(p) \/ HandleSignaled(p) \/ StateProcessStopped(p)
    \/ DrainStart \/ DrainTimeout \/ DrainWait \/ DrainNothing \/ DrainStatus
    \/ OnDone \/ ThreadExit

(***************************************************************************)
(* The other threads of the host.                                          *)
(***************************************************************************)
HostUnchanged == UNCHANGED <<task, pc, waiter, draining, sandboxee_exited, flags,
                             syscalls_in_progress, offence>>

\* RunInternal() returns, and RunAsync() looks at the result.
RunAsync ==
    /\ launcher = "waiting" /\ setup_notified
    /\ launcher' = IF done /\ result.status = "SETUP_ERROR" THEN "failed" ELSE "started"
    /\ UNCHANGED <<outcome, setup_notified, done, requests>> /\ HostUnchanged

\* Mutant: Join() does not wait for the thread.
AwaitResultNoJoin ==
    /\ launcher \in {"started", "failed"}
    /\ launcher' = "joined"
    /\ UNCHANGED <<outcome, setup_notified, done, requests>> /\ HostUnchanged

\* AwaitResult(): Join() waits for the thread and CHECKs what it left.
AwaitResult ==
    /\ launcher \in {"started", "failed"} /\ pc = "exited"
    /\ launcher' = "joined"
    /\ aborted' = (aborted \/ ~done \/ result = Unset)
    /\ UNCHANGED <<result, setup_notified, done, requests>> /\ HostUnchanged

Kill ==
    /\ "kill" \in Requests /\ launcher # "joined"
    /\ kill_request' = TRUE
    /\ UNCHANGED <<outcome, handshake, deadline, dump_request, proxy_violation>>
    /\ HostUnchanged

DumpStackTrace ==
    /\ "dump" \in Requests /\ launcher # "joined"
    /\ dump_request' = TRUE
    /\ UNCHANGED <<outcome, handshake, deadline, kill_request, proxy_violation>>
    /\ HostUnchanged

SetWallTimeLimit ==
    /\ "limit" \in Requests /\ launcher # "joined"
    /\ deadline' \in {"disarmed", "armed"}
    /\ UNCHANGED <<outcome, handshake, kill_request, dump_request, proxy_violation>>
    /\ HostUnchanged

\* Time passes the deadline.
DeadlinePasses ==
    /\ deadline = "armed"
    /\ deadline' = "passed"
    /\ UNCHANGED <<outcome, handshake, kill_request, dump_request, proxy_violation>>
    /\ HostUnchanged

\* NetworkProxyServer::NotifyViolation, on a request of a running sandboxee.
ProxyViolation ==
    /\ "proxy" \in Requests /\ Alive(Main) /\ ~proxy_violation /\ Attached
    /\ proxy_violation' = TRUE /\ offence' = TRUE
    /\ UNCHANGED <<outcome, handshake, deadline, kill_request, dump_request, task,
                   pc, waiter, draining, sandboxee_exited, flags,
                   syscalls_in_progress>>

Host == RunAsync \/ AwaitResult \/ Kill \/ DumpStackTrace \/ SetWallTimeLimit
        \/ DeadlinePasses \/ ProxyViolation

(***************************************************************************)
(* The kernel, as the monitor meets it through waitpid() and ptrace().     *)
(***************************************************************************)
KernelUnchanged == UNCHANGED <<pc, outcome, waiter, draining, sandboxee_exited,
                               flags, syscalls_in_progress, handshake, requests>>

\* Tracees stop as long as the monitor thread is there to be told.
Tracing == Attached /\ pc # "exited"

\* A running tracee may report anything, unless it is in a syscall resumed with
\* PTRACE_SYSCALL: that ends in a syscall-exit stop, a successful fork or exec in
\* an event of its own.
Free(p) == task[p].life = "running" /\ task[p].mode = "cont"
InSyscall(p, class) ==
    task[p].life = "running" /\ task[p].mode = "syscall" /\ task[p].sys \in class

TraceeStops(p) ==
    /\ Tracing
    /\ \/ /\ Free(p)
          /\ \E ev \in {"signal", "stop", "exec"} \cap Events :
                 task' = [task EXCEPT ![p] = StopAt(@, ev)]
       \/ /\ InSyscall(p, {"execveat"})
          /\ task' = [task EXCEPT ![p] = StopAt(@, "exec")]
       \/ /\ InSyscall(p, SyscallClasses)
          /\ task' = [task EXCEPT ![p] = StopAt(@, "sysexit")]
    /\ UNCHANGED offence /\ KernelUnchanged

\* A syscall that the seccomp policy traces; another architecture than the
\* host's is an offence.
TraceeSyscall(p) ==
    /\ "seccomp" \in Events /\ Tracing /\ Free(p)
    /\ \E class \in SyscallClasses \ {"none"},
          arch \in {"host"} \cup ({"foreign"} \cap Events) :
          /\ task' = [task EXCEPT ![p] = [StopAt(@, "seccomp") EXCEPT
                                            !.sys = class, !.arch = arch]]
          /\ offence' = (offence \/ arch = "foreign")
    /\ KernelUnchanged

\* The new process is seized too and starts in PTRACE_EVENT_STOP.
TraceeForks(p, child) ==
    /\ "newproc" \in Events
    /\ Tracing /\ (Free(p) \/ InSyscall(p, {"fork"}))
    /\ task[child].life = "none"
    /\ task' = [task EXCEPT ![p] = StopAt(@, "newproc"),
                            ![child] = StopAt(NoTask, "stop")]
    /\ UNCHANGED offence /\ KernelUnchanged

\* A tracee exits, or dies of a signal (SIGSYS: the seccomp policy killed it).
TraceeExits(p, code) ==
    /\ Tracing /\ task[p].life = "running"
    /\ task' = [task EXCEPT ![p] = [StopAt(NoTask, "exit") EXCEPT
                                      !.code = code, !.killed = task[p].killed]]
    /\ offence' = (offence \/ code = "SIGSYS")
    /\ KernelUnchanged

\* SIGKILL takes effect: it ends any stop.  The tracee may stop once more at its
\* exit; at its exit stop already, it dies with the exit code it has.
SigKillLands(p) ==
    /\ Alive(p) /\ task[p].killed
    /\ \/ /\ Tracing /\ task[p].ev # "exit"
          /\ task' = [task EXCEPT ![p] =
                        [StopAt(NoTask, "exit") EXCEPT !.code = "killed"]]
       \/ task' = [task EXCEPT ![p] = Dead(
                        IF @.ev = "exit" THEN @ ELSE [@ EXCEPT !.code = "killed"])]
    /\ UNCHANGED offence /\ KernelUnchanged

\* SIGKILL from elsewhere: the OOM killer, the end of the pid namespace, another
\* process of the sandbox.
KilledByOther(p) ==
    /\ "sigkill" \in Events /\ Tracing /\ Alive(p) /\ ~task[p].killed
    /\ task' = [task EXCEPT ![p] = SigKilled(@)]
    /\ UNCHANGED offence /\ KernelUnchanged

\* The real parent (init, the fork server) reaps what the monitor has reaped.
ParentReaps(p) ==
    /\ task[p].life = "reaped"
    /\ task' = [task EXCEPT ![p].life = "gone"]
    /\ UNCHANGED offence /\ KernelUnchanged

Kernel ==
    \E p \in Pids :
        \/ TraceeStops(p) \/ TraceeSyscall(p)
        \/ \E child \in Others : TraceeForks(p, child)
        \/ \E code \in {"exited", "SIGSYS", "killed"} \cap Events : TraceeExits(p, code)
        \/ SigKillLands(p) \/ KilledByOther(p) \/ ParentReaps(p)

Next == Monitor \/ Host \/ Kernel

Spec == Init /\ [][Next]_vars

\* The monitor thread is never blocked for good (every sleep has a timeout), the
\* time for the last wait runs out, a thread waiting for the monitor is woken,
\* and a SIGKILL takes effect.
Fairness == /\ WF_vars(Monitor)
            /\ SF_vars(DrainTimeout)
            /\ WF_vars(RunAsync \/ AwaitResult)
            /\ \A p \in Pids : WF_vars(SigKillLands(p))

FairSpec == Spec /\ Fairness

-----------------------------------------------------------------------------
Results == [status : {"UNSET", "OK", "SETUP_ERROR", "VIOLATION", "SIGNALED",
                      "TIMEOUT", "EXTERNAL_KILL", "INTERNAL_ERROR"},
            reason : SetupReasons \cup
                     {"none", "syscall", "NETWORK", "FAILED_MONITOR", "FAILED_KILL",
                      "FAILED_INTERRUPT", "FAILED_CHILD", "FAILED_GETEVENT",
                      "FAILED_FETCH", "FAILED_INSPECT"}]

LoopPcs == {"loop", "dump", "kill", "network"}
WaitPcs == {"wait", "refill_main", "refill_any", "pop"}
EndPcs == {"drain_start", "drain", "finish", "exit", "exited"}

\* The abstract run that this monitor implements.
Run == INSTANCE SandboxRun WITH Results <- Results \ {Unset}, Unset <- Unset

\* PtraceMonitor implements SandboxRun: the result is set exactly once, before
\* OnDone(), and AwaitResult() returns after both.
ImplementsSandboxRun == Run!Spec

\* Every variable has its type, in the code's terms: the queue of the PidWaiter
\* holds (pid, status) pairs, each tracee is in one state of the kernel.
TypeOK ==
    /\ task \in [Pids -> Task]
    /\ pc \in {"setup", "attach", "setup_failed"} \cup LoopPcs \cup WaitPcs \cup EndPcs
    /\ result \in Results /\ aborted \in BOOLEAN
    /\ statuses \in Seq([pid : Pids, st : Statuses]) /\ last_errno \in BOOLEAN
    /\ draining \in BOOLEAN /\ sandboxee_exited \in BOOLEAN
    /\ timed_out \in BOOLEAN /\ external_kill \in BOOLEAN
    /\ network_violation \in BOOLEAN /\ should_dump_stack \in BOOLEAN
    /\ wait_for_execve \in BOOLEAN
    /\ syscalls_in_progress \in [Pids -> SyscallClasses]
    /\ setup_notified \in BOOLEAN /\ done \in BOOLEAN
    /\ launcher \in {"waiting", "started", "failed", "joined"}
    /\ deadline \in {"disarmed", "armed", "passed"}
    /\ kill_request \in BOOLEAN /\ dump_request \in BOOLEAN
    /\ proxy_violation \in BOOLEAN /\ offence \in BOOLEAN

\* No CHECK fails: SetExitStatusCode (monitor_base.cc) never meets a status set
\* before, whatever kills, deadlines and events come together, and Join()
\* (monitor_ptrace.cc) finds the monitor done with a result.
ChecksHold == ~aborted

\* The "PANIC()" of the main loop is never reached: waitpid() runs out of
\* tracees only after the death of the main process was collected, and that
\* status is handled before the ECHILD behind it is looked at.
NoPanic == result.reason # "FAILED_CHILD"

\* syscalls_in_progress_ has exactly the entry that a syscall-exit, fork or exec
\* stop expects, although entries outlive the syscall when a tracee is killed in
\* it: FAILED_INSPECT is never the result.
InspectionsMatch == result.reason # "FAILED_INSPECT"

\* A VIOLATION is reported only when a traced syscall was denied or came from
\* another architecture, the policy killed a process, or the network proxy saw
\* a violation; never because a seccomp stop was handled after its tracee had
\* been killed and the event message was its exit status.
ViolationIsReal == result.status = "VIOLATION" => offence

\* No tracee is forgotten in a stop while the run goes on: its stop is still to
\* be collected, or queued in the PidWaiter, or ended by a SIGKILL on its way.
Queued(p, st) == \E i \in 1..Len(statuses) : statuses[i] = [pid |-> p, st |-> st]
NoForgottenStop ==
    result = Unset =>
        \A p \in Pids : task[p].life = "stopped" =>
            task[p].fresh \/ task[p].killed \/ Queued(p, task[p].ev)

\* The sandboxee is OK only when its program was started under the policy: a
\* client that exits before its execveat() is a set-up error.
OkOnlyIfMonitored == result.status = "OK" => ~wait_for_execve

\* A tracee stopped at a traced syscall goes on only when the monitor handles
\* that very stop: a status left over from an earlier stop never resumes it.
EverySyscallExamined ==
    [][\A p \in Pids :
          (task[p].ev = "seccomp" /\ task'[p].life = "running") =>
              (statuses # <<>> /\ Head(statuses) = [pid |-> p, st |-> "seccomp"])]_vars

\* A run that is to end ends, and nothing of it is left: a request to kill the
\* sandboxee is handled, whatever the tracees do and whichever statuses are
\* queued before the one of the main process; so is a deadline that passes and
\* is not moved; and once the run is done no tracee survives: those the monitor
\* did not reap die with its thread.
RunEnds ==
    /\ kill_request ~> done
    /\ deadline = "passed" ~> (done \/ deadline # "passed")
    /\ (done /\ Attached) ~> (\A p \in Pids : ~Alive(p))
=============================================================================
