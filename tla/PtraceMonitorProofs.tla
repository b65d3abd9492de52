------------------------- MODULE PtraceMonitorProofs -------------------------
(***************************************************************************)
(* For any sandboxee, any requests and any faults: the types of            *)
(* PtraceMonitor, that none of its CHECKs fails, and that it implements    *)
(* SandboxRun; then what it knows of its tracees while their stops wait in *)
(* the PidWaiter.  No stop is forgotten or handled for another, no syscall *)
(* goes on unexamined, the monitor never panics, and what it reports is    *)
(* what happened.                                                          *)
(***************************************************************************)
EXTENDS PtraceMonitor, TLAPS

(***************************************************************************)
(* Types.  A tracee is stopped at some event or not stopped, so what       *)
(* waitpid() returns for it is a status; a seccomp stop is one at a        *)
(* syscall.                                                                *)
(***************************************************************************)
KernelTask == {t \in Task : /\ t.life = "stopped" <=> t.ev \in StopEvents
                            /\ t.ev = "seccomp" => t.sys # "none"}

TaskType == task \in [Pids -> KernelTask]
OutcomeType == result \in Results /\ aborted \in BOOLEAN
WaiterType ==
    /\ statuses \in Seq([pid : Pids, st : Statuses]) /\ last_errno \in BOOLEAN
    /\ pc \in {"setup", "attach", "setup_failed"} \cup LoopPcs \cup WaitPcs \cup EndPcs
SyscallsType == syscalls_in_progress \in [Pids -> SyscallClasses]
FlagsType ==
    /\ draining \in BOOLEAN /\ sandboxee_exited \in BOOLEAN
    /\ timed_out \in BOOLEAN /\ external_kill \in BOOLEAN
    /\ network_violation \in BOOLEAN /\ should_dump_stack \in BOOLEAN
    /\ wait_for_execve \in BOOLEAN /\ offence \in BOOLEAN
HostType ==
    /\ setup_notified \in BOOLEAN /\ done \in BOOLEAN
    /\ launcher \in {"waiting", "started", "failed", "joined"}
    /\ deadline \in {"disarmed", "armed", "passed"}
    /\ kill_request \in BOOLEAN /\ dump_request \in BOOLEAN /\ proxy_violation \in BOOLEAN

TypeInv == TaskType /\ OutcomeType /\ WaiterType /\ SyscallsType /\ FlagsType /\ HostType

\* The parts give the type invariant that the runs check.
LEMMA TypeParts == TypeInv => TypeOK
<1>1. TaskType => task \in [Pids -> Task]
    BY Zenon DEF TaskType, KernelTask
<1> QED BY <1>1, Zenon DEF TypeInv, TypeOK, OutcomeType, WaiterType, SyscallsType, FlagsType,
                    HostType

\* What the operators on the state of a tracee return.
LEMMA StopAtType ==
    ASSUME NEW t \in Task, NEW ev \in StopEvents \ {"seccomp"}
    PROVE  StopAt(t, ev) \in KernelTask
BY Zenon DEF Task, KernelTask, StopAt, Lives, StopEvents

\* A dead tracee is a zombie.
LEMMA DeadType ==
    ASSUME NEW t \in Task
    PROVE  Dead(t) \in KernelTask
BY ZenonT(30) DEF Task, KernelTask, Dead, Lives, SyscallClasses, StopEvents

\* PTRACE_CONT and PTRACE_SYSCALL leave a tracee in a state of the kernel.
LEMMA ResumedType ==
    ASSUME NEW t \in KernelTask, NEW how \in {"cont", "syscall"}
    PROVE  Resumed(t, how) \in KernelTask
<1>1. t \in Task
    BY Zenon DEF KernelTask
<1>2. CASE t.life # "stopped" \/ t.ev = "exit"
    BY <1>1, <1>2, DeadType, Zenon DEF Resumed
<1>3. CASE t.life = "stopped" /\ t.ev # "exit"
    <2>1. Resumed(t, how) \in Task
        BY <1>1, <1>3, Zenon DEF Resumed, Task, Lives, SyscallClasses
    <2>2. Resumed(t, how).life = "running" /\ Resumed(t, how).ev = "none"
        BY <1>1, <1>3, Zenon DEF Resumed, Task
    <2> QED BY <2>1, <2>2, Zenon DEF KernelTask, StopEvents
<1> QED BY <1>2, <1>3, Zenon

\* So does kill(2).
LEMMA SigKilledType ==
    ASSUME NEW t \in KernelTask
    PROVE  SigKilled(t) \in KernelTask
BY Zenon DEF KernelTask, Task, SigKilled

\* What waitpid() returns is a status.
LEMMA WaitStatusType ==
    ASSUME NEW t \in KernelTask
    PROVE  WaitStatus(t) \in Statuses
BY Zenon DEF KernelTask, WaitStatus, Statuses

\* The states in which tracees begin.
LEMMA NewTaskTypes == NoTask \in KernelTask /\ RunningTask \in KernelTask
BY Zenon DEF KernelTask, Task, NoTask, RunningTask, Lives, StopEvents, ExitCodes,
       SyscallClasses

\* The initial values have their types.
LEMMA TypeInit == Init => TypeInv
<1> SUFFICES ASSUME Init PROVE TypeInv
    OBVIOUS
<1>1. TaskType
    BY NewTaskTypes, Zenon DEF Init, TaskType
<1>2. OutcomeType
    BY Zenon DEF Init, Unset, Results, OutcomeType
<1>3. WaiterType
    <2>1. statuses \in Seq([pid : Pids, st : Statuses])
        BY DEF Init
    <2> QED BY <2>1, Zenon DEF Init, WaiterType
<1>4. SyscallsType
    BY Zenon DEF Init, SyscallsType, SyscallClasses
<1>5. FlagsType
    BY FlagsAssumption, Zenon DEF Init, FlagsType
<1>6. HostType
    BY Zenon DEF Init, HostType
<1> QED BY <1>1, <1>2, <1>3, <1>4, <1>5, <1>6, Zenon DEF TypeInv

\* A status the monitor sets is a result.
FinalStatuses == {"OK", "SETUP_ERROR", "VIOLATION", "SIGNALED", "TIMEOUT",
                  "EXTERNAL_KILL", "INTERNAL_ERROR"}
Reasons == {"FAILED_SIGNALS", "FAILED_PTRACE", "none", "syscall", "NETWORK",
            "FAILED_MONITOR", "FAILED_KILL", "FAILED_INTERRUPT", "FAILED_CHILD",
            "FAILED_GETEVENT", "FAILED_FETCH", "FAILED_INSPECT"}

\* SetExitStatusCode keeps the type of result_.
LEMMA SetType ==
    ASSUME OutcomeType, NEW s \in FinalStatuses, NEW r \in Reasons,
           SetExitStatusCode(s, r)
    PROVE  OutcomeType'
<1>1. [status |-> s, reason |-> r] \in Results
    BY Zenon DEF Results, FinalStatuses, Reasons, SetupReasons
<1> QED BY <1>1, Zenon DEF OutcomeType, SetExitStatusCode

\* So does what the death of the main process is turned into.
LEMMA MainDeathType ==
    ASSUME OutcomeType, NEW s \in {"OK", "SIGNALED"}, SetMainDeath(s)
    PROVE  OutcomeType'
BY SetType, Zenon DEF SetMainDeath, FinalStatuses, Reasons

\* The requests to ptrace() and kill(2) keep the type of the tracees.
LEMMA TaskUpdateType ==
    ASSUME TaskType, NEW p \in Pids, NEW t \in KernelTask,
           task' = [task EXCEPT ![p] = t]
    PROVE  TaskType'
BY Zenon DEF TaskType

\* ContinueProcess and CompleteSyscall.
LEMMA ContinueType ==
    ASSUME TaskType, NEW p \in Pids, ContinueProcess(p) \/ CompleteSyscall(p)
    PROVE  TaskType'
BY ResumedType, Zenon DEF TaskType, ContinueProcess, CompleteSyscall

\* Killing the main process.
LEMMA KillType ==
    ASSUME TaskType, task' = [task EXCEPT ![Main] = SigKilled(@)]
    PROVE  TaskType'
BY SigKilledType, Zenon DEF TaskType, Pids

\* KillSandboxee() keeps the types it can disturb.
LEMMA KillSandboxeeType ==
    ASSUME TaskType, OutcomeType, NEW next \in {"dump", "network", "wait"},
           KillSandboxee(next)
    PROVE  TaskType' /\ OutcomeType' /\ pc' \in {next, "drain_start"}
<1>1. TaskType'
    BY KillType, Zenon DEF KillSandboxee, TaskType
<1>2. OutcomeType'
    BY SetType, Zenon DEF KillSandboxee, outcome, OutcomeType, FinalStatuses, Reasons
<1> QED BY <1>1, <1>2, Zenon DEF KillSandboxee

\* InterruptSandboxee() keeps the type of result_.
LEMMA InterruptType ==
    ASSUME OutcomeType, InterruptSandboxee("kill")
    PROVE  OutcomeType' /\ pc' \in {"kill", "drain_start"}
<1>1. OutcomeType'
    BY SetType, Zenon DEF InterruptSandboxee, outcome, OutcomeType, FinalStatuses, Reasons
<1> QED BY <1>1, Zenon DEF InterruptSandboxee

\* The steps of set-up and of the top of the loop keep the types.
LoopTop == SetupSignals \/ Attach \/ NotifySetupFailed \/ LeaveLoop \/ CheckDeadline
           \/ CheckDump \/ CheckKill \/ CheckNetwork

\* They keep the types of all variables.
LEMMA LoopTopTypes == TypeInv /\ LoopTop => TypeInv'
<1> SUFFICES ASSUME TypeInv, LoopTop PROVE TypeInv'
    OBVIOUS
<1> USE DEF TypeInv, flags, requests, waiter, outcome, handshake
<1>f. ASSUME NEW r \in SetupReasons, SetupFailed(r) PROVE TypeInv'
    <2>1. OutcomeType'
        BY <1>f, SetType, Zenon DEF SetupFailed, SetupReasons, FinalStatuses, Reasons
    <2> QED BY <1>f, <2>1 DEF SetupFailed, TaskType, WaiterType, SyscallsType,
                              FlagsType, HostType
<1>1. CASE SetupSignals
    BY <1>1, <1>f DEF SetupSignals, SetupReasons, TaskType, OutcomeType, WaiterType,
                      SyscallsType, FlagsType, HostType
<1>2. CASE Attach
    <2>1. CASE SetupFailed("FAILED_PTRACE")
        BY <2>1, <1>f, Zenon DEF SetupReasons
    <2>2. CASE ~SetupFailed("FAILED_PTRACE")
        <3>1. /\ setup_notified' = TRUE /\ pc' = "loop"
              /\ UNCHANGED <<task, outcome, waiter, draining, sandboxee_exited, flags,
                             syscalls_in_progress, done, launcher, requests, offence>>
            BY <1>2, <2>2, Zenon DEF Attach
        <3> QED BY <3>1 DEF TaskType, OutcomeType, WaiterType, SyscallsType, FlagsType,
                            HostType, LoopPcs
    <2> QED BY <2>1, <2>2, Zenon
<1>3. CASE NotifySetupFailed
    BY <1>3 DEF NotifySetupFailed, TaskType, OutcomeType, WaiterType, SyscallsType,
                FlagsType, HostType, EndPcs
<1>4. CASE LeaveLoop
    BY <1>4 DEF LeaveLoop, TaskType, OutcomeType, WaiterType, SyscallsType, FlagsType,
                HostType, EndPcs
<1>5. CASE CheckDeadline
    <2>1. TaskType' /\ OutcomeType' /\ pc' \in {"dump", "drain_start"}
        BY <1>5, KillSandboxeeType, Zenon DEF CheckDeadline, TaskType, OutcomeType
    <2>2. FlagsType'
        BY <1>5, Zenon DEF CheckDeadline, FlagsType
    <2>3. WaiterType'
        BY <1>5, <2>1, Zenon DEF CheckDeadline, WaiterType, LoopPcs, EndPcs
    <2> QED BY <1>5, <2>1, <2>2, <2>3, Zenon DEF CheckDeadline, SyscallsType, HostType
<1>6. CASE CheckDump
    <2>1. OutcomeType' /\ pc' \in {"kill", "drain_start"}
        BY <1>6, InterruptType, Zenon DEF CheckDump, OutcomeType
    <2>2. FlagsType'
        BY <1>6, Zenon DEF CheckDump, FlagsType
    <2>3. WaiterType'
        BY <1>6, <2>1, Zenon DEF CheckDump, WaiterType, LoopPcs, EndPcs
    <2> QED BY <1>6, <2>1, <2>2, <2>3, Zenon DEF CheckDump, SyscallsType, HostType, TaskType
<1>7. CASE CheckKill
    <2>1. TaskType' /\ OutcomeType' /\ pc' \in {"network", "drain_start"}
        BY <1>7, KillSandboxeeType, Zenon DEF CheckKill, TaskType, OutcomeType
    <2>2. FlagsType'
        BY <1>7, Zenon DEF CheckKill, FlagsType
    <2>3. WaiterType'
        BY <1>7, <2>1, Zenon DEF CheckKill, WaiterType, LoopPcs, EndPcs
    <2> QED BY <1>7, <2>1, <2>2, <2>3, Zenon DEF CheckKill, SyscallsType, HostType
<1>8. CASE CheckNetwork
    <2>1. TaskType' /\ OutcomeType' /\ pc' \in {"wait", "drain_start"}
        BY <1>8, KillSandboxeeType, Zenon DEF CheckNetwork, TaskType, OutcomeType
    <2>2. FlagsType'
        BY <1>8, Zenon DEF CheckNetwork, FlagsType
    <2>3. WaiterType'
        BY <1>8, <2>1, Zenon DEF CheckNetwork, WaiterType, WaitPcs, EndPcs
    <2> QED BY <1>8, <2>1, <2>2, <2>3, Zenon DEF CheckNetwork, SyscallsType, HostType
<1> QED BY <1>1, <1>2, <1>3, <1>4, <1>5, <1>6, <1>7, <1>8, Zenon DEF LoopTop

\* Collecting a status puts a pair of a pid and a status into the queue.
LEMMA CollectType ==
    ASSUME TaskType, WaiterType, NEW p \in Pids, Collect(p)
    PROVE  TaskType' /\ statuses' \in Seq([pid : Pids, st : Statuses])
<1>1. task[p] \in KernelTask
    BY Zenon DEF TaskType
<1>2. WaitStatus(task[p]) \in Statuses
    BY <1>1, WaitStatusType, Zenon
<1>3. statuses' \in Seq([pid : Pids, st : Statuses])
    BY <1>2 DEF Collect, WaiterType
<1>4. [task[p] EXCEPT !.fresh = FALSE,
                      !.life = IF @ = "zombie" THEN "reaped" ELSE @] \in KernelTask
    BY <1>1, ZenonT(30) DEF KernelTask, Task, Lives
<1> QED BY <1>3, <1>4, Zenon DEF Collect, TaskType

\* The steps of PidWaiter keep the types.
Waiting == StartWait \/ RefillMain \/ RefillAny \/ NothingWaiting

\* They keep the types of all variables.
LEMMA WaitingTypes == TypeInv /\ Waiting => TypeInv'
<1> SUFFICES ASSUME TypeInv, Waiting PROVE TypeInv'
    OBVIOUS
<1> USE DEF TypeInv, flags, requests, waiter, outcome, handshake
<1>w. ASSUME WaiterUnchanged, TaskType', WaiterType' PROVE TypeInv'
    BY <1>w DEF WaiterUnchanged, OutcomeType, SyscallsType, FlagsType, HostType
<1>1. CASE StartWait
    BY <1>1, <1>w, Zenon DEF StartWait, TaskType, WaiterType, WaitPcs
<1>2. CASE RefillMain
    <2>1. Main \in Pids
        BY Zenon DEF Pids
    <2>2. TaskType' /\ statuses' \in Seq([pid : Pids, st : Statuses])
        BY <1>2, <2>1, CollectType, Zenon DEF RefillMain, TaskType, WaiterType
    <2>3. WaiterUnchanged /\ last_errno' \in BOOLEAN /\ pc' \in WaitPcs
        BY <1>2, Zenon DEF RefillMain, WaiterType, WaitPcs
    <2> QED BY <2>2, <2>3, <1>w, Zenon DEF WaiterType
<1>3. CASE RefillAny
    <2>1. TaskType' /\ statuses' \in Seq([pid : Pids, st : Statuses])
        BY <1>3, CollectType, Zenon DEF RefillAny, TaskType, WaiterType
    <2>2. WaiterUnchanged /\ last_errno' \in BOOLEAN /\ pc' \in WaitPcs
        BY <1>3, Zenon DEF RefillAny, WaiterType, WaitPcs
    <2> QED BY <2>1, <2>2, <1>w, Zenon DEF WaiterType
<1>4. CASE NothingWaiting
    <2>1. OutcomeType'
        BY <1>4, SetType, Zenon DEF NothingWaiting, OutcomeType, FinalStatuses, Reasons
    <2>2. /\ last_errno' = FALSE /\ pc' = "loop"
          /\ UNCHANGED <<task, statuses, draining, sandboxee_exited, flags,
                         syscalls_in_progress, handshake, requests, offence>>
        BY <1>4, Zenon DEF NothingWaiting
    <2>3. WaiterType'
        BY <2>2, Zenon DEF WaiterType, LoopPcs
    <2>4. FlagsType' /\ HostType'
        BY <2>2 DEF FlagsType, HostType
    <2> QED BY <2>1, <2>2, <2>3, <2>4, Zenon DEF TaskType, SyscallsType
<1> QED BY <1>1, <1>2, <1>3, <1>4, Zenon DEF Waiting

\* Popping a status leaves the types of what a handler does not set.
LEMMA PopTypes ==
    ASSUME TypeInv, NEW p, NEW st, Pop(p, st), TaskType', OutcomeType', SyscallsType',
           sandboxee_exited' \in BOOLEAN, should_dump_stack' \in BOOLEAN,
           wait_for_execve' \in BOOLEAN, offence' \in BOOLEAN
    PROVE  TypeInv'
<1>1. WaiterType'
    BY DEF TypeInv, Pop, WaiterType, LoopPcs
<1>2. FlagsType'
    BY Zenon DEF TypeInv, Pop, FlagsType
<1>3. HostType'
    BY Zenon DEF TypeInv, Pop, HostType, handshake, requests
<1> QED BY <1>1, <1>2, <1>3, Zenon DEF TypeInv

\* Handling a death keeps the types.
LEMMA DeathTypes ==
    ASSUME TypeInv, NEW p \in Pids, HandleExited(p) \/ HandleSignaled(p)
    PROVE  TypeInv'
<1>1. CASE HandleExited(p)
    <2>1. OutcomeType'
        BY <1>1, SetType, Zenon DEF HandleExited, TypeInv, OutcomeType, outcome, FinalStatuses,
                             Reasons
    <2>2. /\ TaskType' /\ SyscallsType' /\ should_dump_stack' \in BOOLEAN
          /\ wait_for_execve' \in BOOLEAN /\ offence' \in BOOLEAN
        BY <1>1, Zenon DEF HandleExited, TypeInv, TaskType, SyscallsType, FlagsType
    <2>3. sandboxee_exited' \in BOOLEAN
        BY <1>1, Zenon DEF HandleExited, TypeInv, FlagsType
    <2> QED BY <1>1, <2>1, <2>2, <2>3, PopTypes, Zenon DEF HandleExited
<1>2. CASE HandleSignaled(p)
    <2>1. OutcomeType'
        BY <1>2, MainDeathType, Zenon DEF HandleSignaled, TypeInv, OutcomeType, outcome
    <2>2. /\ TaskType' /\ SyscallsType' /\ should_dump_stack' \in BOOLEAN
          /\ wait_for_execve' \in BOOLEAN /\ offence' \in BOOLEAN
        BY <1>2, Zenon DEF HandleSignaled, TypeInv, TaskType, SyscallsType, FlagsType
    <2>3. sandboxee_exited' \in BOOLEAN
        BY <1>2, Zenon DEF HandleSignaled, TypeInv, FlagsType
    <2> QED BY <1>2, <2>1, <2>2, <2>3, PopTypes, Zenon DEF HandleSignaled
<1> QED BY <1>1, <1>2, Zenon

\* A handler that ends by fetching, violating, completing or continuing keeps the
\* types that are left to it.
BodyType == /\ TaskType' /\ OutcomeType' /\ SyscallsType'
            /\ wait_for_execve' \in BOOLEAN /\ offence' \in BOOLEAN

\* With it the whole handler keeps the types.
LEMMA EventTypes ==
    ASSUME TypeInv, NEW p, NEW st, PopEvent(p, st), BodyType
    PROVE  TypeInv'
<1>1. sandboxee_exited' \in BOOLEAN /\ should_dump_stack' \in BOOLEAN
    BY Zenon DEF PopEvent, TypeInv, FlagsType
<1> QED BY <1>1, PopTypes, Zenon DEF PopEvent, BodyType

\* A failed Regs::Fetch.
LEMMA FetchFailsType ==
    ASSUME TypeInv, NEW p, FetchFails(p)
    PROVE  BodyType
<1>1. OutcomeType'
    BY SetType, Zenon DEF FetchFails, TypeInv, OutcomeType, outcome, FinalStatuses, Reasons
<1> QED BY <1>1, Zenon DEF FetchFails, BodyType, TypeInv, TaskType, SyscallsType, FlagsType

\* A stop without its entry in syscalls_in_progress_.
LEMMA FailedInspectType ==
    ASSUME TypeInv, FailedInspect
    PROVE  BodyType
<1>1. OutcomeType'
    BY SetType, Zenon DEF FailedInspect, TypeInv, FinalStatuses, Reasons
<1> QED BY <1>1, Zenon DEF FailedInspect, BodyType, TypeInv, TaskType, SyscallsType, FlagsType

\* A violation.
LEMMA ViolationType ==
    ASSUME TypeInv, ActionProcessSyscallViolation
    PROVE  TaskType' /\ OutcomeType' /\ wait_for_execve' \in BOOLEAN
<1>1. OutcomeType'
    BY SetType, Zenon DEF ActionProcessSyscallViolation, TypeInv, FinalStatuses, Reasons
<1> QED BY <1>1, Zenon DEF ActionProcessSyscallViolation, TypeInv, TaskType, FlagsType

\* The end of an inspected syscall.
LEMMA ReturnSyscallType ==
    ASSUME TypeInv, NEW p \in Pids, ReturnSyscall(p)
    PROVE  TaskType' /\ OutcomeType' /\ SyscallsType' /\ offence' \in BOOLEAN
<1>1. TaskType'
    BY ContinueType, Zenon DEF ReturnSyscall, TypeInv
<1> QED BY <1>1, Zenon DEF ReturnSyscall, TypeInv, OutcomeType, outcome, SyscallsType,
                    SyscallClasses, FlagsType

\* Whatever EventSyscallTrace answers, the types are kept.
LEMMA ProcessSyscallType ==
    ASSUME TypeInv, NEW p \in Pids, ActionProcessSyscall(p)
    PROVE  BodyType
<1> USE DEF TypeInv
<1>1. CASE /\ ContinueProcess(p)
           /\ UNCHANGED <<outcome, wait_for_execve, syscalls_in_progress, offence>>
    BY <1>1, ContinueType, Zenon DEF BodyType, outcome, OutcomeType, SyscallsType, FlagsType
<1>2. CASE /\ syscalls_in_progress' = [syscalls_in_progress EXCEPT ![p] = task[p].sys]
           /\ CompleteSyscall(p)
           /\ UNCHANGED <<outcome, wait_for_execve, offence>>
    <2>1. task[p].sys \in SyscallClasses
        BY Zenon DEF TaskType, KernelTask, Task
    <2> QED BY <1>2, <2>1, ContinueType, Zenon DEF BodyType, outcome, OutcomeType, SyscallsType,
                                            FlagsType
<1>3. CASE /\ offence' = TRUE
           /\ ActionProcessSyscallViolation
           /\ UNCHANGED syscalls_in_progress
    BY <1>3, ViolationType, Zenon DEF BodyType, SyscallsType
<1> QED BY <1>1, <1>2, <1>3, Zenon DEF ActionProcessSyscall

\* Each handler of a stop keeps the types.
LEMMA StoppedTypes ==
    ASSUME TypeInv, NEW p \in Pids, StateProcessStopped(p)
    PROVE  TypeInv'
<1>1. CASE HandleSignalStop(p)
    <2>1. /\ OutcomeType' /\ SyscallsType' /\ should_dump_stack' \in BOOLEAN
          /\ wait_for_execve' \in BOOLEAN /\ offence' \in BOOLEAN
          /\ sandboxee_exited' \in BOOLEAN
        BY <1>1, Zenon DEF HandleSignalStop, TypeInv, OutcomeType, outcome, SyscallsType,
                    FlagsType
    <2>2. TaskType'
        BY <1>1, ContinueType, Zenon DEF HandleSignalStop, TypeInv
    <2> QED BY <1>1, <2>1, <2>2, PopTypes, Zenon DEF HandleSignalStop
<1>2. ASSUME NEW st \in StopEvents, HandleNoEventMsg(p, st) PROVE TypeInv'
    <2>1. /\ TaskType' /\ SyscallsType' /\ should_dump_stack' \in BOOLEAN
          /\ wait_for_execve' \in BOOLEAN /\ offence' \in BOOLEAN
          /\ sandboxee_exited' \in BOOLEAN
        BY <1>2, Zenon DEF HandleNoEventMsg, TypeInv, TaskType, SyscallsType, FlagsType
    <2>2. OutcomeType'
        BY <1>2, SetType, Zenon DEF HandleNoEventMsg, TypeInv, OutcomeType, outcome,
                             FinalStatuses, Reasons
    <2> QED BY <1>2, <2>1, <2>2, PopTypes, Zenon DEF HandleNoEventMsg
<1>3. CASE EventPtraceSeccomp(p)
    <2>1. CASE UNCHANGED <<task, outcome, wait_for_execve, syscalls_in_progress, offence>>
        BY <1>3, <2>1, EventTypes, Zenon DEF EventPtraceSeccomp, BodyType, TypeInv, TaskType,
                                      OutcomeType, outcome, SyscallsType, FlagsType
    <2>2. CASE FetchFails(p)
        BY <1>3, <2>2, EventTypes, FetchFailsType, Zenon DEF EventPtraceSeccomp
    <2>3. CASE ActionProcessSyscallViolation /\ UNCHANGED <<syscalls_in_progress, offence>>
        BY <1>3, <2>3, EventTypes, ViolationType, Zenon
           DEF EventPtraceSeccomp, BodyType, TypeInv, SyscallsType, FlagsType
    <2>4. CASE ActionProcessSyscall(p)
        BY <1>3, <2>4, EventTypes, ProcessSyscallType, Zenon DEF EventPtraceSeccomp
    <2> QED BY <1>3, <2>1, <2>2, <2>3, <2>4, Zenon DEF EventPtraceSeccomp
<1>r. ASSUME ReturnSyscall(p), UNCHANGED wait_for_execve PROVE BodyType
    BY <1>r, ReturnSyscallType, Zenon DEF BodyType, TypeInv, FlagsType
<1>4. CASE EventSyscallExit(p)
    BY <1>4, <1>r, EventTypes, FailedInspectType, FetchFailsType, Zenon DEF EventSyscallExit
<1>5. CASE EventPtraceNewProcess(p)
    BY <1>5, <1>r, EventTypes, FailedInspectType, Zenon DEF EventPtraceNewProcess
<1>6. CASE EventPtraceExec(p)
    <2>1. CASE /\ wait_for_execve' = FALSE
               /\ ContinueProcess(p)
               /\ UNCHANGED <<outcome, syscalls_in_progress, offence>>
        <3>1. BodyType
            BY <2>1, ContinueType, ZenonT(30) DEF BodyType, TypeInv, OutcomeType, outcome,
                                      SyscallsType, FlagsType
        <3> QED BY <1>6, <3>1, EventTypes, Zenon DEF EventPtraceExec
    <2> QED BY <1>6, <1>r, <2>1, EventTypes, FailedInspectType, Zenon DEF EventPtraceExec
<1>7. CASE EventPtraceExit(p)
    <2>1. SyscallsType' /\ wait_for_execve' \in BOOLEAN /\ offence' \in BOOLEAN
        BY <1>7, Zenon DEF EventPtraceExit, TypeInv, SyscallsType, SyscallClasses, FlagsType
    <2>2. TaskType'
        BY <1>7, ContinueType, ViolationType, Zenon DEF EventPtraceExit, TypeInv, TaskType
    <2>3. OutcomeType'
        <3>1. CASE UNCHANGED outcome
            BY <3>1, Zenon DEF TypeInv, OutcomeType, outcome
        <3>2. CASE SetExitStatusCode("INTERNAL_ERROR", "FAILED_FETCH")
            BY <3>2, SetType, Zenon DEF TypeInv, FinalStatuses, Reasons
        <3>3. CASE ActionProcessSyscallViolation
            BY <3>3, ViolationType, Zenon
        <3>4. CASE SetMainDeath("OK") \/ SetMainDeath("SIGNALED")
            BY <3>4, MainDeathType, Zenon DEF TypeInv
        <3> QED BY <1>7, <3>1, <3>2, <3>3, <3>4, Zenon DEF EventPtraceExit
    <2> QED BY <1>7, <2>1, <2>2, <2>3, EventTypes, Zenon DEF EventPtraceExit, BodyType
<1>8. CASE EventPtraceStop(p)
    BY <1>8, EventTypes, ContinueType, Zenon DEF EventPtraceStop, BodyType, TypeInv,
                                          OutcomeType, outcome, SyscallsType, FlagsType
<1> QED BY <1>1, <1>2, <1>3, <1>4, <1>5, <1>6, <1>7, <1>8, Zenon DEF StateProcessStopped

\* Taking a status from the queue.
LEMMA HeadAndTail ==
    ASSUME NEW S, NEW q \in Seq(S), q # <<>>
    PROVE  Head(q) \in S /\ Tail(q) \in Seq(S)
OBVIOUS

\* The steps after the loop keep the types.
Ending == DrainStart \/ DrainTimeout \/ DrainWait \/ DrainNothing \/ DrainStatus
          \/ OnDone \/ ThreadExit

\* They keep the types of all variables.
LEMMA EndingTypes == TypeInv /\ Ending => TypeInv'
<1> SUFFICES ASSUME TypeInv, Ending PROVE TypeInv'
    OBVIOUS
<1> USE DEF TypeInv, flags, requests, waiter, outcome, handshake
<1>d. ASSUME DrainUnchanged, TaskType', WaiterType', draining' \in BOOLEAN PROVE TypeInv'
    BY <1>d DEF DrainUnchanged, OutcomeType, SyscallsType, FlagsType, HostType
<1>1. CASE DrainStart
    <2>1. TaskType'
        BY <1>1, KillType, Zenon DEF DrainStart, TaskType
    <2>2. WaiterType' /\ draining' \in BOOLEAN
        BY <1>1, Zenon DEF DrainStart, WaiterType, EndPcs, FlagsType
    <2> QED BY <1>1, <2>1, <2>2, <1>d, Zenon DEF DrainStart
<1>2. CASE DrainTimeout \/ DrainWait
    BY <1>2, <1>d, Zenon DEF DrainTimeout, DrainWait, TaskType, WaiterType, EndPcs, WaitPcs,
                      FlagsType
<1>3. CASE DrainNothing
    BY <1>3, <1>d, Zenon DEF DrainNothing, TaskType, WaiterType, EndPcs, FlagsType
<1>4. CASE DrainStatus
    <2>1. /\ Head(statuses) \in [pid : Pids, st : Statuses]
          /\ statuses' \in Seq([pid : Pids, st : Statuses])
        <3>1. /\ statuses \in Seq([pid : Pids, st : Statuses]) /\ statuses # <<>>
              /\ statuses' = Tail(statuses)
            BY <1>4, Zenon DEF DrainStatus, WaiterType
        <3> QED BY <3>1, HeadAndTail, Zenon
    <2>2. TaskType'
        BY <1>4, <2>1, KillType, ResumedType DEF DrainStatus, TaskType
    <2>3. WaiterType' /\ draining' \in BOOLEAN
        BY <1>4, <2>1, Zenon DEF DrainStatus, WaiterType, EndPcs, FlagsType
    <2> QED BY <1>4, <2>2, <2>3, <1>d, Zenon DEF DrainStatus
<1>5. CASE OnDone
    BY <1>5 DEF OnDone, TaskType, OutcomeType, WaiterType, SyscallsType, FlagsType,
                HostType, EndPcs
<1>6. CASE ThreadExit
    <2>1. TaskType'
        BY <1>6, SigKilledType, Zenon DEF ThreadExit, TaskType
    <2> QED BY <1>6, <2>1 DEF ThreadExit, OutcomeType, WaiterType, SyscallsType,
                              FlagsType, HostType, EndPcs
<1> QED BY <1>1, <1>2, <1>3, <1>4, <1>5, <1>6, Zenon DEF Ending

\* The other threads of the host keep the types.
LEMMA HostTypes == TypeInv /\ Host => TypeInv'
<1> SUFFICES ASSUME TypeInv, Host PROVE TypeInv'
    OBVIOUS
<1> USE DEF TypeInv, flags, requests, waiter, outcome, handshake
<1>h. ASSUME HostUnchanged, OutcomeType', HostType' PROVE TypeInv'
    BY <1>h DEF HostUnchanged, TaskType, WaiterType, SyscallsType, FlagsType
<1>1. CASE RunAsync
    BY <1>1, <1>h, Zenon DEF RunAsync, OutcomeType, HostType
<1>2. CASE AwaitResult
    BY <1>2, <1>h, Zenon DEF AwaitResult, OutcomeType, HostType
<1>3. CASE Kill \/ DumpStackTrace \/ SetWallTimeLimit \/ DeadlinePasses
    BY <1>3, <1>h, ZenonT(30) DEF Kill, DumpStackTrace, SetWallTimeLimit, DeadlinePasses,
                      OutcomeType, HostType
<1>4. CASE ProxyViolation
    BY <1>4 DEF ProxyViolation, TaskType, OutcomeType, WaiterType, SyscallsType,
                FlagsType, HostType
<1> QED BY <1>1, <1>2, <1>3, <1>4, Zenon DEF Host

\* The kernel keeps the types.
LEMMA KernelTypes == TypeInv /\ Kernel => TypeInv'
<1> SUFFICES ASSUME TypeInv, NEW p \in Pids,
                    \/ TraceeStops(p) \/ TraceeSyscall(p)
                    \/ \E child \in Others : TraceeForks(p, child)
                    \/ \E code \in {"exited", "SIGSYS", "killed"} \cap Events :
                           TraceeExits(p, code)
                    \/ SigKillLands(p) \/ KilledByOther(p) \/ ParentReaps(p)
             PROVE  TypeInv'
    BY Zenon DEF Kernel
<1>k. ASSUME KernelUnchanged, TaskType', offence' \in BOOLEAN PROVE TypeInv'
    BY <1>k DEF KernelUnchanged, TypeInv, OutcomeType, WaiterType, SyscallsType,
                FlagsType, HostType, flags, requests, waiter, outcome, handshake
<1>t. task[p] \in KernelTask /\ task[p] \in Task
    BY Zenon DEF TypeInv, TaskType, KernelTask
<1>o. offence \in BOOLEAN
    BY Zenon DEF TypeInv, FlagsType
<1>u. ASSUME NEW t \in KernelTask, task' = [task EXCEPT ![p] = t] PROVE TaskType'
    BY <1>u, TaskUpdateType, Zenon DEF TypeInv
<1>1. CASE TraceeStops(p)
    <2>1. \A ev \in StopEvents \ {"seccomp"} : StopAt(task[p], ev) \in KernelTask
        BY <1>t, StopAtType, Zenon
    <2>2. TaskType'
        BY <1>1, <1>u, <2>1, Zenon DEF TraceeStops, StopEvents
    <2> QED BY <1>1, <1>k, <1>o, <2>2, Zenon DEF TraceeStops
<1>2. CASE TraceeSyscall(p)
    <2>1. PICK class \in SyscallClasses \ {"none"}, arch \in {"host", "foreign"} :
              /\ task' = [task EXCEPT ![p] = [StopAt(@, "seccomp") EXCEPT
                                                !.sys = class, !.arch = arch]]
              /\ offence' = (offence \/ arch = "foreign")
        BY <1>2, Zenon DEF TraceeSyscall
    <2>2. [StopAt(task[p], "seccomp") EXCEPT !.sys = class, !.arch = arch] \in Task
        BY <1>t, Zenon DEF StopAt, Task, Lives, StopEvents
    <2>3. [StopAt(task[p], "seccomp") EXCEPT !.sys = class, !.arch = arch] \in KernelTask
        BY <1>t, <2>2, Zenon DEF KernelTask, StopAt, StopEvents, Task
    <2>4. TaskType'
        BY <2>1, <2>3, <1>u, Zenon
    <2> QED BY <1>2, <1>k, <1>o, <2>1, <2>4, ZenonT(30) DEF TraceeSyscall
<1>3. ASSUME NEW child \in Others, TraceeForks(p, child) PROVE TypeInv'
    <2>1. StopAt(task[p], "newproc") \in KernelTask /\ StopAt(NoTask, "stop") \in KernelTask
        BY <1>t, StopAtType, NewTaskTypes, Zenon DEF StopEvents, KernelTask
    <2>2. TaskType'
        BY <1>3, <2>1, Zenon DEF TraceeForks, TypeInv, TaskType
    <2> QED BY <1>3, <1>k, <1>o, <2>2, Zenon DEF TraceeForks
<1>4. ASSUME NEW code \in {"exited", "SIGSYS", "killed"}, TraceeExits(p, code)
      PROVE  TypeInv'
    <2>1. StopAt(NoTask, "exit") \in KernelTask
        BY StopAtType, NewTaskTypes, Zenon DEF StopEvents, KernelTask
    <2>2. task[p].killed \in BOOLEAN
        BY <1>t, Zenon DEF Task
    <2>3. [StopAt(NoTask, "exit") EXCEPT !.code = code, !.killed = task[p].killed]
              \in KernelTask
        BY <2>1, <2>2, Zenon DEF KernelTask, Task, ExitCodes
    <2>4. TaskType'
        BY <1>4, <2>3, <1>u, Zenon DEF TraceeExits
    <2> QED BY <1>4, <1>k, <1>o, <2>4, Zenon DEF TraceeExits
<1>5. CASE SigKillLands(p)
    <2>1. StopAt(NoTask, "exit") \in KernelTask
        BY StopAtType, NewTaskTypes, Zenon DEF StopEvents, KernelTask
    <2>2. [StopAt(NoTask, "exit") EXCEPT !.code = "killed"] \in KernelTask
        BY <2>1, Zenon DEF KernelTask, Task, ExitCodes
    <2>3. [task[p] EXCEPT !.code = "killed"] \in Task
        BY <1>t, Zenon DEF Task, ExitCodes
    <2>4. Dead(IF task[p].ev = "exit" THEN task[p] ELSE [task[p] EXCEPT !.code = "killed"])
              \in KernelTask
        BY <1>t, <2>3, DeadType, Zenon
    <2>5. TaskType'
        BY <1>5, <2>2, <2>4, <1>u, Zenon DEF SigKillLands
    <2> QED BY <1>5, <1>k, <1>o, <2>5, Zenon DEF SigKillLands
<1>6. CASE KilledByOther(p)
    <2>1. TaskType'
        BY <1>6, <1>t, <1>u, SigKilledType, Zenon DEF KilledByOther
    <2> QED BY <1>6, <1>k, <1>o, <2>1, Zenon DEF KilledByOther
<1>7. CASE ParentReaps(p)
    <2>1. [task[p] EXCEPT !.life = "gone"] \in KernelTask
        BY <1>7, <1>t, Zenon DEF ParentReaps, KernelTask, Task, Lives
    <2>2. TaskType'
        BY <1>7, <2>1, <1>u, Zenon DEF ParentReaps
    <2> QED BY <1>7, <1>k, <1>o, <2>2, Zenon DEF ParentReaps
<1> QED BY <1>1, <1>2, <1>3, <1>4, <1>5, <1>6, <1>7, Zenon

\* Every step of the monitor thread is one of those above.
LEMMA MonitorSteps ==
    Monitor => \/ LoopTop \/ Waiting \/ Ending
               \/ \E p \in Pids : HandleExited(p) \/ HandleSignaled(p)
                                  \/ StateProcessStopped(p)
BY Zenon DEF Monitor, LoopTop, Waiting, Ending

\* The parts of the type invariant hold in every state of a run.
THEOREM TypesInvariant == Spec => []TypeInv
<1>1. TypeInv /\ [Next]_vars => TypeInv'
    <2> SUFFICES ASSUME TypeInv, [Next]_vars PROVE TypeInv'
        OBVIOUS
    <2>1. CASE Monitor
        BY <2>1, MonitorSteps, LoopTopTypes, WaitingTypes, EndingTypes, DeathTypes,
           StoppedTypes, Zenon
    <2>2. CASE UNCHANGED vars
        BY <2>2 DEF vars, TypeInv, TaskType, OutcomeType, WaiterType, SyscallsType,
                    FlagsType, HostType, flags, requests, waiter, outcome, handshake
    <2> QED BY <2>1, <2>2, HostTypes, KernelTypes, Zenon DEF Next
<1> QED BY <1>1, TypeInit, PTL DEF Spec

\* PtraceMonitor is type-correct for every set of pids and every choice of what
\* the host and the sandboxee may do: in particular what PidWaiter hands to the
\* main loop is always a status of one of the sandboxee's processes.
THEOREM TypeCorrect == Spec => []TypeOK
BY TypesInvariant, TypeParts, PTL

-----------------------------------------------------------------------------
(***************************************************************************)
(* The CHECKs.  ChecksHold is not inductive: that a status is not set      *)
(* twice depends on where the monitor is.  Inside the loop there is a      *)
(* status only at its top, where the loop ends; Wait() is called in the    *)
(* loop without one and in the last wait with one.                         *)
(***************************************************************************)
ResultPhase ==
    /\ pc \in {"setup", "attach", "dump", "kill", "network"} => result = Unset
    /\ pc \in WaitPcs => (result = Unset <=> ~draining)
    /\ pc \in {"setup_failed"} \cup EndPcs => result # Unset
    /\ draining => pc \in WaitPcs \cup {"drain", "finish", "exit", "exited"}
    /\ pc = "drain" => draining
    /\ done <=> pc \in {"exit", "exited"}
    /\ launcher = "joined" => done

ResultInv == ResultPhase /\ ChecksHold

\* A step that leaves the result alone or sets it for the first time.
SetOnce == \/ UNCHANGED outcome
           \/ result = Unset /\ result' # Unset /\ UNCHANGED aborted

\* SetExitStatusCode is such a step where there is no result yet.
LEMMA SetsOnce ==
    ASSUME result = Unset, NEW s \in FinalStatuses, NEW r, SetExitStatusCode(s, r)
    PROVE  result' # Unset /\ UNCHANGED aborted
BY DEF SetExitStatusCode, Unset, FinalStatuses

\* So is turning the death of the main process into a result.
LEMMA MainDeathSetsOnce ==
    ASSUME result = Unset, NEW s \in {"OK", "SIGNALED"}, SetMainDeath(s)
    PROVE  SetOnce
BY SetsOnce, Zenon DEF SetMainDeath, FinalStatuses, SetOnce

\* KillSandboxee() either goes on without a result or leaves the loop with one.
LEMMA KillSandboxeeResult ==
    ASSUME result = Unset, NEW next, KillSandboxee(next)
    PROVE  \/ pc' = next /\ UNCHANGED outcome
           \/ pc' = "drain_start" /\ result' # Unset /\ UNCHANGED aborted
BY SetsOnce, Zenon DEF KillSandboxee, FinalStatuses

\* InterruptSandboxee() too.
LEMMA InterruptResult ==
    ASSUME result = Unset, NEW next, InterruptSandboxee(next)
    PROVE  \/ pc' = next /\ UNCHANGED outcome
           \/ pc' = "drain_start" /\ result' # Unset /\ UNCHANGED aborted
BY SetsOnce, Zenon DEF InterruptSandboxee, FinalStatuses

\* Set-up and the top of the loop.
LEMMA LoopTopResult ==
    ASSUME ResultInv, LoopTop
    PROVE  ResultInv' /\ SetOnce /\ UNCHANGED <<done, launcher>>
<1> USE DEF ResultInv, ResultPhase, ChecksHold, SetOnce, outcome, handshake, LoopPcs,
            WaitPcs, EndPcs
<1>f. ASSUME NEW r, SetupFailed(r), result = Unset
      PROVE  pc' = "setup_failed" /\ result' # Unset
             /\ UNCHANGED <<aborted, draining, done, launcher>>
    BY <1>f, SetsOnce, Zenon DEF SetupFailed, FinalStatuses
<1>1. CASE SetupSignals
    BY <1>1, <1>f DEF SetupSignals
<1>2. CASE Attach
    BY <1>2, <1>f DEF Attach
<1>3. CASE NotifySetupFailed
    BY <1>3, Zenon DEF NotifySetupFailed
<1>4. CASE LeaveLoop
    BY <1>4, Zenon DEF LeaveLoop
<1>5. CASE CheckDeadline
    BY <1>5, KillSandboxeeResult, Zenon DEF CheckDeadline
<1>6. CASE CheckDump
    BY <1>6, InterruptResult, Zenon DEF CheckDump
<1>7. CASE CheckKill
    BY <1>7, KillSandboxeeResult, Zenon DEF CheckKill
<1>8. CASE CheckNetwork
    BY <1>8, KillSandboxeeResult, Zenon DEF CheckNetwork
<1> QED BY <1>1, <1>2, <1>3, <1>4, <1>5, <1>6, <1>7, <1>8, Zenon DEF LoopTop

\* PidWaiter; the PANIC() of the loop sets a result where there is none.
LEMMA WaitingResult ==
    ASSUME ResultInv, Waiting
    PROVE  ResultInv' /\ SetOnce /\ UNCHANGED <<done, launcher>>
<1> USE DEF ResultInv, ResultPhase, ChecksHold, SetOnce, outcome, handshake, LoopPcs,
            WaitPcs, EndPcs
<1>1. CASE StartWait
    BY <1>1, Zenon DEF StartWait, WaiterUnchanged
<1>2. CASE RefillMain
    <2>1. pc' \in {"refill_any", "pop"} /\ WaiterUnchanged
        BY <1>2, Zenon DEF RefillMain
    <2> QED BY <1>2, <2>1 DEF RefillMain, WaiterUnchanged
<1>3. CASE RefillAny
    <2>1. pc' \in {"refill_any", "pop"} /\ WaiterUnchanged /\ pc = "refill_any"
        BY <1>3, Zenon DEF RefillAny
    <2> QED BY <2>1, Zenon DEF WaiterUnchanged
<1>4. CASE NothingWaiting
    <2>1. SetOnce
        BY <1>4, SetsOnce, Zenon DEF NothingWaiting, FinalStatuses
    <2>2. pc' = "loop" /\ ~draining /\ UNCHANGED <<draining, done, launcher>> /\ ~done
        BY <1>4, Zenon DEF NothingWaiting
    <2> QED BY <2>1, <2>2
<1> QED BY <1>1, <1>2, <1>3, <1>4, Zenon DEF Waiting

\* The last wait and the end of the thread.
LEMMA EndingResult ==
    ASSUME ResultInv, Ending
    PROVE  ResultInv' /\ UNCHANGED <<result, launcher>> /\ (OnDone \/ UNCHANGED done)
<1> USE DEF ResultInv, ResultPhase, ChecksHold, outcome, handshake, LoopPcs, WaitPcs,
            EndPcs
<1>1. CASE DrainStart
    BY <1>1, Zenon DEF DrainStart, DrainUnchanged
<1>2. CASE DrainTimeout \/ DrainWait
    BY <1>2 DEF DrainTimeout, DrainWait, DrainUnchanged
<1>3. CASE DrainNothing
    BY <1>3, Zenon DEF DrainNothing, DrainUnchanged
<1>4. CASE DrainStatus
    <2>1. /\ pc' \in {"drain", "finish"} /\ pc = "pop" /\ draining
          /\ UNCHANGED draining /\ DrainUnchanged
        BY <1>4, Zenon DEF DrainStatus
    <2> QED BY <2>1, Zenon DEF DrainUnchanged
<1>5. CASE OnDone
    BY <1>5, Zenon DEF OnDone
<1>6. CASE ThreadExit
    BY <1>6, Zenon DEF ThreadExit
<1> QED BY <1>1, <1>2, <1>3, <1>4, <1>5, <1>6, Zenon DEF Ending

\* Each handler of a status sets the result at most once.
LEMMA HandlerSetsOnce ==
    ASSUME result = Unset, NEW p \in Pids,
           HandleExited(p) \/ HandleSignaled(p) \/ StateProcessStopped(p)
    PROVE  SetOnce
<1> USE DEF SetOnce
<1>v. ASSUME ActionProcessSyscallViolation PROVE SetOnce
    BY <1>v, SetsOnce, Zenon DEF ActionProcessSyscallViolation, FinalStatuses
<1>i. ASSUME FailedInspect PROVE SetOnce
    BY <1>i, SetsOnce, Zenon DEF FailedInspect, FinalStatuses
<1>f. ASSUME FetchFails(p) PROVE SetOnce
    BY <1>f, SetsOnce, Zenon DEF FetchFails, FinalStatuses
<1>r. ASSUME ReturnSyscall(p) PROVE SetOnce
    BY <1>r, Zenon DEF ReturnSyscall, outcome
<1>a. ASSUME ActionProcessSyscall(p) PROVE SetOnce
    BY <1>a, <1>v, Zenon DEF ActionProcessSyscall, outcome
<1>1. CASE HandleExited(p)
    BY <1>1, SetsOnce, Zenon DEF HandleExited, FinalStatuses, outcome
<1>2. CASE HandleSignaled(p)
    BY <1>2, MainDeathSetsOnce, Zenon DEF HandleSignaled, outcome
<1>3. CASE HandleSignalStop(p)
    BY <1>3, Zenon DEF HandleSignalStop, outcome
<1>4. ASSUME NEW st \in StopEvents, HandleNoEventMsg(p, st) PROVE SetOnce
    BY <1>4, SetsOnce, Zenon DEF HandleNoEventMsg, FinalStatuses
<1>5. CASE EventPtraceSeccomp(p)
    BY <1>5, <1>v, <1>f, <1>a, Zenon DEF EventPtraceSeccomp, outcome
<1>6. CASE EventSyscallExit(p)
    BY <1>6, <1>i, <1>f, <1>r, Zenon DEF EventSyscallExit
<1>7. CASE EventPtraceNewProcess(p)
    BY <1>7, <1>i, <1>r, Zenon DEF EventPtraceNewProcess
<1>8. CASE EventPtraceExec(p)
    BY <1>8, <1>i, <1>r, Zenon DEF EventPtraceExec, outcome
<1>9. CASE EventPtraceExit(p)
    <2>1. CASE UNCHANGED outcome
        BY <2>1, Zenon
    <2>2. CASE SetExitStatusCode("INTERNAL_ERROR", "FAILED_FETCH")
        BY <2>2, SetsOnce, Zenon DEF FinalStatuses
    <2>3. CASE SetMainDeath("OK") \/ SetMainDeath("SIGNALED")
        BY <2>3, MainDeathSetsOnce, Zenon
    <2> QED BY <1>9, <1>v, <2>1, <2>2, <2>3, Zenon DEF EventPtraceExit
<1>10. CASE EventPtraceStop(p)
    BY <1>10, Zenon DEF EventPtraceStop, outcome
<1> QED BY <1>1, <1>2, <1>3, <1>4, <1>5, <1>6, <1>7, <1>8, <1>9, <1>10, Zenon
        DEF StateProcessStopped

\* A handler runs for a popped status only.
LEMMA HandlerPops ==
    ASSUME NEW p \in Pids,
           HandleExited(p) \/ HandleSignaled(p) \/ StateProcessStopped(p)
    PROVE  \E st \in Statuses : Pop(p, st)
BY ZenonT(30) DEF HandleExited, HandleSignaled, StateProcessStopped, HandleSignalStop,
       HandleNoEventMsg, EventPtraceSeccomp, EventSyscallExit, EventPtraceNewProcess,
       EventPtraceExec, EventPtraceExit, EventPtraceStop, PopEvent, Statuses, StopEvents

\* Handling a status: back to the top of the loop, with a result or without.
LEMMA HandlerResult ==
    ASSUME ResultInv, NEW p \in Pids,
           HandleExited(p) \/ HandleSignaled(p) \/ StateProcessStopped(p)
    PROVE  ResultInv' /\ SetOnce /\ UNCHANGED <<done, launcher>>
<1>1. PICK st \in Statuses : Pop(p, st)
    BY HandlerPops, Zenon
<1>2. pc = "pop" /\ ~draining /\ pc' = "loop" /\ UNCHANGED <<draining, done, launcher>>
    BY <1>1, Zenon DEF Pop, handshake
<1>3. result = Unset
    BY <1>2, Zenon DEF ResultInv, ResultPhase, WaitPcs
<1>4. SetOnce
    BY <1>3, HandlerSetsOnce, Zenon
<1> QED BY <1>2, <1>3, <1>4 DEF ResultInv, ResultPhase, ChecksHold, SetOnce, outcome,
                                WaitPcs, EndPcs, LoopPcs

\* The other threads: Join() finds the monitor done, and a result.
LEMMA HostResult ==
    ASSUME ResultInv, Host
    PROVE  ResultInv' /\ UNCHANGED <<result, done>>
           /\ (RunAsync \/ AwaitResult \/ UNCHANGED launcher)
<1> USE DEF ResultInv, ResultPhase, ChecksHold, outcome, handshake, HostUnchanged
<1>1. CASE RunAsync
    BY <1>1, Zenon DEF RunAsync
<1>2. CASE AwaitResult
    BY <1>2, Zenon DEF AwaitResult, EndPcs
<1>3. CASE Kill \/ DumpStackTrace \/ SetWallTimeLimit \/ DeadlinePasses
    BY <1>3 DEF Kill, DumpStackTrace, SetWallTimeLimit, DeadlinePasses
<1>4. CASE ProxyViolation
    BY <1>4, Zenon DEF ProxyViolation
<1> QED BY <1>1, <1>2, <1>3, <1>4, Zenon DEF Host

\* The kernel touches neither the result nor the threads of the host.
LEMMA KernelResult ==
    ASSUME ResultInv, Kernel
    PROVE  ResultInv' /\ UNCHANGED <<result, done, launcher>>
<1>1. KernelUnchanged
    BY Zenon DEF Kernel, TraceeStops, TraceeSyscall, TraceeForks, TraceeExits, SigKillLands,
           KilledByOther, ParentReaps
<1> QED BY <1>1, Zenon DEF KernelUnchanged, ResultInv, ResultPhase, ChecksHold, outcome,
                    handshake

\* The inductive invariant holds in every state of a run.
THEOREM ResultInvariant == Spec => []ResultInv
<1>1. Init => ResultInv
    BY Zenon DEF Init, ResultInv, ResultPhase, ChecksHold, WaitPcs, EndPcs
<1>2. ResultInv /\ [Next]_vars => ResultInv'
    <2> SUFFICES ASSUME ResultInv, [Next]_vars PROVE ResultInv'
        OBVIOUS
    <2>1. CASE Monitor
        BY <2>1, MonitorSteps, LoopTopResult, WaitingResult, EndingResult, HandlerResult, Zenon
    <2>2. CASE UNCHANGED vars
        BY <2>2, Zenon DEF vars, outcome, handshake, ResultInv, ResultPhase, ChecksHold
    <2> QED BY <2>1, <2>2, HostResult, KernelResult, Zenon DEF Next
<1> QED BY <1>1, <1>2, PTL DEF Spec

\* Neither the CHECK in SetExitStatusCode (monitor_base.cc) nor those in Join()
\* (monitor_ptrace.cc) can fail, for any number of processes, any order of their
\* statuses, and any requests from other threads.
THEOREM ChecksNeverFail == Spec => []ChecksHold
<1>1. ResultInv => ChecksHold
    BY Zenon DEF ResultInv
<1> QED BY <1>1, ResultInvariant, PTL

-----------------------------------------------------------------------------
(***************************************************************************)
(* Refinement: the result, done_notification_ and the launching thread are *)
(* those of SandboxRun, everything else stutters.                          *)
(***************************************************************************)
\* Each step is a step of SandboxRun or leaves its variables alone.
LEMMA RunStep ==
    ASSUME ResultInv, TypeInv', [Next]_vars
    PROVE  [Run!Next]_(Run!vars)
<1> USE DEF Run!Next, Run!vars
<1>s. ASSUME SetOnce, UNCHANGED <<done, launcher>>, result = Unset => ~done
      PROVE  [Run!Next]_(Run!vars)
    BY <1>s, Zenon DEF SetOnce, outcome, Run!SetExitStatusCode, TypeInv, OutcomeType
<1>u. result = Unset => ~done
    BY Zenon DEF ResultInv, ResultPhase, EndPcs
<1>1. CASE Monitor
    <2>1. CASE LoopTop
        BY <2>1, <1>s, <1>u, LoopTopResult, Zenon
    <2>2. CASE Waiting
        BY <2>2, <1>s, <1>u, WaitingResult, Zenon
    <2>3. CASE Ending
        <3>1. CASE OnDone
            <4>1. result # Unset /\ ~done /\ done' = TRUE
                BY <3>1, Zenon DEF OnDone, ResultInv, ResultPhase, EndPcs
            <4> QED BY <2>3, <4>1, EndingResult, Zenon DEF Run!OnDone
        <3>2. CASE ~OnDone
            BY <2>3, <3>2, EndingResult, Zenon
        <3> QED BY <3>1, <3>2, Zenon
    <2>4. ASSUME NEW p \in Pids,
                 HandleExited(p) \/ HandleSignaled(p) \/ StateProcessStopped(p)
          PROVE  [Run!Next]_(Run!vars)
        BY <2>4, <1>s, <1>u, HandlerResult, Zenon
    <2> QED BY <1>1, <2>1, <2>2, <2>3, <2>4, MonitorSteps, Zenon
<1>2. CASE Host
    <2>1. CASE RunAsync
        BY <1>2, <2>1, HostResult, Zenon DEF RunAsync, Run!RunAsync
    <2>2. CASE AwaitResult
        <3>1. done
            BY <2>2, Zenon DEF AwaitResult, ResultInv, ResultPhase
        <3> QED BY <1>2, <2>2, <3>1, HostResult, Zenon DEF AwaitResult, Run!AwaitResult
    <2>3. CASE ~RunAsync /\ ~AwaitResult
        BY <1>2, <2>3, HostResult, Zenon
    <2> QED BY <2>1, <2>2, <2>3, Zenon
<1>3. CASE Kernel
    BY <1>3, KernelResult, Zenon
<1>4. CASE UNCHANGED vars
    BY <1>4, Zenon DEF vars, outcome, handshake
<1> QED BY <1>1, <1>2, <1>3, <1>4, Zenon DEF Next

\* PtraceMonitor implements SandboxRun: whatever the sandboxee and the other
\* threads do, its result is set exactly once, before OnDone(), and AwaitResult()
\* returns only after both.
THEOREM Implements == Spec => ImplementsSandboxRun
<1>1. Init => Run!Init
    BY Zenon DEF Init, Run!Init
<1> QED BY <1>1, RunStep, ResultInvariant, TypesInvariant, PTL
        DEF Spec, ImplementsSandboxRun, Run!Spec

\* A done run has a result; without one, result_ is UNSET.
RunInv ==
    /\ result = Unset \/ result \in Results \ {Unset}
    /\ done \in BOOLEAN
    /\ done => result \in Results \ {Unset}
    /\ Run!AwaitedResultIsFinal

\* What implements SandboxRun: AwaitResult() (sandbox2.cc) returns only when the
\* monitor is done, and then result_ is a final status and not UNSET.
THEOREM AwaitReturnsFinal == ImplementsSandboxRun => []Run!AwaitedResultIsFinal
<1>1. Run!Init => RunInv
    BY Zenon DEF Run!Init, RunInv, Run!AwaitedResultIsFinal
<1>2. RunInv /\ [Run!Next]_(Run!vars) => RunInv'
    <2> SUFFICES ASSUME RunInv, [Run!Next]_(Run!vars) PROVE RunInv'
        OBVIOUS
    <2> USE DEF RunInv, Run!AwaitedResultIsFinal
    <2>1. CASE Run!SetExitStatusCode
        BY <2>1, Zenon DEF Run!SetExitStatusCode
    <2>2. CASE Run!OnDone
        BY <2>2, Zenon DEF Run!OnDone
    <2>3. CASE Run!RunAsync
        BY <2>3, Zenon DEF Run!RunAsync
    <2>4. CASE Run!AwaitResult
        BY <2>4, Zenon DEF Run!AwaitResult
    <2>5. CASE UNCHANGED Run!vars
        BY <2>5, Zenon DEF Run!vars
    <2> QED BY <2>1, <2>2, <2>3, <2>4, <2>5, Zenon DEF Run!Next
<1>3. RunInv => Run!AwaitedResultIsFinal
    BY Zenon DEF RunInv
<1> QED BY <1>1, <1>2, <1>3, PTL DEF ImplementsSandboxRun, Run!Spec

\* A thread that AwaitResult() lets go from a run under PtraceMonitor gets a
\* final status, whatever happened to the sandboxee meanwhile.
THEOREM MonitorResultsAreFinal == Spec => []Run!AwaitedResultIsFinal
BY Implements, AwaitReturnsFinal, PTL
-----------------------------------------------------------------------------
(***************************************************************************)
(* The queue of the PidWaiter against the tracees.  A stop is collected    *)
(* long before it is handled, and a SIGKILL may move its tracee on in the  *)
(* meantime, to its exit stop and to its death.  So the statuses queued    *)
(* for a tracee are at most three, in this order: a stop at which it was   *)
(* killed, its exit stop, its death; and the state it is in tells which of *)
(* them can be there.                                                      *)
(***************************************************************************)
PlainStops == StopEvents \ {"exit"}
Deaths == {"EXITED", "SIGNALED"}

\* The statuses of a tracee that may be in the queue, by its state.
Collected(t) ==
    IF t.life \in {"none", "running"} THEN {}
    ELSE IF t.life = "stopped"
         THEN IF t.ev = "exit" THEN IF t.fresh THEN PlainStops ELSE StopEvents
              ELSE IF t.fresh THEN {} ELSE {t.ev}
    ELSE IF t.life = "zombie" THEN StopEvents
    ELSE Statuses

\* The statuses of a tracee that may come before st in the queue.
Earlier(st) ==
    IF st \in Deaths THEN StopEvents ELSE IF st = "exit" THEN PlainStops ELSE {}

QueueFits ==
    \A i \in 1 .. Len(statuses) :
        statuses[i].st \in Collected(task[statuses[i].pid])
QueueOrder ==
    \A i, j \in 1 .. Len(statuses) :
        i < j /\ statuses[i].pid = statuses[j].pid =>
            statuses[i].st \in Earlier(statuses[j].st)
QueueInv == QueueFits /\ QueueOrder

QueueType == statuses \in Seq([pid : Pids, st : Statuses])

\* The elements of a queue.
LEMMA Elements ==
    ASSUME NEW S, NEW q \in Seq(S)
    PROVE  \A i \in 1 .. Len(q) : q[i] \in S
OBVIOUS

\* The statuses queued are statuses of tracees.
LEMMA QueueElements ==
    ASSUME QueueType
    PROVE  \A i \in 1 .. Len(statuses) : /\ statuses[i].pid \in Pids
                                         /\ statuses[i].st \in Statuses
<1>1. \A i \in 1 .. Len(statuses) : statuses[i] \in [pid : Pids, st : Statuses]
    BY Elements, Zenon DEF QueueType
<1> QED BY <1>1, Zenon

\* What is left of a queue behind its head.
LEMMA TailElements ==
    ASSUME NEW S, NEW q \in Seq(S), q # <<>>
    PROVE  /\ Tail(q) \in Seq(S) /\ Len(q) \in Nat /\ Len(q) # 0
           /\ Len(Tail(q)) = Len(q) - 1 /\ Head(q) = q[1] /\ 1 \in 1 .. Len(q)
           /\ \A i \in 1 .. Len(Tail(q)) : Tail(q)[i] = q[i + 1] /\ i + 1 \in 1 .. Len(q)
OBVIOUS

\* What a queue holds behind a new last element.
LEMMA AppendElements ==
    ASSUME NEW S, NEW q \in Seq(S), NEW e \in S
    PROVE  /\ Append(q, e) \in Seq(S) /\ Len(q) \in Nat
           /\ Len(Append(q, e)) = Len(q) + 1 /\ Append(q, e)[Len(q) + 1] = e
           /\ \A i \in 1 .. Len(q) : Append(q, e)[i] = q[i]
OBVIOUS

\* Tracees that move on in the kernel, or are resumed when nothing of them is
\* queued, keep the queue in order.
LEMMA QueueKept ==
    ASSUME QueueType, QueueInv, UNCHANGED statuses,
           \A q \in Pids : Collected(task[q]) \subseteq Collected(task[q])'
    PROVE  QueueInv'
<1>1. \A i \in 1 .. Len(statuses) : statuses[i].pid \in Pids
    BY QueueElements, Zenon
<1>2. QueueFits'
    <2> SUFFICES ASSUME NEW i \in 1 .. Len(statuses)
                 PROVE  statuses[i].st \in Collected(task'[statuses[i].pid])
        BY Zenon DEF QueueFits
    <2>1. statuses[i].pid \in Pids /\ statuses[i].st \in Collected(task[statuses[i].pid])
        BY <1>1, Zenon DEF QueueInv, QueueFits
    <2> QED BY <2>1, Zenon
<1> QED BY <1>2, Zenon DEF QueueInv, QueueOrder

\* The head of the queue is taken: the tracee it is of may be moved to any state
\* that fits the statuses that can still follow.
LEMMA QueuePopped ==
    ASSUME QueueType, QueueInv, statuses # <<>>, statuses' = Tail(statuses),
           \A q \in Pids \ {Head(statuses).pid} :
               Collected(task[q]) \subseteq Collected(task[q])',
           \A st \in Collected(task[Head(statuses).pid]) :
               Head(statuses).st \in Earlier(st) =>
                   st \in Collected(task'[Head(statuses).pid])
    PROVE  QueueInv'
<1>1. /\ Len(statuses) \in Nat /\ Len(statuses') = Len(statuses) - 1
      /\ 1 \in 1 .. Len(statuses) /\ Head(statuses) = statuses[1]
      /\ \A i \in 1 .. Len(statuses') : /\ statuses'[i] = statuses[i + 1]
                                        /\ i + 1 \in 1 .. Len(statuses)
    BY TailElements, Zenon DEF QueueType
<1>2. QueueFits'
    <2> SUFFICES ASSUME NEW i \in 1 .. Len(statuses')
                 PROVE  statuses'[i].st \in Collected(task'[statuses'[i].pid])
        BY Zenon DEF QueueFits
    <2> DEFINE e == statuses[i + 1]
    <2>1. i + 1 \in 1 .. Len(statuses) /\ statuses'[i] = e
        BY <1>1, Zenon
    <2>2. e.pid \in Pids /\ e.st \in Collected(task[e.pid])
        BY <2>1, QueueElements, Zenon DEF QueueInv, QueueFits
    <2>3. CASE e.pid = Head(statuses).pid
        <3>1. 1 < i + 1
            OBVIOUS
        <3>2. Head(statuses).st \in Earlier(e.st)
            BY <1>1, <2>1, <2>3, <3>1, Zenon DEF QueueInv, QueueOrder
        <3> QED BY <2>1, <2>2, <2>3, <3>2, Zenon
    <2>4. CASE e.pid # Head(statuses).pid
        BY <2>1, <2>2, <2>4, Zenon
    <2> QED BY <2>3, <2>4, Zenon
<1>3. QueueOrder'
    <2> SUFFICES ASSUME NEW i \in 1 .. Len(statuses'), NEW j \in 1 .. Len(statuses'),
                        i < j, statuses'[i].pid = statuses'[j].pid
                 PROVE  statuses'[i].st \in Earlier(statuses'[j].st)
        BY Zenon DEF QueueOrder
    <2>1. i + 1 < j + 1
        OBVIOUS
    <2> QED BY <1>1, <2>1, Zenon DEF QueueInv, QueueOrder
<1> QED BY <1>2, <1>3, Zenon DEF QueueInv

\* A resumed tracee fits what can follow the status it is resumed for.
LEMMA ResumedCollected ==
    ASSUME NEW t \in KernelTask, NEW how \in {"cont", "syscall"}, NEW first \in Statuses,
           NEW st \in Collected(t), first \in Earlier(st)
    PROVE  st \in Collected(Resumed(t, how))
<1>1. CASE t.life # "stopped"
    BY <1>1, Zenon DEF Resumed
<1>2. CASE t.life = "stopped" /\ t.ev = "exit"
    <2>1. st \in StopEvents
        BY <1>2, Zenon DEF Collected, PlainStops
    <2>2. Resumed(t, how).life = "zombie"
        BY <1>2, Zenon DEF Resumed, Dead, KernelTask, Task
    <2> QED BY <2>1, <2>2, Zenon DEF Collected
<1>3. CASE t.life = "stopped" /\ t.ev # "exit"
    <2>1. st \in PlainStops
        BY <1>3, Zenon DEF Collected, PlainStops, KernelTask
    <2> QED BY <2>1, Zenon DEF Earlier, PlainStops, Deaths, StopEvents
<1> QED BY <1>1, <1>2, <1>3, Zenon

\* SIGKILL on its way changes nothing for the queue.
LEMMA KilledCollected ==
    ASSUME NEW t \in KernelTask
    PROVE  Collected(SigKilled(t)) = Collected(t)
<1>1. SigKilled(t).life = t.life /\ SigKilled(t).ev = t.ev /\ SigKilled(t).fresh = t.fresh
    BY Zenon DEF KernelTask, Task, SigKilled
<1> QED BY <1>1, Zenon DEF Collected

\* A tracee that is alive has no death in the queue.
LEMMA AliveCollected ==
    ASSUME NEW t \in KernelTask, t.life \in {"running", "stopped"}
    PROVE  /\ Collected(t) \subseteq StopEvents
           /\ t.ev # "exit" => Collected(t) \subseteq PlainStops
BY Zenon DEF Collected, KernelTask, PlainStops

\* Collecting a status appends it behind those of the same tracee that may come
\* before it.
LEMMA QueueCollect ==
    ASSUME TaskType, QueueType, QueueInv, NEW p \in Pids, Waitable(p), Collect(p)
    PROVE  QueueInv'
<1> DEFINE st == WaitStatus(task[p])
           e == [pid |-> p, st |-> st]
<1>1. task[p] \in KernelTask /\ st \in Statuses
    BY WaitStatusType, Zenon DEF TaskType
<1>2. /\ Len(statuses) \in Nat /\ Len(statuses') = Len(statuses) + 1
      /\ statuses'[Len(statuses) + 1] = e
      /\ \A i \in 1 .. Len(statuses) : statuses'[i] = statuses[i]
    BY <1>1, AppendElements DEF QueueType, Collect
<1>3. task'[p].fresh = FALSE /\ task'[p].ev = task[p].ev
      /\ task'[p].life = (IF task[p].life = "zombie" THEN "reaped" ELSE task[p].life)
      /\ \A q \in Pids \ {p} : task'[q] = task[q]
    BY <1>1, Zenon DEF Collect, TaskType, KernelTask, Task
<1>4. st \in Collected(task'[p]) /\ Collected(task[p]) \subseteq Earlier(st)
      /\ Collected(task[p]) \subseteq Collected(task'[p])
    <2>1. CASE task[p].life = "zombie"
        <3>1. st \in Deaths
            BY <2>1, Zenon DEF WaitStatus, Deaths
        <3> QED BY <1>3, <2>1, <3>1, Zenon DEF Collected, Earlier, Statuses, Deaths
    <2>2. CASE task[p].life = "stopped"
        <3>1. st = task[p].ev /\ st \in StopEvents /\ task[p].fresh
            BY <1>1, <2>2, Zenon DEF WaitStatus, KernelTask, Waitable
        <3> QED BY <1>3, <2>2, <3>1, Zenon DEF Collected, Earlier, PlainStops, Deaths, StopEvents
    <2> QED BY <2>1, <2>2, Zenon DEF Waitable
<1>5. \A i \in 1 .. Len(statuses) : /\ statuses[i].pid \in Pids
                                    /\ statuses[i].st \in Collected(task[statuses[i].pid])
    BY QueueElements, Zenon DEF QueueInv, QueueFits
<1>6. QueueFits'
    <2> SUFFICES ASSUME NEW i \in 1 .. Len(statuses')
                 PROVE  statuses'[i].st \in Collected(task'[statuses'[i].pid])
        BY Zenon DEF QueueFits
    <2>1. CASE i = Len(statuses) + 1
        BY <1>2, <1>4, <2>1
    <2>2. CASE i \in 1 .. Len(statuses)
        BY <1>2, <1>3, <1>4, <1>5, <2>2, ZenonT(30)
    <2> QED BY <1>2, <2>1, <2>2
<1>7. QueueOrder'
    <2> SUFFICES ASSUME NEW i \in 1 .. Len(statuses'), NEW j \in 1 .. Len(statuses'),
                        i < j, statuses'[i].pid = statuses'[j].pid
                 PROVE  statuses'[i].st \in Earlier(statuses'[j].st)
        BY Zenon DEF QueueOrder
    <2>1. i \in 1 .. Len(statuses) /\ statuses'[i] = statuses[i]
        BY <1>2
    <2>2. CASE j = Len(statuses) + 1
        BY <1>2, <1>4, <1>5, <2>1, <2>2
    <2>3. CASE j \in 1 .. Len(statuses)
        BY <1>2, <2>1, <2>3, Zenon DEF QueueInv, QueueOrder
    <2> QED BY <1>2, <2>2, <2>3
<1> QED BY <1>6, <1>7, Zenon DEF QueueInv

\* Steps that at most send a SIGKILL.
OnlyKills == \A q \in Pids : task'[q] = task[q] \/ task'[q] = SigKilled(task[q])

\* They keep the queue in order.
LEMMA KillsKeepQueue ==
    ASSUME TypeInv, QueueInv, OnlyKills, UNCHANGED statuses
    PROVE  QueueInv'
<1>1. \A q \in Pids : Collected(task[q]) \subseteq Collected(task'[q])
    BY KilledCollected, Zenon DEF OnlyKills, TypeInv, TaskType
<1> QED BY <1>1, QueueKept, Zenon DEF TypeInv, WaiterType, QueueType

\* kill(2) for the main process.
LEMMA KillMainOnly ==
    ASSUME TypeInv, task' = [task EXCEPT ![Main] = SigKilled(@)]
    PROVE  OnlyKills
BY Zenon DEF OnlyKills, TypeInv, TaskType

\* Set-up and the top of the loop leave the queue and the syscalls alone.
LEMMA LoopTopTasks ==
    ASSUME TypeInv, LoopTop
    PROVE  OnlyKills /\ UNCHANGED <<waiter, syscalls_in_progress, wait_for_execve>>
<1> USE DEF flags
<1>u. ASSUME UNCHANGED task PROVE OnlyKills
    BY <1>u, Zenon DEF OnlyKills
<1>k. ASSUME NEW next, KillSandboxee(next) PROVE OnlyKills
    BY <1>k, <1>u, KillMainOnly, Zenon DEF KillSandboxee
<1>1. CASE SetupSignals
    BY <1>1, <1>u, Zenon DEF SetupSignals, SetupFailed
<1>2. CASE Attach
    BY <1>2, <1>u, Zenon DEF Attach, SetupFailed
<1>3. CASE NotifySetupFailed
    BY <1>3, <1>u, Zenon DEF NotifySetupFailed
<1>4. CASE LeaveLoop
    BY <1>4, <1>u, Zenon DEF LeaveLoop
<1>5. CASE CheckDeadline
    BY <1>5, <1>u, <1>k, Zenon DEF CheckDeadline
<1>6. CASE CheckDump
    BY <1>6, <1>u, Zenon DEF CheckDump
<1>7. CASE CheckKill
    BY <1>7, <1>u, <1>k, Zenon DEF CheckKill
<1>8. CASE CheckNetwork
    BY <1>8, <1>u, <1>k, Zenon DEF CheckNetwork
<1> QED BY <1>1, <1>2, <1>3, <1>4, <1>5, <1>6, <1>7, <1>8, Zenon DEF LoopTop

\* PidWaiter collects one status or none.
LEMMA WaitingTasks ==
    ASSUME TypeInv, Waiting
    PROVE  /\ \/ UNCHANGED <<task, statuses>>
              \/ \E p \in Pids : Waitable(p) /\ Collect(p)
           /\ UNCHANGED <<syscalls_in_progress, wait_for_execve>>
<1> USE DEF flags, waiter
<1>1. CASE StartWait
    BY <1>1, Zenon DEF StartWait, WaiterUnchanged
<1>2. CASE RefillMain
    BY <1>2, Zenon DEF RefillMain, WaiterUnchanged, Pids
<1>3. CASE RefillAny
    BY <1>3, Zenon DEF RefillAny, WaiterUnchanged
<1>4. CASE NothingWaiting
    BY <1>4, Zenon DEF NothingWaiting
<1> QED BY <1>1, <1>2, <1>3, <1>4, Zenon DEF Waiting

\* The steps after the loop, but for a status of the last wait.
LEMMA EndingTasks ==
    ASSUME TypeInv, Ending, ~DrainStatus
    PROVE  OnlyKills /\ UNCHANGED <<statuses, syscalls_in_progress, wait_for_execve>>
<1> USE DEF flags, waiter
<1>u. ASSUME UNCHANGED task PROVE OnlyKills
    BY <1>u, Zenon DEF OnlyKills
<1>1. CASE DrainStart
    BY <1>1, <1>u, KillMainOnly, Zenon DEF DrainStart, DrainUnchanged
<1>2. CASE DrainTimeout \/ DrainWait \/ DrainNothing
    BY <1>2, <1>u, Zenon DEF DrainTimeout, DrainWait, DrainNothing, DrainUnchanged
<1>3. CASE OnDone
    BY <1>3, <1>u, Zenon DEF OnDone
<1>4. CASE ThreadExit
    BY <1>4, Zenon DEF ThreadExit, OnlyKills
<1> QED BY <1>1, <1>2, <1>3, <1>4, Zenon DEF Ending

\* A status of the last wait: the tracee is resumed when it is an exit stop.
LEMMA DrainStatusTasks ==
    ASSUME TypeInv, DrainStatus
    PROVE  /\ statuses # <<>> /\ statuses' = Tail(statuses)
           /\ Head(statuses).pid \in Pids /\ Head(statuses).st \in Statuses
           /\ UNCHANGED <<syscalls_in_progress, wait_for_execve>>
           /\ \/ OnlyKills
              \/ /\ Head(statuses).st = "exit"
                 /\ ContinueProcess(Head(statuses).pid)
<1>1. Head(statuses) \in [pid : Pids, st : Statuses]
    BY HeadAndTail, Zenon DEF TypeInv, WaiterType, DrainStatus
<1>u. ASSUME UNCHANGED task PROVE OnlyKills
    BY <1>u, Zenon DEF OnlyKills
<1>2. \/ OnlyKills
      \/ Head(statuses).st = "exit" /\ ContinueProcess(Head(statuses).pid)
    BY <1>u, KillMainOnly, Zenon DEF DrainStatus, ContinueProcess
<1> QED BY <1>1, <1>2, Zenon DEF DrainStatus, DrainUnchanged, flags

\* A handler takes the head of the queue and resumes its tracee at most.
LEMMA HandlerTasks ==
    ASSUME NEW p \in Pids,
           HandleExited(p) \/ HandleSignaled(p) \/ StateProcessStopped(p)
    PROVE  \/ UNCHANGED task \/ ContinueProcess(p) \/ CompleteSyscall(p)
<1> USE DEF ReturnSyscall, FetchFails, FailedInspect, ActionProcessSyscallViolation
<1>1. CASE HandleExited(p) \/ HandleSignaled(p)
    BY <1>1, Zenon DEF HandleExited, HandleSignaled
<1>2. CASE HandleSignalStop(p) \/ EventPtraceStop(p)
    BY <1>2, Zenon DEF HandleSignalStop, EventPtraceStop
<1>3. ASSUME NEW st \in StopEvents, HandleNoEventMsg(p, st) PROVE UNCHANGED task
    BY <1>3, Zenon DEF HandleNoEventMsg
<1>4. CASE EventPtraceSeccomp(p)
    BY <1>4, Zenon DEF EventPtraceSeccomp, ActionProcessSyscall
<1>5. CASE EventSyscallExit(p) \/ EventPtraceNewProcess(p)
    BY <1>5, Zenon DEF EventSyscallExit, EventPtraceNewProcess
<1>6. CASE EventPtraceExec(p)
    BY <1>6, Zenon DEF EventPtraceExec
<1>7. CASE EventPtraceExit(p)
    BY <1>7, Zenon DEF EventPtraceExit
<1> QED BY <1>1, <1>2, <1>3, <1>4, <1>5, <1>6, <1>7, Zenon DEF StateProcessStopped

\* Resuming the tracee whose status was the head keeps the queue in order.
LEMMA ResumeKeepsQueue ==
    ASSUME TypeInv, QueueInv, NEW p \in Pids, NEW st \in Statuses, statuses # <<>>,
           Head(statuses).pid = p, Head(statuses).st = st, statuses' = Tail(statuses),
           OnlyKills \/ ContinueProcess(p) \/ CompleteSyscall(p)
    PROVE  QueueInv'
<1>1. \A q \in Pids : task[q] \in KernelTask
    BY Zenon DEF TypeInv, TaskType
<1>2. CASE OnlyKills
    <2>1. \A q \in Pids : Collected(task[q]) \subseteq Collected(task'[q])
        BY <1>1, <1>2, KilledCollected, Zenon DEF OnlyKills
    <2> QED BY <2>1, QueuePopped, Zenon DEF TypeInv, WaiterType, QueueType
<1>3. ASSUME NEW how \in {"cont", "syscall"}, task' = [task EXCEPT ![p] = Resumed(@, how)]
      PROVE  QueueInv'
    <2>1. task'[p] = Resumed(task[p], how) /\ \A q \in Pids \ {p} : task'[q] = task[q]
        BY <1>3, Zenon DEF TypeInv, TaskType
    <2>2. \A s \in Collected(task[p]) : st \in Earlier(s) => s \in Collected(task'[p])
        BY <1>1, <2>1, ResumedCollected, Zenon
    <2> QED BY <2>1, <2>2, QueuePopped, Zenon DEF TypeInv, WaiterType, QueueType
<1> QED BY <1>2, <1>3, Zenon DEF ContinueProcess, CompleteSyscall

\* What the kernel does to a tracee: nothing of a running one is queued, and one
\* that is killed or reaped stays ahead of the queue.
LEMMA KernelCollected ==
    ASSUME TypeInv, Kernel
    PROVE  \A q \in Pids : Collected(task[q]) \subseteq Collected(task'[q])
<1> SUFFICES ASSUME NEW p \in Pids,
                    \/ TraceeStops(p) \/ TraceeSyscall(p)
                    \/ \E child \in Others : TraceeForks(p, child)
                    \/ \E code \in {"exited", "SIGSYS", "killed"} \cap Events :
                           TraceeExits(p, code)
                    \/ SigKillLands(p) \/ KilledByOther(p) \/ ParentReaps(p)
             PROVE  \A q \in Pids : Collected(task[q]) \subseteq Collected(task'[q])
    BY Zenon DEF Kernel
<1>t. task \in [Pids -> KernelTask] /\ task[p] \in KernelTask
    BY Zenon DEF TypeInv, TaskType
<1>r. ASSUME task[p].life = "running", NEW t, task' = [task EXCEPT ![p] = t]
      PROVE  \A q \in Pids : Collected(task[q]) \subseteq Collected(task'[q])
    BY <1>r, <1>t, Zenon DEF Collected
<1>1. CASE TraceeStops(p)
    BY <1>1, <1>r, Zenon DEF TraceeStops, Free, InSyscall
<1>2. CASE TraceeSyscall(p)
    BY <1>2, <1>r, ZenonT(30) DEF TraceeSyscall, Free
<1>3. ASSUME NEW child \in Others, TraceeForks(p, child)
      PROVE  \A q \in Pids : Collected(task[q]) \subseteq Collected(task'[q])
    <2>1. /\ Collected(task[p]) = {} /\ Collected(task[child]) = {}
          /\ \A q \in Pids \ {p, child} : task'[q] = task[q]
        BY <1>3, <1>t, Zenon DEF TraceeForks, Free, InSyscall, Collected
    <2> QED BY <2>1, Zenon
<1>4. ASSUME NEW code, TraceeExits(p, code)
      PROVE  \A q \in Pids : Collected(task[q]) \subseteq Collected(task'[q])
    BY <1>4, <1>r, Zenon DEF TraceeExits
<1>5. CASE SigKillLands(p)
    <2>1. Alive(p) /\ \A q \in Pids \ {p} : task'[q] = task[q]
        BY <1>5, <1>t, Zenon DEF SigKillLands
    <2>2. CASE task[p].ev # "exit"
               /\ task'[p] = [StopAt(NoTask, "exit") EXCEPT !.code = "killed"]
        <3>1. Collected(task'[p]) = PlainStops
            BY <2>2, Zenon DEF StopAt, NoTask, Collected
        <3> QED BY <1>t, <2>1, <2>2, <3>1, AliveCollected, Zenon DEF Alive
    <2>3. CASE \E t \in Task : task'[p] = Dead(t)
        <3>1. Collected(task'[p]) = StopEvents
            BY <2>3, ZenonT(30) DEF Dead, Task, Collected
        <3> QED BY <1>t, <2>1, <3>1, AliveCollected, Zenon DEF Alive
    <2>4. [task[p] EXCEPT !.code = "killed"] \in Task /\ task[p] \in Task
        BY <1>t, Zenon DEF KernelTask, Task, ExitCodes
    <2> QED BY <1>5, <1>t, <2>2, <2>3, <2>4, Zenon DEF SigKillLands
<1>6. CASE KilledByOther(p)
    BY <1>6, <1>t, KilledCollected, Zenon DEF KilledByOther
<1>7. CASE ParentReaps(p)
    <2>1. task'[p].life = "gone" /\ \A q \in Pids \ {p} : task'[q] = task[q]
        BY <1>7, <1>t, Zenon DEF ParentReaps, KernelTask, Task
    <2>2. Collected(task[p]) = Collected(task'[p])
        BY <1>7, <2>1, Zenon DEF ParentReaps, Collected
    <2> QED BY <2>1, <2>2, Zenon
<1> QED BY <1>1, <1>2, <1>3, <1>4, <1>5, <1>6, <1>7, Zenon

\* The queue stays in order.
THEOREM QueueInvariant == Spec => []QueueInv
<1>1. Init => QueueInv
    BY DEF Init, QueueInv, QueueFits, QueueOrder
<1>2. TypeInv /\ QueueInv /\ [Next]_vars => QueueInv'
    <2> SUFFICES ASSUME TypeInv, QueueInv, [Next]_vars PROVE QueueInv'
        OBVIOUS
    <2>k. ASSUME UNCHANGED <<task, statuses>> PROVE QueueInv'
        BY <2>k, Zenon DEF QueueInv, QueueFits, QueueOrder
    <2>1. CASE LoopTop
        BY <2>1, LoopTopTasks, KillsKeepQueue, Zenon DEF waiter
    <2>2. CASE Waiting
        BY <2>2, <2>k, WaitingTasks, QueueCollect, Zenon DEF TypeInv, WaiterType, QueueType
    <2>3. CASE Ending /\ ~DrainStatus
        BY <2>3, EndingTasks, KillsKeepQueue, Zenon
    <2>4. CASE DrainStatus
        BY <2>4, DrainStatusTasks, ResumeKeepsQueue, Zenon
    <2>5. ASSUME NEW p \in Pids,
                 HandleExited(p) \/ HandleSignaled(p) \/ StateProcessStopped(p)
          PROVE  QueueInv'
        <3>1. PICK st \in Statuses : Pop(p, st)
            BY <2>5, HandlerPops, Zenon
        <3>2. UNCHANGED task => OnlyKills
            BY Zenon DEF OnlyKills
        <3> QED BY <2>5, <3>1, <3>2, HandlerTasks, ResumeKeepsQueue DEF Pop
    <2>6. CASE Host
        BY <2>6, <2>k, Zenon DEF Host, RunAsync, AwaitResult, Kill, DumpStackTrace,
              SetWallTimeLimit, DeadlinePasses, ProxyViolation, HostUnchanged, waiter
    <2>7. CASE Kernel
        <3>1. UNCHANGED statuses
            BY <2>7, Zenon DEF Kernel, TraceeStops, TraceeSyscall, TraceeForks, TraceeExits,
                   SigKillLands, KilledByOther, ParentReaps, KernelUnchanged, waiter
        <3> QED BY <2>7, <3>1, KernelCollected, QueueKept, Zenon DEF TypeInv, WaiterType, QueueType
    <2>8. CASE UNCHANGED vars
        BY <2>8, <2>k, Zenon DEF vars, waiter
    <2> QED BY <2>1, <2>2, <2>3, <2>4, <2>5, <2>6, <2>7, <2>8, MonitorSteps, Zenon DEF Next
<1> QED BY <1>1, <1>2, TypesInvariant, PTL DEF Spec

\* The head of the queue is a status its tracee can still have there; of a tracee
\* at another stop than its exit it is that very stop.
LEMMA HeadFits ==
    ASSUME TypeInv, QueueInv, statuses # <<>>
    PROVE  /\ Head(statuses).pid \in Pids /\ Head(statuses).st \in Statuses
           /\ Head(statuses).st \in Collected(task[Head(statuses).pid])
           /\ Head(statuses) = [pid |-> Head(statuses).pid, st |-> Head(statuses).st]
<1>1. 1 \in 1 .. Len(statuses) /\ Head(statuses) = statuses[1]
    BY TailElements, Zenon DEF TypeInv, WaiterType
<1>2. Head(statuses) \in [pid : Pids, st : Statuses]
    BY HeadAndTail, Zenon DEF TypeInv, WaiterType
<1> QED BY <1>1, <1>2, Zenon DEF QueueInv, QueueFits

\* The step by which a tracee leaves a seccomp stop for running.
LEMMA SeccompStep ==
    ASSUME TypeInv, QueueInv, [Next]_vars, NEW p \in Pids, task[p].ev = "seccomp",
           task'[p].life = "running"
    PROVE  statuses # <<>> /\ Head(statuses) = [pid |-> p, st |-> "seccomp"]
<1>t. /\ task \in [Pids -> KernelTask] /\ task[p] \in KernelTask
      /\ task[p].life = "stopped" /\ Collected(task[p]) \subseteq {"seccomp"}
    BY Zenon DEF TypeInv, TaskType, KernelTask, StopEvents, Collected
<1>k. ~OnlyKills
    <2>1. SigKilled(task[p]).life = "stopped"
        BY <1>t, Zenon DEF SigKilled, KernelTask, Task
    <2> QED BY <1>t, <2>1, Zenon DEF OnlyKills
<1>u. ~UNCHANGED task
    BY <1>t, Zenon
<1>h. ASSUME statuses # <<>>, NEW q, Head(statuses).pid = q, q \in Pids,
             ContinueProcess(q) \/ CompleteSyscall(q)
      PROVE  Head(statuses) = [pid |-> p, st |-> "seccomp"]
    <2>1. q = p
        BY <1>t, <1>h, Zenon DEF ContinueProcess, CompleteSyscall
    <2> QED BY <1>t, <1>h, <2>1, HeadFits, Zenon
<1>1. CASE LoopTop
    BY <1>1, <1>k, LoopTopTasks, Zenon
<1>2. CASE Waiting
    <2>1. PICK q \in Pids : Waitable(q) /\ Collect(q)
        BY <1>2, <1>u, WaitingTasks, Zenon
    <2> QED BY <1>t, <2>1, Zenon DEF Collect, KernelTask, Task
<1>3. CASE Ending /\ ~DrainStatus
    BY <1>3, <1>k, EndingTasks, Zenon
<1>4. CASE DrainStatus
    BY <1>4, <1>k, <1>h, DrainStatusTasks, Zenon
<1>5. ASSUME NEW q \in Pids,
             HandleExited(q) \/ HandleSignaled(q) \/ StateProcessStopped(q)
      PROVE  statuses # <<>> /\ Head(statuses) = [pid |-> p, st |-> "seccomp"]
    <2>1. PICK st \in Statuses : Pop(q, st)
        BY <1>5, HandlerPops, Zenon
    <2>2. statuses # <<>> /\ Head(statuses).pid = q
        BY <2>1 DEF Pop
    <2> QED BY <1>5, <1>u, <1>h, <2>2, HandlerTasks, Zenon
<1>6. CASE Host
    BY <1>6, <1>u, Zenon DEF Host, RunAsync, AwaitResult, Kill, DumpStackTrace,
          SetWallTimeLimit, DeadlinePasses, ProxyViolation, HostUnchanged
<1>7. CASE Kernel
    <2>1. PICK q \in Pids :
              \/ TraceeStops(q) \/ TraceeSyscall(q)
              \/ \E child \in Others : TraceeForks(q, child)
              \/ \E code \in {"exited", "SIGSYS", "killed"} \cap Events :
                     TraceeExits(q, code)
              \/ SigKillLands(q) \/ KilledByOther(q) \/ ParentReaps(q)
        BY <1>7, ZenonT(30) DEF Kernel
    <2>2. CASE TraceeStops(q) \/ TraceeSyscall(q)
        BY <1>t, <2>2, Zenon DEF TraceeStops, TraceeSyscall, Free, InSyscall
    <2>3. ASSUME NEW child \in Others, TraceeForks(q, child) PROVE FALSE
        <3>1. q # p /\ child # p
            BY <1>t, <2>3, Zenon DEF TraceeForks, Free, InSyscall
        <3> QED BY <1>t, <2>3, <3>1, Zenon DEF TraceeForks
    <2>4. ASSUME NEW code, TraceeExits(q, code) PROVE FALSE
        BY <1>t, <2>4, Zenon DEF TraceeExits
    <2>5. CASE SigKillLands(q)
        <3>1. q = p
            BY <1>t, <2>5, Zenon DEF SigKillLands
        <3>2. [StopAt(NoTask, "exit") EXCEPT !.code = "killed"].life = "stopped"
            BY Zenon DEF StopAt, NoTask
        <3>3. \A t \in Task : Dead(t).life = "zombie"
            BY Zenon DEF Dead, Task
        <3>4. task[p] \in Task /\ [task[p] EXCEPT !.code = "killed"] \in Task
            BY <1>t, Zenon DEF KernelTask, Task, ExitCodes
        <3> QED BY <1>t, <2>5, <3>1, <3>2, <3>3, <3>4, Zenon DEF SigKillLands
    <2>6. CASE KilledByOther(q)
        BY <1>t, <1>k, <2>6, Zenon DEF KilledByOther, OnlyKills
    <2>7. CASE ParentReaps(q)
        BY <1>t, <2>7, Zenon DEF ParentReaps
    <2> QED BY <2>1, <2>2, <2>3, <2>4, <2>5, <2>6, <2>7, ZenonT(30)
<1>8. CASE UNCHANGED vars
    BY <1>8, <1>u, Zenon DEF vars
<1> QED BY <1>1, <1>2, <1>3, <1>4, <1>5, <1>6, <1>7, <1>8, MonitorSteps, Zenon DEF Next

\* No traced syscall slips through, for any number of processes and any order of
\* their statuses: a tracee leaves its seccomp stop only when StateProcessStopped
\* handles that stop, and is never resumed for a status queued before it.
THEOREM SyscallsExamined == Spec => EverySyscallExamined
<1>1. TypeInv /\ QueueInv /\ [Next]_vars =>
          [\A p \in Pids :
              (task[p].ev = "seccomp" /\ task'[p].life = "running") =>
                  (statuses # <<>> /\ Head(statuses) = [pid |-> p, st |-> "seccomp"])]_vars
    BY SeccompStep, Zenon
<1> QED BY <1>1, TypesInvariant, QueueInvariant, PTL DEF Spec, EverySyscallExamined

-----------------------------------------------------------------------------
(***************************************************************************)
(* syscalls_in_progress_ against the tracees.  InspectionsMatch is not     *)
(* inductive: the entry of a tracee is made when it enters a syscall and   *)
(* looked up at a later stop, by then perhaps of a tracee killed since.    *)
(***************************************************************************)
\* What the entry of a tracee may be when a status of it is handled ...
Entry(st) ==
    IF st = "sysexit" THEN SyscallClasses \ {"none"}
    ELSE IF st = "newproc" THEN {"none", "fork"}
    ELSE IF st = "exec" THEN {"none", "execveat"}
    ELSE IF st \in {"signal", "seccomp", "stop"} THEN {"none"}
    ELSE SyscallClasses

\* ... and before, by the tracee's state.
EntryOf(t) ==
    IF t.life = "none" THEN {"none"}
    ELSE IF t.life = "running" THEN IF t.mode = "syscall" THEN {t.sys} \ {"none"} ELSE {"none"}
    ELSE IF t.life = "stopped" THEN Entry(t.ev)
    ELSE SyscallClasses

EntryFits == \A p \in Pids : syscalls_in_progress[p] \in EntryOf(task[p])
QueuedEntryFits ==
    \A i \in 1 .. Len(statuses) :
        syscalls_in_progress[statuses[i].pid] \in Entry(statuses[i].st)
ExecFits == \A p \in Pids : syscalls_in_progress[p] = "execveat" => ~wait_for_execve
EntryInv == EntryFits /\ QueuedEntryFits /\ ExecFits

\* A SIGKILL on its way leaves the entry.
LEMMA KilledEntry ==
    ASSUME NEW t \in KernelTask
    PROVE  EntryOf(SigKilled(t)) = EntryOf(t)
<1>1. /\ SigKilled(t).life = t.life /\ SigKilled(t).ev = t.ev
      /\ SigKilled(t).mode = t.mode /\ SigKilled(t).sys = t.sys
    BY Zenon DEF KernelTask, Task, SigKilled
<1> QED BY <1>1, Zenon DEF EntryOf

\* Steps that change neither the queue nor the entries.
LEMMA KillsKeepEntries ==
    ASSUME TypeInv, EntryInv, OnlyKills,
           UNCHANGED <<statuses, syscalls_in_progress, wait_for_execve>>
    PROVE  EntryInv'
<1>1. EntryFits'
    BY KilledEntry, Zenon DEF EntryInv, EntryFits, OnlyKills, TypeInv, TaskType
<1> QED BY <1>1, Zenon DEF EntryInv, QueuedEntryFits, ExecFits

\* A status is collected: the entry fits it.
LEMMA CollectKeepsEntries ==
    ASSUME TypeInv, EntryInv, NEW p \in Pids, Waitable(p), Collect(p),
           UNCHANGED <<syscalls_in_progress, wait_for_execve>>
    PROVE  EntryInv'
<1> DEFINE st == WaitStatus(task[p])
           e == [pid |-> p, st |-> st]
<1>1. task[p] \in KernelTask /\ st \in Statuses
    BY WaitStatusType, Zenon DEF TypeInv, TaskType
<1>2. /\ Len(statuses) \in Nat /\ Len(statuses') = Len(statuses) + 1
      /\ statuses'[Len(statuses) + 1] = e
      /\ \A i \in 1 .. Len(statuses) : statuses'[i] = statuses[i]
    BY <1>1, AppendElements DEF TypeInv, WaiterType, Collect
<1>3. /\ task'[p].ev = task[p].ev /\ \A q \in Pids \ {p} : task'[q] = task[q]
      /\ task'[p].life = (IF task[p].life = "zombie" THEN "reaped" ELSE task[p].life)
    BY <1>1, Zenon DEF Collect, TypeInv, TaskType, KernelTask, Task
<1>4. syscalls_in_progress[p] \in EntryOf(task[p]) /\ syscalls_in_progress[p] \in SyscallClasses
    BY Zenon DEF EntryInv, EntryFits, TypeInv, SyscallsType
<1>5. syscalls_in_progress[p] \in Entry(st)
    <2>1. CASE task[p].life = "zombie"
        BY <1>4, <2>1, Zenon DEF WaitStatus, Entry
    <2>2. CASE task[p].life = "stopped"
        BY <1>4, <2>2, Zenon DEF WaitStatus, EntryOf
    <2> QED BY <2>1, <2>2, Zenon DEF Waitable
<1>6. syscalls_in_progress[p] \in EntryOf(task'[p])
    BY <1>3, <1>4, Zenon DEF EntryOf, Waitable
<1>7. EntryFits'
    BY <1>3, <1>6, Zenon DEF EntryInv, EntryFits
<1>8. QueuedEntryFits'
    <2> SUFFICES ASSUME NEW i \in 1 .. Len(statuses')
                 PROVE  syscalls_in_progress[statuses'[i].pid] \in Entry(statuses'[i].st)
        BY Zenon DEF QueuedEntryFits
    <2>1. CASE i = Len(statuses) + 1
        BY <1>2, <1>5, <2>1
    <2>2. CASE i \in 1 .. Len(statuses)
        BY <1>2, <2>2, Zenon DEF EntryInv, QueuedEntryFits
    <2> QED BY <1>2, <2>1, <2>2
<1> QED BY <1>7, <1>8, Zenon DEF EntryInv, ExecFits

\* What may be queued for a tracee behind a status of it fits any entry.
LEMMA LaterEntry ==
    ASSUME NEW first \in Statuses, NEW st \in Statuses, first \in Earlier(st)
    PROVE  Entry(st) = SyscallClasses
BY Zenon DEF Earlier, Entry, Deaths

\* The head of the queue is taken.
LEMMA PopKeepsEntries ==
    ASSUME TypeInv, QueueInv, EntryInv, NEW p \in Pids, statuses # <<>>,
           Head(statuses).pid = p, statuses' = Tail(statuses),
           SyscallsType', syscalls_in_progress'[p] \in EntryOf(task'[p]),
           \A q \in Pids \ {p} : /\ syscalls_in_progress'[q] = syscalls_in_progress[q]
                                 /\ EntryOf(task'[q]) = EntryOf(task[q]),
           ExecFits'
    PROVE  EntryInv'
<1>1. EntryFits'
    BY Zenon DEF EntryInv, EntryFits
<1>2. /\ Len(statuses) \in Nat /\ 1 \in 1 .. Len(statuses) /\ Head(statuses) = statuses[1]
      /\ \A i \in 1 .. Len(statuses') : /\ statuses'[i] = statuses[i + 1]
                                        /\ i + 1 \in 1 .. Len(statuses)
    BY TailElements, Zenon DEF TypeInv, WaiterType
<1>3. QueuedEntryFits'
    <2> SUFFICES ASSUME NEW i \in 1 .. Len(statuses')
                 PROVE  syscalls_in_progress'[statuses'[i].pid] \in Entry(statuses'[i].st)
        BY ZenonT(30) DEF QueuedEntryFits
    <2> DEFINE e == statuses[i + 1]
    <2>1. i + 1 \in 1 .. Len(statuses) /\ statuses'[i] = e /\ 1 < i + 1
        BY <1>2
    <2>2. /\ e.pid \in Pids /\ e.st \in Statuses
          /\ statuses[1].pid \in Pids /\ statuses[1].st \in Statuses
        BY <1>2, <2>1, QueueElements, Zenon DEF TypeInv, WaiterType, QueueType
    <2>3. CASE e.pid = p
        <3>1. statuses[1].st \in Earlier(e.st)
            BY <1>2, <2>1, <2>3, Zenon DEF QueueInv, QueueOrder
        <3>2. Entry(e.st) = SyscallClasses
            BY <2>2, <3>1, LaterEntry, Zenon
        <3> QED BY <2>1, <2>3, <3>2, Zenon DEF SyscallsType
    <2>4. CASE e.pid # p
        <3>1. syscalls_in_progress[e.pid] \in Entry(e.st)
            BY <2>1, Zenon DEF EntryInv, QueuedEntryFits
        <3> QED BY <2>1, <2>2, <2>4, <3>1, Zenon
    <2> QED BY <2>3, <2>4, Zenon
<1> QED BY <1>1, <1>3, Zenon DEF EntryInv

\* A tracee that was resumed with PTRACE_CONT needs no entry.
LEMMA ContinuedEntry ==
    ASSUME NEW t \in KernelTask, t.life \notin {"none", "running"}
    PROVE  "none" \in EntryOf(Resumed(t, "cont"))
<1>1. CASE t.life # "stopped"
    BY <1>1, Zenon DEF Resumed, EntryOf, SyscallClasses
<1>2. CASE t.life = "stopped" /\ t.ev = "exit"
    <2>1. Resumed(t, "cont").life = "zombie"
        BY <1>2, Zenon DEF Resumed, Dead, KernelTask, Task
    <2> QED BY <2>1, Zenon DEF EntryOf, SyscallClasses
<1>3. CASE t.life = "stopped" /\ t.ev # "exit"
    <2>1. Resumed(t, "cont").life = "running" /\ Resumed(t, "cont").mode = "cont"
        BY <1>3, Zenon DEF Resumed, KernelTask, Task
    <2> QED BY <2>1, Zenon DEF EntryOf
<1> QED BY <1>1, <1>2, <1>3, Zenon

\* The entry and its tracee after a handler.
LEMMA HandlerEntries ==
    ASSUME TypeInv, QueueInv, EntryInv, NEW p \in Pids,
           HandleExited(p) \/ HandleSignaled(p) \/ StateProcessStopped(p)
    PROVE  /\ syscalls_in_progress'[p] \in EntryOf(task'[p])
           /\ \A q \in Pids \ {p} : syscalls_in_progress'[q] = syscalls_in_progress[q]
           /\ syscalls_in_progress'[p] = "execveat" => ~wait_for_execve'
           /\ wait_for_execve' => wait_for_execve
<1> DEFINE sip == syscalls_in_progress
           Done == /\ sip'[p] \in EntryOf(task'[p])
                   /\ \A q \in Pids \ {p} : sip'[q] = sip[q]
                   /\ sip'[p] = "execveat" => ~wait_for_execve'
                   /\ wait_for_execve' => wait_for_execve
<1>t. /\ task \in [Pids -> KernelTask] /\ task[p] \in KernelTask
      /\ sip \in [Pids -> SyscallClasses] /\ wait_for_execve \in BOOLEAN
    BY Zenon DEF TypeInv, TaskType, SyscallsType, FlagsType
<1>e. sip[p] \in EntryOf(task[p]) /\ (sip[p] = "execveat" => ~wait_for_execve)
    BY Zenon DEF EntryInv, EntryFits, ExecFits
<1>p. ASSUME NEW st, Pop(p, st)
      PROVE  st \in Collected(task[p]) /\ sip[p] \in Entry(st)
             /\ task[p].life \notin {"none", "running"}
    <2>1. statuses # <<>> /\ Head(statuses).pid = p /\ Head(statuses).st = st
        BY <1>p DEF Pop
    <2>2. 1 \in 1 .. Len(statuses) /\ Head(statuses) = statuses[1]
        BY <2>1, TailElements, Zenon DEF TypeInv, WaiterType
    <2>3. st \in Collected(task[p])
        BY <2>1, HeadFits, Zenon
    <2> QED BY <2>1, <2>2, <2>3, Zenon DEF EntryInv, QueuedEntryFits, Collected
<1>u. ASSUME UNCHANGED <<task, syscalls_in_progress, wait_for_execve>> PROVE Done
    BY <1>u, <1>e, Zenon
<1>c. ASSUME NEW st, Pop(p, st), ContinueProcess(p), sip'[p] = "none",
             \A q \in Pids \ {p} : sip'[q] = sip[q], wait_for_execve' => wait_for_execve
      PROVE  Done
    <2>1. task'[p] = Resumed(task[p], "cont")
        BY <1>c, <1>t, Zenon DEF ContinueProcess
    <2> QED BY <1>c, <1>t, <1>p, <2>1, ContinuedEntry, Zenon
<1>n. ASSUME NEW st \in {"signal", "seccomp", "stop"}, Pop(p, st), ContinueProcess(p),
             UNCHANGED <<syscalls_in_progress, wait_for_execve>>
      PROVE  Done
    <2>1. sip[p] = "none"
        BY <1>n, <1>p, Zenon DEF Entry
    <2> QED BY <1>c, <1>n, <2>1, ZenonT(30)
<1>r. ASSUME NEW st, Pop(p, st), ReturnSyscall(p), UNCHANGED wait_for_execve PROVE Done
    <2>1. ContinueProcess(p) /\ sip'[p] = "none" /\ \A q \in Pids \ {p} : sip'[q] = sip[q]
        BY <1>r, <1>t, Zenon DEF ReturnSyscall
    <2> QED BY <1>c, <1>r, <2>1, Zenon
<1>i. ASSUME FailedInspect \/ FetchFails(p) PROVE Done
    BY <1>i, <1>u, Zenon DEF FailedInspect, FetchFails
<1>1. CASE HandleExited(p) \/ HandleSignaled(p)
    BY <1>1, <1>u, ZenonT(30) DEF HandleExited, HandleSignaled
<1>2. CASE HandleSignalStop(p)
    BY <1>2, <1>n, ZenonT(30) DEF HandleSignalStop
<1>3. CASE EventPtraceStop(p)
    BY <1>3, <1>n, Zenon DEF EventPtraceStop, PopEvent
<1>4. ASSUME NEW st \in StopEvents, HandleNoEventMsg(p, st) PROVE Done
    BY <1>4, <1>u, Zenon DEF HandleNoEventMsg
<1>5. CASE EventPtraceSeccomp(p)
    <2>1. Pop(p, "seccomp") /\ task[p].life = "stopped"
        BY <1>5, ZenonT(30) DEF EventPtraceSeccomp, PopEvent
    <2>2. CASE UNCHANGED <<task, syscalls_in_progress, wait_for_execve>>
        BY <2>2, <1>u, ZenonT(30)
    <2>3. CASE ContinueProcess(p) /\ UNCHANGED <<syscalls_in_progress, wait_for_execve>>
        BY <2>1, <2>3, <1>n, Zenon
    <2>4. CASE /\ task[p].ev = "seccomp" /\ ~(task[p].sys = "execveat" /\ wait_for_execve)
               /\ syscalls_in_progress' = [syscalls_in_progress EXCEPT ![p] = task[p].sys]
               /\ CompleteSyscall(p) /\ UNCHANGED wait_for_execve
        <3>1. task'[p] = Resumed(task[p], "syscall")
            BY <1>t, <2>4, Zenon DEF CompleteSyscall
        <3>2. /\ task'[p].life = "running" /\ task'[p].mode = "syscall"
              /\ task'[p].sys = task[p].sys /\ task[p].sys # "none"
            BY <1>t, <2>1, <2>4, <3>1, Zenon DEF Resumed, KernelTask, Task
        <3>3. sip'[p] = task[p].sys /\ \A q \in Pids \ {p} : sip'[q] = sip[q]
            BY <1>t, <2>4, Zenon
        <3> QED BY <2>4, <3>2, <3>3 DEF EntryOf
    <2> QED BY <1>5, <2>2, <2>3, <2>4, ZenonT(30)
            DEF EventPtraceSeccomp, IsArchitecture, FetchFails, ActionProcessSyscall,
                ActionProcessSyscallViolation
<1>6. CASE EventSyscallExit(p)
    BY <1>6, <1>i, <1>r, Zenon DEF EventSyscallExit, PopEvent
<1>7. CASE EventPtraceNewProcess(p)
    BY <1>7, <1>i, <1>r, Zenon DEF EventPtraceNewProcess, PopEvent
<1>8. CASE EventPtraceExec(p)
    <2>1. CASE /\ wait_for_execve /\ wait_for_execve' = FALSE
               /\ ContinueProcess(p) /\ UNCHANGED syscalls_in_progress
        <3>1. Pop(p, "exec")
            BY <1>8, ZenonT(30) DEF EventPtraceExec, PopEvent
        <3>2. sip[p] = "none"
            BY <1>e, <1>p, <2>1, <3>1, Zenon DEF Entry
        <3> QED BY <1>c, <2>1, <3>1, <3>2, Zenon
    <2> QED BY <1>8, <1>i, <1>r, <2>1, ZenonT(30) DEF EventPtraceExec, PopEvent
<1>9. CASE EventPtraceExit(p)
    <2>1. /\ Pop(p, "exit") /\ task[p].life = "stopped" /\ UNCHANGED wait_for_execve
          /\ sip'[p] = "none" /\ \A q \in Pids \ {p} : sip'[q] = sip[q]
        BY <1>9, <1>t, Zenon DEF EventPtraceExit, PopEvent
    <2>2. CASE UNCHANGED task
        <3>1. task[p].ev = "exit"
            BY <1>p, <2>1, Zenon DEF Collected
        <3> QED BY <2>1, <2>2, <3>1, Zenon DEF EntryOf, Entry, SyscallClasses
    <2>3. CASE ContinueProcess(p)
        BY <1>c, <2>1, <2>3, Zenon
    <2> QED BY <1>9, <2>2, <2>3, ZenonT(30) DEF EventPtraceExit, ActionProcessSyscallViolation
<1> QED BY <1>1, <1>2, <1>3, <1>4, <1>5, <1>6, <1>7, <1>8, <1>9, Zenon DEF StateProcessStopped

\* What the kernel does to a tracee keeps its entry fitting.
LEMMA KernelEntries ==
    ASSUME TypeInv, EntryInv, Kernel
    PROVE  EntryInv'
<1>k. UNCHANGED <<statuses, syscalls_in_progress, wait_for_execve>>
    BY ZenonT(30) DEF Kernel, TraceeStops, TraceeSyscall, TraceeForks, TraceeExits, SigKillLands,
           KilledByOther, ParentReaps, KernelUnchanged, waiter, flags
<1> SUFFICES ASSUME NEW p \in Pids,
                    \/ TraceeStops(p) \/ TraceeSyscall(p)
                    \/ \E child \in Others : TraceeForks(p, child)
                    \/ \E code \in {"exited", "SIGSYS", "killed"} \cap Events :
                           TraceeExits(p, code)
                    \/ SigKillLands(p) \/ KilledByOther(p) \/ ParentReaps(p)
             PROVE  EntryFits'
    BY <1>k, Zenon DEF Kernel, EntryInv, QueuedEntryFits, ExecFits
<1>t. /\ task \in [Pids -> KernelTask] /\ task[p] \in KernelTask
      /\ syscalls_in_progress[p] \in SyscallClasses
    BY Zenon DEF TypeInv, TaskType, SyscallsType
<1>e. \A q \in Pids : syscalls_in_progress[q] \in EntryOf(task[q])
    BY Zenon DEF EntryInv, EntryFits
<1>u. ASSUME NEW t, task' = [task EXCEPT ![p] = t], syscalls_in_progress[p] \in EntryOf(t)
      PROVE  EntryFits'
    BY <1>u, <1>t, <1>e, <1>k, Zenon DEF EntryFits
<1>s. ASSUME NEW t \in Task, NEW ev
      PROVE  EntryOf(StopAt(t, ev)) = Entry(ev)
    <2>1. StopAt(t, ev).life = "stopped" /\ StopAt(t, ev).ev = ev
        BY <1>s, Zenon DEF StopAt, Task
    <2> QED BY <2>1, Zenon DEF EntryOf
<1>n. NoTask \in Task /\ task[p] \in Task
    BY <1>t, NewTaskTypes, Zenon DEF KernelTask
<1>f. Free(p) => syscalls_in_progress[p] = "none"
    BY <1>e, ZenonT(30) DEF Free, EntryOf
<1>i. ASSUME NEW S, InSyscall(p, S)
      PROVE  syscalls_in_progress[p] \in S /\ syscalls_in_progress[p] # "none"
    BY <1>e, <1>i, Zenon DEF InSyscall, EntryOf
<1>1. CASE TraceeStops(p)
    <2>1. ASSUME Free(p), NEW ev \in {"signal", "stop", "exec"},
                 task' = [task EXCEPT ![p] = StopAt(@, ev)]
          PROVE  EntryFits'
        <3>1. "none" \in Entry(ev)
            BY <2>1, Zenon DEF Entry
        <3> QED BY <2>1, <3>1, <1>f, <1>n, <1>s, <1>u, Zenon
    <2>2. CASE InSyscall(p, {"execveat"}) /\ task' = [task EXCEPT ![p] = StopAt(@, "exec")]
        <3>1. syscalls_in_progress[p] \in Entry("exec")
            BY <2>2, <1>i, Zenon DEF Entry
        <3> QED BY <2>2, <3>1, <1>n, <1>s, <1>u, Zenon
    <2>3. CASE /\ InSyscall(p, SyscallClasses)
               /\ task' = [task EXCEPT ![p] = StopAt(@, "sysexit")]
        <3>1. syscalls_in_progress[p] \in Entry("sysexit")
            BY <2>3, <1>i, Zenon DEF Entry
        <3> QED BY <2>3, <3>1, <1>n, <1>s, <1>u, ZenonT(30)
    <2> QED BY <1>1, <2>1, <2>2, <2>3, Zenon DEF TraceeStops
<1>2. CASE TraceeSyscall(p)
    <2>1. PICK class, arch : task' = [task EXCEPT ![p] = [StopAt(@, "seccomp") EXCEPT
                                                            !.sys = class, !.arch = arch]]
        BY <1>2, Zenon DEF TraceeSyscall
    <2> DEFINE t == [StopAt(task[p], "seccomp") EXCEPT !.sys = class, !.arch = arch]
    <2>2. t.life = "stopped" /\ t.ev = "seccomp"
        BY <1>n, Zenon DEF StopAt, Task
    <2>3. EntryOf(t) = {"none"}
        BY <2>2, Zenon DEF EntryOf, Entry
    <2> QED BY <1>2, <1>f, <1>u, <2>1, <2>3, Zenon DEF TraceeSyscall
<1>3. ASSUME NEW child \in Others, TraceeForks(p, child) PROVE EntryFits'
    <2>1. /\ child \in Pids /\ child # p /\ task'[child] = StopAt(NoTask, "stop")
          /\ task'[p] = StopAt(task[p], "newproc")
          /\ \A q \in Pids \ {p, child} : task'[q] = task[q]
        BY <1>3, <1>t, Zenon DEF TraceeForks, Pids, Free, InSyscall
    <2>2. syscalls_in_progress[child] = "none"
        BY <1>3, <1>e, <2>1, ZenonT(30) DEF TraceeForks, EntryOf
    <2>3. syscalls_in_progress[p] \in Entry("newproc")
        BY <1>3, <1>f, <1>i, Zenon DEF TraceeForks, Entry
    <2>4. "none" \in Entry("stop")
        BY Zenon DEF Entry
    <2>5. EntryOf(task'[child]) = Entry("stop") /\ EntryOf(task'[p]) = Entry("newproc")
        BY <1>n, <1>s, <2>1, Zenon
    <2> SUFFICES ASSUME NEW q \in Pids PROVE syscalls_in_progress'[q] \in EntryOf(task'[q])
        BY Zenon DEF EntryFits
    <2>6. CASE q = child
        BY <1>k, <2>2, <2>4, <2>5, <2>6, Zenon
    <2>7. CASE q = p
        BY <1>k, <2>3, <2>5, <2>7, Zenon
    <2>8. CASE q # child /\ q # p
        <3>1. task'[q] = task[q]
            BY <2>1, <2>8, Zenon
        <3> QED BY <1>e, <1>k, <3>1, Zenon
    <2> QED BY <2>6, <2>7, <2>8, Zenon
<1>4. ASSUME NEW code, TraceeExits(p, code) PROVE EntryFits'
    <2> DEFINE t == [StopAt(NoTask, "exit") EXCEPT !.code = code, !.killed = task[p].killed]
    <2>1. t.life = "stopped" /\ t.ev = "exit"
        BY Zenon DEF StopAt, NoTask
    <2>2. EntryOf(t) = SyscallClasses
        BY <2>1, Zenon DEF EntryOf, Entry
    <2> QED BY <1>4, <1>t, <1>u, <2>2, Zenon DEF TraceeExits
<1>5. CASE SigKillLands(p)
    <2>1. CASE task' = [task EXCEPT ![p] = [StopAt(NoTask, "exit") EXCEPT !.code = "killed"]]
        <3> DEFINE t == [StopAt(NoTask, "exit") EXCEPT !.code = "killed"]
        <3>1. t.life = "stopped" /\ t.ev = "exit"
            BY Zenon DEF StopAt, NoTask
        <3>2. EntryOf(t) = SyscallClasses
            BY <3>1, Zenon DEF EntryOf, Entry
        <3> QED BY <1>t, <1>u, <2>1, <3>2, Zenon
    <2>2. ASSUME NEW t \in Task, task' = [task EXCEPT ![p] = Dead(t)] PROVE EntryFits'
        <3>1. EntryOf(Dead(t)) = SyscallClasses
            BY Zenon DEF Dead, Task, EntryOf
        <3> QED BY <1>t, <1>u, <2>2, <3>1, Zenon
    <2>3. [task[p] EXCEPT !.code = "killed"] \in Task
        BY <1>n, Zenon DEF Task, ExitCodes
    <2> QED BY <1>5, <1>n, <2>1, <2>2, <2>3, Zenon DEF SigKillLands
<1>6. CASE KilledByOther(p)
    BY <1>6, <1>e, <1>t, <1>u, KilledEntry, Zenon DEF KilledByOther
<1>7. CASE ParentReaps(p)
    <2>1. EntryOf([task[p] EXCEPT !.life = "gone"]) = SyscallClasses
        BY <1>n, Zenon DEF EntryOf, Task
    <2> QED BY <1>7, <1>t, <1>u, <2>1, Zenon DEF ParentReaps
<1> QED BY <1>1, <1>2, <1>3, <1>4, <1>5, <1>6, <1>7, Zenon

\* The entries fit in every state of a run.
THEOREM EntryInvariant == Spec => []EntryInv
<1>1. Init => EntryInv
    <2> SUFFICES ASSUME Init PROVE EntryInv
        OBVIOUS
    <2>1. EntryFits
        BY Zenon DEF Init, EntryFits, EntryOf, RunningTask, NoTask
    <2> QED BY <2>1 DEF Init, EntryInv, QueuedEntryFits, ExecFits
<1>2. TypeInv /\ TypeInv' /\ QueueInv /\ EntryInv /\ [Next]_vars => EntryInv'
    <2> SUFFICES ASSUME TypeInv, TypeInv', QueueInv, EntryInv, [Next]_vars PROVE EntryInv'
        OBVIOUS
    <2>k. ASSUME UNCHANGED <<task, statuses, syscalls_in_progress, wait_for_execve>>
          PROVE  EntryInv'
        BY <2>k, Zenon DEF EntryInv, EntryFits, QueuedEntryFits, ExecFits
    <2>1. CASE LoopTop
        BY <2>1, LoopTopTasks, KillsKeepEntries, Zenon DEF waiter
    <2>2. CASE Waiting
        BY <2>2, <2>k, WaitingTasks, CollectKeepsEntries, Zenon
    <2>3. CASE Ending /\ ~DrainStatus
        BY <2>3, EndingTasks, KillsKeepEntries, Zenon
    <2>4. CASE DrainStatus
        <3> DEFINE p == Head(statuses).pid
        <3>1. /\ statuses # <<>> /\ statuses' = Tail(statuses) /\ p \in Pids
              /\ UNCHANGED <<syscalls_in_progress, wait_for_execve>>
            BY <2>4, DrainStatusTasks, Zenon
        <3>2. CASE OnlyKills
            <4>1. \A q \in Pids : EntryOf(task'[q]) = EntryOf(task[q])
                BY <3>2, KilledEntry, Zenon DEF OnlyKills, TypeInv, TaskType
            <4> QED BY <3>1, <4>1, PopKeepsEntries, ZenonT(30)
                    DEF EntryInv, EntryFits, ExecFits, TypeInv
        <3>3. CASE Head(statuses).st = "exit" /\ ContinueProcess(p)
            <4>1. /\ task'[p] = Resumed(task[p], "cont") /\ task[p] \in KernelTask
                  /\ \A q \in Pids \ {p} : task'[q] = task[q]
                BY <3>1, <3>3, ZenonT(30) DEF ContinueProcess, TypeInv, TaskType
            <4>2. "exit" \in Collected(task[p])
                BY <3>1, <3>3, HeadFits, Zenon
            <4>3. EntryOf(task'[p]) = SyscallClasses
                <5>1. CASE task[p].life # "stopped"
                    BY <4>1, <4>2, <5>1, Zenon DEF Resumed, Collected, EntryOf
                <5>2. CASE task[p].life = "stopped"
                    <6>1. task[p].ev = "exit"
                        BY <4>2, <5>2, Zenon DEF Collected
                    <6>2. task'[p].life = "zombie"
                        BY <4>1, <5>2, <6>1, Zenon DEF Resumed, Dead, KernelTask, Task
                    <6> QED BY <6>2, Zenon DEF EntryOf
                <5> QED BY <5>1, <5>2, Zenon
            <4>4. syscalls_in_progress'[p] \in EntryOf(task'[p])
                BY <3>1, <4>3, Zenon DEF TypeInv, SyscallsType
            <4> QED BY <3>1, <4>1, <4>4, PopKeepsEntries, ZenonT(30) DEF EntryInv, ExecFits, TypeInv
        <3> QED BY <2>4, <3>2, <3>3, DrainStatusTasks, Zenon
    <2>5. ASSUME NEW p \in Pids,
                 HandleExited(p) \/ HandleSignaled(p) \/ StateProcessStopped(p)
          PROVE  EntryInv'
        <3>1. PICK st \in Statuses : Pop(p, st)
            BY <2>5, HandlerPops, Zenon
        <3>2. /\ statuses # <<>> /\ Head(statuses).pid = p /\ statuses' = Tail(statuses)
            BY <3>1 DEF Pop
        <3>3. \A q \in Pids \ {p} : task'[q] = task[q]
            BY <2>5, HandlerTasks, Zenon DEF ContinueProcess, CompleteSyscall, TypeInv, TaskType
        <3>4. ExecFits'
            BY <2>5, HandlerEntries, ZenonT(30) DEF EntryInv, ExecFits
        <3> QED BY <2>5, <3>2, <3>3, <3>4, HandlerEntries, PopKeepsEntries, ZenonT(30) DEF TypeInv
    <2>6. CASE Host
        BY <2>6, <2>k, Zenon DEF Host, RunAsync, AwaitResult, Kill, DumpStackTrace,
              SetWallTimeLimit, DeadlinePasses, ProxyViolation, HostUnchanged, waiter, flags
    <2>7. CASE Kernel
        BY <2>7, KernelEntries, Zenon
    <2>8. CASE UNCHANGED vars
        BY <2>8, <2>k, Zenon DEF vars, waiter, flags
    <2> QED BY <2>1, <2>2, <2>3, <2>4, <2>5, <2>6, <2>7, <2>8, MonitorSteps, Zenon DEF Next
<1> QED BY <1>1, <1>2, TypesInvariant, QueueInvariant, PTL DEF Spec

-----------------------------------------------------------------------------
(***************************************************************************)
(* The death of the main process.  It reaches the loop before the ECHILD   *)
(* behind it: once waitpid() finds no tracee, or not the main process, the *)
(* status of its death is in the queue.                                    *)
(***************************************************************************)
Reaped(t) == t.life \in {"reaped", "gone"}
DeathQueued == \E st \in Deaths : Queued(Main, st)

DeathInv ==
    /\ task[Main].life # "none"
    /\ result = Unset /\ Reaped(task[Main]) => DeathQueued
    /\ last_errno => Reaped(task[Main])

\* What is queued stays behind the head, and in front of what is appended.
LEMMA QueuedBehindHead ==
    ASSUME QueueType, statuses # <<>>, statuses' = Tail(statuses), NEW p, NEW st,
           Queued(p, st), Head(statuses) # [pid |-> p, st |-> st]
    PROVE  Queued(p, st)'
<1>1. PICK i \in 1 .. Len(statuses) : statuses[i] = [pid |-> p, st |-> st]
    BY Zenon DEF Queued
<1>2. Head(statuses) = statuses[1] /\ Len(statuses') = Len(statuses) - 1
      /\ Len(statuses) \in Nat
      /\ \A j \in 1 .. Len(statuses') : statuses'[j] = statuses[j + 1]
    BY TailElements, Zenon DEF QueueType
<1>3. i # 1
    BY <1>1, <1>2, Zenon
<1>4. i - 1 \in 1 .. Len(statuses') /\ (i - 1) + 1 = i
    BY <1>2, <1>3
<1>5. statuses'[i - 1] = [pid |-> p, st |-> st]
    BY <1>1, <1>2, <1>4, Zenon
<1> QED BY <1>4, <1>5, Zenon DEF Queued

\* In particular by Collect(), which queues the status it got.
LEMMA QueuedByCollect ==
    ASSUME TypeInv, NEW p \in Pids, Collect(p), NEW q, NEW st,
           Queued(q, st) \/ (q = p /\ st = WaitStatus(task[p]))
    PROVE  Queued(q, st)'
<1> DEFINE e == [pid |-> p, st |-> WaitStatus(task[p])]
<1>1. e \in [pid : Pids, st : Statuses]
    BY WaitStatusType, Zenon DEF TypeInv, TaskType
<1>2. /\ Len(statuses) \in Nat /\ Len(statuses') = Len(statuses) + 1
      /\ statuses'[Len(statuses) + 1] = e
      /\ \A i \in 1 .. Len(statuses) : statuses'[i] = statuses[i]
    BY <1>1, AppendElements DEF TypeInv, WaiterType, Collect
<1>3. CASE Queued(q, st)
    <2>1. PICK i \in 1 .. Len(statuses) : statuses[i] = [pid |-> q, st |-> st]
        BY <1>3, Zenon DEF Queued
    <2>2. i \in 1 .. Len(statuses')
        <3> HIDE DEF e
        <3> QED BY <1>2, <2>1
    <2>3. statuses'[i] = [pid |-> q, st |-> st]
        BY <1>2, <2>1, Zenon
    <2> QED BY <2>2, <2>3, Zenon DEF Queued
<1>4. CASE q = p /\ st = WaitStatus(task[p])
    <2>1. Len(statuses) + 1 \in 1 .. Len(statuses')
        BY <1>2
    <2> QED BY <1>2, <1>4, <2>1, Zenon DEF Queued
<1> QED BY <1>3, <1>4, Zenon

\* What the kernel does reaps nobody and makes nobody of the main process.
LEMMA KernelReaps ==
    ASSUME TypeInv, Kernel, NEW q \in Pids
    PROVE  /\ Reaped(task'[q]) <=> Reaped(task[q])
           /\ task[q].life # "none" => task'[q].life # "none"
<1> PICK p \in Pids :
        \/ TraceeStops(p) \/ TraceeSyscall(p)
        \/ \E child \in Others : TraceeForks(p, child)
        \/ \E code \in {"exited", "SIGSYS", "killed"} \cap Events : TraceeExits(p, code)
        \/ SigKillLands(p) \/ KilledByOther(p) \/ ParentReaps(p)
    BY Zenon DEF Kernel
<1>t. /\ task \in [Pids -> KernelTask] /\ task[p] \in Task /\ NoTask \in Task
    BY NewTaskTypes, Zenon DEF TypeInv, TaskType, KernelTask
<1>s. \A t \in Task : \A ev : StopAt(t, ev).life = "stopped"
    BY Zenon DEF StopAt, Task
<1>1. CASE TraceeStops(p)
    BY <1>1, <1>t, <1>s, ZenonT(30) DEF TraceeStops, Free, InSyscall, Reaped
<1>2. CASE TraceeSyscall(p)
    <2>1. PICK class, arch : task' = [task EXCEPT ![p] = [StopAt(@, "seccomp") EXCEPT
                                                            !.sys = class, !.arch = arch]]
        BY <1>2, Zenon DEF TraceeSyscall
    <2>2. [StopAt(task[p], "seccomp") EXCEPT !.sys = class, !.arch = arch].life = "stopped"
        BY <1>t, Zenon DEF StopAt, Task
    <2> QED BY <1>2, <1>t, <2>1, <2>2, ZenonT(30) DEF TraceeSyscall, Free, Reaped
<1>3. ASSUME NEW child \in Others, TraceeForks(p, child)
      PROVE  /\ Reaped(task'[q]) <=> Reaped(task[q])
             /\ task[q].life # "none" => task'[q].life # "none"
    <2>1. /\ task'[child].life = "stopped" /\ task'[p].life = "stopped"
          /\ \A r \in Pids \ {p, child} : task'[r] = task[r]
        BY <1>3, <1>t, <1>s, Zenon DEF TraceeForks, Pids, Free, InSyscall
    <2> QED BY <1>3, <2>1, ZenonT(30) DEF TraceeForks, Reaped, Free, InSyscall
<1>4. ASSUME NEW code, TraceeExits(p, code)
      PROVE  /\ Reaped(task'[q]) <=> Reaped(task[q])
             /\ task[q].life # "none" => task'[q].life # "none"
    <2>1. [StopAt(NoTask, "exit") EXCEPT !.code = code, !.killed = task[p].killed].life
              = "stopped"
        BY Zenon DEF StopAt, NoTask
    <2> QED BY <1>4, <1>t, <2>1, Zenon DEF TraceeExits, Reaped
<1>5. CASE SigKillLands(p)
    <2>1. [StopAt(NoTask, "exit") EXCEPT !.code = "killed"].life = "stopped"
        BY Zenon DEF StopAt, NoTask
    <2>2. \A t \in Task : Dead(t).life = "zombie"
        BY Zenon DEF Dead, Task
    <2>3. [task[p] EXCEPT !.code = "killed"] \in Task
        BY <1>t, Zenon DEF Task, ExitCodes
    <2> QED BY <1>5, <1>t, <2>1, <2>2, <2>3, Zenon DEF SigKillLands, Alive, Reaped
<1>6. CASE KilledByOther(p)
    <2>1. SigKilled(task[p]).life = task[p].life
        BY <1>t, Zenon DEF SigKilled, Task
    <2> QED BY <1>6, <1>t, <2>1, Zenon DEF KilledByOther, Reaped
<1>7. CASE ParentReaps(p)
    <2>1. [task[p] EXCEPT !.life = "gone"].life = "gone"
        BY <1>t, Zenon DEF Task
    <2> QED BY <1>7, <1>t, <2>1, Zenon DEF ParentReaps, Reaped
<1> QED BY <1>1, <1>2, <1>3, <1>4, <1>5, <1>6, <1>7, ZenonT(30)

\* Nor does a SIGKILL or a resumption.
LEMMA MonitorReaps ==
    ASSUME TypeInv, NEW p \in Pids, OnlyKills \/ ContinueProcess(p) \/ CompleteSyscall(p),
           NEW q \in Pids
    PROVE  /\ Reaped(task'[q]) <=> Reaped(task[q])
           /\ task[q].life # "none" => task'[q].life # "none"
<1>t. task \in [Pids -> KernelTask] /\ task[q] \in Task
    BY Zenon DEF TypeInv, TaskType, KernelTask
<1>1. SigKilled(task[q]).life = task[q].life
    BY <1>t, Zenon DEF SigKilled, Task
<1>2. \A how : \/ Resumed(task[q], how) = task[q]
               \/ /\ task[q].life = "stopped"
                  /\ Resumed(task[q], how).life \in {"zombie", "running"}
    BY <1>t, Zenon DEF Resumed, Dead, Task
<1> QED BY <1>t, <1>1, <1>2, Zenon DEF OnlyKills, ContinueProcess, CompleteSyscall, Reaped

\* PidWaiter reaps a tracee when it queues its death.
LEMMA WaitingReaps ==
    ASSUME TypeInv, DeathInv, Waiting, result' = Unset
    PROVE  Reaped(task'[Main]) => DeathQueued'
<1>m. Main \in Pids
    BY Zenon DEF Pids
<1>1. result = Unset
    <2>1. CASE UNCHANGED outcome
        BY <2>1, Zenon DEF outcome
    <2>2. CASE SetExitStatusCode("INTERNAL_ERROR", "FAILED_CHILD")
        BY <2>2, Zenon DEF SetExitStatusCode
    <2> QED BY <2>1, <2>2, Zenon DEF Waiting, StartWait, RefillMain, RefillAny, WaiterUnchanged,
                             NothingWaiting
<1>2. CASE UNCHANGED <<task, statuses>>
    BY <1>1, <1>2, ZenonT(30) DEF DeathInv, DeathQueued, Queued, Reaped
<1>3. ASSUME NEW p \in Pids, Waitable(p), Collect(p)
      PROVE  Reaped(task'[Main]) => DeathQueued'
    <2>1. CASE Reaped(task[Main])
        <3>1. PICK st \in Deaths : Queued(Main, st)
            BY <1>1, <2>1, Zenon DEF DeathInv, DeathQueued
        <3>2. Queued(Main, st)'
            BY <1>3, <3>1, QueuedByCollect, Zenon
        <3> QED BY <3>2, Zenon DEF DeathQueued
    <2>2. CASE ~Reaped(task[Main]) /\ Reaped(task'[Main])
        <3>1. p = Main /\ task[Main].life = "zombie"
            BY <1>3, <1>m, <2>2 DEF Collect, TypeInv, TaskType, KernelTask, Task, Reaped
        <3>2. PICK st \in Deaths : st = WaitStatus(task[Main])
            BY <3>1, Zenon DEF WaitStatus, Deaths
        <3>3. Queued(Main, st)'
            BY <1>3, <3>1, <3>2, QueuedByCollect, Zenon
        <3> QED BY <3>3, Zenon DEF DeathQueued
    <2> QED BY <2>1, <2>2, Zenon
<1> QED BY <1>2, <1>3, WaitingTasks, Zenon

\* A stop is handled for the status of a stop.
LEMMA StoppedPops ==
    ASSUME NEW p \in Pids, StateProcessStopped(p)
    PROVE  \E st \in StopEvents : Pop(p, st)
BY Zenon DEF StateProcessStopped, HandleSignalStop, HandleNoEventMsg, EventPtraceSeccomp,
       EventSyscallExit, EventPtraceNewProcess, EventPtraceExec, EventPtraceExit,
       EventPtraceStop, PopEvent, StopEvents

\* A handler that leaves the run without a result leaves the death in the queue.
LEMMA HandlerKeepsDeath ==
    ASSUME TypeInv, DeathQueued, result = Unset, result' = Unset, NEW p \in Pids,
           HandleExited(p) \/ HandleSignaled(p) \/ StateProcessStopped(p)
    PROVE  DeathQueued'
<1>1. PICK d \in Deaths : Queued(Main, d)
    BY Zenon DEF DeathQueued
<1>2. PICK st \in Statuses : Pop(p, st)
    BY HandlerPops, Zenon
<1>3. /\ statuses # <<>> /\ statuses' = Tail(statuses)
      /\ Head(statuses) = [pid |-> p, st |-> st]
    BY <1>2, Zenon DEF Pop
<1>4. Head(statuses) # [pid |-> Main, st |-> d]
    <2> SUFFICES ASSUME p = Main, st = d PROVE FALSE
        BY <1>3
    <2>1. ~StateProcessStopped(p)
        <3>1. \A s \in StopEvents : ~Pop(p, s)
            BY <1>3 DEF Pop, Deaths, StopEvents
        <3> QED BY <3>1, StoppedPops, Zenon
    <2>2. \/ \E s \in FinalStatuses : \E r : SetExitStatusCode(s, r)
          \/ SetMainDeath("SIGNALED")
        BY <2>1, Zenon DEF HandleExited, HandleSignaled, FinalStatuses
    <2>3. \E s \in FinalStatuses : \E r : SetExitStatusCode(s, r)
        BY <2>2, Zenon DEF SetMainDeath, FinalStatuses
    <2> QED BY <2>3, SetsOnce, Zenon
<1>5. Queued(Main, d)'
    BY <1>1, <1>3, <1>4, QueuedBehindHead, Zenon DEF TypeInv, WaiterType, QueueType
<1> QED BY <1>5, Zenon DEF DeathQueued

\* Once the main process is reaped its death is queued, until it is the result.
THEOREM DeathInvariant == Spec => []DeathInv
<1>m. Main \in Pids
    BY Zenon DEF Pids
<1>1. Init => DeathInv
    BY <1>m, Zenon DEF Init, DeathInv, RunningTask, NoTask, Reaped
<1>2. TypeInv /\ ResultInv /\ DeathInv /\ [Next]_vars => DeathInv'
    <2> SUFFICES ASSUME TypeInv, ResultInv, DeathInv, [Next]_vars PROVE DeathInv'
        OBVIOUS
    <2>k. ASSUME Reaped(task'[Main]) <=> Reaped(task[Main]),
                 task[Main].life # "none" => task'[Main].life # "none",
                 result' = Unset => result = Unset, UNCHANGED statuses,
                 last_errno' => last_errno
          PROVE  DeathInv'
        BY <2>k, ZenonT(30) DEF DeathInv, DeathQueued, Queued
    <2>1. CASE LoopTop
        <3>1. result' = Unset => result = Unset
            BY <2>1, LoopTopResult, Zenon DEF SetOnce, outcome
        <3> QED BY <1>m, <2>1, <2>k, <3>1, LoopTopTasks, MonitorReaps, Zenon DEF waiter
    <2>2. CASE Waiting
        <3>1. result' = Unset /\ Reaped(task'[Main]) => DeathQueued'
            BY <2>2, WaitingReaps, Zenon
        <3>2. /\ Reaped(task[Main]) => Reaped(task'[Main])
              /\ task'[Main].life # "none"
            <4>1. CASE UNCHANGED task
                BY <4>1, Zenon DEF DeathInv
            <4>2. ASSUME NEW p \in Pids, Collect(p)
                  PROVE  task'[Main].life \in {task[Main].life, "reaped"}
                <5>1. CASE p = Main
                    BY <1>m, <4>2, <5>1 DEF Collect, TypeInv, TaskType, KernelTask, Task
                <5>2. CASE p # Main
                    BY <1>m, <4>2, <5>2, Zenon DEF Collect, TypeInv, TaskType
                <5> QED BY <5>1, <5>2, Zenon
            <4> QED BY <2>2, <4>1, <4>2, WaitingTasks, Zenon DEF DeathInv, Reaped
        <3>3. last_errno' => Reaped(task'[Main])
            <4>1. CASE last_errno' => last_errno
                BY <3>2, <4>1, Zenon DEF DeathInv
            <4>2. CASE last_errno' /\ ~last_errno
                <5>1. ~Traced(Main) /\ UNCHANGED task
                    BY <1>m, <2>2, <4>2, ZenonT(30) DEF Waiting, StartWait, RefillMain, RefillAny,
                          NothingWaiting, waiter
                <5>2. task[Main].life \in Lives
                    BY <1>m, Zenon DEF TypeInv, TaskType, KernelTask, Task
                <5> QED BY <5>1, <5>2, Zenon DEF Traced, DeathInv, Lives, Reaped
            <4> QED BY <4>1, <4>2, Zenon
        <3> QED BY <3>1, <3>2, <3>3, Zenon DEF DeathInv
    <2>3. CASE Ending
        <3>1. result' # Unset
            BY <2>3, EndingResult, ZenonT(30) DEF Ending, DrainStart, DrainTimeout, DrainWait,
                  DrainNothing, DrainStatus, OnDone, ThreadExit, ResultInv, ResultPhase,
                  WaitPcs, EndPcs
        <3>2. /\ Reaped(task'[Main]) <=> Reaped(task[Main])
              /\ task[Main].life # "none" => task'[Main].life # "none"
            BY <1>m, <2>3, EndingTasks, DrainStatusTasks, MonitorReaps, ZenonT(30)
        <3>3. last_errno' => last_errno
            BY <2>3, ZenonT(30) DEF Ending, DrainStart, DrainTimeout, DrainWait, DrainNothing,
                  DrainStatus, OnDone, ThreadExit, waiter
        <3> QED BY <3>1, <3>2, <3>3, Zenon DEF DeathInv
    <2>4. ASSUME NEW p \in Pids,
                 HandleExited(p) \/ HandleSignaled(p) \/ StateProcessStopped(p)
          PROVE  DeathInv'
        <3>1. PICK st \in Statuses : Pop(p, st)
            BY <2>4, HandlerPops, Zenon
        <3>2. result = Unset /\ UNCHANGED last_errno
            BY <3>1, Zenon DEF Pop, ResultInv, ResultPhase, WaitPcs
        <3>3. UNCHANGED task => OnlyKills
            BY Zenon DEF OnlyKills
        <3>4. /\ Reaped(task'[Main]) <=> Reaped(task[Main])
              /\ task[Main].life # "none" => task'[Main].life # "none"
            BY <1>m, <2>4, <3>3, HandlerTasks, MonitorReaps, ZenonT(30)
        <3> QED BY <2>4, <3>2, <3>4, HandlerKeepsDeath, Zenon DEF DeathInv
    <2>5. CASE Host
        <3>1. UNCHANGED <<task, statuses, last_errno>>
            BY <2>5, ZenonT(30) DEF Host, RunAsync, AwaitResult, Kill, DumpStackTrace,
                  SetWallTimeLimit, DeadlinePasses, ProxyViolation, HostUnchanged, waiter
        <3> QED BY <2>5, <2>k, <3>1, HostResult, ZenonT(30)
    <2>6. CASE Kernel
        <3>1. UNCHANGED <<statuses, last_errno>>
            BY <2>6, ZenonT(30) DEF Kernel, TraceeStops, TraceeSyscall, TraceeForks, TraceeExits,
                   SigKillLands, KilledByOther, ParentReaps, KernelUnchanged, waiter
        <3> QED BY <1>m, <2>6, <2>k, <3>1, KernelReaps, KernelResult, Zenon
    <2>7. CASE UNCHANGED vars
        BY <2>7, <2>k, ZenonT(30) DEF vars, waiter, outcome
    <2> QED BY <2>1, <2>2, <2>3, <2>4, <2>5, <2>6, <2>7, MonitorSteps, Zenon DEF Next
<1> QED BY <1>1, <1>2, TypesInvariant, ResultInvariant, PTL DEF Spec

-----------------------------------------------------------------------------
(***************************************************************************)
(* Offences.  What makes the monitor report a violation is on record: the  *)
(* architecture of a syscall, the exit code of a tracee, the proxy.        *)
(***************************************************************************)
Marked(t) == t.arch = "foreign" \/ t.code = "SIGSYS"

OffenceInv ==
    /\ network_violation => offence
    /\ proxy_violation => offence
    /\ \A p \in Pids : Marked(task[p]) => offence

\* Nothing the monitor does to a tracee puts a mark on it.
LEMMA MonitorMarks ==
    ASSUME TypeInv, NEW p \in Pids, OnlyKills \/ ContinueProcess(p) \/ CompleteSyscall(p),
           NEW q \in Pids, Marked(task'[q])
    PROVE  Marked(task[q])
<1>t. task \in [Pids -> KernelTask] /\ task[q] \in Task
    BY Zenon DEF TypeInv, TaskType, KernelTask
<1>1. SigKilled(task[q]).arch = task[q].arch /\ SigKilled(task[q]).code = task[q].code
    BY <1>t, Zenon DEF SigKilled, Task
<1>2. \A how : \/ Resumed(task[q], how) = task[q]
               \/ /\ Resumed(task[q], how).code = task[q].code
                  /\ Resumed(task[q], how).arch = "host"
    BY <1>t, Zenon DEF Resumed, Dead, Task
<1> QED BY <1>t, <1>1, <1>2, ZenonT(30) DEF OnlyKills, ContinueProcess, CompleteSyscall, Marked

\* The kernel marks a tracee for an offence only.
LEMMA KernelMarks ==
    ASSUME TypeInv, Kernel, NEW q \in Pids, Marked(task'[q])
    PROVE  Marked(task[q]) \/ offence'
<1> PICK p \in Pids :
        \/ TraceeStops(p) \/ TraceeSyscall(p)
        \/ \E child \in Others : TraceeForks(p, child)
        \/ \E code \in {"exited", "SIGSYS", "killed"} \cap Events : TraceeExits(p, code)
        \/ SigKillLands(p) \/ KilledByOther(p) \/ ParentReaps(p)
    BY Zenon DEF Kernel
<1>t. /\ task \in [Pids -> KernelTask] /\ task[p] \in Task /\ NoTask \in Task
      /\ NoTask.arch = "host" /\ NoTask.code = "none"
    BY NewTaskTypes, Zenon DEF TypeInv, TaskType, KernelTask, NoTask
<1>s. \A t \in Task : \A ev : StopAt(t, ev).arch = t.arch /\ StopAt(t, ev).code = t.code
    BY Zenon DEF StopAt, Task
<1>u. ASSUME NEW t, task' = [task EXCEPT ![p] = t], Marked(t) => Marked(task[p]) \/ offence'
      PROVE  Marked(task[q]) \/ offence'
    BY <1>u, <1>t, Zenon
<1>1. CASE TraceeStops(p)
    BY <1>1, <1>t, <1>s, <1>u DEF TraceeStops, Marked
<1>2. CASE TraceeSyscall(p)
    <2>1. PICK class \in SyscallClasses, arch \in {"host", "foreign"} :
              /\ task' = [task EXCEPT ![p] = [StopAt(@, "seccomp") EXCEPT
                                                !.sys = class, !.arch = arch]]
              /\ offence' = (offence \/ arch = "foreign")
        BY <1>2, Zenon DEF TraceeSyscall
    <2> DEFINE t == [StopAt(task[p], "seccomp") EXCEPT !.sys = class, !.arch = arch]
    <2>2. t.arch = arch /\ t.code = task[p].code
        BY <1>t, Zenon DEF StopAt, Task
    <2> QED BY <1>u, <2>1, <2>2, Zenon DEF Marked
<1>3. ASSUME NEW child \in Others, TraceeForks(p, child) PROVE Marked(task[q]) \/ offence'
    <2>1. /\ child # p /\ task'[child] = StopAt(NoTask, "stop")
          /\ task'[p] = StopAt(task[p], "newproc")
          /\ \A r \in Pids \ {p, child} : task'[r] = task[r]
        BY <1>3, <1>t, Zenon DEF TraceeForks, Pids, Free, InSyscall
    <2>2. q # child
        <3>1. StopAt(NoTask, "stop").arch = "host" /\ StopAt(NoTask, "stop").code = "none"
            BY <1>t, <1>s, Zenon
        <3>2. q = child => task'[q].arch = "host" /\ task'[q].code = "none"
            BY <2>1, <3>1, ZenonT(30)
        <3> QED BY <3>2, Zenon DEF Marked
    <2>3. CASE q = p
        <3>1. /\ StopAt(task[p], "newproc").arch = task[p].arch
              /\ StopAt(task[p], "newproc").code = task[p].code
            BY <1>t, <1>s, Zenon
        <3>2. task'[q].arch = task[q].arch /\ task'[q].code = task[q].code
            BY <2>1, <2>3, <3>1, Zenon
        <3> QED BY <3>2, Zenon DEF Marked
    <2>4. CASE q # p
        <3>1. task'[q] = task[q]
            BY <2>1, <2>2, <2>4, Zenon
        <3> QED BY <3>1, Zenon
    <2> QED BY <2>3, <2>4, Zenon
<1>4. ASSUME NEW code \in {"exited", "SIGSYS", "killed"}, TraceeExits(p, code)
      PROVE  Marked(task[q]) \/ offence'
    <2> DEFINE t == [StopAt(NoTask, "exit") EXCEPT !.code = code, !.killed = task[p].killed]
    <2>1. t.arch = "host" /\ t.code = code
        BY Zenon DEF StopAt, NoTask
    <2> QED BY <1>4, <1>u, <2>1, Zenon DEF TraceeExits, Marked
<1>5. CASE SigKillLands(p)
    <2>1. ~Marked([StopAt(NoTask, "exit") EXCEPT !.code = "killed"])
        BY Zenon DEF StopAt, NoTask, Marked
    <2>2. \A t \in Task : Dead(t).arch = "host" /\ Dead(t).code = t.code
        BY Zenon DEF Dead, Task
    <2>3. LET t == [task[p] EXCEPT !.code = "killed"] IN t \in Task /\ t.code = "killed"
        BY <1>t, Zenon DEF Task, ExitCodes
    <2> QED BY <1>5, <1>t, <1>u, <2>1, <2>2, <2>3, ZenonT(30) DEF SigKillLands, Marked
<1>6. CASE KilledByOther(p)
    <2>1. SigKilled(task[p]).arch = task[p].arch /\ SigKilled(task[p]).code = task[p].code
        BY <1>t, Zenon DEF SigKilled, Task
    <2> QED BY <1>6, <1>u, <2>1, Zenon DEF KilledByOther, Marked
<1>7. CASE ParentReaps(p)
    <2>1. LET t == [task[p] EXCEPT !.life = "gone"]
          IN  t.arch = task[p].arch /\ t.code = task[p].code
        BY <1>t, Zenon DEF Task
    <2> QED BY <1>7, <1>u, <2>1, Zenon DEF ParentReaps, Marked
<1> QED BY <1>1, <1>2, <1>3, <1>4, <1>5, <1>6, <1>7, ZenonT(30)

\* Offences stay on record, and every mark is one.
LEMMA OffenceStep ==
    ASSUME TypeInv, OffenceInv, [Next]_vars
    PROVE  OffenceInv' /\ (offence => offence')
<1>k. ASSUME \A q \in Pids : Marked(task'[q]) => Marked(task[q]) \/ offence',
             offence => offence', proxy_violation' => proxy_violation \/ offence',
             network_violation' => network_violation \/ proxy_violation
      PROVE  OffenceInv' /\ (offence => offence')
    BY <1>k, Zenon DEF OffenceInv
<1>1. CASE LoopTop
    <2>1. /\ UNCHANGED <<offence, proxy_violation>>
          /\ network_violation' => network_violation \/ proxy_violation
        BY <1>1, ZenonT(30) DEF LoopTop, SetupSignals, SetupFailed, Attach, NotifySetupFailed,
              LeaveLoop, CheckDeadline, CheckDump, CheckKill, CheckNetwork, requests,
              flags
    <2> QED BY <1>1, <1>k, <2>1, LoopTopTasks, MonitorMarks, Zenon
<1>2. CASE Waiting
    <2>1. UNCHANGED <<offence, proxy_violation, network_violation>>
        BY <1>2, Zenon DEF Waiting, StartWait, RefillMain, RefillAny, NothingWaiting,
              WaiterUnchanged, requests, flags
    <2>2. ASSUME NEW p \in Pids, Collect(p), NEW q \in Pids
          PROVE  task'[q].arch = task[q].arch /\ task'[q].code = task[q].code
        <3>1. CASE p = q
            BY <2>2, <3>1 DEF Collect, TypeInv, TaskType, KernelTask, Task
        <3>2. CASE p # q
            BY <2>2, <3>2, Zenon DEF Collect, TypeInv, TaskType
        <3> QED BY <3>1, <3>2, Zenon
    <2> QED BY <1>2, <1>k, <2>1, <2>2, WaitingTasks, ZenonT(30) DEF Marked
<1>3. CASE Ending
    <2>1. UNCHANGED <<offence, proxy_violation, network_violation>>
        BY <1>3, ZenonT(30) DEF Ending, DrainStart, DrainTimeout, DrainWait, DrainNothing,
              DrainStatus, OnDone, ThreadExit, DrainUnchanged, requests, flags
    <2>2. \A q \in Pids : Marked(task'[q]) => Marked(task[q])
        BY <1>3, EndingTasks, DrainStatusTasks, MonitorMarks, ZenonT(30)
    <2> QED BY <1>k, <2>1, <2>2, ZenonT(30)
<1>4. ASSUME NEW p \in Pids,
             HandleExited(p) \/ HandleSignaled(p) \/ StateProcessStopped(p)
      PROVE  OffenceInv' /\ (offence => offence')
    <2>1. PICK st \in Statuses : Pop(p, st)
        BY <1>4, HandlerPops, Zenon
    <2>2. UNCHANGED <<proxy_violation, network_violation>>
        BY <2>1, Zenon DEF Pop, requests
    <2>3. offence => offence'
        BY <1>4, Zenon DEF HandleExited, HandleSignaled, StateProcessStopped,
              HandleSignalStop, HandleNoEventMsg, EventPtraceSeccomp,
              EventSyscallExit, EventPtraceNewProcess, EventPtraceExec,
              EventPtraceExit, EventPtraceStop, FetchFails, FailedInspect,
              ReturnSyscall, ActionProcessSyscall
    <2>4. UNCHANGED task => OnlyKills
        BY Zenon DEF OnlyKills
    <2> QED BY <1>4, <1>k, <2>2, <2>3, <2>4, HandlerTasks, MonitorMarks, Zenon
<1>5. CASE Host
    <2>1. UNCHANGED task /\ UNCHANGED network_violation
        BY <1>5, ZenonT(30) DEF Host, RunAsync, AwaitResult, Kill, DumpStackTrace,
              SetWallTimeLimit, DeadlinePasses, ProxyViolation, HostUnchanged, flags
    <2>2. (offence => offence') /\ (proxy_violation' => proxy_violation \/ offence')
        BY <1>5 DEF Host, RunAsync, AwaitResult, Kill, DumpStackTrace,
              SetWallTimeLimit, DeadlinePasses, ProxyViolation, HostUnchanged, requests
    <2> QED BY <1>k, <2>1, <2>2, Zenon
<1>6. CASE Kernel
    <2>1. KernelUnchanged
        BY <1>6, ZenonT(30) DEF Kernel, TraceeStops, TraceeSyscall, TraceeForks, TraceeExits,
              SigKillLands, KilledByOther, ParentReaps
    <2>2. UNCHANGED <<proxy_violation, network_violation>>
        BY <2>1, Zenon DEF KernelUnchanged, requests, flags
    <2>3. offence => offence'
        <3>1. \A p : TraceeSyscall(p) => (offence => offence')
            BY Zenon DEF TraceeSyscall
        <3>2. \A p, code : TraceeExits(p, code) => (offence => offence')
            BY Zenon DEF TraceeExits
        <3> QED BY <1>6, <3>1, <3>2, Zenon DEF Kernel, TraceeStops, TraceeForks,
                   SigKillLands, KilledByOther, ParentReaps
    <2> QED BY <1>6, <1>k, <2>2, <2>3, KernelMarks, ZenonT(30)
<1>7. CASE UNCHANGED vars
    BY <1>7, <1>k, Zenon DEF vars, requests, flags
<1> QED BY <1>1, <1>2, <1>3, <1>4, <1>5, <1>6, <1>7, MonitorSteps, Zenon DEF Next

\* So in every state of a run.
THEOREM OffenceInvariant == Spec => []OffenceInv
<1>1. Init => OffenceInv
    BY DEF Init, OffenceInv, Marked, RunningTask, NoTask
<1> QED BY <1>1, OffenceStep, TypesInvariant, PTL DEF Spec

-----------------------------------------------------------------------------
(***************************************************************************)
(* What the result can be.                                                 *)
(***************************************************************************)
\* SetExitStatusCode sets what it is told or nothing.
LEMMA SetsWhatItSays ==
    ASSUME NEW s, NEW r, SetExitStatusCode(s, r)
    PROVE  result' = result \/ (result'.status = s /\ result'.reason = r)
BY DEF SetExitStatusCode

\* The new result, if there is one, is neither of the two that mean a confused
\* monitor, and a violation only after an offence.
SoundResult ==
    \/ result' = result
    \/ /\ result'.reason \notin {"FAILED_CHILD", "FAILED_INSPECT"}
       /\ result'.status = "VIOLATION" => offence'

\* What the death of the main process is turned into is sound.
LEMMA MainDeathIsSound ==
    ASSUME OffenceInv, NEW s \in {"OK", "SIGNALED"}, SetMainDeath(s), offence => offence'
    PROVE  SoundResult
BY SetsWhatItSays DEF SetMainDeath, OffenceInv, SoundResult

\* So is what set-up and the top of the loop report.
LEMMA LoopTopIsSound ==
    ASSUME LoopTop
    PROVE  SoundResult
<1> USE DEF outcome, SoundResult
<1>f. ASSUME NEW r \in SetupReasons, SetupFailed(r) PROVE SoundResult
    BY <1>f, SetsWhatItSays DEF SetupFailed, SetupReasons
<1>k. ASSUME NEW next, KillSandboxee(next) PROVE SoundResult
    BY <1>k, SetsWhatItSays DEF KillSandboxee
<1>i. ASSUME NEW next, InterruptSandboxee(next) PROVE SoundResult
    BY <1>i, SetsWhatItSays DEF InterruptSandboxee
<1> QED BY <1>f, <1>k, <1>i, Zenon DEF LoopTop, SetupSignals, SetupReasons, Attach,
           NotifySetupFailed, LeaveLoop, CheckDeadline, CheckDump, CheckKill, CheckNetwork

\* The PANIC() of the loop is not reached.
LEMMA WaitingIsSound ==
    ASSUME ResultInv, DeathInv, Waiting
    PROVE  UNCHANGED result
<1>1. CASE StartWait \/ RefillMain \/ RefillAny
    BY <1>1, Zenon DEF StartWait, RefillMain, RefillAny, WaiterUnchanged, outcome
<1>2. CASE NothingWaiting
    <2>1. result = Unset /\ statuses = <<>>
        BY <1>2, Zenon DEF NothingWaiting, ResultInv, ResultPhase, WaitPcs
    <2>2. ~DeathQueued
        BY <2>1 DEF DeathQueued, Queued
    <2>3. ~last_errno
        BY <2>1, <2>2, Zenon DEF DeathInv
    <2> QED BY <1>2, <2>3, Zenon DEF NothingWaiting, outcome
<1> QED BY <1>1, <1>2, Zenon DEF Waiting

\* A handler finds the entry it expects, and reports a violation for an offence.
LEMMA HandlerIsSound ==
    ASSUME TypeInv, EntryInv, OffenceInv, NEW p \in Pids,
           HandleExited(p) \/ HandleSignaled(p) \/ StateProcessStopped(p)
    PROVE  SoundResult
<1> USE DEF SoundResult
<1>e. ASSUME NEW st, Pop(p, st) PROVE syscalls_in_progress[p] \in Entry(st)
    <2>1. statuses # <<>> /\ Head(statuses).pid = p /\ Head(statuses).st = st
        BY <1>e DEF Pop
    <2>2. 1 \in 1 .. Len(statuses) /\ Head(statuses) = statuses[1]
        BY <2>1, TailElements, Zenon DEF TypeInv, WaiterType
    <2> QED BY <2>1, <2>2, Zenon DEF EntryInv, QueuedEntryFits
<1>u. ASSUME UNCHANGED outcome PROVE SoundResult
    BY <1>u, Zenon DEF outcome
<1>v. ASSUME ActionProcessSyscallViolation, offence' PROVE SoundResult
    BY <1>v, SetsWhatItSays DEF ActionProcessSyscallViolation
<1>f. ASSUME FetchFails(p) PROVE SoundResult
    BY <1>f, <1>u, SetsWhatItSays DEF FetchFails
<1>r. ASSUME ReturnSyscall(p) PROVE SoundResult
    BY <1>r, <1>u, Zenon DEF ReturnSyscall
<1>m. Marked(task[p]) => offence
    BY Zenon DEF OffenceInv
<1>1. CASE HandleExited(p)
    BY <1>1, <1>u, SetsWhatItSays DEF HandleExited
<1>2. CASE HandleSignaled(p)
    BY <1>2, <1>u, MainDeathIsSound, Zenon DEF HandleSignaled
<1>3. CASE HandleSignalStop(p) \/ EventPtraceStop(p)
    BY <1>3, <1>u, Zenon DEF HandleSignalStop, EventPtraceStop
<1>4. ASSUME NEW st \in StopEvents, HandleNoEventMsg(p, st) PROVE SoundResult
    BY <1>4, <1>u, SetsWhatItSays DEF HandleNoEventMsg
<1>5. CASE EventPtraceSeccomp(p)
    <2>1. CASE UNCHANGED outcome \/ FetchFails(p)
        BY <2>1, <1>u, <1>f, Zenon
    <2>2. CASE ActionProcessSyscallViolation /\ offence'
        BY <2>2, <1>v, Zenon
    <2>3. SyscallArch(task[p]) = "foreign" /\ IsArchitecture(task[p]) => offence
        BY <1>m, Zenon DEF SyscallArch, IsArchitecture, Marked
    <2>4. CASE ActionProcessSyscall(p)
        BY <2>1, <2>2, <2>4, Zenon DEF ActionProcessSyscall
    <2>5. CASE /\ IsArchitecture(task[p]) /\ SyscallArch(task[p]) = "foreign"
               /\ ActionProcessSyscallViolation /\ UNCHANGED offence
        BY <2>2, <2>3, <2>5, Zenon
    <2> QED BY <1>5, <2>1, <2>4, <2>5, Zenon DEF EventPtraceSeccomp
<1>6. CASE EventSyscallExit(p)
    <2>1. syscalls_in_progress[p] # "none"
        BY <1>6, <1>e, Zenon DEF EventSyscallExit, PopEvent, Entry
    <2> QED BY <1>6, <1>f, <1>r, <2>1, Zenon DEF EventSyscallExit
<1>7. CASE EventPtraceNewProcess(p)
    <2>1. syscalls_in_progress[p] \in {"none", "fork"}
        BY <1>7, <1>e, Zenon DEF EventPtraceNewProcess, PopEvent, Entry
    <2> QED BY <1>7, <1>r, <2>1, Zenon DEF EventPtraceNewProcess
<1>8. CASE EventPtraceExec(p)
    <2>1. syscalls_in_progress[p] \in {"none", "execveat"}
        BY <1>8, <1>e, Zenon DEF EventPtraceExec, PopEvent, Entry
    <2> QED BY <1>8, <1>r, <1>u, <2>1, Zenon DEF EventPtraceExec
<1>9. CASE EventPtraceExit(p)
    <2>1. CASE UNCHANGED outcome
        BY <2>1, <1>u, Zenon
    <2>2. CASE SetExitStatusCode("INTERNAL_ERROR", "FAILED_FETCH")
        BY <2>2, SetsWhatItSays
    <2>3. CASE task[p].code = "SIGSYS" /\ ActionProcessSyscallViolation
        BY <1>9, <1>m, <1>v, <2>3, ZenonT(30) DEF EventPtraceExit, Marked
    <2>4. CASE SetMainDeath("OK") \/ SetMainDeath("SIGNALED")
        BY <1>9, <2>4, MainDeathIsSound, Zenon DEF EventPtraceExit
    <2> QED BY <1>9, <2>1, <2>2, <2>3, <2>4, ZenonT(30) DEF EventPtraceExit
<1> QED BY <1>1, <1>2, <1>3, <1>4, <1>5, <1>6, <1>7, <1>8, <1>9, Zenon DEF StateProcessStopped

\* Every step.
LEMMA StepIsSound ==
    ASSUME TypeInv, ResultInv, EntryInv, DeathInv, OffenceInv, [Next]_vars
    PROVE  SoundResult
<1>u. ASSUME UNCHANGED result PROVE SoundResult
    BY <1>u, Zenon DEF SoundResult
<1>1. CASE Monitor
    BY <1>1, <1>u, MonitorSteps, LoopTopIsSound, WaitingIsSound, EndingResult,
       HandlerIsSound, Zenon
<1>2. CASE UNCHANGED vars
    BY <1>2, <1>u, Zenon DEF vars, outcome
<1> QED BY <1>1, <1>2, <1>u, HostResult, KernelResult, Zenon DEF Next

\* The result is sound in every state of a run.
ResultSound == NoPanic /\ InspectionsMatch /\ ViolationIsReal

\* By the invariants on the queue, the entries, the main process and the offences.
THEOREM SoundInvariant == Spec => []ResultSound
<1>1. Init => ResultSound
    BY DEF Init, Unset, ResultSound, NoPanic, InspectionsMatch, ViolationIsReal
<1>2. TypeInv /\ ResultInv /\ EntryInv /\ DeathInv /\ OffenceInv /\ ResultSound
          /\ [Next]_vars => ResultSound'
    BY StepIsSound, OffenceStep, Zenon
       DEF SoundResult, ResultSound, NoPanic, InspectionsMatch, ViolationIsReal
<1> QED BY <1>1, <1>2, TypesInvariant, ResultInvariant, EntryInvariant, DeathInvariant,
           OffenceInvariant, PTL DEF Spec

\* The "PANIC()" of the main loop is never reached, for any number of processes:
\* waitpid() finds no tracee left only when the death of the main process is still
\* queued, and Wait() returns the queue before the errno.
THEOREM NeverPanics == Spec => []NoPanic
<1>1. ResultSound => NoPanic
    BY Zenon DEF ResultSound
<1> QED BY <1>1, SoundInvariant, PTL

\* FAILED_INSPECT is never the result: whatever is killed while its stop is
\* queued, the handler of that stop finds the entry in syscalls_in_progress_ it
\* expects.
THEOREM InspectionsAlwaysMatch == Spec => []InspectionsMatch
<1>1. ResultSound => InspectionsMatch
    BY Zenon DEF ResultSound
<1> QED BY <1>1, SoundInvariant, PTL

\* A run ends in VIOLATION only if a traced syscall was denied or came from
\* another architecture, the policy killed a process, or the proxy saw a
\* violation.
THEOREM ViolationsAreReal == Spec => []ViolationIsReal
<1>1. ResultSound => ViolationIsReal
    BY Zenon DEF ResultSound
<1> QED BY <1>1, SoundInvariant, PTL

-----------------------------------------------------------------------------
(***************************************************************************)
(* No tracee is forgotten in a stop.                                       *)
(***************************************************************************)
\* A tracee left in its stop by the handler of one of its statuses, in a run that
\* goes on, is about to be killed or was stopped for another status.
LEMMA HandlerLeavesStopped ==
    ASSUME TypeInv, QueueInv, result = Unset, result' = Unset, NEW p \in Pids,
           HandleExited(p) \/ HandleSignaled(p) \/ StateProcessStopped(p),
           task'[p].life = "stopped"
    PROVE  /\ UNCHANGED task
           /\ task[p].killed \/ Head(statuses) # [pid |-> p, st |-> task[p].ev]
<1>t. task \in [Pids -> KernelTask] /\ task[p] \in Task
    BY Zenon DEF TypeInv, TaskType, KernelTask
<1>r. \A how : Resumed(task[p], how).life # "stopped"
    BY <1>t, Zenon DEF Resumed, Dead, Task
<1>1. UNCHANGED task
    BY <1>t, <1>r, HandlerTasks, ZenonT(30) DEF ContinueProcess, CompleteSyscall
<1>2. ~ContinueProcess(p) /\ ~CompleteSyscall(p)
    BY <1>t, <1>r, Zenon DEF ContinueProcess, CompleteSyscall
<1>s. \A s \in FinalStatuses : \A r : ~SetExitStatusCode(s, r)
    BY SetsOnce, ZenonT(30)
<1>v. ~ActionProcessSyscallViolation /\ ~FailedInspect /\ ~SetMainDeath("OK")
      /\ ~SetMainDeath("SIGNALED") /\ ~ReturnSyscall(p)
    BY <1>2, <1>s, ZenonT(30) DEF ActionProcessSyscallViolation, FailedInspect, SetMainDeath,
                      ReturnSyscall, FinalStatuses
<1>f. FetchFails(p) => Escaped(p)
    BY <1>s, Zenon DEF FetchFails, FinalStatuses
<1>e. Escaped(p) => task[p].killed
    BY <1>1, Zenon DEF Escaped
<1>3. CASE HandleExited(p) \/ HandleSignaled(p)
    <2>1. PICK st \in Deaths : Pop(p, st)
        BY <1>3, ZenonT(30) DEF HandleExited, HandleSignaled, Deaths
    <2>2. st \in Collected(task[p])
        <3>1. statuses # <<>> /\ Head(statuses).pid = p /\ Head(statuses).st = st
            BY <2>1 DEF Pop
        <3> QED BY <3>1, HeadFits, Zenon
    <2>3. Collected(task[p]) \subseteq StopEvents
        BY <1>1, <1>t, AliveCollected, Zenon DEF TypeInv, TaskType
    <2> QED BY <2>1, <2>2, <2>3, ZenonT(30) DEF Deaths, StopEvents
<1>4. CASE HandleSignalStop(p) \/ EventPtraceStop(p)
    BY <1>4, <1>2, ZenonT(30) DEF HandleSignalStop, EventPtraceStop
<1>5. ASSUME NEW st \in StopEvents, HandleNoEventMsg(p, st) PROVE task[p].killed
    BY <1>5, <1>e, <1>s, ZenonT(30) DEF HandleNoEventMsg, FinalStatuses
<1>6. CASE EventPtraceSeccomp(p)
    <2>1. CASE ~IsArchitecture(task[p])
        <3>1. Head(statuses) = [pid |-> p, st |-> "seccomp"]
            BY <1>6, Zenon DEF EventPtraceSeccomp, PopEvent, Pop
        <3>2. [pid |-> p, st |-> "seccomp"] # [pid |-> p, st |-> task[p].ev]
            BY <2>1, Zenon DEF IsArchitecture
        <3> QED BY <1>1, <3>1, <3>2, Zenon
    <2>2. CASE FetchFails(p)
        BY <1>1, <1>e, <1>f, <2>2, Zenon
    <2> QED BY <1>2, <1>6, <1>v, <2>1, <2>2, ZenonT(30) DEF EventPtraceSeccomp, ActionProcessSyscall
<1>7. CASE EventSyscallExit(p) \/ EventPtraceNewProcess(p)
    BY <1>1, <1>7, <1>v, <1>e, <1>f, ZenonT(30) DEF EventSyscallExit, EventPtraceNewProcess
<1>8. CASE EventPtraceExec(p)
    BY <1>2, <1>8, <1>v, ZenonT(30) DEF EventPtraceExec
<1>9. CASE EventPtraceExit(p)
    BY <1>2, <1>9, <1>s, <1>v, ZenonT(30) DEF EventPtraceExit, FinalStatuses
<1> QED BY <1>1, <1>3, <1>4, <1>5, <1>6, <1>7, <1>8, <1>9, ZenonT(30) DEF StateProcessStopped

\* A tracee that the kernel stops is news for waitpid().
LEMMA KernelStops ==
    ASSUME TypeInv, Kernel, NEW q \in Pids, task'[q].life = "stopped"
    PROVE  \/ task'[q].fresh
           \/ /\ task[q].life = "stopped" /\ task'[q].ev = task[q].ev
              /\ task[q].fresh => task'[q].fresh
              /\ task[q].killed => task'[q].killed
<1> DEFINE Kept == \/ task'[q].fresh
                   \/ /\ task[q].life = "stopped" /\ task'[q].ev = task[q].ev
                      /\ task[q].fresh => task'[q].fresh
                      /\ task[q].killed => task'[q].killed
<1> PICK p \in Pids :
        \/ TraceeStops(p) \/ TraceeSyscall(p)
        \/ \E child \in Others : TraceeForks(p, child)
        \/ \E code \in {"exited", "SIGSYS", "killed"} \cap Events : TraceeExits(p, code)
        \/ SigKillLands(p) \/ KilledByOther(p) \/ ParentReaps(p)
    BY ZenonT(30) DEF Kernel
<1>t. /\ task \in [Pids -> KernelTask] /\ task[p] \in Task /\ NoTask \in Task
    BY NewTaskTypes, Zenon DEF TypeInv, TaskType, KernelTask
<1>s. \A t \in Task : \A ev : StopAt(t, ev).fresh
    BY Zenon DEF StopAt, Task
<1>u. ASSUME NEW t, task' = [task EXCEPT ![p] = t], t.fresh \/ t.life # "stopped"
      PROVE  Kept
    BY <1>u, <1>t, ZenonT(30)
<1>1. CASE TraceeStops(p)
    BY <1>1, <1>t, <1>s, <1>u, Zenon DEF TraceeStops
<1>2. CASE TraceeSyscall(p)
    <2>1. PICK class, arch : task' = [task EXCEPT ![p] = [StopAt(@, "seccomp") EXCEPT
                                                            !.sys = class, !.arch = arch]]
        BY <1>2, Zenon DEF TraceeSyscall
    <2>2. [StopAt(task[p], "seccomp") EXCEPT !.sys = class, !.arch = arch].fresh
        BY <1>t, Zenon DEF StopAt, Task
    <2> QED BY <1>u, <2>1, <2>2, Zenon
<1>3. ASSUME NEW child \in Others, TraceeForks(p, child) PROVE Kept
    <2>1. /\ task'[child].fresh /\ task'[p].fresh
          /\ \A r \in Pids \ {p, child} : task'[r] = task[r]
        BY <1>3, <1>t, <1>s, Zenon DEF TraceeForks, Pids, Free, InSyscall
    <2> QED BY <2>1, ZenonT(30)
<1>4. ASSUME NEW code, TraceeExits(p, code) PROVE Kept
    <2>1. [StopAt(NoTask, "exit") EXCEPT !.code = code, !.killed = task[p].killed].fresh
        BY Zenon DEF StopAt, NoTask
    <2> QED BY <1>4, <1>u, <2>1, Zenon DEF TraceeExits
<1>5. CASE SigKillLands(p)
    <2>1. [StopAt(NoTask, "exit") EXCEPT !.code = "killed"].fresh
        BY Zenon DEF StopAt, NoTask
    <2>2. \A t \in Task : Dead(t).life = "zombie"
        BY Zenon DEF Dead, Task
    <2>3. [task[p] EXCEPT !.code = "killed"] \in Task
        BY <1>t, Zenon DEF Task, ExitCodes
    <2> QED BY <1>5, <1>t, <1>u, <2>1, <2>2, <2>3, Zenon DEF SigKillLands
<1>6. CASE KilledByOther(p)
    <2>1. LET t == SigKilled(task[p])
          IN  /\ t.life = task[p].life /\ t.ev = task[p].ev /\ t.fresh = task[p].fresh
              /\ task[p].killed => t.killed
        BY <1>t, Zenon DEF SigKilled, Task
    <2> QED BY <1>6, <1>t, <2>1, Zenon DEF KilledByOther
<1>7. CASE ParentReaps(p)
    <2>1. [task[p] EXCEPT !.life = "gone"].life = "gone"
        BY <1>t, Zenon DEF Task
    <2> QED BY <1>7, <1>t, <1>u, <2>1, Zenon DEF ParentReaps
<1> QED BY <1>1, <1>2, <1>3, <1>4, <1>5, <1>6, <1>7, ZenonT(30)

\* While the run goes on no tracee is forgotten in a stop, for any number of
\* processes: each stop is still to be collected, or queued in the PidWaiter, or
\* about to be ended by a SIGKILL.
THEOREM NoStopForgotten == Spec => []NoForgottenStop
<1>1. Init => NoForgottenStop
    BY DEF Init, NoForgottenStop, RunningTask, NoTask
<1>2. TypeInv /\ QueueInv /\ ResultInv /\ NoForgottenStop /\ [Next]_vars => NoForgottenStop'
    <2> SUFFICES ASSUME TypeInv, QueueInv, ResultInv, NoForgottenStop, [Next]_vars,
                        result' = Unset, NEW q \in Pids, task'[q].life = "stopped"
                 PROVE  task'[q].fresh \/ task'[q].killed \/ Queued(q, task[q].ev)'
        BY ZenonT(30) DEF NoForgottenStop
    <2> DEFINE Kept == /\ task[q].life = "stopped" /\ task'[q].ev = task[q].ev
                       /\ task[q].fresh => task'[q].fresh
                       /\ task[q].killed => task'[q].killed
    <2>t. task \in [Pids -> KernelTask] /\ task[q] \in Task /\ task[q] \in KernelTask
        BY Zenon DEF TypeInv, TaskType, KernelTask
    <2>k. ASSUME Kept, result = Unset, UNCHANGED statuses
          PROVE  task'[q].fresh \/ task'[q].killed \/ Queued(q, task[q].ev)'
        BY <2>k, ZenonT(30) DEF NoForgottenStop, Queued
    <2>o. OnlyKills => Kept
        <3>1. LET t == SigKilled(task[q])
              IN  /\ t.life = task[q].life /\ t.ev = task[q].ev /\ t.fresh = task[q].fresh
                  /\ task[q].killed => t.killed
            BY <2>t, Zenon DEF SigKilled, Task
        <3> QED BY <3>1, Zenon DEF OnlyKills
    <2>1. CASE LoopTop
        <3>1. result = Unset
            BY <2>1, LoopTopResult, Zenon DEF SetOnce, outcome
        <3> QED BY <2>1, <2>k, <2>o, <3>1, LoopTopTasks, ZenonT(30) DEF waiter
    <2>2. CASE Waiting
        <3>1. result = Unset
            BY <2>2, WaitingResult, Zenon DEF SetOnce, outcome
        <3>2. CASE UNCHANGED <<task, statuses>>
            BY <2>k, <3>1, <3>2, Zenon
        <3>3. ASSUME NEW p \in Pids, Waitable(p), Collect(p)
              PROVE  task'[q].fresh \/ task'[q].killed \/ Queued(q, task[q].ev)'
            <4>1. CASE p = q
                <5>1. task[q].life = "stopped" /\ task'[q].ev = task[q].ev
                    BY <2>t, <3>3, <4>1, Zenon DEF Collect, Task
                <5>2. WaitStatus(task[q]) = task'[q].ev
                    BY <5>1, Zenon DEF WaitStatus
                <5> QED BY <3>3, <4>1, <5>2, QueuedByCollect, Zenon
            <4>2. CASE p # q
                <5>1. task'[q] = task[q]
                    BY <2>t, <3>3, <4>2, Zenon DEF Collect
                <5>2. task[q].fresh \/ task[q].killed \/ Queued(q, task[q].ev)
                    BY <3>1, <5>1, ZenonT(30) DEF NoForgottenStop
                <5> QED BY <3>3, <5>1, <5>2, QueuedByCollect, Zenon
            <4> QED BY <4>1, <4>2, ZenonT(30)
        <3> QED BY <2>2, <3>2, <3>3, WaitingTasks, ZenonT(30)
    <2>3. CASE Ending
        <3>1. result # Unset
            BY <2>3, ZenonT(30) DEF Ending, DrainStart, DrainTimeout, DrainWait, DrainNothing,
                  DrainStatus, OnDone, ThreadExit, ResultInv, ResultPhase, WaitPcs, EndPcs
        <3> QED BY <2>3, <3>1, EndingResult, Zenon
    <2>4. ASSUME NEW p \in Pids,
                 HandleExited(p) \/ HandleSignaled(p) \/ StateProcessStopped(p)
          PROVE  task'[q].fresh \/ task'[q].killed \/ Queued(q, task[q].ev)'
        <3>1. PICK st \in Statuses : Pop(p, st)
            BY <2>4, HandlerPops, ZenonT(30)
        <3>2. /\ statuses # <<>> /\ statuses' = Tail(statuses) /\ result = Unset
              /\ Head(statuses) = [pid |-> p, st |-> st]
            BY <3>1, Zenon DEF Pop, ResultInv, ResultPhase, WaitPcs
        <3>3. /\ task'[q] = task[q]
              /\ task[q].killed \/ Head(statuses) # [pid |-> q, st |-> task[q].ev]
            <4>1. CASE p = q
                BY <2>4, <3>2, <4>1, HandlerLeavesStopped, ZenonT(30)
            <4>2. CASE p # q
                <5>1. task'[q] = task[q]
                    BY <2>4, <2>t, <4>2, HandlerTasks, Zenon DEF ContinueProcess, CompleteSyscall
                <5> QED BY <3>2, <4>2, <5>1
            <4> QED BY <4>1, <4>2, ZenonT(30)
        <3>4. task[q].fresh \/ task[q].killed \/ Queued(q, task[q].ev)
            BY <3>2, <3>3, ZenonT(30) DEF NoForgottenStop
        <3> QED BY <3>2, <3>3, <3>4, QueuedBehindHead, ZenonT(30) DEF TypeInv, WaiterType, QueueType
    <2>5. CASE Host
        <3>1. UNCHANGED <<task, statuses>>
            BY <2>5, ZenonT(30) DEF Host, RunAsync, AwaitResult, Kill, DumpStackTrace,
                  SetWallTimeLimit, DeadlinePasses, ProxyViolation, HostUnchanged, waiter
        <3> QED BY <2>5, <2>k, <3>1, HostResult, Zenon
    <2>6. CASE Kernel
        <3>1. UNCHANGED statuses
            BY <2>6, ZenonT(30) DEF Kernel, TraceeStops, TraceeSyscall, TraceeForks, TraceeExits,
                   SigKillLands, KilledByOther, ParentReaps, KernelUnchanged, waiter
        <3> QED BY <2>6, <2>k, <3>1, KernelStops, KernelResult, ZenonT(30)
    <2>7. CASE UNCHANGED vars
        BY <2>7, <2>k, Zenon DEF vars, waiter, outcome
    <2> QED BY <2>1, <2>2, <2>3, <2>4, <2>5, <2>6, <2>7, MonitorSteps, ZenonT(30) DEF Next
<1> QED BY <1>1, <1>2, TypesInvariant, QueueInvariant, ResultInvariant, PTL DEF Spec

-----------------------------------------------------------------------------
(***************************************************************************)
(* A sandboxee that is OK.                                                 *)
(***************************************************************************)
\* Where OK is said: of an exit after the execveat(), and of any exit for which a
\* stack trace is collected.
LEMMA OkStep ==
    ASSUME [Next]_vars, result' # result, result'.status = "OK"
    PROVE  ~wait_for_execve \/ StackOnExit
<1>1. ASSUME NEW s, NEW r, SetExitStatusCode(s, r) PROVE s = "OK"
    BY <1>1, SetsWhatItSays, Zenon
<1>2. ASSUME NEW s, SetMainDeath(s) PROVE s = "OK"
    BY <1>1, <1>2, Zenon DEF SetMainDeath
<1>3. CASE Monitor
    <2> USE DEF outcome
    <2>1. ~LoopTop
        BY <1>1, ZenonT(30) DEF LoopTop, SetupSignals, SetupFailed, Attach, NotifySetupFailed,
              LeaveLoop, CheckDeadline, CheckDump, CheckKill, CheckNetwork,
              KillSandboxee, InterruptSandboxee
    <2>2. ~Waiting
        BY <1>1, Zenon DEF Waiting, StartWait, RefillMain, RefillAny, NothingWaiting,
              WaiterUnchanged
    <2>3. ~Ending
        BY Zenon DEF Ending, DrainStart, DrainTimeout, DrainWait, DrainNothing, DrainStatus,
              OnDone, ThreadExit, DrainUnchanged
    <2>4. ASSUME NEW p \in Pids, HandleExited(p) PROVE ~wait_for_execve
        BY <1>1, <2>4, Zenon DEF HandleExited
    <2>5. \A p \in Pids : ~HandleSignaled(p)
        BY <1>2, Zenon DEF HandleSignaled
    <2>6. ~FailedInspect /\ ~ActionProcessSyscallViolation
        BY <1>1, Zenon DEF FailedInspect, ActionProcessSyscallViolation
    <2>7. ASSUME NEW p \in Pids, StateProcessStopped(p) PROVE EventPtraceExit(p)
        BY <1>1, <2>6, <2>7, ZenonT(30) DEF StateProcessStopped, HandleSignalStop, HandleNoEventMsg,
              EventPtraceSeccomp, EventSyscallExit, EventPtraceNewProcess,
              EventPtraceExec, EventPtraceStop, FetchFails, ReturnSyscall,
              ActionProcessSyscall
    <2>8. ASSUME NEW p \in Pids, EventPtraceExit(p) PROVE StackOnExit
        BY <1>1, <1>2, <2>6, <2>8, ZenonT(30) DEF EventPtraceExit
    <2> QED BY <1>3, <2>1, <2>2, <2>3, <2>4, <2>5, <2>7, <2>8, MonitorSteps, Zenon
<1>4. ~Host
    BY ZenonT(30) DEF Host, RunAsync, AwaitResult, Kill, DumpStackTrace, SetWallTimeLimit,
           DeadlinePasses, ProxyViolation, outcome
<1>5. ~Kernel
    BY ZenonT(30) DEF Kernel, TraceeStops, TraceeSyscall, TraceeForks, TraceeExits, SigKillLands,
           KilledByOther, ParentReaps, KernelUnchanged, outcome
<1>6. ~UNCHANGED vars
    BY Zenon DEF vars, outcome
<1> QED BY <1>3, <1>4, <1>5, <1>6, Zenon DEF Next

\* wait_for_execve_ is only ever cleared.
LEMMA ExecveWaitedForOnce ==
    ASSUME TypeInv, QueueInv, EntryInv, [Next]_vars, wait_for_execve'
    PROVE  wait_for_execve
<1>1. CASE Monitor
    BY <1>1, MonitorSteps, LoopTopTasks, WaitingTasks, EndingTasks, DrainStatusTasks,
       HandlerEntries, Zenon
<1>2. CASE Host
    BY <1>2, ZenonT(30) DEF Host, RunAsync, AwaitResult, Kill, DumpStackTrace, SetWallTimeLimit,
          DeadlinePasses, ProxyViolation, HostUnchanged, flags
<1>3. CASE Kernel
    BY <1>3, ZenonT(30) DEF Kernel, TraceeStops, TraceeSyscall, TraceeForks, TraceeExits,
          SigKillLands, KilledByOther, ParentReaps, KernelUnchanged, flags
<1> QED BY <1>1, <1>2, <1>3, ZenonT(30) DEF Next, vars, flags

\* The sandboxee is OK only when its program was started under the policy, unless
\* the policy collects a stack trace of every exit: then EventPtraceExit reports OK
\* without a look at wait_for_execve_.
THEOREM OkOnlyAfterExecve ==
    ASSUME ~(StackOnExit /\ PreExecve)
    PROVE  Spec => []OkOnlyIfMonitored
<1> DEFINE Inv == OkOnlyIfMonitored /\ (wait_for_execve => PreExecve)
<1>1. Init => Inv
    BY DEF Init, OkOnlyIfMonitored, Unset
<1>2. TypeInv /\ QueueInv /\ EntryInv /\ Inv /\ [Next]_vars => Inv'
    BY OkStep, ExecveWaitedForOnce, Zenon DEF OkOnlyIfMonitored
<1>3. Inv => OkOnlyIfMonitored
    OBVIOUS
<1> QED BY <1>1, <1>2, <1>3, TypesInvariant, QueueInvariant, EntryInvariant, PTL DEF Spec

=============================================================================
