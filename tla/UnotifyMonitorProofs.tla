------------------------ MODULE UnotifyMonitorProofs ------------------------
(***************************************************************************)
(* For any requests, any faults and any size of the pipe: the types of     *)
(* UnotifyMonitor, that no wake-up is lost and that results fit the death  *)
(* they report; and, as long as the only fault is a failure to receive a   *)
(* notification, that no CHECK fails and that it implements SandboxRun.    *)
(***************************************************************************)
EXTENDS UnotifyMonitor, TLAPS

\* What the monitor passes to SetExitStatusCode.
FinalStatuses == {"OK", "SETUP_ERROR", "VIOLATION", "SIGNALED", "TIMEOUT",
                  "EXTERNAL_KILL", "INTERNAL_ERROR"}
Reasons == {"none", "syscall", "NETWORK", "FAILED_MONITOR", "FAILED_NOTIFY",
            "FAILED_FETCH"}

\* What a step of the monitor may do to the status: set it once, or fail a CHECK.
SetOnce ==
    \/ UNCHANGED outcome
    \/ result = Unset /\ result' \in Results \ {Unset} /\ UNCHANGED aborted
    \/ aborted' = TRUE /\ UNCHANGED result

\* SetExitStatusCode keeps a status that is set.
LEMMA SetExitStatusCodeSets ==
    ASSUME NEW s \in FinalStatuses, NEW r \in Reasons, SetExitStatusCode(s, r)
    PROVE  SetOnce
<1>1. [status |-> s, reason |-> r] \in Results
    BY Zenon DEF FinalStatuses, Reasons, Results
<1>2. [status |-> s, reason |-> r] # Unset
    BY Zenon DEF FinalStatuses, Unset
<1> QED BY <1>1, <1>2, Zenon DEF SetExitStatusCode, SetOnce

\* So do the steps that may call it.
LEMMA MonitorSetsOnce ==
    ASSUME Monitor
    PROVE  SetOnce
<1> USE DEF FinalStatuses, Reasons
<1>1. CASE Setup
    BY <1>1, SetExitStatusCodeSets, Zenon DEF Setup, SetOnce
<1>2. CASE CheckDeadline \/ CheckKill \/ CheckNetwork
    <2>1. MaybeGetStackTrace
        BY <1>2, Zenon DEF CheckDeadline, CheckKill, CheckNetwork, KillAndBreak
    <2> QED BY <2>1, SetExitStatusCodeSets, Zenon DEF MaybeGetStackTrace, SetOnce
<1>3. CASE PollStatusPipe
    BY <1>3, SetExitStatusCodeSets, Zenon DEF PollStatusPipe, SetOnce
<1>4. CASE SetExitStatusFromStatusPipe
    <2>1. CASE status_pipe = 2
        BY <1>4, <2>1, SetExitStatusCodeSets DEF SetExitStatusFromStatusPipe
    <2>2. CASE status_pipe # 2
        BY <1>4, <2>2, Zenon DEF SetExitStatusFromStatusPipe, SetOnce
    <2> QED BY <2>1, <2>2, Zenon
<1>5. CASE RecvFails
    BY <1>5, SetExitStatusCodeSets, Zenon DEF RecvFails, SetOnce
<1>6. CASE RecvNotification
    BY <1>6, SetExitStatusCodeSets, Zenon DEF RecvNotification, MaybeGetStackTrace, SetOnce
<1>7. CASE SetViolation
    BY <1>7, SetExitStatusCodeSets, Zenon DEF SetViolation
<1>8. CASE WaitForExit
    BY <1>8, SetExitStatusCodeSets, Zenon DEF WaitForExit, SetOnce
<1>9. CASE NotifySetupFailed \/ LeaveLoop \/ StartPoll \/ PollTimeout \/ PollNotifyPipe
           \/ PollUnotify \/ AfterLoop \/ KillInit \/ OnDone
    BY <1>9, Zenon DEF NotifySetupFailed, LeaveLoop, StartPoll, PollTimeout, PollNotifyPipe,
        PollUnotify, AfterLoop, KillInit, OnDone, SetOnce
<1> QED BY <1>1, <1>2, <1>3, <1>4, <1>5, <1>6, <1>7, <1>8, <1>9, Zenon DEF Monitor

-----------------------------------------------------------------------------
(***************************************************************************)
(* What holds whatever faults there are.                                   *)
(***************************************************************************)
LoopPcs == {"loop", "poll", "unotify", "violation"}

\* The loop runs with the pipe made.
PipeInv == pc \in LoopPcs => pipe_made

\* A sandboxee dies once.
DeathInv == code = "none" <=> main # "dead"

UnotifyInv == TypeOK /\ PipeInv /\ DeathInv /\ NoLostWakeup /\ ResultFitsDeath

\* The types of the parts of the state.
SandboxeeType ==
    /\ main \in {"running", "notifying", "dead"} /\ code \in {"none", "exited", "killed"}
    /\ killed \in BOOLEAN /\ init \in {"waiting", "writing", "dead"}
    /\ status_pipe \in 0..2
OutcomeType == result \in Results /\ aborted \in BOOLEAN
PcType == pc \in {"setup", "setup_failed", "loop", "poll", "read_status", "unotify",
                  "violation", "after_loop", "wait_exit", "kill_init", "finish", "exited"}
FlagsType ==
    /\ wait_for_sandboxee \in BOOLEAN /\ timed_out \in BOOLEAN
    /\ external_kill \in BOOLEAN /\ network_violation \in BOOLEAN
WakeupType ==
    /\ notify_pipe \in 0..MaxNotify /\ pipe_made \in BOOLEAN
    /\ stale \in BOOLEAN /\ notifying \in BOOLEAN
HandshakeType ==
    /\ setup_notified \in BOOLEAN /\ done \in BOOLEAN
    /\ launcher \in {"waiting", "started", "failed", "joined"}
RequestsType ==
    /\ deadline \in {"disarmed", "armed", "passed"}
    /\ kill_request \in BOOLEAN /\ dump_request \in BOOLEAN /\ proxy_violation \in BOOLEAN

\* They make up the type invariant.
LEMMA TypeParts ==
    TypeOK <=> /\ SandboxeeType /\ OutcomeType /\ PcType /\ FlagsType
               /\ WakeupType /\ HandshakeType /\ RequestsType
BY Zenon DEF TypeOK, SandboxeeType, OutcomeType, PcType, FlagsType, WakeupType, HandshakeType,
       RequestsType

\* The sandboxee and its init process.
LEMMA SandboxeeTypeStep ==
    ASSUME SandboxeeType, Monitor \/ Host \/ Sandboxee
    PROVE  SandboxeeType'
<1>0. Killed \in BOOLEAN
    BY Zenon DEF Killed
<1>1. CASE UNCHANGED sandboxee
    BY <1>1, Zenon DEF SandboxeeType, sandboxee
<1>2. CASE CheckDeadline \/ CheckKill \/ CheckNetwork \/ SetViolation
    <2>1. killed' = Killed /\ UNCHANGED <<main, code, init, status_pipe>>
        BY <1>2, Zenon DEF CheckDeadline, CheckKill, CheckNetwork, KillAndBreak, SetViolation
    <2> QED BY <1>0, <2>1, Zenon DEF SandboxeeType
<1>3. CASE SetExitStatusFromStatusPipe
    BY <1>3 DEF SetExitStatusFromStatusPipe, SandboxeeType
<1>4. CASE KillInit \/ InitIsKilled
    <2>1. killed' = Killed /\ init' = "dead" /\ UNCHANGED <<main, code, status_pipe>>
        BY <1>4, Zenon DEF KillInit, InitIsKilled
    <2> QED BY <1>0, <2>1, Zenon DEF SandboxeeType
<1>5. CASE DisallowedSyscall \/ NotificationGone
    BY <1>5, Zenon DEF DisallowedSyscall, NotificationGone, SandboxeeType
<1>6. CASE SandboxeeExits \/ SigKillLands
    BY <1>6, Zenon DEF SandboxeeExits, SigKillLands, SandboxeeType
<1>7. CASE InitWritesCode \/ InitWritesStatus
    BY <1>7 DEF InitWritesCode, InitWritesStatus, SandboxeeType
<1>8. CASE Host
    <2>1. UNCHANGED sandboxee
        BY <1>8, Zenon DEF Host, RunAsync, AwaitResult, Kill, DumpStackTrace, SetWallTimeLimit,
            NotifyMonitor, DeadlinePasses, ProxyViolation, Request, HostUnchanged
    <2> QED BY <1>1, <2>1, Zenon
<1>9. CASE Setup \/ NotifySetupFailed \/ LeaveLoop \/ StartPoll \/ PollTimeout \/ PollNotifyPipe
           \/ PollStatusPipe \/ PollUnotify \/ RecvFails \/ RecvNotification \/ AfterLoop
           \/ WaitForExit \/ OnDone
    <2>1. UNCHANGED sandboxee
        BY <1>9, Zenon
           DEF Setup, NotifySetupFailed, LeaveLoop, StartPoll, PollTimeout, PollNotifyPipe,
            PollStatusPipe, PollUnotify, RecvFails, RecvNotification, AfterLoop, WaitForExit,
            OnDone
    <2> QED BY <1>1, <2>1, Zenon
<1> QED BY <1>2, <1>3, <1>4, <1>5, <1>6, <1>7, <1>8, <1>9, Zenon DEF Monitor, Sandboxee

\* The status.
LEMMA OutcomeTypeStep ==
    ASSUME OutcomeType, Monitor \/ Host \/ Sandboxee
    PROVE  OutcomeType'
<1>1. CASE Monitor
    BY <1>1, MonitorSetsOnce, Zenon DEF OutcomeType, SetOnce, outcome
<1>2. CASE AwaitResult
    BY <1>2, Zenon DEF AwaitResult, OutcomeType
<1>3. CASE Host /\ ~AwaitResult
    <2>1. UNCHANGED outcome
        BY <1>3, Zenon DEF Host, RunAsync, Kill, DumpStackTrace, SetWallTimeLimit, NotifyMonitor,
            DeadlinePasses, ProxyViolation, Request
    <2> QED BY <2>1, Zenon DEF outcome, OutcomeType
<1>4. CASE Sandboxee
    <2>1. UNCHANGED outcome
        BY <1>4, Zenon
           DEF Sandboxee, DisallowedSyscall, NotificationGone, SandboxeeExits, SigKillLands,
            InitWritesCode, InitWritesStatus, InitIsKilled, SandboxeeUnchanged
    <2> QED BY <2>1, Zenon DEF outcome, OutcomeType
<1> QED BY <1>1, <1>2, <1>3, <1>4, Zenon

\* Where the monitor is, and its flags.
LEMMA PcTypeStep ==
    ASSUME PcType, FlagsType, Monitor \/ Host \/ Sandboxee
    PROVE  PcType' /\ FlagsType'
<1>1. CASE UNCHANGED <<pc, flags>>
    BY <1>1, Zenon DEF PcType, FlagsType, flags
<1>2. CASE Setup \/ NotifySetupFailed \/ LeaveLoop \/ StartPoll \/ PollTimeout \/ PollNotifyPipe
           \/ PollUnotify \/ SetExitStatusFromStatusPipe \/ RecvNotification \/ AfterLoop
           \/ WaitForExit \/ KillInit \/ OnDone
    <2>1. PcType'
        BY <1>2, Zenon
           DEF Setup, NotifySetupFailed, LeaveLoop, StartPoll, PollTimeout, PollNotifyPipe,
            PollUnotify, SetExitStatusFromStatusPipe, RecvNotification, AfterLoop, WaitForExit,
            KillInit, OnDone, PcType
    <2>2. UNCHANGED flags
        BY <1>2, Zenon
           DEF Setup, NotifySetupFailed, LeaveLoop, StartPoll, PollTimeout, PollNotifyPipe,
            PollUnotify, SetExitStatusFromStatusPipe, RecvNotification, AfterLoop, WaitForExit,
            KillInit, OnDone
    <2> QED BY <2>1, <2>2, Zenon DEF flags, FlagsType
<1>3. CASE CheckDeadline
    BY <1>3, Zenon DEF CheckDeadline, KillAndBreak, PcType, FlagsType
<1>4. CASE CheckKill
    BY <1>4, Zenon DEF CheckKill, KillAndBreak, PcType, FlagsType
<1>5. CASE CheckNetwork
    BY <1>5, Zenon DEF CheckNetwork, KillAndBreak, PcType, FlagsType
<1>6. CASE PollStatusPipe
    BY <1>6, Zenon DEF PollStatusPipe, PcType, FlagsType
<1>7. CASE RecvFails \/ SetViolation
    BY <1>7, Zenon DEF RecvFails, SetViolation, PcType, FlagsType
<1>8. CASE Host
    <2>1. UNCHANGED <<pc, flags>>
        BY <1>8, Zenon DEF Host, RunAsync, AwaitResult, Kill, DumpStackTrace, SetWallTimeLimit,
            NotifyMonitor, DeadlinePasses, ProxyViolation, Request, HostUnchanged
    <2> QED BY <1>1, <2>1, Zenon
<1>9. CASE Sandboxee
    <2>1. UNCHANGED <<pc, flags>>
        BY <1>9, Zenon
           DEF Sandboxee, DisallowedSyscall, NotificationGone, SandboxeeExits, SigKillLands,
            InitWritesCode, InitWritesStatus, InitIsKilled, SandboxeeUnchanged
    <2> QED BY <1>1, <2>1, Zenon
<1> QED BY <1>2, <1>3, <1>4, <1>5, <1>6, <1>7, <1>8, <1>9, Zenon DEF Monitor

\* The steps of the monitor that neither wake it nor answer the host.
LEMMA MonitorFrame ==
    ASSUME Monitor
    PROVE  /\ Setup \/ StartPoll \/ PollNotifyPipe \/ UNCHANGED wakeup
           /\ Setup \/ NotifySetupFailed \/ OnDone \/ UNCHANGED handshake
           /\ CheckKill \/ UNCHANGED requests
<1> USE DEF wakeup, handshake, requests
<1>1. CASE Setup \/ NotifySetupFailed \/ LeaveLoop
    BY <1>1, Zenon DEF Setup, NotifySetupFailed, LeaveLoop
<1>2. CASE CheckDeadline \/ CheckKill \/ CheckNetwork
    BY <1>2, Zenon DEF CheckDeadline, CheckKill, CheckNetwork, KillAndBreak
<1>3. CASE StartPoll \/ PollTimeout \/ PollNotifyPipe \/ PollStatusPipe \/ PollUnotify
    BY <1>3, Zenon DEF StartPoll, PollTimeout, PollNotifyPipe, PollStatusPipe, PollUnotify
<1>4. CASE SetExitStatusFromStatusPipe \/ RecvFails \/ RecvNotification \/ SetViolation
    BY <1>4, Zenon DEF SetExitStatusFromStatusPipe, RecvFails, RecvNotification, SetViolation
<1>5. CASE AfterLoop \/ WaitForExit \/ KillInit \/ OnDone
    BY <1>5, Zenon DEF AfterLoop, WaitForExit, KillInit, OnDone
<1> QED BY <1>1, <1>2, <1>3, <1>4, <1>5, Zenon DEF Monitor

\* The processes touch nothing of the host.
LEMMA SandboxeeFrame ==
    ASSUME Sandboxee
    PROVE  UNCHANGED <<pc, outcome, flags, wakeup, handshake, requests>>
BY Zenon DEF Sandboxee, DisallowedSyscall, NotificationGone, SandboxeeExits, SigKillLands,
       InitWritesCode, InitWritesStatus, InitIsKilled, SandboxeeUnchanged

\* The pipe, the handshake with the launching thread, and the requests.
LEMMA HostTypeStep ==
    ASSUME WakeupType, HandshakeType, RequestsType, Monitor \/ Host \/ Sandboxee
    PROVE  WakeupType' /\ HandshakeType' /\ RequestsType'
<1>w. UNCHANGED wakeup => WakeupType'
    BY Zenon DEF WakeupType, wakeup
<1>h. UNCHANGED handshake => HandshakeType'
    BY Zenon DEF HandshakeType, handshake
<1>r. UNCHANGED requests => RequestsType'
    BY Zenon DEF RequestsType, requests
<1>1. CASE Monitor
    <2>1. Setup => WakeupType' /\ HandshakeType'
        BY Zenon DEF Setup, WakeupType, HandshakeType
    <2>2. StartPoll => WakeupType'
        BY Zenon DEF StartPoll, WakeupType
    <2>3. PollNotifyPipe => WakeupType'
        BY MaxNotifyAssumption DEF PollNotifyPipe, WakeupType
    <2>4. NotifySetupFailed \/ OnDone => HandshakeType'
        BY Zenon DEF NotifySetupFailed, OnDone, HandshakeType
    <2>5. CheckKill => RequestsType'
        BY Zenon DEF CheckKill, KillAndBreak, RequestsType
    <2> QED BY <1>1, <1>w, <1>h, <1>r, <2>1, <2>2, <2>3, <2>4, <2>5, MonitorFrame, Zenon
<1>2. CASE RunAsync \/ AwaitResult
    <2>1. HandshakeType'
        BY <1>2, Zenon DEF RunAsync, AwaitResult, HandshakeType
    <2>2. UNCHANGED <<wakeup, requests>>
        BY <1>2, Zenon DEF RunAsync, AwaitResult, HostUnchanged, wakeup
    <2> QED BY <1>w, <1>r, <2>1, <2>2, Zenon
<1>3. CASE Kill \/ DumpStackTrace \/ SetWallTimeLimit
    <2>1. UNCHANGED handshake
        BY <1>3, Zenon DEF Kill, DumpStackTrace, SetWallTimeLimit, Request
    <2>2. WakeupType'
        BY <1>3, Zenon
           DEF Kill, DumpStackTrace, SetWallTimeLimit, Request, HostUnchanged, WakeupType
    <2>3. RequestsType'
        BY <1>3, Zenon DEF Kill, DumpStackTrace, SetWallTimeLimit, Request, RequestsType
    <2> QED BY <1>h, <2>1, <2>2, <2>3, Zenon
<1>4. CASE NotifyMonitor
    <2>1. notify_pipe' \in 0..MaxNotify
        BY <1>4, MaxNotifyAssumption DEF NotifyMonitor, WakeupType
    <2>2. WakeupType'
        BY <1>4, <2>1, Zenon DEF NotifyMonitor, WakeupType
    <2> QED BY <1>4, <1>h, <1>r, <2>2, Zenon DEF NotifyMonitor
<1>5. CASE DeadlinePasses \/ ProxyViolation
    <2>1. UNCHANGED <<wakeup, handshake>>
        BY <1>5, Zenon DEF DeadlinePasses, ProxyViolation, HostUnchanged, wakeup
    <2>2. RequestsType'
        BY <1>5, Zenon DEF DeadlinePasses, ProxyViolation, RequestsType
    <2> QED BY <1>w, <1>h, <2>1, <2>2, Zenon
<1>6. CASE Sandboxee
    BY <1>6, <1>w, <1>h, <1>r, SandboxeeFrame, Zenon
<1> QED BY <1>1, <1>2, <1>3, <1>4, <1>5, <1>6, Zenon DEF Host

\* A sandboxee dies once, and what it died of does not change after that.
LEMMA DeathStep ==
    ASSUME DeathInv, Monitor \/ Host \/ Sandboxee
    PROVE  DeathInv' /\ (code = "exited" => code' = "exited")
<1> USE DEF DeathInv, sandboxee
<1>1. CASE Setup \/ NotifySetupFailed \/ LeaveLoop \/ CheckDeadline \/ CheckKill \/ CheckNetwork
    BY <1>1, Zenon DEF Setup, NotifySetupFailed, LeaveLoop, CheckDeadline, CheckKill, CheckNetwork,
                KillAndBreak
<1>2. CASE StartPoll \/ PollTimeout \/ PollNotifyPipe \/ PollStatusPipe \/ PollUnotify
    BY <1>2, Zenon DEF StartPoll, PollTimeout, PollNotifyPipe, PollStatusPipe, PollUnotify
<1>3. CASE SetExitStatusFromStatusPipe \/ RecvFails \/ RecvNotification \/ SetViolation
           \/ AfterLoop \/ WaitForExit \/ KillInit \/ OnDone
    BY <1>3, Zenon DEF SetExitStatusFromStatusPipe, RecvFails, RecvNotification, SetViolation,
                AfterLoop, WaitForExit, KillInit, OnDone
<1>4. CASE Host
    BY <1>4, Zenon DEF Host, RunAsync, AwaitResult, Kill, DumpStackTrace, SetWallTimeLimit,
                NotifyMonitor, DeadlinePasses, ProxyViolation, Request, HostUnchanged
<1>5. CASE DisallowedSyscall \/ NotificationGone
    BY <1>5, Zenon DEF DisallowedSyscall, NotificationGone
<1>6. CASE SandboxeeExits \/ SigKillLands
    BY <1>6, Zenon DEF SandboxeeExits, SigKillLands
<1>7. CASE InitWritesCode \/ InitWritesStatus \/ InitIsKilled
    BY <1>7, Zenon DEF InitWritesCode, InitWritesStatus, InitIsKilled
<1> QED BY <1>1, <1>2, <1>3, <1>4, <1>5, <1>6, <1>7, Zenon DEF Monitor, Sandboxee

\* A status is set to what the death and the flags give, and neither changes
\* after that.
LEMMA ResultFitsDeathStep ==
    ASSUME TypeOK, DeathInv, ResultFitsDeath, Monitor \/ Host \/ Sandboxee
    PROVE  ResultFitsDeath'
<1>1. code = "exited" => code' = "exited"
    BY DeathStep, Zenon
<1>2. ASSUME UNCHANGED <<result, flags>> PROVE ResultFitsDeath'
    BY <1>1, <1>2, Zenon DEF ResultFitsDeath, flags
<1>3. ASSUME NEW s \in FinalStatuses \ {"OK", "SIGNALED"}, NEW r, SetExitStatusCode(s, r),
             result = Unset \/ UNCHANGED flags
      PROVE  ResultFitsDeath'
    <2>1. result' = [status |-> s, reason |-> r] \/ (result' = result /\ UNCHANGED flags)
        BY <1>3, Zenon DEF SetExitStatusCode
    <2> QED BY <1>1, <1>3, <2>1 DEF ResultFitsDeath, flags
<1>4. CASE Setup
    BY <1>2, <1>3, <1>4, Zenon DEF Setup, outcome, FinalStatuses
<1>5. CASE CheckDeadline \/ CheckKill \/ CheckNetwork
    <2>1. result = Unset /\ MaybeGetStackTrace
        BY <1>5, Zenon DEF CheckDeadline, CheckKill, CheckNetwork, KillAndBreak
    <2>2. CASE UNCHANGED outcome
        BY <2>1, <2>2, Zenon DEF ResultFitsDeath, outcome, Unset
    <2>3. CASE SetExitStatusCode("INTERNAL_ERROR", "FAILED_FETCH")
        BY <1>3, <2>1, <2>3, Zenon DEF FinalStatuses
    <2> QED BY <2>1, <2>2, <2>3, Zenon DEF MaybeGetStackTrace
<1>6. CASE PollStatusPipe
    <2>1. UNCHANGED <<timed_out, external_kill, network_violation>>
        BY <1>6, Zenon DEF PollStatusPipe
    <2>2. result' = result \/ result' = [status |-> "INTERNAL_ERROR", reason |-> "FAILED_MONITOR"]
        BY <1>6, Zenon DEF PollStatusPipe, SetExitStatusCode, outcome
    <2> QED BY <1>1, <2>1, <2>2 DEF ResultFitsDeath
<1>7. CASE SetExitStatusFromStatusPipe
    <2>1. UNCHANGED <<code, flags>>
        BY <1>7, Zenon DEF SetExitStatusFromStatusPipe
    <2>2. \/ result' = result
          \/ result'.status = "OK" /\ code = "exited"
          \/ result'.status \in {"VIOLATION", "EXTERNAL_KILL", "TIMEOUT"}
          \/ result'.status = "SIGNALED" /\ ~(timed_out \/ external_kill \/ network_violation)
        BY <1>7 DEF SetExitStatusFromStatusPipe, SetExitStatusCode
    <2> QED BY <2>1, <2>2, Zenon DEF ResultFitsDeath, flags
<1>8. CASE RecvFails \/ SetViolation
    <2>1. UNCHANGED <<timed_out, external_kill, network_violation>>
        BY <1>8, Zenon DEF RecvFails, SetViolation
    <2>2. \/ result' = result
          \/ result' = [status |-> "INTERNAL_ERROR", reason |-> "FAILED_NOTIFY"]
          \/ result' = [status |-> "VIOLATION", reason |-> "syscall"]
        BY <1>8, Zenon DEF RecvFails, SetViolation, SetExitStatusCode, outcome
    <2> QED BY <1>1, <2>1, <2>2 DEF ResultFitsDeath
<1>9. CASE RecvNotification
    BY <1>2, <1>3, <1>9, Zenon DEF RecvNotification, MaybeGetStackTrace, outcome, FinalStatuses
<1>10. CASE WaitForExit
    BY <1>2, <1>3, <1>10, Zenon DEF WaitForExit, outcome, FinalStatuses
<1>11. CASE NotifySetupFailed \/ LeaveLoop \/ StartPoll \/ PollTimeout \/ PollNotifyPipe
            \/ PollUnotify \/ AfterLoop \/ KillInit \/ OnDone
    <2>1. UNCHANGED <<outcome, flags>>
        BY <1>11, Zenon DEF NotifySetupFailed, LeaveLoop, StartPoll, PollTimeout, PollNotifyPipe,
            PollUnotify, AfterLoop, KillInit, OnDone
    <2> QED BY <1>2, <2>1, Zenon DEF outcome
<1>12. CASE Host
    <2>1. UNCHANGED <<result, flags>>
        BY <1>12, Zenon DEF Host, RunAsync, AwaitResult, Kill, DumpStackTrace, SetWallTimeLimit,
            NotifyMonitor, DeadlinePasses, ProxyViolation, Request, HostUnchanged, outcome
    <2> QED BY <1>2, <2>1, Zenon
<1>13. CASE Sandboxee
    BY <1>2, <1>13, SandboxeeFrame, Zenon DEF outcome
<1> QED BY <1>4, <1>5, <1>6, <1>7, <1>8, <1>9, <1>10, <1>11, <1>12, <1>13, Zenon DEF Monitor

\* The pipe is made before the loop, and no wake-up is lost: a byte is written
\* after each change that the monitor has to see.
LEMMA WakeupStep ==
    ASSUME TypeOK, PipeInv, NoLostWakeup, Monitor \/ Host \/ Sandboxee
    PROVE  PipeInv' /\ NoLostWakeup'
<1> USE DEF PipeInv, NoLostWakeup, LoopPcs, wakeup
<1>1. CASE Setup \/ NotifySetupFailed \/ LeaveLoop \/ CheckDeadline \/ CheckKill \/ CheckNetwork
    BY <1>1, Zenon DEF Setup, NotifySetupFailed, LeaveLoop, CheckDeadline, CheckKill, CheckNetwork,
                KillAndBreak
<1>2. CASE StartPoll \/ PollTimeout \/ PollNotifyPipe \/ PollStatusPipe \/ PollUnotify
    BY <1>2, Zenon DEF StartPoll, PollTimeout, PollNotifyPipe, PollStatusPipe, PollUnotify
<1>3. CASE SetExitStatusFromStatusPipe \/ RecvFails \/ RecvNotification \/ SetViolation
           \/ AfterLoop \/ WaitForExit \/ KillInit \/ OnDone
    BY <1>3, Zenon DEF SetExitStatusFromStatusPipe, RecvFails, RecvNotification, SetViolation,
                AfterLoop, WaitForExit, KillInit, OnDone
<1>4. CASE RunAsync \/ AwaitResult \/ DeadlinePasses \/ ProxyViolation
    BY <1>4 DEF RunAsync, AwaitResult, DeadlinePasses, ProxyViolation, HostUnchanged
<1>5. CASE Kill \/ DumpStackTrace \/ SetWallTimeLimit
    BY <1>5 DEF Kill, DumpStackTrace, SetWallTimeLimit, Request, HostUnchanged
<1>6. CASE NotifyMonitor
    BY <1>6 DEF NotifyMonitor, TypeOK
<1>7. CASE Sandboxee
    BY <1>7 DEF Sandboxee, DisallowedSyscall, NotificationGone, SandboxeeExits, SigKillLands,
                InitWritesCode, InitWritesStatus, InitIsKilled, SandboxeeUnchanged
<1> QED BY <1>1, <1>2, <1>3, <1>4, <1>5, <1>6, <1>7, Zenon DEF Monitor, Host

\* The invariant is inductive.
LEMMA UnotifyInvStep == UnotifyInv /\ [Next]_vars => UnotifyInv'
<1> SUFFICES ASSUME UnotifyInv, [Next]_vars PROVE UnotifyInv'
    OBVIOUS
<1>1. CASE Monitor \/ Host \/ Sandboxee
    <2>1. TypeOK'
        <3>1. /\ SandboxeeType /\ OutcomeType /\ PcType /\ FlagsType
              /\ WakeupType /\ HandshakeType /\ RequestsType
            BY TypeParts, Zenon DEF UnotifyInv
        <3>2. /\ SandboxeeType' /\ OutcomeType' /\ PcType' /\ FlagsType'
              /\ WakeupType' /\ HandshakeType' /\ RequestsType'
            BY <1>1, <3>1, SandboxeeTypeStep, OutcomeTypeStep, PcTypeStep, HostTypeStep, Zenon
        <3> QED BY <3>2, TypeParts, PTL
    <2> QED BY <1>1, <2>1, WakeupStep, DeathStep, ResultFitsDeathStep, Zenon DEF UnotifyInv
<1>2. CASE UNCHANGED vars
    BY <1>2 DEF vars, state, sandboxee, outcome, flags, wakeup, handshake, requests, UnotifyInv,
        TypeOK, PipeInv, LoopPcs, DeathInv, NoLostWakeup, ResultFitsDeath
<1> QED BY <1>1, <1>2, Zenon DEF Next

\* It holds in every state.
THEOREM UnotifyInvariant == Spec => []UnotifyInv
<1>1. Init => UnotifyInv
    <2> SUFFICES ASSUME Init PROVE UnotifyInv
        OBVIOUS
    <2>1. SandboxeeType
        <3>1. status_pipe \in 0..2
            BY DEF Init
        <3>2. /\ main \in {"running", "notifying", "dead"}
              /\ code \in {"none", "exited", "killed"}
              /\ killed \in BOOLEAN /\ init \in {"waiting", "writing", "dead"}
            BY Zenon DEF Init
        <3> QED BY <3>1, <3>2, Zenon DEF SandboxeeType
    <2>5. PcType
        BY Zenon DEF Init, PcType
    <2>6. FlagsType /\ HandshakeType
        BY Zenon DEF Init, FlagsType, HandshakeType
    <2>2. OutcomeType
        BY Zenon DEF Init, OutcomeType, Results, Unset
    <2>3. WakeupType
        <3>1. notify_pipe \in 0..MaxNotify
            BY MaxNotifyAssumption DEF Init
        <3> QED BY <3>1, Zenon DEF Init, WakeupType
    <2>4. RequestsType
        BY Zenon DEF Init, RequestsType
    <2>7. TypeOK
        BY <2>1, <2>2, <2>3, <2>4, <2>5, <2>6, TypeParts, Zenon
    <2> QED BY <2>7, Zenon DEF Init, UnotifyInv, PipeInv, LoopPcs, DeathInv, NoLostWakeup,
                        ResultFitsDeath, Unset
<1> QED BY <1>1, UnotifyInvStep, PTL DEF Spec

\* The variables of the monitor (monitor_unotify.cc) have their types.
THEOREM TypesHold == Spec => []TypeOK
<1>1. UnotifyInv => TypeOK
    BY Zenon DEF UnotifyInv
<1> QED BY <1>1, UnotifyInvariant, PTL

\* Whatever requests other threads make and whenever, the monitor does not sleep
\* on a change without a byte in its pipe or on the way (NotifyMonitor).
THEOREM WakeupsArrive == Spec => []NoLostWakeup
<1>1. UnotifyInv => NoLostWakeup
    BY Zenon DEF UnotifyInv
<1> QED BY <1>1, UnotifyInvariant, PTL

\* Whatever faults there are, a status fits the death that it reports
\* (SetExitStatusFromStatusPipe).
THEOREM ResultsFit == Spec => []ResultFitsDeath
<1>1. UnotifyInv => ResultFitsDeath
    BY Zenon DEF UnotifyInv
<1> QED BY <1>1, UnotifyInvariant, PTL

-----------------------------------------------------------------------------
(***************************************************************************)
(* What holds as long as the only fault is a failure to receive a          *)
(* notification.  A status is set at most once because every way to set    *)
(* one in the loop leaves it without waiting for another, and at least     *)
(* once because wait_for_sandboxee_ is cleared only with a status set.     *)
(***************************************************************************)
Phase ==
    /\ ~aborted
    /\ pc = "setup" => result = Unset /\ ~killed /\ wait_for_sandboxee
    /\ pc \in {"poll", "unotify", "violation", "read_status", "wait_exit"} => result = Unset
    /\ pc \in LoopPcs /\ result = Unset => wait_for_sandboxee /\ ~killed
    /\ pc = "loop" /\ result # Unset => ~wait_for_sandboxee
    /\ pc = "after_loop" => (wait_for_sandboxee <=> result = Unset)
    /\ pc = "unotify" => main = "notifying"
    /\ pc \in {"setup_failed", "kill_init", "finish", "exited"} => result # Unset
    /\ done <=> pc = "exited"
    /\ status_pipe = 1 /\ init = "dead" => pc \in {"finish", "exited"}

PhaseInv == Expected => Phase

\* Without other faults the registers can be fetched.
LEMMA NoFetchError == Expected /\ MaybeGetStackTrace => UNCHANGED outcome
BY Zenon DEF Expected, MaybeGetStackTrace

\* SetExitStatusCode sets a status when none is set.
LEMMA SetsStatus ==
    ASSUME NEW s \in FinalStatuses, NEW r, SetExitStatusCode(s, r), result = Unset
    PROVE  result' # Unset /\ aborted' = aborted
BY DEF SetExitStatusCode, FinalStatuses, Unset

\* The top of the loop, and what comes before it.
LEMMA LoopTopPhase ==
    ASSUME Expected, Phase,
           Setup \/ NotifySetupFailed \/ LeaveLoop \/ CheckDeadline \/ CheckKill
             \/ CheckNetwork \/ StartPoll
    PROVE  Phase'
<1> USE DEF Phase, LoopPcs, outcome, flags, sandboxee, handshake
<1>1. CASE Setup
    BY <1>1, SetsStatus DEF Setup, FinalStatuses
<1>2. CASE NotifySetupFailed \/ LeaveLoop
    BY <1>2 DEF NotifySetupFailed, LeaveLoop
<1>3. CASE CheckDeadline \/ CheckKill \/ CheckNetwork
    <2>1. /\ pc = "loop" /\ result = Unset /\ MaybeGetStackTrace /\ pc' = "after_loop"
          /\ UNCHANGED <<main, init, status_pipe, wait_for_sandboxee, done>>
        BY <1>3, Zenon DEF CheckDeadline, CheckKill, CheckNetwork, KillAndBreak
    <2>2. UNCHANGED outcome
        BY <2>1, NoFetchError, Zenon
    <2> QED BY <2>1, <2>2, Zenon
<1>4. CASE StartPoll
    BY <1>4, Zenon DEF StartPoll
<1> QED BY <1>1, <1>2, <1>3, <1>4, Zenon

\* poll() returns, and a notification is handled.
LEMMA PollPhase ==
    ASSUME Expected, Phase,
           PollTimeout \/ PollNotifyPipe \/ PollStatusPipe \/ PollUnotify
             \/ RecvFails \/ RecvNotification \/ SetViolation
    PROVE  Phase'
<1> USE DEF Phase, LoopPcs, outcome, flags, sandboxee, handshake
<1>1. CASE PollTimeout \/ PollNotifyPipe \/ PollUnotify
    BY <1>1 DEF PollTimeout, PollNotifyPipe, PollUnotify
<1>2. CASE PollStatusPipe
    BY <1>2, SetsStatus, Zenon DEF PollStatusPipe, FinalStatuses
<1>3. CASE RecvFails
    BY <1>3, SetsStatus, Zenon DEF RecvFails, FinalStatuses
<1>4. CASE RecvNotification
    BY <1>4, NoFetchError DEF RecvNotification
<1>5. CASE SetViolation
    BY <1>5, SetsStatus, Zenon DEF SetViolation, FinalStatuses
<1> QED BY <1>1, <1>2, <1>3, <1>4, <1>5, Zenon

\* What comes after the loop.
LEMMA EndPhase ==
    ASSUME Expected, Phase,
           SetExitStatusFromStatusPipe \/ AfterLoop \/ WaitForExit \/ KillInit \/ OnDone
    PROVE  Phase'
<1> USE DEF Phase, LoopPcs, outcome, flags, sandboxee, handshake
<1>1. CASE SetExitStatusFromStatusPipe
    <2>1. /\ pc = "read_status" /\ pc' = "kill_init" /\ status_pipe' = 0
          /\ UNCHANGED <<main, killed, init, wait_for_sandboxee, done>>
        BY <1>1, Zenon DEF SetExitStatusFromStatusPipe
    <2>2. \E s \in FinalStatuses, r \in Reasons : SetExitStatusCode(s, r)
        BY <1>1, <2>1, Zenon DEF SetExitStatusFromStatusPipe, FinalStatuses, Reasons
    <2> QED BY <2>1, <2>2, SetsStatus
<1>2. CASE AfterLoop \/ KillInit \/ OnDone
    BY <1>2 DEF AfterLoop, KillInit, OnDone
<1>3. CASE WaitForExit
    BY <1>3, SetsStatus, Zenon DEF WaitForExit, FinalStatuses, Expected
<1> QED BY <1>1, <1>2, <1>3, Zenon

\* The other threads: Join() finds the monitor done, and a result.
LEMMA HostPhase ==
    ASSUME Phase, Host
    PROVE  Phase' /\ UNCHANGED <<result, done>>
           /\ (RunAsync \/ AwaitResult \/ UNCHANGED launcher)
<1> USE DEF Phase, LoopPcs, outcome, flags, sandboxee, handshake, HostUnchanged
<1>1. CASE RunAsync
    BY <1>1, Zenon DEF RunAsync
<1>2. CASE AwaitResult
    BY <1>2, Zenon DEF AwaitResult
<1>3. CASE Kill \/ DumpStackTrace \/ SetWallTimeLimit
    BY <1>3 DEF Kill, DumpStackTrace, SetWallTimeLimit, Request
<1>4. CASE NotifyMonitor \/ DeadlinePasses \/ ProxyViolation
    BY <1>4 DEF NotifyMonitor, DeadlinePasses, ProxyViolation
<1> QED BY <1>1, <1>2, <1>3, <1>4, Zenon DEF Host

\* The processes: nobody takes a notification back or kills the init process.
LEMMA SandboxeePhase ==
    ASSUME Expected, Phase, Sandboxee
    PROVE  Phase'
<1> USE DEF Phase, LoopPcs
<1>1. UNCHANGED <<pc, aborted, result, wait_for_sandboxee, done>>
    BY SandboxeeFrame, Zenon DEF outcome, flags, handshake
<1>2. CASE DisallowedSyscall
    BY <1>1, <1>2, Zenon DEF DisallowedSyscall
<1>3. CASE NotificationGone \/ InitIsKilled
    BY <1>3, Zenon DEF NotificationGone, InitIsKilled, Expected
<1>4. CASE SandboxeeExits
    BY <1>1, <1>4, Zenon DEF SandboxeeExits
<1>5. CASE SigKillLands
    BY <1>1, <1>5, Zenon DEF SigKillLands
<1>6. CASE InitWritesCode \/ InitWritesStatus
    BY <1>1, <1>6 DEF InitWritesCode, InitWritesStatus
<1> QED BY <1>2, <1>3, <1>4, <1>5, <1>6, Zenon DEF Sandboxee

\* The phases hold in every state.
THEOREM PhaseInvariant == Spec => []PhaseInv
<1>1. Init => PhaseInv
    BY Zenon DEF Init, PhaseInv, Phase, LoopPcs
<1>2. PhaseInv /\ [Next]_vars => PhaseInv'
    <2> SUFFICES ASSUME PhaseInv, [Next]_vars, Expected' PROVE Phase'
        BY Zenon DEF PhaseInv
    <2>1. Expected
        BY Zenon DEF Expected, Next, vars
    <2>2. Phase
        BY <2>1, Zenon DEF PhaseInv
    <2>3. CASE Monitor
        BY <2>1, <2>2, <2>3, LoopTopPhase, PollPhase, EndPhase, Zenon DEF Monitor
    <2>4. CASE UNCHANGED vars
        BY <2>2, <2>4, Zenon
           DEF vars, state, sandboxee, outcome, flags, wakeup, handshake, requests,
                          Phase, LoopPcs
    <2> QED BY <2>1, <2>2, <2>3, <2>4, HostPhase, SandboxeePhase, Zenon DEF Next
<1> QED BY <1>1, <1>2, PTL DEF Spec

\* Neither the CHECK in SetExitStatusCode (monitor_base.cc) nor those in Join() and
\* in reading the status pipe (monitor_unotify.cc) can fail, whatever requests
\* there are, as long as the only fault is a failure to receive a notification.
THEOREM ChecksNeverFail == Spec => []ChecksHold
<1>1. PhaseInv => ChecksHold
    BY Zenon DEF PhaseInv, Phase, ChecksHold
<1> QED BY <1>1, PhaseInvariant, PTL

-----------------------------------------------------------------------------
(***************************************************************************)
(* Refinement: the result, done_notification_ and the launching thread are *)
(* those of SandboxRun, everything else stutters.                          *)
(***************************************************************************)
\* Each step is a step of SandboxRun or leaves its variables alone.
LEMMA RunStep ==
    ASSUME PhaseInv, PhaseInv', [Next]_vars
    PROVE  [Expected => Run!Next]_(Run!vars)
<1> SUFFICES ASSUME Expected PROVE [Run!Next]_(Run!vars)
    OBVIOUS
<1> USE DEF Run!Next, Run!vars
<1>1. Phase /\ Phase'
    BY Zenon DEF PhaseInv, Expected, Next, vars
<1>2. CASE Monitor
    <2>1. SetOnce
        BY <1>2, MonitorSetsOnce, Zenon
    <2>2. ~aborted' /\ ~aborted
        BY <1>1, Zenon DEF Phase
    <2>3. UNCHANGED result \/ (result = Unset /\ result' \in Results \ {Unset})
        BY <2>1, <2>2, Zenon DEF SetOnce, outcome
    <2>4. UNCHANGED launcher
        BY <1>2, MonitorFrame, Zenon DEF Setup, NotifySetupFailed, OnDone, handshake
    <2>5. CASE OnDone
        <3>1. result # Unset /\ ~done /\ done' = TRUE /\ UNCHANGED outcome
            BY <1>1, <2>5, Zenon DEF OnDone, Phase
        <3> QED BY <2>4, <3>1, Zenon DEF Run!OnDone, outcome
    <2>6. CASE ~OnDone
        <3>1. UNCHANGED done
            BY <1>2, <2>6, MonitorFrame, Zenon DEF Setup, NotifySetupFailed, handshake
        <3>2. result = Unset => ~done
            BY <1>1, Zenon DEF Phase
        <3> QED BY <2>3, <2>4, <3>1, <3>2, Zenon DEF Run!SetExitStatusCode
    <2> QED BY <2>5, <2>6, Zenon
<1>3. CASE Host
    <2>1. UNCHANGED <<result, done>> /\ (RunAsync \/ AwaitResult \/ UNCHANGED launcher)
        BY <1>1, <1>3, HostPhase, Zenon
    <2>2. CASE RunAsync
        BY <2>1, <2>2, Zenon DEF RunAsync, Run!RunAsync
    <2>3. CASE AwaitResult
        BY <1>1, <2>1, <2>3, Zenon DEF AwaitResult, Run!AwaitResult, Phase
    <2>4. CASE UNCHANGED launcher
        BY <2>1, <2>4, Zenon
    <2> QED BY <2>1, <2>2, <2>3, <2>4, Zenon
<1>4. CASE Sandboxee
    BY <1>4, SandboxeeFrame, Zenon DEF outcome, handshake
<1>5. CASE UNCHANGED vars
    BY <1>5, Zenon DEF vars, state, outcome, handshake
<1> QED BY <1>2, <1>3, <1>4, <1>5, Zenon DEF Next

\* UnotifyMonitor implements SandboxRun: whatever the sandboxee and the other
\* threads do, its result is set exactly once, before OnDone(), and AwaitResult()
\* returns only after both, as long as the only fault is a failure to receive a
\* notification.
THEOREM Implements == Spec => ImplementsSandboxRun
<1>1. Init => Run!Init
    BY Zenon DEF Init, Run!Init
<1> QED BY <1>1, RunStep, PhaseInvariant, PTL DEF Spec, ImplementsSandboxRun
=============================================================================
