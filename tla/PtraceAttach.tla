---------------------------- MODULE PtraceAttach ----------------------------
(***************************************************************************)
(* PtraceMonitor::InitPtraceAttach (sandbox2/monitor_ptrace.cc): seizing   *)
(* every thread of a process whose threads go on spawning and exiting.     *)
(* PtraceMonitor takes the whole of it as one step.                        *)
(***************************************************************************)
EXTENDS Naturals

CONSTANTS Threads,      \* every thread id there can be
          Main,         \* process_.main_pid, the thread group leader
          HasInit,      \* process_.init_pid > 0
          OtherErrors   \* may a call fail for a reason the code does not expect?

ASSUME MainAssumption == Main \in Threads

ASSUME AttachFlags == {HasInit, OtherErrors} \subseteq BOOLEAN

VARIABLES live,            \* kernel: the tasks listed in /proc/<Main>/task
          exiting,         \* kernel: those of them that are exiting
          ended,           \* kernel: thread ids used up
          traced,          \* kernel: the tasks traced by the monitor thread
          pc,
          tasks,           \* tasks still to visit in this round
          tasks_left,      \* tasks to try again
          tasks_attached,
          late,            \* the deadline of two seconds has passed
          failure          \* why InitPtraceAttach returned false

kernel == <<live, exiting, ended, traced>>
vars == <<kernel, pc, tasks, tasks_left, tasks_attached, late, failure>>

Init ==
    /\ live \in {s \in SUBSET Threads : Main \in s}
    /\ exiting = {} /\ ended = {} /\ traced = {}
    /\ pc = "init"
    /\ tasks = {} /\ tasks_left = {} /\ tasks_attached = {}
    /\ late = FALSE /\ failure = "none"

Fail(why) ==
    /\ pc' = "failed" /\ failure' = why
    /\ UNCHANGED <<kernel, tasks, tasks_left, tasks_attached, late>>

\* PTRACE_SEIZE of the init process fails when it is gone.
SeizeInit ==
    /\ pc = "init"
    /\ \/ HasInit /\ OtherErrors /\ Fail("init")
       \/ /\ pc' = "list"
          /\ UNCHANGED <<kernel, tasks, tasks_left, tasks_attached, late, failure>>

\* sanitizer::GetListOfTasks; the deadline is set right after it.
ListTasks ==
    /\ pc = "list"
    /\ \/ (Main \notin live \/ OtherErrors) /\ Fail("list")
       \/ /\ Main \in live
          /\ tasks' = live
          /\ pc' = "seize"
          /\ UNCHANGED <<kernel, tasks_left, tasks_attached, late, failure>>

\* PTRACE_SEIZE of one task: EPERM while it is exiting, ESRCH when it is gone.
SeizeTask(task) ==
    /\ pc = "seize" /\ task \in tasks
    /\ \/ /\ task \in live \ exiting
          /\ traced' = traced \cup {task}
          /\ tasks_attached' = tasks_attached \cup {task}
          /\ tasks' = tasks \ {task}
          /\ UNCHANGED <<live, exiting, ended, pc, tasks_left, late, failure>>
       \/ /\ task \in exiting
          /\ tasks_left' = tasks_left \cup {task}
          /\ tasks' = tasks \ {task}
          /\ UNCHANGED <<kernel, pc, tasks_attached, late, failure>>
       \/ /\ task \notin live
          /\ tasks' = tasks \ {task}
          /\ UNCHANGED <<kernel, pc, tasks_left, tasks_attached, late, failure>>
       \/ OtherErrors /\ Fail("seize")

\* The end of a round.  The code gives up when absl::Now() < deadline.
TimedOut == ~late

\* Mutant: the tasks to try again pile up.
EndRoundPilesUp ==
    /\ pc = "seize" /\ tasks = {}
    /\ IF tasks_left = {}
       THEN /\ pc' = "relist"
            /\ UNCHANGED <<kernel, tasks, tasks_left, tasks_attached, late, failure>>
       ELSE \/ TimedOut /\ Fail("timeout")
            \/ /\ ~TimedOut
               /\ tasks' = tasks_left
               /\ UNCHANGED <<kernel, pc, tasks_left, tasks_attached, late, failure>>

EndRound ==
    /\ pc = "seize" /\ tasks = {}
    /\ IF tasks_left = {}
       THEN /\ pc' = "relist"
            /\ UNCHANGED <<kernel, tasks, tasks_left, tasks_attached, late, failure>>
       ELSE \/ TimedOut /\ Fail("timeout")
            \/ /\ ~TimedOut
               /\ tasks' = tasks_left /\ tasks_left' = {}
               /\ UNCHANGED <<kernel, pc, tasks_attached, late, failure>>

\* Mutant: the second list is not compared.
CheckTasksNot ==
    /\ pc = "relist" /\ pc' = "send"
    /\ UNCHANGED <<kernel, tasks, tasks_left, tasks_attached, late, failure>>

\* The list is taken again: every task on it must have been seized here.
CheckTasks ==
    /\ pc = "relist"
    /\ \/ (tasks_attached # live \/ OtherErrors) /\ Fail("spawned")
       \/ /\ tasks_attached = live
          /\ pc' = "send"
          /\ UNCHANGED <<kernel, tasks, tasks_left, tasks_attached, late, failure>>

SendDone ==
    /\ pc = "send"
    /\ \/ OtherErrors /\ Fail("send")
       \/ /\ pc' = "attached"
          /\ UNCHANGED <<kernel, tasks, tasks_left, tasks_attached, late, failure>>

InitPtraceAttach ==
    \/ SeizeInit \/ ListTasks \/ EndRound \/ CheckTasks \/ SendDone
    \/ \E task \in Threads : SeizeTask(task)

(***************************************************************************)
(* The kernel.  A thread spawned by a traced one is traced                 *)
(* (PTRACE_O_TRACECLONE); a traced thread that exits stops before it is    *)
(* gone (PTRACE_O_TRACEEXIT); the leader stays until the others are gone.  *)
(***************************************************************************)
KernelUnchanged ==
    UNCHANGED <<pc, tasks, tasks_left, tasks_attached, late, failure>>

Spawn(task, new) ==
    /\ task \in live \ exiting /\ new \notin live \cup ended
    /\ live' = live \cup {new}
    /\ traced' = IF task \in traced THEN traced \cup {new} ELSE traced
    /\ UNCHANGED <<exiting, ended>> /\ KernelUnchanged

StartExit(task) ==
    /\ task \in live \ exiting
    /\ exiting' = exiting \cup {task}
    /\ UNCHANGED <<live, ended, traced>> /\ KernelUnchanged

EndExit(task) ==
    /\ task \in exiting \ traced
    /\ task = Main => live = {Main}
    /\ live' = live \ {task} /\ exiting' = exiting \ {task}
    /\ ended' = ended \cup {task}
    /\ UNCHANGED traced /\ KernelUnchanged

Kernel == \E task \in Threads :
              \/ \E new \in Threads : Spawn(task, new)
              \/ StartExit(task) \/ EndExit(task)

DeadlinePasses ==
    /\ pc = "seize" /\ ~late
    /\ late' = TRUE
    /\ UNCHANGED <<kernel, pc, tasks, tasks_left, tasks_attached, failure>>

Next == InitPtraceAttach \/ Kernel \/ DeadlinePasses

Spec == Init /\ [][Next]_vars

\* The monitor thread runs, and an exiting thread that nobody stops is gone
\* in the end.
FairSpec == Spec /\ WF_vars(InitPtraceAttach)
                 /\ \A task \in Threads : WF_vars(EndExit(task))

-----------------------------------------------------------------------------
\* Every variable has its type; a task is exiting or traced only while it lives.
TypeOK ==
    /\ live \subseteq Threads /\ exiting \subseteq live /\ traced \subseteq live
    /\ ended \subseteq Threads \ live
    /\ pc \in {"init", "list", "seize", "relist", "send", "attached", "failed"}
    /\ tasks \subseteq Threads /\ tasks_left \subseteq Threads
    /\ tasks_attached \subseteq Threads /\ late \in BOOLEAN
    /\ failure \in {"none", "init", "list", "seize", "timeout", "spawned", "send"}

\* When the monitor tells the sandboxee to go on, no thread of it escapes the
\* monitor, although threads may have been spawned by threads not yet seized.
NoThreadEscapes == pc \in {"send", "attached"} => live \subseteq traced

\* InitPtraceAttach returns, also when threads exit while they are seized, unless
\* the leader exits: it answers EPERM until the last of its threads is gone, and
\* past the deadline nothing ends the retries.
AttachEnds == [](Main \notin exiting) => <>(pc \in {"attached", "failed"})
=============================================================================
