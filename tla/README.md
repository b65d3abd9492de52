# Sandbox2 and Sandboxed API in TLA+

A verification development for Sandboxed API. Its core is Sandbox2, the library
that starts a program under a seccomp policy in namespaces, watches it with a
monitor thread and reports how it ended; on top of it the SAPI layer calls
libraries that run in such a sandboxee, and the repository ships some fifty
programs and wrappers that use it. The modules model the control of that code;
TLC checks them on small instances, and TLAPS proves the central safety
properties for every value of the constants.

Paths below are relative to `src/sandboxed_api/sandbox2/` unless they start
with `src/`.

## 1. The system

### Parts

| part | code | modules |
|---|---|---|
| ptrace monitor | `monitor_ptrace.cc` | `PtraceMonitor`, `PtraceAttach` |
| unotify monitor | `monitor_unotify.cc` | `UnotifyMonitor` |
| monitor base, sandbox object | `monitor_base.cc`, `sandbox2.cc` | `SandboxRun` (the promise), both monitors, `Launch` |
| executor, fork client, fork-server, sandboxee client | `executor.cc`, `fork_client.cc`, `forkserver.cc`, `client.cc` | `Launch` |
| global fork client | `global_forkclient.cc`, `fork_client.cc` | `ForkClients` |
| Comms | `comms.cc` | `CommsChannel` |
| network proxy, host filter | `network_proxy/` | `NetworkProxy`, `HostFilter` |
| BPF helper and its use | `util/bpf_helper.c`, `policybuilder.cc` | `BpfCode` |
| policy, policy builder | `policy.cc`, `policybuilder.cc`, `stack_trace.cc` | `PolicyBuilder` |
| mounts, shared libraries | `mounts.cc` | `MountTree`, `LibraryResolver` |
| paths | `src/sandboxed_api/util/{path,fileops}.cc` | `Paths` |
| SAPI sandbox, RPC, transaction | `src/sandboxed_api/{sandbox,rpcchannel,client,transaction}.cc` | `SapiSandbox` |
| SAPI variables | `src/sandboxed_api/var_*.{cc,h}` | `SapiVars`, `SapiFd` |
| policies of the shipped programs | `examples/`, `src/contrib/`, `src/oss-internship-2020/` | `SandboxPolicies` |
| the shipped programs and wrappers | same | `ProgramLang`, `Programs*`, `LibraryPrograms` |
| stack traces, log server, buffer, registers, embedded files, generators | `stack_trace.cc`, `unwind/`, `logserver.cc`, `buffer.cc`, `regs.cc`, ... | not modelled (section 6) |

### How they interact

The host calls `Sandbox2::RunAsync()`, which creates a monitor and calls
`MonitorBase::Launch()`. That sends a request over the fork-server's channel; the
fork-server clones an init process (when there is a pid namespace) and the
sandboxee, and reports their pids, the sandboxee's over a second socket that the
init process and the child inherit. Host and sandboxee then exchange a handshake
over a third socket: descriptors, cwd, policy, two points where each waits for
the other, so that limits and monitor are in place at the last moment. From then
on a monitor thread owns the run. The ptrace monitor collects wait statuses and
resumes tracees; the unotify monitor polls the notification fd and the pipe in
which the init process writes how the sandboxee died. Other threads of the host
set flags (`Kill`, `DumpStackTrace`, `set_walltime_limit`, network violation)
that the monitor looks at, wait for `setup_notification_`, and join the thread
in `AwaitResult()`.

Before a run the host builds a policy: calls of `PolicyBuilder` add rules,
mounts and network settings, `Build()` checks and compiles them. During a run
threads of the sandboxee may reach the network through the proxy, whose server
thread the monitor owns. Under SAPI the sandboxee is a request loop: the host
allocates remote memory, copies variables, calls functions and reads back what
they return over one RPC channel, restarts the sandboxee when it dies, and a
`Transaction` repeats its work on a new one.

### What is hard

- Wait statuses are collected in batches and handled later, when the tracee may
  have moved on or have been killed out of its stop.
- Many places can set the one final status, and `SetExitStatusCode` CHECKs
  that none did before. Join() CHECKs that somebody did.
- Requests are stored by one thread and noticed by another that may be asleep.
- Threads of the sandboxee spawn and exit while the monitor attaches to them.
- Any process may die between two messages of the launch; whoever waits for
  it must see a hang-up, which needs every copy of the other end to be closed.
- Deadlines, a kill request and the sandboxee's own exit race.
- One channel is shared by threads in four places (fork-server, network proxy,
  RPC, Comms itself), and a message is several system calls.
- The order of builder calls, mounts over mounts and jumps over jumps decide what
  a policy means; remote memory moves while the host keeps its address.
- Every early return of a program must give back what was made before it.

`PROJECT.json` lists these hazards with the line where each bites and the
properties that would catch it going wrong.

## 2. Modules

The table of section 1 says which module models what. Proofs are in
`PtraceMonitorProofs`, `UnotifyMonitorProofs`, `LaunchProofs`, `ChannelsProofs`
(fork clients, network proxy, attaching to what the fork-server started),
`CommsProofs`, `SapiProofs`, `PolicyProofs` (the policy builder) and `MountProofs`
(mounts and shared libraries, both of `mounts.cc`). The `MC...` modules are where
the runs of TLC start. `MCSapi`, `MCBuilders` and `MCChannels` explore several
specifications side by side: they share no state, `part` says which one a
behaviour is about, and the variables of the others keep their initial values.

### SandboxRun

The abstract specification: a `result` that is unset, then set exactly once; a
`done` that follows it; a launching thread that returns from `RunAsync()` and
later from `AwaitResult()`, the latter only when `done`. Both monitors are shown
to implement it (`ImplementsSandboxRun`, an INSTANCE with the variables of the
same names and `Results`, `Unset` substituted).

### PtraceMonitor

`task[p]` is the kernel's record of a tracee: whether it runs, is stopped (and at
which event), is a zombie, was reaped; whether `waitpid()` has news of it
(`fresh`); whether a SIGKILL is on its way; the syscall it is in. `pc` is the
place of the monitor thread in `Run()`. `statuses`, `last_errno` are `PidWaiter`;
the other variables have the names of the fields and locals they stand for.

Actions, in the order of `Run()`: `SetupSignals`, `Attach`, `NotifySetupFailed`;
at the top of the loop `LeaveLoop`, `CheckDeadline`, `CheckDump`, `CheckKill`,
`CheckNetwork`; `StartWait`, `RefillMain`, `RefillAny`, `NothingWaiting` for
`PidWaiter::Wait` (a refill is two waits, as in the code: the main pid first,
then any other until none is left); `HandleExited`, `HandleSignaled`,
`HandleSignalStop`, `HandleNoEventMsg` and one `Event...` action for each event of
`StateProcessStopped`; `DrainStart` to `DrainStatus` for the last wait with its
200 ms; `OnDone`, `ThreadExit`. The host's actions are `RunAsync`, `AwaitResult`,
`Kill`, `DumpStackTrace`, `SetWallTimeLimit`, `DeadlinePasses`, `ProxyViolation`.
The kernel's are external: tracees stop, enter syscalls, fork, exit, die of
SIGKILL and are reaped by their parent.

A handler runs some time after its status was collected. It reads the task as it
is then: a tracee killed out of its stop answers ESRCH (`Escaped`), and the event
message it is asked for may belong to its exit stop.

`aborted` records that a CHECK failed. In the program nothing follows; in the
model other actions may, which only adds behaviours after a state in which
`ChecksHold` is already violated.

### PtraceAttach

`InitPtraceAttach()` reads `/proc/<pid>/task`, seizes every task on the list,
tries those that answered EPERM again, and then reads the list a second time:
it fails unless the list is exactly what it seized. In the model each task is one
step, interleaved with threads that spawn (born traced if their parent is), begin
to exit (EPERM) and vanish (ESRCH).

### UnotifyMonitor

`main`, `init` and `status_pipe` are the sandboxee, the init process and the
integers in the pipe between it and the monitor; `notify_pipe` the bytes in
`monitor_notify_pipe_`. A request is stored in one step and the byte written in
another, `NotifyMonitor`. `stale` is a history variable: something to act on
changed since the monitor last looked. `faults`, chosen at the start from
`FaultSets`, says what may go wrong: a notification cannot be received
(`notif_error`) or has been taken back (`notif_gone`), the status takes longer than
a second (`slow_exit`), registers cannot be fetched (`fetch_error`), the init
process is killed (`init_killed`).

### Launch

Four processes, three channels as sequences of message kinds, and the set of
processes that hold each end, so that a hang-up is seen exactly when nobody does.
`mode` chooses namespaces, kind of monitor, whether a program is executed (its
descriptor is part of the request) or a custom fork-server just forks, the number
of mapped descriptors and whether faults happen. Receiving a message of the wrong
kind is a state of its own, which `ChannelsInSync` excludes.

`Launch` ends in "monitoring", where the monitors' `Init` begins; the status pipe
that its init process holds is the one `UnotifyMonitor` reads. The set-up at the
head of each monitor's `Run()` is part of it, so that a failure there
(`setup_failed`: attaching, receiving the listener, making the wake-up pipe) meets a
sandboxee that waits or one that was let go.

### ForkClients, NetworkProxy, CommsChannel

`ForkClients`: threads of the host share fork-servers that may die at any moment,
through `GlobalForkClient` (started on demand, replaced when lost, shut down) or
through one `ForkClient`. `instanceMutex`, `commsMutex` are the sets of threads
past the two locks, so that a mutant without the lock is expressible; a request
is answered by two pids that carry the thread they belong to.

`NetworkProxy`: threads of the sandboxee in `Connect()`, the server thread in
`Run()`, the monitor that watches `violation_occurred_` and, in its destructor,
gives up the descriptors and joins the thread. The channel is two queues; a
receive fails when the other end is closed in every process.

`CommsChannel`: one direction of a stream socket with room for `SocketSpace`
units, written and read in pieces of any size by threads that hold the two TLV
mutexes; a receiver with a one-unit buffer models `RecvInt`.

### Builders

`BpfCode` has the instructions of a policy, the checks and the two passes over the
labels, the dispatcher `AddPolicyOnSyscalls` puts in front, and an interpreter
(`Run`) that serves as reference. `Paths` represents a path by the sequence of
its components split at every slash; the reference is `Walk`, the directory a
kernel would reach. `MountTree` is a function from paths to nodes with a domain
closed under prefixes; `view` is what the sandboxee finds after the mounts have
been made in the order of the tree, `HostMounts` what the host itself has mounted
below a directory: a bind mount takes that along (`MS_REC`), the remount that makes
it read-only does not reach it. `LibraryResolver` is the work list of
`AddMappingsForBinary` with its five limits over every graph of needed
libraries; the directories it searches are numbered in their order. `PolicyBuilder`
has one operator per method, from builders to
builders, and abstracts the rules to the decision on each call; `SandboxPolicies`
applies them as the shipped programs do. `HostFilter` does the arithmetic of
masks and prefixes at a small width, wrapping as the code does. Loops over a
sequence are recursive functions here and maps are put together with `Over` and
`Put` of `MountTree`, so that the prover can reason about them.

### SAPI

`SapiSandbox`: host threads, the RPC mutex, the library's request loop and the
monitor's limits and kills; a transaction with retries, or two threads one of
which may terminate the sandbox while the other is in a call, or both at once. A
library function may return, fail, never return, or crash. Between two runs the
limit of the transaction may be changed; `ToTimeT` rounds it down to seconds, and 0
is no limit. `SapiVars`: a `LenVal` (and `Proto`, which
wraps one) with its host copy, its remote structure and array; the library may
replace the array whatever the caller synchronises, any length may be 0, and a call
or a resize may fail after any of its steps. `damage` records a misuse of memory of
the sandboxee or the host; `departures` what the two copies have gone through before
(section 6), so that the property can say exactly after which failures a misuse is
possible. `SapiFd`: `v::Fd` with its
local and remote descriptor and who owns which.

### Programs

`ProgramLang` is a small vocabulary for straight-line code with early returns: a
statement names the library objects it uses, makes and frees, where control goes
when the request fails (`sapi`) and when the library reports an error (`bad`), and
which part of the program's goal it completes. The `Programs*` modules are the
texts, by subject; `LibraryPrograms` executes them with every outcome of every
call and a sandboxee that may be gone from any point on. A text marks the places
where the code departs from the properties (`careless`, `leaks`, `abandons`,
`unearned`), so that everything else in it is checked; section 6 lists them.

## 3. Runs

Passing runs:

| run | question | distinct states |
|---|---|---|
| `ptrace_two_processes` | Two processes that fork, make traced syscalls, exit and are killed from outside: is the queue of statuses in step with the kernel (`NoPanic`, `NoForgottenStop`), does every inspected syscall find its entry (`InspectionsMatch`), does a seccomp stop go on only by its own status (`EverySyscallExamined`)? | 822 000 |
| `ptrace_requests` | Kill, dump and network violation against every event of the main process with `ptrace()` failing: is the status set once (`ChecksHold`, `ImplementsSandboxRun`), is a violation real (`ViolationIsReal`), is OK only said of a program that was started (`OkOnlyIfMonitored`)? | 592 000 |
| `ptrace_liveness` | Do kill requests and deadlines end the run and does nothing survive it, while processes fork and all stack traces are logged (`RunEnds`)? | 132 000 |
| `ptrace_attach` | Three threads: does any escape (`NoThreadEscapes`), does attaching end (`AttachEnds`)? | |
| `unotify` | All requests against violations and exits with each of three sets of faults: is a wake-up lost (`NoLostWakeup`), does the result fit the death (`ResultFitsDeath`), does the run end with nothing left (`RunEnds`), and with the fault the monitor reports itself, is `SandboxRun` implemented? | 306 000 |
| `launch` | Every mode, without faults and with all of them: are the channels in step (`ChannelsInSync`), limits and monitor in place before the program (`RunsLimitedAndMonitored`), does `Launch` end, and succeed without faults (`LaunchEnds`), and clean up (`FailedLaunchCleansUp`)? | 13 700 |
| `channels` | Do pids, sockets and messages reach the thread they are for (`PidsAreOwn`, `SocketsAreOwn`, `MessagesArriveWhole`), and does every call return when the other side goes away (`ForkCallsReturn`, `ProxyCallsReturn`, `PeersAreLetGo`)? | 86 000 |
| `sapi` | Does a call get its own reply (`RepliesAreOwn`), do `Terminate()` and `Run()` return (`SandboxCallsReturn`), is a retried transaction initialised once per sandboxee (`InitOncePerSandboxee`), is remote memory used soundly (`RemoteMemoryIsSound`), are the right descriptors closed (`ClosesWhatItOwns`), do programs give back what they got (`ObjectsAreAccountedFor`) and report success only when they earned it (`SuccessIsEarned`)? | 482 000 |
| `builders` | Do the algorithms agree with their references: dispatched BPF code (`ShortListsAreExact`), paths (`PathsKeepPlace`), mounts (`MountsAreAsAsked`), libraries (`LibrariesAreComplete`), hosts (`HostsAsAsked`); do builder calls compose (`ComposesAsUnion`) and errors and settings survive to `Build()` (`BuildIsSound`); do the shipped policies permit what their programs do, does `ResolvePath` see the mounts as the sandboxee does, and can the policy for unwinding always be built (`ShippedPoliciesServe`)? | 456 000 |

Runs that show a disagreement between the code and what it says of itself:

| run | disagreement |
|---|---|
| `unotify_slow_exit` | a killed sandboxee whose status takes more than a second leaves no result, and the CHECK in `Join()` fails (`monitor_unotify.cc:218`, 318) |
| `policy_jumps` | with a list of syscalls longer than a short jump, the helper jump goes one instruction too far and the policy's first instruction is skipped (`policybuilder.cc:1109`, `policybuilder.h:572`) |
| `proxy_refused` | when the proxy server's `connect()` fails no answer is sent, and `Connect()` in the sandboxee waits for ever with its mutex held (`network_proxy/server.cc:78`, `client.h:36`) |

All runs have `CHECK_DEADLOCK FALSE`: a run of a sandbox, a program or a sequence
of calls ends, and then nothing more happens.

### Bounds, and why they are enough

- Ptrace: two tracees. The handlers treat a tracee alone, or tell the main process
  from another one; the queue and its two refills need one of each. With requests
  and ptrace errors one tracee is used, since the flags concern only the main
  process. Three threads in `PtraceAttach`: one seized, one that spawns, one
  spawned.
- Unotify: `MaxNotify = 2` bytes in the wake-up pipe: enough for a full pipe, at
  which a writer blocks (64 KiB in the system), and for bytes left over from
  earlier requests. Faults are combined in three sets, so that none that ends the
  run early hides another.
- Launch: `MaxFds = 2` mapped descriptors: none, one, and one followed by another.
- Channels: two threads at every shared channel, the least at which an answer can
  go astray; `MaxForkCalls = 2` and `MaxServers = 2` let a request follow a lost
  server; `SocketSpace = 2` units is less than a message, so that every write and
  read is cut. `MaxSends = 1` message of either length for each of two senders.
- SAPI: two threads; `RetryCount = 1` is one retry, `MaxSandboxees = 4` lets a
  transaction fail, be run again and restarted; `TimeLimits` has half a second and a
  minute (in half seconds), one that is rounded to no limit and one that is not;
  three blocks of memory hold the structure, the array and a moved array; lengths
  from 0 to 2 grow, shrink and vanish. `MaxDepartures = 1`: a variable is followed
  until a second kind of failure has happened to it; the theorem has no such bound.
- Builders: all policies of at most three of eight instructions with lists of up
  to five calls at `MaxShortJump = 3`, so that lists with and without helper jumps
  occur (255 in the code); all paths of up to four components over `"", ".", "..",
  a, b`; three calls on a mount tree over six inside paths and five sources, one of
  them a directory below which the host has mounted a writable file system and on
  that a read-only one; every
  assignment of nine dependency lists to the libraries, with limits close to the
  size of the graph; two builder calls before `Build()` (a conflict is between two
  calls); addresses of four bits, two hosts asked for.
- No symmetry is used. No counter is unbounded: a pid is used once, and the
  queue of statuses holds at most a stop and a death per tracee.

### Fairness

- The monitor thread runs (weak fairness): each of its sleeps has a timeout,
  `sigtimedwait` half a second, `poll` at most 30 s.
- The 200 ms of the last wait run out (`SF` on `DrainTimeout`): time goes on even
  if statuses keep coming.
- Threads that are notified or joined run; a writer to the wake-up pipe finishes.
- SIGKILL takes effect, and an exiting thread that nobody stops is gone in the end.
- In `Launch`, the channels and the SAPI layer every live process and thread
  runs; nobody has to die. Receivers of a `CommsChannel` have strong fairness: a
  waiter of an `absl::Mutex` gets it in the end, also when others come back for it.
- Tracees owe nothing: a sandboxee may run for ever, and a library function in
  state "hung" never has to return.

`AttachEnds` is conditional on the leader not exiting, which answers EPERM until
its last thread is gone; past the deadline nothing in the code ends the retries.

## 4. Proofs

TLAPS checks every step; the only assumptions are the named ASSUMEs on constants.

**Ptrace monitor** (`PtraceMonitorProofs`). `TypeCorrect`: `Spec => []TypeOK`. The
type invariant is strengthened by "a stopped tracee is stopped at an event"
(`KernelTask`), without which the status that `waitpid()` returns has no type.
`ChecksNeverFail`: `Spec => []ChecksHold` for any number of processes and all
requests and faults. `ChecksHold` is not inductive; `ResultPhase` says at which
places of `Run()` there is a status: none at the checks inside the loop, none
while waiting in the loop and one while waiting in the last wait (told apart by
`draining`), one in all that follows, `done` exactly at the end. Every call of
`SetExitStatusCode` is shown to come where there is none. `Implements`:
`Spec => ImplementsSandboxRun`, each step being one of `SandboxRun` or a
stutter, from both invariants. `AwaitReturnsFinal`: whatever implements `SandboxRun`
returns only final results from `AwaitResult()`; `MonitorResultsAreFinal` draws the
conclusion for this monitor.

**Statuses and syscalls** (`PtraceMonitorProofs`, second part; any number of
processes, all requests and faults). A handler runs when its status comes to the
head of the queue, and its tracee may have been killed since, so what has to be
known of a tracee depends on what of it is still queued:
- `QueueInv` (`QueueInvariant`): a queued status agrees with what the tracee has
  become since; behind a stop of a tracee comes at most its exit stop or its death.
- `SyscallsExamined`: `Spec => EverySyscallExamined`, an action property, from
  `QueueInv`: a tracee in a fresh seccomp stop has nothing else in the queue, so
  no handler but that of the stop itself can resume it.
- `EntryInv` (`EntryInvariant`): which entry of `syscalls_in_progress_` each tracee may
  have, given where it is and what is queued for it.
- `DeathInv` (`DeathInvariant`): once the main process is reaped its death is
  queued until it is the result.
- `OffenceInv` (`OffenceInvariant`): every violation that may be reported has
  happened.
- `NeverPanics`, `InspectionsAlwaysMatch`, `ViolationsAreReal` (`NoPanic`,
  `InspectionsMatch`, `ViolationIsReal`) follow from the last three, `NoStopForgotten`
  (`NoForgottenStop`) from `QueueInv` and the place of the loop.
- `OkOnlyAfterExecve`: `OkOnlyIfMonitored`, for policies that do not collect a
  stack trace on every exit. With one that does, `EventPtraceExit` reports OK without
  a look at `wait_for_execve_` (section 6), and the property is false; the proof
  attempt showed it, the run has that option off.

**Launch** (`LaunchProofs`). `ChannelsAgree` and `RunsMonitored` (`ChannelsInSync`,
`RunsLimitedAndMonitored`) for any number of mapped descriptors, in every mode,
whoever dies. What the host sends to the sandboxee is a script (`Script`) fixed by
the mode; `SentBy` and `ReceivedBy` say how far each end is at each step, and
`ToClientInv` that the socket holds the window of the script between them. A message
can then not be taken for another. `FromClientInv` and `RequestInv` are the same for
the other direction and for the fork-server; `StepsInv` says which steps of the two
ends go together.

**Attaching** (`ChannelsProofs`, last part). `AttachLeavesNoThread`: for any set of
threads all are traced when the sandboxee is told to go on. The invariant adds
that seized tasks are alive or ended (`AttachedKnown`: a thread id is not used
again) and traced as long as they live (`AttachedTraced`); equality of the second
list with the seized set then leaves nobody out, and later threads are born
traced.

**Unotify monitor** (`UnotifyMonitorProofs`). For any faults: `TypesHold`;
`WakeupsArrive`, for which the invariant adds that the loop runs with its pipe made
(`PipeInv`), since a request before that writes no byte; `ResultsFit`, for which it
adds that there is a code exactly when the sandboxee is dead (`DeathInv`). As long
as the only fault is a failure to receive a notification (`Expected`): `ChecksNeverFail`
and `Implements`, from `Phase`, which says at which places of `Run()` there is a
status and which of the two integers are in the pipe. With the other faults both
are false, as `unotify_slow_exit` shows.

**Fork-servers** (`ChannelsProofs`). `PidsGoToTheirRequests` and
`LostServersAreReplaced` for any number of threads, calls and servers. The invariant
says who holds which lock at which step, and where the request of the holder of
the channel may be (`ForkRequestOf`): unanswered, answered in part by a server that
died, or in full; a request that nobody waits for is left only in a terminated
channel (`LeftoverInv`), which is why the next one cannot read its answer.

**Network proxy** (`ChannelsProofs`). `SocketsGoToTheirThreads` and
`ViolationsAreNamed` for any threads and hosts, along the same lines: one request
is on its way, that of the holder of the client's mutex (`RequestOf`); the flag of a
violation is set after its message (`ViolationInv`).

**Comms** (`CommsProofs`). `MessagesAreWhole` (`MessagesArriveWhole`) for any number of
threads at both ends and any socket. The invariant (`StreamInv`): what the receiver in
the critical section has read, the socket, and what the sender in the critical
section has left to write are together the messages begun and not yet consumed, back
to back (`Framed`); or the sender is gone and a receiver has dropped what it had
read. Induction over data is out of reach, so `Framed` does not sum up lengths:
it asks for a function that gives the end of each message in the stream.

**SAPI** (`SapiProofs`). `RepliesGoToTheirCallers` (`RepliesAreOwn`) for any number of
threads: the one that waits holds `mutex_`, and only its request or its reply is on
the way (`ChannelInv`). `HookRunsOnce` (`InitOncePerSandboxee`) for any number of
retries: `TxnInv` ties `initialized_` to the sandboxee that was prepared.
`TerminateWaits`: who returns from `Terminate()` finds the sandboxee gone.
`RemoteMemory` (`RemoteMemoryIsSound`) for any memory and lengths and any number of
failures. `VarsInv` has three parts, each with the failures that end it: the host's
copies agree about address and length of the array, and with the remote structure
when a call begins (`LinkInv`, until the host loses sight of the array); structure and
array are two allocated blocks of the lengths that the copy in force says, the host's
or, until a call is synchronised, the remote one (`SafeInv`, until that or a resize
that fails half way or to nothing); and nothing else is allocated (`OwnInv`, until the
host loses sight of the array or resizes it before it was allocated). `DescriptorsAreClosed`
(`ClosesWhatItOwns`) for any descriptor numbers: until it is returned by a call, an
`Fd` knows all that is open for it in the sandboxee (`FdInv`).

**Policy builder** (`PolicyProofs`), for any lists of syscalls and any sequence of
method calls. `MethodsCompose` (`ComposesAsUnion`) is about two builders, the program's
and a new one on which only the last method was called; every lemma on a method is
about both (`Fine`), and `BuilderInv` is `Fine` of the program's builder and an untouched
one. It needs that a handled syscall is decided whatever its arguments
(`Permits`), since `AllowSyscall` skips it. `BuildingIsSound` (`BuildIsSound`): `Guarded`
says that ptrace has a rule for all its arguments only if it is handled, and that
the flag that turns off the default policy's rule on it was set by blocking it;
`Kept` that what needs namespaces has asked for them. The first form of `Guarded`, in
which the rule was only not ALLOW, was not inductive: a missing rule falls through
to the default action, which may be to allow all.

**Mounts** (`MountProofs`), for any paths and nodes, any sequence of calls and any order
of the entries in the walk. `MountsAsAsked` (`MountsAreAsAsked`) from `MountInv`: the tree
is closed under prefixes, nothing is below a file (`TreeOK`), the walk has only
paths of the tree before it, and what it shows of the host is writable only by a
mount of that file, or of a directory above it, asked for as writable, or on what the
host has mounted in between (`Asked`). `Insert` makes entries on its way before it
knows whether it will refuse; it refuses at a file, at a node in place or at an
entry with something below, and in each case the closure says that the entries
it passed were there (`WalkedSame`), so that the tree is as it was.

**Shared libraries** (`MountProofs`), for any graph of dependencies, cycles included, and
any limits. `LibrariesAreFound` (`LibrariesAreComplete`) from `LibInv`: what a file that was
found needs is found or on the stack (`Pending`); what is found or on the stack is in
every set that has all the binary and its own members need (`Wanted`); each entry of
a file found was resolved or is on the stack, once (`Accounted`), and is no deeper
than the number of libraries found (`Shallow`). With an empty stack the first two
make the result the least closed set; the other two bound the counters by the
graph, so that a walk within the limits fails only for a file that cannot be parsed.

Two of the assumptions are more than types. `MountAssumption`: `CleanPath` of an inside
path has names for components and is the root if it has none. It holds for every
path, but by an induction over the path that the prover cannot do, so TLC
evaluates it on the paths of the run. `LibAssumption`: the names are finitely many, the
limits are numbers, and the empty path, which stands for the binary, is no file.

The inductive invariants were checked by TLC on the instances of the runs before
they were proved.

Only model-checked:
- all liveness (`RunEnds`, `AttachEnds`, `LaunchEnds`, `SandboxCallsReturn`,
  `ProxyCallsReturn`, `ForkCallsReturn`, `PeersAreLetGo`), `FailedLaunchCleansUp` among
  it: it needs fairness and ENABLED, which this prover does not handle;
- what recursive definitions and bit operations compute over data, which would take
  an induction over data or the module `Bitwise`: `ShortListsAreExact`,
  `PathsKeepPlace`, `HostsAsAsked`;
- statements about tables of finitely many programs, which TLC goes through
  exhaustively: `ShippedPoliciesServe`, `ObjectsAreAccountedFor`, `SuccessIsEarned`.

## 5. Abstractions

- Syscalls are classes (execveat, fork, other) in the monitors, and name with
  inspected arguments in `PolicyBuilder`; in the monitors the policy's verdict is an
  event of the sandboxee. Exit codes and signals are "exited", "SIGSYS", "killed".
- Time is a deadline that is disarmed, armed or passed. That a deadline exactly
  now is taken as none and polls for 30 s (`monitor_unotify.cc:176`) is below this
  grain.
- Threads of one process are told apart only in `PtraceAttach`; `PtraceMonitor`
  takes attaching as one step that succeeds or fails.
- In `UnotifyMonitor` one thread at a time makes a request; the monitors assume
  the launch handshake of `Launch` has been done.
- The SIGCHLD of a network violation goes to the thread that launched the monitor
  (`network_proxy/server.cc:117`): the violation is a flag that is noticed at the
  next timeout.
- Stack traces are modelled by what they do to the control: they may fail, and a
  failure may be a final status.
- `CommsChannel` moves units of four bytes; descriptors, which travel in a
  `sendmsg()` of their own, are left out.
- What a library computes is left out: a call succeeds, fails, or the sandboxee is
  lost. A loop over data in a program ends whenever the data may let it.

## 6. Departures met while modelling

Places where the code does something else than its comments, names or callers
suggest. The models have the behaviour of the code; properties exclude these
places by name, so that they say something about the rest.

Monitors and launch:

- `RunAsync()` can return true for a set-up that failed: the cleanups notify the
  launching thread before `OnDone()` (`monitor_ptrace.cc:270`, `sandbox2.h:60`).
- When the unotify monitor fails to set itself up after it has received the listener
  (`monitor_unotify.cc:267`, 278), the launch has cancelled its cleanup
  (`monitor_base.cc:238`) and `Run()` returns at 132 or 136, before anything is killed:
  sandboxee and init process, let go already, outlive the run. `FailedLaunchCleansUp`
  leaves out exactly this (`LetGoUnmonitored`).
- `EventFinished` is called while a child of the main process may be alive
  (`monitor_ptrace.cc:265`, `notify.h:50`).
- A task that is just exiting is not tried again up to the deadline: the
  comparison is the wrong way round (`monitor_ptrace.cc:566`, comment at 542).
- A kill request that meets a main process whose exit is collected but not handled
  is reported as FAILED_KILL. With stack traces on exit OK is set before
  `HandleExited` looks at `wait_for_execve_`.
- After a notification that was taken back the unotify monitor does not wait for the
  status of a killed sandboxee (`monitor_unotify.cc:202`; the CHECK at 318 fails).
  Fetching registers sets one status on the way to setting another. A stack dump
  request wakes it and is never looked at.
- `NotifyViolation` signals the thread that launched the monitor, not the monitor.
- `EnsureStartedLocked` releases the value of a failed `StatusOr`;
  `StartGlobalForkServer` leaves its socket pair open when `mmap` or `clone` fail.
- Comms: `RecvTLV` with a short buffer leaves the value in the stream; `RecvFD` does
  not advance past a control message of odd length; `SendFD` and `RecvFD` are
  outside the mutexes; `Terminate()` closes a descriptor another thread may read.

Policies and mounts:

- The second element of `kMmapSyscalls` is 0, which is read(2) (`policybuilder.cc:73`).
- An empty list of syscalls makes a policy run on every call. A custom ALLOW rule
  on ptrace outlives `BlockSyscallWithErrno(ptrace)`. `AllowSyscall(bpf)` has no
  effect. Overridable rules are out of reach behind `DefaultAction(AllowAll)`.
- `DangerAllowMountPropagation` is dropped when namespaces are disabled.
- What the host has mounted below a directory keeps its access in the sandboxee
  also when the directory is mounted read-only: the bind mount is recursive, the
  remount is not (`mounts.cc:586`, 617). `MountsAreAsAsked` says so of no other file.
- A missing mount source is skipped with a warning; under a tmpfs its placeholder
  is writable. `Remove` leaves an empty entry, at which `AddFile` is refused.
  `ResolvePath` does not see what a mounted directory has below an entry of the
  tree.
- `AllowIPv4/6` truncate the port: 65536 is 0, every port.
- The paths that two programs hand over are not mounted: `dirname(3)` has changed
  its argument (`SandboxPolicies`, `Departing`).

SAPI:

- `initialized_` stays set when the sandboxee dies between two runs. `~TransactionBase`
  calls the base class's `Finish()`. `fork_client_` is kept for ever (`sandbox.cc:136`).
- A call that returns a `v::Fd` stores the number of the sandboxee, which `~Fd()`
  closes in the host (`var_int.cc:79`).
- A transaction whose limit is 0 has none ("0 means: no wall-time limit",
  `transaction.h:117`), and `SetTimeLimit(absl::Duration)` makes 0 of every limit
  below a second (`transaction.h:66`). `Run()` then waits for a library function for as
  long as it takes: `src/contrib/jsonnet/jsonnet_base_transaction.h:31` asks for that.
  `absl::InfiniteDuration()` becomes a limit that never passes and comes to the
  same. `SandboxCallsReturn` leaves out a transaction without a limit while a function of
  the library hangs.
- Two threads in `Terminate()` may both find `s2_awaited_` unset and assign `result_`
  (`sandbox.cc:434`); that the two assignments of the same result may overlap is not
  modelled.
- The host learns only from a synchronised call that the library has moved the array
  of a `LenVal`, and a `Proto` is serialised again after every call whatever it
  synchronises (`client.cc:118`). After a call without synchronisation, or one that
  fails later (another argument, or the local buffer at `var_lenval.cc:54`, before
  `SetRemote` at 57), `array_` has the address of a freed block, which the next
  transfer writes to and `Free` or the destructor frees again ("unread").
- `EnsureOwnedLocalBuffer(0)` on an owned buffer: `realloc(arr_, 0)` frees it and
  returns null, which is reported as an error with `arr_` unchanged; the destructor
  frees it again (`var_array.h:112`; "empty").
- A failed remote `realloc`, or one to length 0, leaves the local buffer longer than the
  remote one, or the remote address dangling (`var_array.h:87`; "resize");
  `ResizeData` before the first allocation leaks a block ("early").

Programs (the marks in the `Programs*` modules):

- Left behind on some path: contexts in zstd's stream functions (one of which
  frees a compression context as a decompression one), a source in `LibZip::AddFile`,
  a `FILE` in `zip_source_filefd`, the entry at the end of an archive in minitar,
  `blosc_destroy`, the structures of libpng, the dataset of the gdal program, the
  output of zopfli, descriptors of temporary files, memory in the libuv examples.
- Used untested: `zipsource_` in `LibZip`'s destructor and `Save`, hunspell's handle,
  jsonnet's machine and input, openjpeg's stream and codec, `malloc` in stringop.
- Success without the work: minitar, the zip program after an earlier failure,
  uriparser's base, libtiff's status at 198, lodepng's clean-up, the network program
  without its descriptor, `hello_transacted`, zlib's deflate, `static_bin`, crc4;
  zstd's stream functions, which take a failed read for the end of the file
  (`utils_zstd.cc:131`, 204) and do not notice that a frame is cut short (nor does
  `ZSTD_decompressStream_fd`); hunspell, for which a failed read is the last word.

## 7. Not modelled, and why

- Unwinding, ELF parsing, `maps_parser`, registers: they read another process's memory and
  have no state of their own. That a stack trace is taken, and can fail, is modelled.
- The mount(2), clone(2) and id-map writes of `namespace.cc`, `sanitizer.cc`,
  `fileops`, `temp_file`: each is one system call and its error.
- The seccomp trap handler of the network proxy client: a signal handler around the
  `Connect()` that is modelled. Passing of descriptors and credentials in Comms,
  `Listen` and `Accept`.
- `LogServer` and `LogSink`: a thread that copies messages until its channel ends,
  which `PeersAreLetGo` covers. `EmbedFile`: a map behind a mutex. `Buffer`: a
  mapping with no protocol.
- Syscall tables, the disassembler, formatting, the code generators (text at build
  time), wrappers of a line or two around a library function, and tests.
