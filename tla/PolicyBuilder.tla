--------------------------- MODULE PolicyBuilder ---------------------------
(***************************************************************************)
(* PolicyBuilder (policybuilder.cc, policybuilder.h), the Policy it builds *)
(* (policy.cc) and the policy of the stack trace sandbox (stack_trace.cc), *)
(* as compiled for x86-64 without sanitizers.                              *)
(*                                                                         *)
(* A system call is its name and the arguments some filter looks at, named *)
(* for the constants they are compared with.  The instructions of a user   *)
(* policy are abstracted to the decision they take on every call, the      *)
(* first one that decides; BpfCode is about the instructions themselves.   *)
(* Every method of the class is an operator from builders to builders.     *)
(***************************************************************************)
EXTENDS MountTree

CONSTANTS
    Listed,            \* lists of names passed to AllowSyscalls and Block...
    CustomRules,       \* policies passed to AddPolicyOnSyscall: calls, action, extra length
    AddedPaths,        \* outside and inside paths of the mounts asked for
    SelfNames,         \* names in /proc that start with "self"
    LibraryLists,      \* the files AddMappingsForBinary may find
    MaxUserPolicyLength, \* kMaxUserPolicyLength, counted in rules
    MaxBuilderCalls    \* bound: calls on one builder, TryBuild not counted
-----------------------------------------------------------------------------
(* System calls.                                                           *)

Prots == {"NONE", "R", "RW", "RX", "other"}
\* MAP_ANONYMOUS, PRIVATE, FIXED, NORESERVE, DENYWRITE by their initials.
MapFlags == {"AP", "APN", "APF", "APFN", "P", "PD", "PFD", "other"}

On(nr, args) == {<<nr, a>> : a \in args}
On2(nr, args) == {<<nr, a[1], a[2]>> : a \in args}

FcntlSafe == {"GETFD", "SETFD", "GETFL", "SETFL", "GETLK", "SETLK", "SETLKW", "DUPFD",
              "DUPFD_CLOEXEC"}
LimitedMadvise == {"DONTNEED", "REMOVE", "HUGEPAGE", "NOHUGEPAGE"}

\* The calls some filter tells apart.  On this machine read(2) is number 0,
\* the second element of kMmapSyscalls, and is tested as mmap is.
InspectedCalls ==
    UNION {
        On2("mmap", Prots \X MapFlags), On2("read", Prots \X MapFlags),
        On2("read", {"stdin", "comms"} \X {"other"}),
        On("write", {"stdout", "stderr", "comms", "other"}), On("close", {"comms", "other"}),
        On("exit_group", {"0", "other"}),
        On("mprotect", Prots), On("mremap", {"MAYMOVE", "other"}),
        On("madvise", LimitedMadvise \cup {"WIPEONFORK", "-1", "other"}),
        On("futex", {"WAIT", "WAKE", "WAIT_BITSET", "REQUEUE", "other"}),
        On("fcntl", FcntlSafe \cup {"other"}), On("ioctl", {"TCGETS", "FS_IOC_GETFLAGS", "other"}),
        On("getrandom", {"0", "NONBLOCK", "other"}), On("prctl", {"SET_NAME", "other"}),
        On("arch_prctl", {"SET_FS", "other"}),
        On("rt_sigprocmask", {"BLOCK", "UNBLOCK", "SETMASK", "other"}),
        On("rt_sigaction", {"SIGRTMIN", "SIGRTMIN+1", "SIGSYS", "other"}),
        On2("kill", {"0", "other"} \X {"ABRT", "other"}),
        On("socket", {"INET", "INET6", "other"}),
        On2("getsockopt", {"SOCKET", "other"} \X {"TYPE", "other"}),
        On("clone", {"UNTRACED", "other"}),
        On2("seccomp", {"NEW_LISTENER", "other"} \X {"magic", "other"}),
        On2("execveat", {"EMPTY_PATH", "other"} \X {"magic", "other"})}

PlainNames ==
    {"epoll_wait", "epoll_pwait", "epoll_pwait2", "epoll_create", "epoll_create1",
     "epoll_ctl", "inotify_init", "inotify_init1", "select", "pselect6", "exit",
     "munmap", "nanosleep", "brk", "mincore", "membarrier", "creat", "open",
     "openat", "fstat", "fstatfs", "lstat", "newfstatat", "stat", "statfs", "access",
     "faccessat", "faccessat2", "dup", "dup2", "dup3", "pipe", "pipe2", "chmod", "fchmod",
     "fchmodat", "chown", "lchown", "fchown", "fchownat", "readv", "preadv", "pread64",
     "writev", "pwritev", "pwrite64", "getdents", "getdents64", "readlink",
     "readlinkat", "link", "linkat", "symlink", "symlinkat", "mkdir", "mkdirat", "utime",
     "utimes", "utimensat", "fork", "vfork", "wait4", "alarm", "setitimer",
     "rt_sigreturn", "sigaltstack", "time", "gettimeofday", "clock_gettime",
     "clock_nanosleep", "getuid", "geteuid", "getresuid", "getgid", "getegid",
     "getresgid", "getgroups", "rseq", "getcpu", "sched_getaffinity",
     "sched_setaffinity", "getpid", "getppid", "gettid", "getpgid", "getpgrp",
     "getrlimit", "setrlimit", "prlimit64", "rmdir", "unlink", "unlinkat", "poll",
     "ppoll", "rename", "renameat", "renameat2", "eventfd", "eventfd2", "uname",
     "set_tid_address", "set_robust_list", "lseek", "recvmsg", "connect", "ptrace", "bpf",
     "sendmsg", "sendto", "sendmmsg", "recvfrom", "accept", "bind", "listen", "getpeername",
     "getsockname", "setsockopt", "tgkill", "tkill", "sysinfo", "ftruncate", "umask",
     "flistxattr", "getrusage", "tee"}

Calls == InspectedCalls \cup {<<nr>> : nr \in PlainNames}

\* A rule names calls with their arguments, or <<nr>> for every call of that name.
CallsOf(nrs) == {<<nr>> : nr \in nrs}
Decision(user, c) ==
    CASE c \in DOMAIN user -> user[c]
      [] c \notin DOMAIN user /\ <<c[1]>> \in DOMAIN user -> user[<<c[1]>>]
      [] OTHER -> "none"
-----------------------------------------------------------------------------
(* The builder.                                                            *)

NoHosts == {"no proxy"}

NewBuilder ==
    [user |-> <<>>, overridable |-> {}, allowAll |-> FALSE, handled |-> {}, length |-> 0,
     handlesBpf |-> FALSE, handlesPtrace |-> FALSE, mounts |-> NewTree, useNs |-> TRUE,
     requiresNs |-> FALSE, net |-> FALSE, propagation |-> FALSE, hostname |-> "sandbox2",
     collect |-> {"violation", "signal", "timeout"}, hosts |-> NoHosts, ok |-> TRUE,
     built |-> FALSE, dead |-> FALSE]

\* The first rule that decides on a call is the one that counts.  A program that
\* has died makes no more calls.
Rule(b, calls, action) ==
    IF b.dead THEN b
    ELSE LET open == {c \in calls : <<c[1]>> \notin DOMAIN b.user}
         IN [b EXCEPT !.user = Over(@, [c \in open |-> action]), !.length = @ + 1]

SetError(b) == [b EXCEPT !.ok = FALSE]

\* A CHECK that fails ends the program.
Dead(b) == [b EXCEPT !.dead = TRUE]

EnableNamespaces(b) == IF b.useNs THEN [b EXCEPT !.requiresNs = TRUE] ELSE Dead(b)
DisableNamespaces(b) == IF b.requiresNs THEN Dead(b) ELSE [b EXCEPT !.useNs = FALSE]

AllowSyscalls(b, nrs) ==
    IF b.dead THEN b
    ELSE LET new == nrs \ b.handled
         IN [Rule(b, CallsOf(new), "ALLOW") EXCEPT
               !.handled = @ \cup nrs, !.length = b.length + Cardinality(new)]

\* Mutant: the flags are set for a call that is handled already.
HandlesNowAlways(nr, new, nrs) == nr \in nrs

HandlesNow(nr, new, nrs) == nr \in new

BlockSyscallsWithErrno(b, nrs) ==
    IF b.dead THEN b
    ELSE LET new == nrs \ b.handled
         IN [Rule(b, CallsOf(new), "ERRNO") EXCEPT
               !.handled = @ \cup nrs, !.length = b.length + Cardinality(new),
               !.handlesBpf = @ \/ HandlesNow("bpf", new, nrs),
               !.handlesPtrace = @ \/ HandlesNow("ptrace", new, nrs)]

OverridableBlockSyscallWithErrno(b, nr) == [b EXCEPT !.overridable = @ \cup {nr}]

\* A policy that takes the action on these calls and decides nothing on others.
AddPolicyOnSyscalls(b, calls, action) == Rule(b, calls, action)
AddPolicyOnSyscall(b, nr, args) == AddPolicyOnSyscalls(b, On(nr, args), "ALLOW")

\* std::array<uint32_t, 2> with one initialiser: the other number is 0.
kMmapSyscalls == {"mmap", "read"}
AddPolicyOnMmap(b, args) ==
    AddPolicyOnSyscalls(b, UNION {On2(nr, args) : nr \in kMmapSyscalls}, "ALLOW")
-----------------------------------------------------------------------------
(* The methods that allow groups of calls.                                 *)

AllowEpollWait(b) == AllowSyscalls(b, {"epoll_wait", "epoll_pwait", "epoll_pwait2"})
AllowEpoll(b) ==
    AllowEpollWait(AllowSyscalls(b, {"epoll_create", "epoll_create1", "epoll_ctl"}))
AllowInotifyInit(b) == AllowSyscalls(b, {"inotify_init", "inotify_init1"})
AllowSelect(b) == AllowSyscalls(b, {"select", "pselect6"})
AllowExit(b) == AllowSyscalls(b, {"exit", "exit_group"})
AllowMmap(b) == AllowSyscalls(b, kMmapSyscalls)
AllowOpen(b) == AllowSyscalls(b, {"creat", "open", "openat"})
AllowStat(b) ==
    AllowSyscalls(b, {"fstat", "fstatfs", "lstat", "newfstatat", "stat", "statfs"})
AllowAccess(b) == AllowSyscalls(b, {"access", "faccessat", "faccessat2"})
AllowDup(b) == AllowSyscalls(b, {"dup", "dup2", "dup3"})
AllowPipe(b) == AllowSyscalls(b, {"pipe", "pipe2"})
AllowChmod(b) == AllowSyscalls(b, {"chmod", "fchmod", "fchmodat"})
AllowChown(b) == AllowSyscalls(b, {"chown", "lchown", "fchown", "fchownat"})
AllowRead(b) == AllowSyscalls(b, {"read", "readv", "preadv", "pread64"})
AllowWrite(b) == AllowSyscalls(b, {"write", "writev", "pwritev", "pwrite64"})
AllowReaddir(b) == AllowSyscalls(b, {"getdents", "getdents64"})
AllowReadlink(b) == AllowSyscalls(b, {"readlink", "readlinkat"})
AllowLink(b) == AllowSyscalls(b, {"link", "linkat"})
AllowSymlink(b) == AllowSyscalls(b, {"symlink", "symlinkat"})
AllowMkdir(b) == AllowSyscalls(b, {"mkdir", "mkdirat"})
AllowUtime(b) == AllowSyscalls(b, {"utime", "utimes", "utimensat"})
AllowSafeFcntl(b) == AddPolicyOnSyscall(b, "fcntl", FcntlSafe)
AllowFork(b) == AllowSyscalls(b, {"fork", "vfork", "clone"})
AllowWait(b) == AllowSyscalls(b, {"wait4"})
AllowAlarm(b) == AllowSyscalls(b, {"alarm", "setitimer"})
AllowHandleSignals(b) ==
    AllowSyscalls(b, {"rt_sigaction", "rt_sigreturn", "rt_sigprocmask", "sigaltstack"})
AllowTCGETS(b) == AddPolicyOnSyscall(b, "ioctl", {"TCGETS"})
AllowTime(b) == AllowSyscalls(b, {"time", "gettimeofday", "clock_gettime"})
AllowSleep(b) == AllowSyscalls(b, {"clock_nanosleep", "nanosleep"})
AllowGetIDs(b) ==
    AllowSyscalls(b, {"getuid", "geteuid", "getresuid", "getgid", "getegid", "getresgid",
                      "getgroups"})
AllowGetPIDs(b) == AllowSyscalls(b, {"getpid", "getppid", "gettid"})
AllowGetPGIDs(b) == AllowSyscalls(b, {"getpgid", "getpgrp"})
AllowGetRlimit(b) == AllowSyscalls(b, {"getrlimit"})
AllowSetRlimit(b) == AllowSyscalls(b, {"setrlimit"})
AllowGetRandom(b) == AddPolicyOnSyscall(b, "getrandom", {"0", "NONBLOCK"})
AllowWipeOnFork(b) == AddPolicyOnSyscall(b, "madvise", {"WIPEONFORK", "-1"})
AllowUnlink(b) == AllowSyscalls(b, {"rmdir", "unlink", "unlinkat"})
AllowPoll(b) == AllowSyscalls(b, {"poll", "ppoll"})
AllowRename(b) == AllowSyscalls(b, {"rename", "renameat", "renameat2"})
AllowEventFd(b) == AllowSyscalls(b, {"eventfd", "eventfd2"})
AllowPrctlSetName(b) == AddPolicyOnSyscall(b, "prctl", {"SET_NAME"})

\* Mutant: the policy on futex also decides on the operations it does not name.
AllowFutexOpOnly(b, op) ==
    AddPolicyOnSyscalls(AddPolicyOnSyscall(b, "futex", {op}), CallsOf({"futex"}), "KILL")

AllowFutexOp(b, op) == AddPolicyOnSyscall(b, "futex", {op})
AllowLimitedMadvise(b) == AddPolicyOnSyscall(b, "madvise", LimitedMadvise)
AllowLlvmSanitizers(b) == b

SlowFences(b, slowFences) ==
    IF slowFences THEN AllowSyscalls(b, {"sched_getaffinity", "sched_setaffinity"}) ELSE b

AllowRestartableSequences(b, slowFences) ==
    SlowFences(AddPolicyOnSyscall(AllowFutexOp(AllowFutexOp(AllowSyscalls(
        AddPolicyOnMmap(AllowSyscalls(b, {"rseq"}), {<<"RW", "AP">>}),
        {"getcpu", "membarrier"}), "WAIT"), "WAKE"), "rt_sigprocmask", {"SETMASK"}), slowFences)

AllowScudoMalloc(b) ==
    AddPolicyOnMmap(
        AllowWipeOnFork(AllowGetRandom(AllowLimitedMadvise(AllowFutexOp(AllowSyscalls(
            AllowTime(b), {"munmap", "nanosleep"}), "WAKE")))),
        ({"RW"} \X {"AP", "APN", "APF", "APFN"}) \cup {<<"NONE", "APN">>})

AllowTcMalloc(b) ==
    AddPolicyOnMmap(
        AddPolicyOnSyscall(AllowLimitedMadvise(AllowSyscalls(
            AllowRestartableSequences(AllowTime(b), FALSE),
            {"munmap", "nanosleep", "brk", "mincore", "membarrier"})), "mprotect", {"RW", "NONE"}),
        {<<"RW", "AP">>, <<"NONE", "APN">>, <<"NONE", "AP">>})

\* The branch for PROT_READ | PROT_WRITE runs into the one for PROT_NONE.
AllowSystemMalloc(b) ==
    AddPolicyOnMmap(
        AddPolicyOnSyscall(AllowFutexOp(AllowSyscalls(b, {"munmap", "brk"}), "WAKE"),
                           "mremap", {"MAYMOVE"}),
        {<<"RW", "AP">>, <<"RW", "APN">>, <<"NONE", "APN">>})

AllowLogForwarding(b) ==
    AddPolicyOnSyscalls(
        AllowSyscalls(AddPolicyOnSyscall(AllowSyscalls(
            AllowGetPIDs(AllowTcMalloc(AllowSystemMalloc(AllowWrite(b)))),
            {"clock_gettime", "gettid", "close"}), "rt_sigprocmask", {"BLOCK"}), {"prlimit64"}),
        On2("kill", {<<"0", "ABRT">>}), "ALLOW")

AllowStaticStartup(b) ==
    AddPolicyOnSyscall(OverridableBlockSyscallWithErrno(AddPolicyOnSyscall(AllowSyscalls(
        AddPolicyOnSyscall(AllowFutexOp(AllowSyscalls(AllowGetRlimit(b),
            {"uname", "brk", "set_tid_address", "set_robust_list"}), "WAIT_BITSET"),
            "rt_sigaction", {"SIGRTMIN", "SIGRTMIN+1"}),
        {"rt_sigprocmask"}), "arch_prctl", {"SET_FS"}), "readlink"), "mprotect", {"R"})

\* Mutant: the loader may open libraries.
AllowDynamicStartupOpens(b) == AllowStaticStartup(AllowOpen(AllowRead(b)))

AllowDynamicStartup(b) ==
    AddPolicyOnMmap(
        AllowStaticStartup(AddPolicyOnSyscall(AllowSyscalls(AllowStat(AllowRead(b)),
            {"lseek", "close", "munmap"}), "mprotect", {"R", "NONE", "RW", "RX"})),
        {<<"R", "P">>, <<"RW", "PFD">>, <<"RW", "APF">>, <<"RW", "AP">>, <<"RX", "PD">>})
-----------------------------------------------------------------------------
(* Mounts and namespaces.                                                  *)

ValidatePath(path) == CleanPath(path) = path
ValidateAbsolutePath(path) == IsAbsolutePath(path) /\ ValidatePath(path)
InProcSelf(path) == Len(path) >= 3 /\ path[2] = "proc" /\ path[3] \in SelfNames
IsOnReadOnlyDev(path) == path \in ReadOnlyDevs

Placed(b, result) == IF result.ok THEN [b EXCEPT !.mounts = result.tree]
                     ELSE SetError([b EXCEPT !.mounts = result.tree])

ValidSource(outside, isRo) ==
    ValidateAbsolutePath(outside) /\ (isRo \/ ~IsOnReadOnlyDev(outside))

AddFileAt(b, outside, inside, isRo) ==
    IF b.dead THEN b
    ELSE IF /\ ValidSource(outside, isRo)
            /\ InProcSelf(outside) => outside = <<"", "proc", "self", "cpuset">>
         THEN Placed(EnableNamespaces(b), MountsAddFileAt(b.mounts, outside, inside, isRo))
         ELSE SetError(EnableNamespaces(b))

AddDirectoryAt(b, outside, inside, isRo) ==
    IF b.dead THEN b
    ELSE IF ValidSource(outside, isRo) /\ ~InProcSelf(outside)
         THEN Placed(EnableNamespaces(b), MountsAddDirectoryAt(b.mounts, outside, inside, isRo))
         ELSE SetError(EnableNamespaces(b))

AddFile(b, path) == AddFileAt(b, path, path, TRUE)
AddDirectory(b, path) == AddDirectoryAt(b, path, path, TRUE)

AddTmpfs(b, inside) ==
    IF b.dead THEN b ELSE Placed(EnableNamespaces(b), MountsAddTmpfs(b.mounts, inside))

\* AddMappingsForBinary either fails or adds the files it finds (LibraryResolver).
AddLibrariesForBinary(b, path, found, files) ==
    LET mapped[n \in 0 .. Len(files)] ==
            IF n = 0 THEN [ok |-> TRUE, tree |-> b.mounts]
            ELSE IF mapped[n - 1].ok
                 THEN MountsAddFileAt(mapped[n - 1].tree, files[n], files[n], TRUE)
                 ELSE mapped[n - 1]
    IN IF b.dead THEN b
       ELSE IF ValidatePath(path) /\ found
            THEN Placed(EnableNamespaces(b), mapped[Len(files)])
            ELSE SetError(EnableNamespaces(b))

SetRootWritable(b) ==
    [EnableNamespaces(b) EXCEPT !.mounts = MountsSetRootWritable(@)]

AllowRestartableSequencesWithProcFiles(b, slowFences) ==
    LET files == AddFile(AddFile(AllowRestartableSequences(b, slowFences),
                                 <<"", "proc", "cpuinfo">>), <<"", "proc", "stat">>)
        cpus == AddDirectory(files, <<"", "sys", "devices", "system", "cpu">>)
    IN IF slowFences THEN AddFile(cpus, <<"", "proc", "self", "cpuset">>) ELSE cpus

AllowUnrestrictedNetworking(b) == [EnableNamespaces(b) EXCEPT !.net = TRUE]
SetHostname(b, name) == [EnableNamespaces(b) EXCEPT !.hostname = name]
DangerAllowMountPropagation(b) == [b EXCEPT !.propagation = TRUE]
DangerDefaultAllowAll(b) == [b EXCEPT !.allowAll = TRUE]
CollectStacktraces(b, when, enable) ==
    [b EXCEPT !.collect = IF enable THEN @ \cup {when} ELSE @ \ {when}]
-----------------------------------------------------------------------------
(* The network proxy.                                                      *)

AddNetworkProxyPolicy(b) ==
    IF b.hosts # NoHosts THEN SetError(b)
    ELSE AddPolicyOnSyscalls(
             AddPolicyOnSyscall(AllowSyscalls(AllowDup(AllowFutexOp(AllowFutexOp(AllowFutexOp(
                 [b EXCEPT !.hosts = {}], "WAKE"), "WAIT"), "WAIT_BITSET")),
                 {"recvmsg", "close", "gettid"}), "socket", {"INET", "INET6"}),
             On2("getsockopt", {<<"SOCKET", "TYPE">>}), "ALLOW")

AddNetworkProxyHandlerPolicy(b) ==
    AddPolicyOnSyscalls(
        AddPolicyOnSyscall(AddPolicyOnSyscall(AllowSyscalls(AddNetworkProxyPolicy(b),
            {"rt_sigreturn"}), "rt_sigaction", {"SIGSYS"}), "rt_sigprocmask", {"UNBLOCK"}),
        CallsOf({"connect"}), "TRAP")

\* AllowIPv4 and AllowIPv6; AllowedHosts says whether the address can be read.
AllowIP(b, host, readable) ==
    IF b.hosts = NoHosts \/ ~readable THEN SetError(b)
    ELSE [b EXCEPT !.hosts = @ \cup {host}]

\* Private: only the policy of the stack trace sandbox traps ptrace.
TrapPtrace(b) ==
    [AddPolicyOnSyscalls(b, CallsOf({"ptrace"}), "TRAP") EXCEPT !.handlesPtrace = TRUE]
-----------------------------------------------------------------------------
(* TryBuild and the filter of the policy it returns.                       *)

NoPolicy == [none |-> TRUE]

BuildRefused(b) ==
    \/ b.length > MaxUserPolicyLength \/ ~b.ok \/ b.built
    \/ b.useNs /\ b.net /\ b.hostname # "sandbox2"

Built(b) ==
    [user |-> b.user, allowAll |-> b.allowAll, overridable |-> b.overridable,
     handlesBpf |-> b.handlesBpf, handlesPtrace |-> b.handlesPtrace,
     ns |-> b.useNs, mounts |-> IF b.useNs THEN b.mounts ELSE NewTree, hosts |-> b.hosts,
     net |-> b.net, collect |-> b.collect, described |-> b.handled]

\* What has been moved into the policy is no longer in the builder.
AfterBuild(b) ==
    [b EXCEPT !.user = <<>>, !.mounts = IF b.useNs THEN NewTree ELSE @, !.built = TRUE]

\* GetDefaultPolicy: its decision, or "none".
DefaultDecision(p, notif, arch, c) ==
    LET starts == notif /\ c[1] = "seccomp" /\ c[3] = "magic"
    IN IF arch # "host" THEN IF notif THEN "KILL" ELSE "TRACE"
       ELSE CASE starts -> "ALLOW"
              [] c = <<"execveat", "EMPTY_PATH", "magic">> ->
                    IF notif THEN "ALLOW" ELSE "TRACE"
              [] c = <<"ptrace">> /\ ~p.handlesPtrace -> "KILL"
              [] c = <<"bpf">> /\ ~p.handlesBpf -> "KILL"
              [] c = <<"clone", "UNTRACED">> -> "KILL"
              [] c[1] = "seccomp" /\ c[2] = "NEW_LISTENER" /\ ~starts -> "KILL"
              [] OTHER -> "none"

\* The default action comes before the overridable rules.
UserPolicy(p, c) ==
    CASE Decision(p.user, c) # "none" -> Decision(p.user, c)
      [] Decision(p.user, c) = "none" /\ p.allowAll -> "ALLOW"
      [] OTHER -> IF c[1] \in p.overridable THEN "ERRNO" ELSE "KILL"

\* With the flag permit_all every call is only reported.
GetTrackingPolicy == "TRACE"

\* GetPolicy: the action of the filter on a call.
GetPolicy(p, notif, permitAll, arch, c) ==
    LET default == DefaultDecision(p, notif, arch, c)
        action == IF default = "none" THEN UserPolicy(p, c) ELSE default
    IN IF permitAll THEN GetTrackingPolicy
       ELSE IF notif /\ action = "KILL" THEN "USER_NOTIF" ELSE action
-----------------------------------------------------------------------------
(* StackTracePeer::GetPolicy.                                              *)

ProcPath(names) == <<"", "proc", "pid">> \o names

LibraryFolders == {<<"", "usr", "lib64">>, <<"", "usr", "lib">>, <<"", "lib64">>, <<"", "lib">>}

\* The mounts of the sandboxee without those in the way, or, after a fork of a
\* custom fork server, the folders with libraries that exist.
UnwindMounts(mounts, app, customForkserver, folders) ==
    LET noProc == RemoveMount(mounts, <<"", "proc">>).tree
    IN IF customForkserver
       THEN FoldSet(LAMBDA folder, b : AddDirectory(b, folder), NewBuilder, folders).mounts
       ELSE RemoveMount(noProc, app).tree

UnwindRules ==
    LET malloc == AllowSystemMalloc(AllowTcMalloc(AllowHandleSignals(AllowExit(AllowSyscalls(
            AllowWrite(AllowRead(AllowOpen(NewBuilder))), {"close"})))))
    IN TrapPtrace(AllowGetPIDs(AllowSafeFcntl(AllowDup(AllowTime(AllowSyscalls(
           AllowPipe(AllowSyscalls(AllowStat(AllowMmap(AllowSyscalls(malloc, {"recvmsg"}))),
                                   {"lseek", "mincore", "munmap"})), {"brk"}))))))

\* The filters and the mounts do not meet, so their order does not matter here.
UnwindBuilder(mounts, maps, exe, app) ==
    AddFileAt(
        AddFileAt(AddFileAt([UnwindRules EXCEPT !.mounts = mounts],
                            maps, ProcPath(<<"maps">>), TRUE),
                  maps, ProcPath(<<"task", "pid", "maps">>), TRUE),
        exe, app, TRUE)

UnwindPtrace == GetPolicy(Built(UnwindRules), FALSE, FALSE, "host", <<"ptrace">>)
-----------------------------------------------------------------------------
(* A program that calls the methods in any order.  `granted' is what the   *)
(* calls so far allow when each is made on a builder of its own, `limits'  *)
(* whether a call was made that is there to forbid something, `custom' the *)
(* names for which the program has supplied a filter of its own.           *)

VARIABLES builder, policy, bcalls, granted, limits, custom

builderVars == <<builder, policy, bcalls, granted, limits, custom>>

Allowed(b) == {c \in Calls : Decision(b.user, c) = "ALLOW"}

BuilderInit ==
    /\ builder = NewBuilder /\ policy = NoPolicy /\ bcalls = 0
    /\ granted = {} /\ limits = FALSE /\ custom = {}

Call(after, alone) ==
    /\ ~builder.dead /\ bcalls < MaxBuilderCalls
    /\ builder' = after /\ bcalls' = bcalls + 1
    /\ granted' = granted \cup Allowed(alone)
    /\ UNCHANGED policy

Method(Op(_)) == Call(Op(builder), Op(NewBuilder)) /\ UNCHANGED <<limits, custom>>
Limit(Op(_)) == Call(Op(builder), Op(NewBuilder)) /\ limits' = TRUE /\ UNCHANGED custom

CallAllowSyscalls == \E nrs \in Listed : Method(LAMBDA b : AllowSyscalls(b, nrs))
CallBlockSyscalls == \E nrs \in Listed : Limit(LAMBDA b : BlockSyscallsWithErrno(b, nrs))
CallAddPolicy ==
    \E r \in CustomRules :
       /\ Call([AddPolicyOnSyscalls(builder, r.calls, r.action) EXCEPT !.length = @ + r.size],
               AddPolicyOnSyscalls(NewBuilder, r.calls, r.action))
       /\ custom' = custom \cup {c[1] : c \in r.calls}
       /\ limits' = (limits \/ r.action # "ALLOW")

CallAllowFiles ==
    \/ Method(AllowOpen) \/ Method(AllowStat) \/ Method(AllowAccess) \/ Method(AllowDup)
    \/ Method(AllowPipe) \/ Method(AllowChmod) \/ Method(AllowChown) \/ Method(AllowRead)
    \/ Method(AllowWrite) \/ Method(AllowReaddir) \/ Method(AllowReadlink)
    \/ Method(AllowLink) \/ Method(AllowSymlink) \/ Method(AllowMkdir) \/ Method(AllowUtime)
    \/ Method(AllowSafeFcntl) \/ Method(AllowUnlink) \/ Method(AllowRename)
    \/ Method(AllowTCGETS)

CallAllowWaits ==
    \/ Method(AllowEpoll) \/ Method(AllowInotifyInit) \/ Method(AllowSelect)
    \/ Method(AllowPoll) \/ Method(AllowEventFd) \/ Method(AllowSleep) \/ Method(AllowAlarm)
    \/ Method(AllowTime) \/ Method(AllowWait)

CallAllowProcess ==
    \/ Method(AllowExit) \/ Method(AllowFork) \/ Method(AllowHandleSignals)
    \/ Method(AllowGetIDs) \/ Method(AllowGetPIDs) \/ Method(AllowGetPGIDs)
    \/ Method(AllowGetRlimit) \/ Method(AllowSetRlimit) \/ Method(AllowPrctlSetName)
    \/ Method(AllowGetRandom) \/ Method(AllowLogForwarding)
    \/ Method(AllowStaticStartup) \/ Method(AllowDynamicStartup)

CallAllowMemory ==
    \/ Method(AllowMmap) \/ Method(AllowScudoMalloc) \/ Method(AllowTcMalloc)
    \/ Method(AllowSystemMalloc) \/ Method(AllowWipeOnFork) \/ Method(AllowLlvmSanitizers)
    \/ \E slow \in BOOLEAN :
          \/ Method(LAMBDA b : AllowRestartableSequences(b, slow))
          \/ Method(LAMBDA b : AllowRestartableSequencesWithProcFiles(b, slow))

CallMounts ==
    \/ \E at \in AddedPaths, ro \in BOOLEAN :
          \/ Method(LAMBDA b : AddFileAt(b, at.outside, at.inside, ro))
          \/ Method(LAMBDA b : AddDirectoryAt(b, at.outside, at.inside, ro))
    \/ \E at \in AddedPaths : Method(LAMBDA b : AddTmpfs(b, at.inside))
    \/ \E found \in BOOLEAN, at \in AddedPaths, files \in LibraryLists :
          Method(LAMBDA b : AddLibrariesForBinary(b, at.outside, found, files))
    \/ Method(SetRootWritable)

CallSettings ==
    \/ Method(EnableNamespaces) \/ Method(DisableNamespaces)
    \/ Method(AllowUnrestrictedNetworking) \/ Method(DangerAllowMountPropagation)
    \/ Method(LAMBDA b : SetHostname(b, "other"))
    \/ \E when \in {"signal", "exit"}, enable \in BOOLEAN :
          Method(LAMBDA b : CollectStacktraces(b, when, enable))
    \/ Limit(DangerDefaultAllowAll)

CallProxy ==
    \/ Method(AddNetworkProxyPolicy) \/ Limit(AddNetworkProxyHandlerPolicy)
    \/ \E readable \in BOOLEAN : Method(LAMBDA b : AllowIP(b, "host", readable))

TryBuild ==
    /\ ~builder.dead
    /\ IF BuildRefused(builder)
       THEN UNCHANGED <<builder, policy>>
       ELSE policy' = Built(builder) /\ builder' = AfterBuild(builder)
    /\ UNCHANGED <<bcalls, granted, limits, custom>>

BuilderNext ==
    \/ CallAllowSyscalls \/ CallBlockSyscalls \/ CallAddPolicy \/ CallAllowFiles
    \/ CallAllowWaits \/ CallAllowProcess \/ CallAllowMemory \/ CallMounts
    \/ CallSettings \/ CallProxy \/ TryBuild

BuilderSpec == BuilderInit /\ [][BuilderNext]_builderVars
-----------------------------------------------------------------------------
\* "The operations themselves commute" for the methods that only allow: the
\* calls a builder allows are those its method calls allow each by itself,
\* although AllowSyscall skips a call that has been handled and a policy on a
\* call does not make it handled (policybuilder.cc, handled_syscalls_).
ComposesAsUnion ==
    bcalls > 0 /\ ~limits /\ builder.ok /\ ~builder.dead /\ ~builder.built =>
        Allowed(builder) = granted

UnwindServes(tree, app, forkserver) ==
    LET mounts == UnwindMounts(tree, app, forkserver, LibraryFolders)
        b == UnwindBuilder(mounts, <<"", "maps">>, <<"", "exe">>, app)
    IN /\ ~BuildRefused(b) /\ UnwindPtrace = "TRAP"
       /\ b.mounts[NonEmpty(app)].outside = <<"", "exe">>

\* Whatever the mounts of a sandboxee, the policy for unwinding its stack can
\* be built, shows the binary and its maps, and traps ptrace: the mounts in the
\* way are removed first (stack_trace.cc).
UnwindPolicyServes ==
    mphase = "build" /\ mcalls > 0 =>
        \A app \in {p \in InsidePaths : ValidateAbsolutePath(p) /\ p # Root} :
           ~FileAbove(mtree, NonEmpty(app)) =>
               \A forkserver \in BOOLEAN : UnwindServes(mtree, app, forkserver)

PtraceStaysBlocked ==
    policy # NoPolicy /\ "ptrace" \notin custom =>
        \A notif \in BOOLEAN, arch \in {"host", "x86"} :
           GetPolicy(policy, notif, FALSE, arch, <<"ptrace">>) # "ALLOW"

BuiltOnceWithoutError == policy' # policy => policy = NoPolicy /\ builder.ok

NothingDropped ==
    ~builder.dead /\ ~builder.useNs =>
        builder.mounts = NewTree /\ ~builder.net /\ builder.hostname = "sandbox2"

\* "The user policy can only block ... but not allow ptrace" (policy.cc): no
\* order of method calls lets ptrace through, unless the program supplies its
\* own filter for it.  A policy is built at most once, and never by a builder
\* one of whose calls has failed, whatever has been called since.  A mount, a
\* hostname or a network setting is never dropped on the way: a builder without
\* namespaces has none of them.
BuildIsSound ==
    [](PtraceStaysBlocked /\ NothingDropped) /\ [][BuiltOnceWithoutError]_builderVars
=============================================================================
