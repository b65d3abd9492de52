-------------------------- MODULE SandboxPolicies --------------------------
(***************************************************************************)
(* The policies of the programs the repository ships: the default one of   *)
(* sapi::Sandbox (sandbox.cc) and those of the examples, of contrib and of *)
(* oss-internship-2020, each the builder its ModifyPolicy or GetPolicy     *)
(* ends up with, innermost call first.  The paths given on the command     *)
(* line are ordinary absolute paths, different from each other.            *)
(***************************************************************************)
EXTENDS PolicyBuilder

InFile == <<"", "data", "in", "file">>
In2File == <<"", "data", "in2", "file">>
In3File == <<"", "data", "in3", "file">>
OutFile == <<"", "data", "out", "file">>
TmpDir == <<"", "cwd", "tmpdir">>
Cwd == <<"", "cwd">>
Libraries3 == <<<<"", "lib", "ld.so">>, <<"", "lib", "libc.so">>>>

\* dirname(3) writes its result into its argument: the next call goes one up.
Dirname(path, times) == SubSeq(path, 1, Len(path) - times)
-----------------------------------------------------------------------------
(* sapi::Sandbox and the examples of the two APIs.                         *)

InitDefaultPolicyBuilder ==
    LET basic == AllowTime(AllowTCGETS(AllowGetIDs(AllowGetRlimit(AllowExit(
                   AllowWrite(AllowRead(NewBuilder)))))))
        files == AllowSafeFcntl(AllowSystemMalloc(AllowHandleSignals(
                   AllowStat(AllowOpen(basic)))))
        calls == AllowSyscalls(AllowSleep(AllowSyscalls(files,
                   {"recvmsg", "sendmsg", "futex", "close", "lseek", "getpid", "getppid",
                    "gettid"})),
                   {"uname", "getrandom", "kill", "tgkill", "tkill"})
        links == AllowSyscalls(AllowReadlink(calls), {"arch_prctl"})
    IN AddTmpfs(AddFile(links, <<"", "etc", "localtime">>), <<"", "tmp">>)

StringopPolicy ==
    LET basic == AllowTime(AllowStat(AllowExit(AllowHandleSignals(AllowSystemMalloc(
                   AllowOpen(AllowWrite(AllowRead(NewBuilder))))))))
    IN AddFile(AllowSyscalls(basic, {"recvmsg", "sendmsg", "lseek", "nanosleep", "futex",
                                     "gettid", "close"}), <<"", "etc", "localtime">>)

\* CustomHelloSandbox makes the same calls.
SumPolicy ==
    LET basic == AllowTime(AllowStat(AllowExit(AllowHandleSignals(AllowSystemMalloc(
                   AllowOpen(AllowWrite(AllowRead(NewBuilder))))))))
    IN AddFile(AllowSyscalls(AllowGetPIDs(AllowGetIDs(basic)),
                             {"tgkill", "recvmsg", "sendmsg", "lseek", "nanosleep", "futex",
                              "close"}), <<"", "etc", "localtime">>)

CustomHelloPolicy == SumPolicy

Crc4Policy ==
    AddPolicyOnSyscalls(AllowExit(DisableNamespaces(NewBuilder)),
        {<<"read", "comms", "other">>, <<"write", "comms">>, <<"close", "comms">>}, "ALLOW")

CustomForkPolicy ==
    AllowSyscalls(AllowTime(AllowExit(AllowWrite(AllowRead(NewBuilder)))),
                  {"close", "getpid", "arch_prctl"})

NetworkPolicy ==
    AddLibrariesForBinary(
        AllowStat(AllowSyscalls(AllowWrite(AllowRead(AllowMmap(AllowExit(NewBuilder)))),
                                {"close", "recvmsg", "sendto"})), InFile, TRUE, Libraries3)

NetworkProxyPolicy(withHandler) ==
    LET files == AllowOpen(AllowStat(AllowWrite(AllowRead(AllowMmap(AllowExit(NewBuilder))))))
        malloc == AllowTcMalloc(AllowSyscalls(files, {"sendto", "lseek", "munmap", "getpid"}))
        libraries == AddLibrariesForBinary(malloc, InFile, TRUE, Libraries3)
    IN AllowIP(IF withHandler THEN AddNetworkProxyHandlerPolicy(libraries)
               ELSE AddNetworkProxyPolicy(libraries), "::1", TRUE)

StaticPolicy ==
    LET started == AllowSyscalls(AllowStaticStartup(AllowRead(NewBuilder)), {"getpid"})
        writes == AddPolicyOnSyscall(started, "write", {"stdout", "stderr"})
        protects == AddPolicyOnSyscall(AllowPrctlSetName(writes), "mprotect",
                                       {"R", "NONE", "RW", "RX"})
        kills == AddPolicyOnSyscalls(protects, On("exit_group", {"other"}), "KILL")
        exits == AllowSyscalls(AddPolicyOnSyscall(kills, "exit_group", {"0"}), {"exit_group"})
    IN BlockSyscallsWithErrno(exits, {"access", "faccessat", "open", "openat"})

ZpipePolicy ==
    LET streams == AddPolicyOnSyscall(
            AddPolicyOnSyscalls(NewBuilder, {<<"read", "stdin", "other">>}, "ALLOW"),
            "write", {"stdout", "stderr"})
    IN BlockSyscallsWithErrno(
           AllowExit(AllowSystemMalloc(AllowStaticStartup(AllowStat(streams)))),
           {"access", "faccessat"})

\* With all flags, one more directory and one more file to mount.
Sandbox2ToolPolicy ==
    LET kills == AddPolicyOnSyscalls(NewBuilder, {<<"tee">>}, "KILL")
        tmp == AddTmpfs(AllowUnrestrictedNetworking(DangerDefaultAllowAll(kills)),
                        <<"", "tmp">>)
        mounts == AddFileAt(AddDirectoryAt(tmp, Cwd, Cwd, TRUE),
                            OutFile, <<"", "tmp", "file">>, TRUE)
    IN AddLibrariesForBinary(mounts, InFile, TRUE, Libraries3)
-----------------------------------------------------------------------------
(* contrib.                                                                *)

BrotliPolicy ==
    BlockSyscallsWithErrno(AllowExit(AllowGetPIDs(AllowSystemMalloc(AllowWrite(AllowRead(
        AllowDynamicStartup(NewBuilder)))))), {"openat"})

CbloscPolicy ==
    AllowSyscalls(AllowSystemMalloc(AllowExit(AllowWrite(AllowRead(
        AllowStaticStartup(NewBuilder))))), {"sysinfo"})

HunspellPolicy ==
    LET basic == AllowExit(AllowSystemMalloc(AllowGetPIDs(AllowWrite(AllowRead(AllowOpen(
                   AllowStaticStartup(NewBuilder)))))))
        files == AddFile(AddFile(AllowSyscalls(basic, {"clock_gettime", "close"}), InFile),
                         In2File)
    IN AllowRestartableSequencesWithProcFiles(files, TRUE)

\* libraw and libxls make the same calls.
LibRawPolicy ==
    AddFile(AllowSyscalls(AllowExit(AllowSystemMalloc(AllowWrite(AllowRead(AllowOpen(
        AllowDynamicStartup(NewBuilder)))))), {"recvmsg"}), InFile)

LibxlsPolicy == LibRawPolicy

TiffPolicy ==
    AddFileAt(AllowSyscalls(AllowSystemMalloc(AllowStat(AllowExit(AllowOpen(AllowWrite(
        AllowStaticStartup(AllowRead(NewBuilder))))))),
        {"futex", "close", "lseek", "gettid", "sysinfo", "mmap", "munmap"}),
        InFile, InFile, FALSE)

ZipPolicy ==
    LET basic == AllowSafeFcntl(AllowExit(AllowGetPIDs(AllowSystemMalloc(AllowWrite(AllowRead(
                   AllowDynamicStartup(NewBuilder)))))))
    IN BlockSyscallsWithErrno(AllowSyscalls(basic, {"dup", "recvmsg", "ftruncate"}), {"openat"})

UriparserPolicy ==
    AllowExit(AllowSystemMalloc(AllowWrite(AllowRead(AllowDynamicStartup(NewBuilder)))))

ZopfliPolicy ==
    LET basic == AllowSystemMalloc(AllowMmap(AllowExit(AllowWrite(
                   AllowDynamicStartup(NewBuilder)))))
    IN BlockSyscallsWithErrno(AllowSyscalls(basic, {"recvmsg", "sysinfo"}), {"open", "openat"})

ZstdPolicy == AllowSyscalls(UriparserPolicy, {"recvmsg"})

Woff2Policy ==
    AllowSyscalls(AllowExit(AllowWrite(AllowStat(AllowRead(AllowSystemMalloc(
        AllowDynamicStartup(NewBuilder)))))),
        {"futex", "close", "lseek", "getpid", "clock_gettime", "madvise"})

TurboJpegPolicy ==
    AllowLlvmSanitizers(AllowSyscalls(
        AllowExit(AllowWrite(AllowStat(AllowRead(AllowSystemMalloc(NewBuilder))))),
        {"futex", "close", "lseek", "getpid", "clock_gettime"}))

Idn2Policy ==
    BlockSyscallsWithErrno(AllowSyscalls(AllowGetPIDs(
        AllowExit(AllowWrite(AllowStat(AllowRead(AllowSystemMalloc(NewBuilder)))))),
        {"futex", "close", "lseek"}), {"openat"})

LodepngPolicy ==
    LET basic == AllowGetPIDs(AllowStat(AllowExit(AllowSystemMalloc(AllowOpen(AllowWrite(
                   AllowRead(NewBuilder)))))))
    IN AllowSyscalls(AddDirectoryAt(basic, TmpDir, <<"", "output", "">>, FALSE),
                     {"futex", "lseek", "close"})

PffftPolicy ==
    AllowSyscalls(AllowExit(AllowSystemMalloc(AllowWrite(AllowRead(AllowOpen(
        AllowStaticStartup(NewBuilder)))))), {"futex", "close", "getrusage"})

JsonnetCalls ==
    AllowSyscalls(AllowExit(AllowSystemMalloc(AllowStat(AllowWrite(AllowRead(AllowOpen(
        AllowStaticStartup(NewBuilder))))))), {"futex", "close"})

JsonnetBasePolicy(inits) ==
    AddDirectoryAt(AddDirectoryAt(JsonnetCalls, Dirname(OutFile, inits), <<"", "output">>, FALSE),
                   Dirname(InFile, inits), <<"", "input">>, TRUE)

JsonnetFormatterPolicy(inits) ==
    AddFile(AddDirectoryAt(JsonnetCalls, Dirname(OutFile, inits), <<"", "output">>, FALSE),
            InFile)

JsonnetMultiplePolicy(inits) ==
    AddDirectoryAt(AddDirectoryAt(JsonnetCalls, TmpDir, <<"", "output">>, FALSE),
                   Dirname(InFile, inits), <<"", "input">>, TRUE)
-----------------------------------------------------------------------------
(* oss-internship-2020.                                                    *)

LibarchiveCalls(b) ==
    AllowMkdir(AllowUnlink(AllowSyscalls(
        AllowExit(AllowStat(AllowSafeFcntl(AllowGetIDs(AllowSystemMalloc(AllowOpen(AllowWrite(
            AllowRead(b)))))))),
        {"futex", "lseek", "close", "gettid", "umask", "utimensat"})))

\* Two things go into the archive: a directory and a file.
LibarchiveCreatePolicy ==
    LET output == AddDirectoryAt(NewBuilder, Parent(OutFile), <<"", "output">>, FALSE)
        disk == AllowSyscalls(LibarchiveCalls(output),
                    {"fstatfs", "socket", "connect", "flistxattr", "recvmsg", "getdents64"})
    IN AddFile(AddDirectory(AddPolicyOnSyscall(disk, "ioctl", {"FS_IOC_GETFLAGS"}),
                            Parent(In2File)), InFile)

LibarchiveExtractPolicy(doExtract) ==
    LET archive == AddFile(LibarchiveCalls(NewBuilder), InFile)
    IN IF doExtract THEN AddDirectoryAt(archive, Cwd, TmpDir, FALSE) ELSE archive

CurlPolicy ==
    LET waits == AllowFutexOp(AllowFutexOp(AllowFutexOp(AllowFork(AllowExit(
                   AllowDynamicStartup(NewBuilder))), "WAIT"), "WAKE"), "REQUEUE")
        files == AllowAccess(AllowWrite(AllowSafeFcntl(AllowOpen(AllowMmap(waits)))))
        sockets == AllowPoll(AllowSyscalls(files,
                     {"accept", "bind", "connect", "getpeername", "getsockname", "getsockopt",
                      "ioctl", "listen", "madvise"}))
        messages == AllowSyscalls(sockets,
                      {"recvfrom", "recvmsg", "rt_sigaction", "sendmmsg", "sendto",
                       "setsockopt", "socket", "sysinfo"})
    IN AllowUnrestrictedNetworking(AddDirectory(messages, <<"", "lib">>))

\* Its builder is an argument the method it calls does not look at.
CurlExample3Policy == CurlPolicy

GdalRasterPolicy ==
    LET basic == AllowOpen(AllowStat(AllowExit(AllowWrite(AllowSystemMalloc(AllowRead(
                   AllowDynamicStartup(NewBuilder)))))))
    IN AddFile(AllowUnlink(AllowSyscalls(basic,
                 {"futex", "close", "recvmsg", "getdents64", "lseek", "getpid", "sysinfo",
                  "prlimit64", "ftruncate"})), InFile)

GdalGTiffPolicy ==
    LET basic == AllowOpen(AllowExit(AllowWrite(AllowSystemMalloc(AllowRead(
                   AllowDynamicStartup(NewBuilder))))))
        calls == AllowUnlink(AllowSyscalls(basic,
                   {"futex", "getdents64", "lseek", "getpid", "sysinfo", "prlimit64",
                    "ftruncate"}))
    IN AddDirectoryAt(AddFile(calls, InFile), Parent(OutFile), Parent(OutFile), FALSE)

GuetzliPolicy ==
    AllowSyscalls(AllowStat(AllowExit(AllowWrite(AllowSystemMalloc(AllowRead(
        AllowStaticStartup(NewBuilder)))))), {"futex", "close", "recvmsg"})

LibPngPolicy ==
    LET basic == AllowSystemMalloc(AllowMmap(AllowStat(AllowExit(AllowOpen(AllowWrite(
                   AllowStaticStartup(AllowRead(NewBuilder))))))))
        calls == AllowSyscalls(basic, {"futex", "close", "lseek", "gettid", "sysinfo", "munmap",
                                       "recvmsg", "fcntl"})
    IN AddFileAt(AddFileAt(calls, InFile, InFile, FALSE), OutFile, OutFile, FALSE)

OpenjpegPolicy ==
    AddFile(AllowSyscalls(AllowExit(AllowSystemMalloc(AllowStat(AllowWrite(AllowRead(AllowOpen(
        AllowStaticStartup(NewBuilder))))))), {"futex", "close", "lseek"}), InFile)

UvHelloworldPolicy ==
    AllowWrite(AllowSyscalls(AllowFutexOp(AllowExit(AllowDynamicStartup(NewBuilder)), "WAKE"),
                             {"epoll_create1", "eventfd2", "pipe2"}))

UvIdleBasicPolicy ==
    AllowWrite(AllowPipe(AllowSyscalls(AllowEpoll(AllowFutexOp(AllowExit(
        AllowDynamicStartup(NewBuilder)), "WAKE")), {"eventfd2"})))

UvCatPolicy ==
    LET waits == AllowFutexOp(AllowFutexOp(AllowFork(AllowExit(AllowDynamicStartup(
                   AddFile(NewBuilder, InFile)))), "WAKE"), "WAIT")
        events == AllowSyscalls(AllowEpoll(AllowOpen(AllowMmap(waits))), {"eventfd2"})
    IN AllowWrite(AllowSyscalls(AllowPipe(events), {"prlimit64"}))
-----------------------------------------------------------------------------
(* The programs: the policy at the given Init of the sandbox, whether the  *)
(* sandboxee is a library behind client.cc, what the comments and the      *)
(* names of the calls say a call gets, and the paths the program hands to  *)
(* the sandboxee with the host's files it means and whether it writes.     *)

Program(b, library, claims, opens) ==
    [policy |-> b, library |-> library, claims |-> claims, opens |-> opens]
Lib(b) == Program(b, TRUE, {}, {})
LibBlocking(b, nrs) == Program(b, TRUE, {<<<<nr>>, "ERRNO">> : nr \in nrs}, {})
LibOpening(b, opens) == Program(b, TRUE, {}, opens)

Reads(path) == [path |-> path, host |-> path, write |-> FALSE]
Writes(path) == [path |-> path, host |-> path, write |-> TRUE]
ReadsAs(path, host) == [path |-> path, host |-> host, write |-> FALSE]
WritesAs(path, host) == [path |-> path, host |-> host, write |-> TRUE]
InputFile == ReadsAs(<<"", "input", "file">>, InFile)
OutputFile == WritesAs(<<"", "output", "file">>, OutFile)

Shipped(inits) ==
    [default |-> LibOpening(InitDefaultPolicyBuilder, {Reads(<<"", "etc", "localtime">>)}),
     stringop |-> LibOpening(StringopPolicy, {Reads(<<"", "etc", "localtime">>)}),
     sum |-> LibOpening(SumPolicy, {Reads(<<"", "etc", "localtime">>)}),
     hello |-> LibOpening(CustomHelloPolicy, {Reads(<<"", "etc", "localtime">>)}),
     crc4 |-> Program(Crc4Policy, FALSE, {<<<<"write", "stdout">>, "KILL">>}, {}),
     fork |-> Program(CustomForkPolicy, FALSE, {}, {}),
     network |-> Program(NetworkPolicy, FALSE, {<<<<"connect">>, "KILL">>}, {}),
     proxy |-> Program(NetworkProxyPolicy(FALSE), FALSE, {<<<<"connect">>, "KILL">>}, {}),
     handler |-> Program(NetworkProxyPolicy(TRUE), FALSE, {<<<<"connect">>, "TRAP">>}, {}),
     static |-> Program(StaticPolicy, FALSE,
                    {<<<<"exit_group", "other">>, "KILL">>, <<<<"exit_group", "0">>, "ALLOW">>,
                     <<<<"write", "other">>, "KILL">>, <<<<"open">>, "ERRNO">>,
                     <<<<"openat">>, "ERRNO">>, <<<<"access">>, "ERRNO">>}, {}),
     zpipe |-> Program(ZpipePolicy, FALSE,
                    {<<<<"access">>, "ERRNO">>, <<<<"read", "comms", "other">>, "KILL">>}, {}),
     tool |-> Program(Sandbox2ToolPolicy, FALSE, {<<<<"tee">>, "KILL">>}, {Reads(Cwd)}),
     brotli |-> LibBlocking(BrotliPolicy, {"openat"}),
     cblosc |-> Lib(CbloscPolicy),
     hunspell |-> LibOpening(HunspellPolicy, {Reads(InFile), Reads(In2File)}),
     libraw |-> LibOpening(LibRawPolicy, {Reads(InFile)}),
     libxls |-> LibOpening(LibxlsPolicy, {Reads(InFile)}),
     libtiff |-> LibOpening(TiffPolicy, {Reads(InFile)}),
     libzip |-> LibBlocking(ZipPolicy, {"openat"}),
     uriparser |-> Lib(UriparserPolicy),
     zopfli |-> LibBlocking(ZopfliPolicy, {"open", "openat"}),
     zstd |-> Lib(ZstdPolicy),
     woff2 |-> Lib(Woff2Policy),
     turbojpeg |-> Lib(TurboJpegPolicy),
     idn2 |-> LibBlocking(Idn2Policy, {"openat"}),
     lodepng |-> LibOpening(LodepngPolicy,
                    {WritesAs(<<"", "output", "png">>, Append(TmpDir, "png"))}),
     pffft |-> Lib(PffftPolicy),
     jsonnet |-> LibOpening(JsonnetBasePolicy(inits), {InputFile, OutputFile}),
     formatter |-> LibOpening(JsonnetFormatterPolicy(inits), {InputFile, OutputFile}),
     multiple |-> LibOpening(JsonnetMultiplePolicy(inits),
                    {InputFile, WritesAs(<<"", "output">>, TmpDir)}),
     create |-> Program(LibarchiveCreatePolicy, TRUE, {<<<<"ioctl", "other">>, "KILL">>},
                    {OutputFile, Reads(InFile), Reads(In2File)}),
     extract |-> LibOpening(LibarchiveExtractPolicy(TRUE),
                    {Reads(InFile), WritesAs(Append(TmpDir, "entry"), Append(Cwd, "entry"))}),
     list |-> LibOpening(LibarchiveExtractPolicy(FALSE), {Reads(InFile)}),
     curl |-> Lib(CurlPolicy),
     curl3 |-> Program(CurlExample3Policy, TRUE, {<<<<"getrandom", "0">>, "ALLOW">>},
                    {Reads(InFile), Reads(In2File), Reads(In3File)}),
     raster |-> LibOpening(GdalRasterPolicy, {Reads(InFile)}),
     gtiff |-> LibOpening(GdalGTiffPolicy, {Reads(InFile), Writes(OutFile)}),
     guetzli |-> Lib(GuetzliPolicy),
     libpng |-> LibOpening(LibPngPolicy, {Reads(InFile), Writes(OutFile)}),
     openjpeg |-> LibOpening(OpenjpegPolicy, {Reads(InFile)}),
     helloworld |-> Lib(UvHelloworldPolicy),
     idle |-> Lib(UvIdleBasicPolicy),
     uvcat |-> LibOpening(UvCatPolicy, {Reads(InFile)})]

FirstInit == Shipped(1)
SecondInit == Shipped(2)

VARIABLES program,   \* its name
          running,   \* what its sandbox runs with
          inits      \* how often the sandbox was started

programVars == <<program, running, inits>>

ProgramOf(table) == \E name \in DOMAIN table : program = name /\ running = table[name]
ProgramsInit == ProgramOf(FirstInit) /\ inits = 1

\* A sandbox that is restarted asks for its policy again.
Reinit == inits = 1 /\ inits' = 2 /\ running' = SecondInit[program] /\ UNCHANGED program

Action(p, call) == GetPolicy(Built(p.policy), FALSE, FALSE, "host", call)

\* Programs whose policies do not show or forbid what they mean to.
Departing == {"curl3", "formatter", "jsonnet", "multiple"}

Shows(tree, opened) ==
    LET p == NonEmpty(opened.path)
        at == NodeAt(tree, SubSeq(p, 1, Deepest(tree, p)))
    IN ResolvePath(tree, opened.path) = opened.host /\ (opened.write => at.rw)

\* Every policy that is shipped can be built, and a library behind it can be
\* served: client.cc reads requests and writes answers on its comms, allocates
\* and frees, and exits, none of which its policy may forbid.  What the policy
\* of a program says about a call holds whatever the methods called before and
\* after it allow: "Allow exit() only with an exit_code of 0"
\* (static_sandbox.cc), calls that are to fail with ENOENT.  A path a program
\* hands to its sandboxee leads, through the mounts of its policy, to the file
\* the program means, and can be written if it is to be.
ProgramServed ==
    program # "none" =>
        /\ ~BuildRefused(running.policy) /\ ~running.policy.dead
        /\ running.library =>
              \A call \in {<<"read", "comms", "other">>, <<"write", "comms">>, <<"brk">>,
                           <<"mmap", "RW", "AP">>, <<"munmap">>, <<"exit_group", "0">>} :
                 Action(running, call) = "ALLOW"
        /\ program \notin Departing =>
              /\ \A claim \in running.claims : Action(running, claim[1]) = claim[2]
              /\ \A opened \in running.opens : Shows(running.policy.mounts, opened)

\* The policies the repository ships do what they are for: those of its programs,
\* with the mounts as ResolvePath sees them, which is how the sandboxee does, and
\* the one of the sandbox that unwinds stacks.
ShippedPoliciesServe == ProgramServed /\ PathsResolveAsShown /\ UnwindPolicyServes
=============================================================================
