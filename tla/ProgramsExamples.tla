--------------------------- MODULE ProgramsExamples ---------------------------
(***************************************************************************)
(* The examples of Sandboxed API (sum, stringop, zlib, hello) and of       *)
(* Sandbox2 (tool, crc4, static, custom_fork, zpipe, network,              *)
(* network_proxy).  A Sandbox2 program talks to its sandboxee through a    *)
(* Comms channel: a request is an exchange over it.  The object sandboxee  *)
(* is the process that the monitor watches; AwaitResult and the end of the *)
(* monitor wait for it.                                                    *)
(***************************************************************************)
EXTENDS ProgramLang, TLC

(***************************************************************************)
(* sum: each fd is a descriptor in the sandboxee that the v::Fd closes in  *)
(* the end; the second one is closed early and read once more on purpose.  *)
(***************************************************************************)
SumSend(fd) == <<HostNew("open", fd), Transfer("TransferToSandboxee", {fd})>>
SumCalls ==
    <<Call("sum", {}), Call("sums", {}), Call("sums", {}), Call("sums", {}), Transfer("Symbol", {}),
      Transfer("TransferFromSandboxee sumsymbol", {}), Call("sumarr", {}), Rpc("addf", {}),
      Call("puts", {}), Rpc("testptr", {}), Rpc("testptr", {}), Host("FromMessage"),
      Does(Call("sumproto", {}), "summed")>>

SumTransactionMain ==
    Careless(
        Cleanup(
            Function({}, {}, {"summed"},
                SumCalls \o SumSend("fd") \o SumSend("fd2")
                \o <<Rpc("read", {"fd2"}), Frees(Transfer("CloseRemoteFd", {"fd2"}), "fd2"),
                     Rpc("read closed", {"fd2"})>>
                \o SumSend("fd3")
                \o <<Rpc("read_int", {"fd3"}), Choose({"crash", "violate", "time out", "return"}),
                     At("crash"), Call("crash", {}), Return, At("violate"), Call("violate", {}), Return,
                     At("time out"), Call("sleep_for_sec", {})>>),
            <<If("fd", HostFree("~Fd", "fd")), If("fd2", HostFree("~Fd twice", "fd2")),
              If("fd3", HostFree("~Fd", "fd3"))>>),
        {"read closed", "~Fd twice"})

SumTestAddition == Function({}, {}, {"added"}, <<Does(Call("sum", {}), "added")>>)

\* A transaction that must not succeed.
Expected(fn, label) == <<OnBad(Host(fn), label), Fail, At(label)>>

SumMain ==
    Function({}, {}, {"run"},
        <<Host("Run test_addition"), Host("Run test_addition")>>
        \o Expected("Run test_addition 1336 1 7", "wrong sum")
        \o <<Host("Run sums"), Host("Run sums")>>
        \o Expected("Run crash", "crashed") \o Expected("Run violate", "violated")
        \o Expected("Run timeout", "timed out")
        \o <<At("again"), Does(Host("Run"), "run"), Either("again")>>)

\* Both replace the buffer that the structure points to.
StringopReplace ==
    Careless(Function({"data"}, {"new_buf"}, {},
                 <<OnBad(HostNew("malloc", "new_buf"), "next"),
                   [Else(Host("copy"), "next") EXCEPT !.uses = {"new_buf", "data"}],
                   HostFree("free", "data")>>),
             {"copy"})

HelloMain == Aborting(Function({}, {}, {"added"}, <<Else(Start, "next"), Does(Call("AddTwoIntegers", {}), "added")>>))
\* The error is printed, the program ends like any other.
HelloTransacted ==
    Unearned(Function({}, {}, {"added"}, <<OnBad(Does(Host("Run"), "added"), "next")>>), {"added"})

\* The answer of deflate is only asserted.  A failed request ends the program
\* at the latest when the output is fetched.
ZlibMain ==
    Unearned(
        Function({}, {}, {"deflated", "written"},
            <<Start, Transfer("Allocate input", {}), Transfer("Allocate output", {}),
              New("deflateInit_", {}, "stream"),
              At("chunk"), Transfer("TransferToSandboxee", {"stream"}),
              OnBad(Host("fread"), "end"),
              At("deflate"), Else(Does(Call("deflate", {"stream"}), "deflated"), "next"),
              Transfer("TransferFromSandboxee", {"stream"}),
              OnBad(Does(Host("fwrite"), "written"), "end"), Choose({"deflate", "chunk", "finished"}),
              At("finished"), Free("deflateEnd", "stream"), Return,
              At("end"), Free("deflateEnd", "stream"), Fail>>),
        {"deflated"})

(***************************************************************************)
(* Sandbox2 programs.                                                      *)
(***************************************************************************)
RunAsync == HostNew("RunAsync", "sandboxee")
AwaitRun == <<HostFree("AwaitResult", "sandboxee"), Reset("sandboxee")>>
\* Success is a final status OK with exit code 0.
CheckResult == AwaitRun \o <<Host("final_status"), Does(Host("reason_code"), "finished")>>
\* The end of the monitor waits for the sandboxee, within its time limits.
EndOfMonitor == <<If("sandboxee", HostFree("~Monitor", "sandboxee"))>>
Sandbox2Main(goal, code) == Aborting(Cleanup(Function({}, {}, goal, code), EndOfMonitor))

\* A sandbox that cannot be started still has a result to wait for.
ToolMain ==
    Sandbox2Main({"finished"},
        <<Usage, Either("executor"), HostNew("ReceiveFd", "recv_fd1"),
          At("executor"), Host("stat64"), Host("BuildOrDie"), OnBad(RunAsync, "failed"),
          Choose({"pause", "dump", "output", "result"}),
          At("pause"), [Host("kill") EXCEPT !.uses = {"sandboxee"}, !.bad = "next"], Goto("result"),
          At("dump"), [Host("DumpStackTrace") EXCEPT !.uses = {"sandboxee"}, !.bad = "next"],
          Goto("result"),
          At("output"), If("recv_fd1", OnBad(Host("OutputFD"), "next")),
          [Host("Kill") EXCEPT !.uses = {"sandboxee"}, !.bad = "next"], Goto("result"),
          At("failed"), If("recv_fd1", HostFree("~FDCloser", "recv_fd1")), Fail,
          At("result"), If("recv_fd1", HostFree("~FDCloser", "recv_fd1"))>>
        \o CheckResult)

SandboxedCRC4(failed) ==
    <<Else(Transfer("SendBytes", {"sandboxee"}), failed),
      Else(Does(Call("RecvUint32", {"sandboxee"}), "crc4"), failed)>>

\* A reply that cannot be read has the sandboxee killed, if it still runs.
KillUnlessTerminated(label) ==
    <<At(label), Either("result"), [Host("Kill") EXCEPT !.uses = {"sandboxee"}, !.bad = "next"]>>

\* A sandboxee that ends well without a readable reply leaves crc4 unset.
Crc4Main ==
    Unearned(
        Sandbox2Main({"finished", "crc4"},
            <<Usage, RunAsync>> \o SandboxedCRC4("no reply") \o <<Goto("result")>>
            \o KillUnlessTerminated("no reply") \o <<At("result")>> \o CheckResult),
        {"crc4"})

Crc4Bin ==
    Function({}, {}, {"sent"},
        <<Host("SandboxMeHere"), Transfer("RecvBytes", {}), Does(Transfer("SendUint32", {}), "sent")>>)

\* The descriptor belongs to the IPC object once it is mapped.
StaticMain ==
    Sandbox2Main({"finished"},
        <<HostNew("open", "proc_version_fd"), Frees(Else(Host("MapFd"), "next"), "proc_version_fd"),
          RunAsync>> \o AwaitRun \o <<Does(Host("final_status"), "finished")>>)

\* A failed read or write is not reported.
StaticBin ==
    Unearned(Function({}, {}, {},
                 <<At("read"), OnBad(Does(Host("read"), "read"), "return"), Either("return"),
                   OnBad(Does(Host("write"), "written"), "next"), Goto("read")>>),
             {"read", "written"})

CustomForkIteration ==
    Sandbox2Main({"finished"}, <<RunAsync, Transfer("SendInt32", {"sandboxee"})>> \o CheckResult)

CustomForkMain ==
    Aborting(Cleanup(
        Function({}, {}, {"finished"},
            <<HostNew("StartForkServer", "fork_client"), At("iteration"),
              Does([Host("SandboxIteration") EXCEPT !.uses = {"fork_client"}], "finished"),
              Either("iteration")>>),
        <<If("fork_client", HostFree("~ForkClient", "fork_client"))>>))

\* The fork server stays in the loop; each child leaves it.
CustomForkBin ==
    Function({}, {}, {"received"},
        <<At("serve"), Call("WaitAndFork", {}), Either("serve"), Host("SandboxMeHere"),
          Does(Transfer("RecvInt32", {}), "received"), Host("getpid")>>)

\* MapFd hands the descriptors over: the IPC object closes them when the
\* monitor is done, and then the program closes them again.
ZpipeMain ==
    Careless(
        Sandbox2Main({"finished"},
            <<Usage, HostNew("open", "fd_in"), HostNew("open", "fd_out"),
              RunAsync>> \o AwaitRun
            \o <<HostFree("InternalCleanupFdMap", "fd_in"), HostFree("InternalCleanupFdMap", "fd_out"),
              HostFree("close", "fd_in"), HostFree("close", "fd_out"),
              Host("final_status"), Does(Host("reason_code"), "finished")>>),
        {"close"})

ZpipeStream(fn) == [fn EXCEPT !.uses = {"strm"}]
ZpipeDef ==
    Function({}, {}, {"written"},
        <<HostNew("deflateInit", "strm"), At("chunk"), OnBad(Host("fread"), "end"),
          At("deflate"), ZpipeStream(OnBad(Host("deflate"), "next")),
          OnBad(Does(Host("fwrite"), "written"), "end"), Choose({"deflate", "chunk", "finished"}),
          At("finished"), HostFree("deflateEnd", "strm"), Return,
          At("end"), HostFree("deflateEnd", "strm"), Fail>>)

\* The input may end before the stream does.
ZpipeInf ==
    Function({}, {}, {"inflated"},
        <<HostNew("inflateInit", "strm"), At("chunk"), OnBad(Host("fread"), "end"), Either("end"),
          At("inflate"), ZpipeStream(OnBad(Does(Host("inflate"), "inflated"), "end")),
          OnBad(Host("fwrite"), "end"),
          Choose({"inflate", "chunk", "finished"}),
          At("finished"), HostFree("inflateEnd", "strm"), Return,
          At("end"), HostFree("inflateEnd", "strm"), Fail>>)

(***************************************************************************)
(* network, network_proxy: FDCloser closes the server's sockets on every   *)
(* way out; the client's socket is closed by hand.                         *)
(***************************************************************************)
NetworkServer ==
    Cleanup(Function({}, {}, {"written"},
                <<HostNew("socket", "s"), Host("setsockopt"), Host("inet_pton"), Host("bind"),
                  Host("listen"), HostNew("accept", "client"), Does(Host("write"), "written")>>),
            <<If("client", HostFree("~FDCloser", "client")), If("s", HostFree("~FDCloser", "s"))>>)

NetworkConnectToServer ==
    Function({}, {"client"}, {"connected"},
        <<HostNew("socket", "client"), OnBad(Host("inet_pton"), "close"),
          OnBad(Does(Host("connect"), "connected"), "close"), Return,
          At("close"), HostFree("close", "client"), Fail>>)

NetworkHandleSandboxee(failed) ==
    <<OnBad(HostNew("ConnectToServer", "client"), failed),
      Else(Does(Transfer("SendFD", {"client"}), "sent"), "close"), HostFree("close", "client"),
      Goto("result"), At("close"), HostFree("close", "client"), Goto(failed)>>

\* A sandboxee that ends well without its descriptor is a success.
NetworkMain ==
    Unearned(
        Sandbox2Main({"finished", "sent"},
            <<RunAsync>> \o NetworkHandleSandboxee("not sent") \o KillUnlessTerminated("not sent")
            \o <<At("result")>> \o CheckResult),
        {"sent"})

NetworkRead == <<At("more"), Host("read"), Either("more"), Does(Host("strcmp"), "received")>>

NetworkBin ==
    Leaking(Function({}, {}, {"received"},
                <<Host("SandboxMeHere"), Makes(Transfer("RecvFD", {}), "client")>> \o NetworkRead),
            {"client"})

NetworkProxyMain ==
    Sandbox2Main({"finished"}, <<RunAsync, Transfer("SendInt32", {"sandboxee"})>> \o CheckResult)

\* FDCloser lets go of the socket only when it is connected.
NetworkProxyConnectToServer ==
    Function({}, {"s"}, {"connected"},
        <<Host("inet_pton"), HostNew("socket", "s"),
          Else(Does(Call("Connect", {"s"}), "connected"), "close"), Return,
          At("close"), HostFree("~FDCloser", "s"), Fail>>)

NetworkProxyBin ==
    Cleanup(Function({}, {}, {"received"},
                <<Host("SandboxMeHere"), Either("client"), Host("InstallNetworkProxyHandler"),
                  At("client"), Transfer("RecvInt32", {}), HostNew("ConnectToServer", "client")>>
                \o NetworkRead),
            <<If("client", HostFree("~FDCloser", "client"))>>)

ExamplePrograms ==
       "sum transaction" :> SumTransactionMain @@ "sum test_addition" :> SumTestAddition
    @@ "sum main" :> SumMain @@ "stringop" :> StringopReplace
    @@ "hello main" :> HelloMain @@ "hello transacted" :> HelloTransacted @@ "zlib main" :> ZlibMain
    @@ "sandbox2tool" :> ToolMain @@ "crc4 main" :> Crc4Main @@ "crc4bin" :> Crc4Bin
    @@ "static main" :> StaticMain @@ "static_bin" :> StaticBin
    @@ "custom_fork iteration" :> CustomForkIteration @@ "custom_fork main" :> CustomForkMain
    @@ "custom_fork_bin" :> CustomForkBin @@ "zpipe main" :> ZpipeMain @@ "zpipe def" :> ZpipeDef
    @@ "zpipe inf" :> ZpipeInf @@ "network server" :> NetworkServer
    @@ "network connect" :> NetworkConnectToServer @@ "network main" :> NetworkMain
    @@ "network_bin" :> NetworkBin @@ "network_proxy main" :> NetworkProxyMain
    @@ "network_proxy connect" :> NetworkProxyConnectToServer
    @@ "networkproxy_bin" :> NetworkProxyBin
================================================================================
