------------------------------- MODULE Launch -------------------------------
(***************************************************************************)
(* Starting a sandboxee: MonitorBase::Launch and ForkClient::SendRequest   *)
(* in the host, ForkServer::ServeRequest in the fork-server, LaunchChild   *)
(* and the init process, and the sandboxee's half of the handshake         *)
(* (sandbox2/client.cc).  The host talks to the fork-server over one       *)
(* socket and to the sandboxee over another, the fork-server learns the    *)
(* pids over a third.  Any process may die between two steps.              *)
(***************************************************************************)
EXTENDS Naturals, Sequences

CONSTANTS MaxFds,   \* bound on the descriptors mapped into the sandboxee
          Faults    \* what may go wrong: the processes that may die, the calls
                    \* that may fail

FaultKinds == {"server", "init", "client", "path", "fork", "notify", "limits", "attach",
               "pipe"}

ASSUME LaunchAssumption == MaxFds \in Nat /\ Faults \subseteq FaultKinds

\* Namespaces come with an init process (CLONE_NEWPID) and are required by the
\* unotify monitor (Sandbox2::EnableUnotifyMonitor).  A launch without faults
\* is a mode of its own.
Modes == {m \in [namespaces : BOOLEAN, unotify : BOOLEAN, execve : BOOLEAN,
                 fds : 0 .. MaxFds, faults : {{}, Faults}] : m.unotify => m.namespaces}

VARIABLES
    mode,
    pc, reason,          \* host: MonitorBase::Launch
    process,             \* host: SandboxeeProcess
    limited, attached,   \* host: limits applied, monitor attached
    destroyed,           \* host: the Sandbox2 object and its Comms are gone
    to_server, from_server,
    fs, fs_pids,         \* fork-server: step of ServeRequest, pids to report
    signaling,           \* the socket pair the pids are sent over
    init,                \* the init process
    client, fds_left,    \* the sandboxee: step of the handshake
    holders,             \* who holds the sandboxee's end of its Comms
    to_client, from_client,
    killed,              \* processes with a SIGKILL pending
    confused             \* the sandboxee received something unexpected

host == <<pc, reason, process, limited, attached, destroyed>>
server == <<fs, fs_pids>>
sandboxee == <<init, client, fds_left, confused>>
sockets == <<to_server, from_server, signaling, to_client, from_client>>
vars == <<mode, host, server, sandboxee, sockets, holders, killed>>

NoProcess == [init |-> "invalid", main |-> "invalid"]

ClientAlive == client \notin {"none", "dead"}
InitAlive == init \notin {"none", "dead"}

Init ==
    /\ mode \in Modes
    /\ pc = "start" /\ reason = "none" /\ process = NoProcess
    /\ limited = FALSE /\ attached = FALSE /\ destroyed = FALSE
    /\ to_server = <<>> /\ from_server = <<>> /\ signaling = <<>>
    /\ to_client = <<>> /\ from_client = <<>>
    /\ fs = "request" /\ fs_pids = NoProcess
    /\ init = "none" /\ client = "none" /\ fds_left = 0 /\ confused = FALSE
    /\ holders = {"host"} /\ killed = {}

-----------------------------------------------------------------------------
(***************************************************************************)
(* The host.  Every failure of Launch runs process_cleanup and OnDone.     *)
(***************************************************************************)
ProcessCleanup ==
    IF process.init = "pid" THEN {"init"}
    ELSE IF process.main = "pid" THEN {"client"} ELSE {}

Fail(code) ==
    /\ pc' = "failed" /\ reason' = code
    /\ killed' = killed \cup ProcessCleanup
    /\ UNCHANGED <<mode, process, limited, attached, destroyed, server, sandboxee,
                   sockets, holders>>

OthersUnchanged == UNCHANGED <<mode, server, sandboxee, killed>>

\* Executor::StartSubProcess up to the request: opening the binary may fail.
StartSubProcess ==
    /\ pc = "start"
    /\ \/ "path" \in mode.faults /\ mode.execve /\ Fail("FAILED_SUBPROCESS")
       \/ /\ pc' = "send_request"
          /\ UNCHANGED <<reason, process, limited, attached, destroyed, sockets, holders>>
          /\ OthersUnchanged

\* Mutant: the host keeps its copy of the sandboxee's end.
ReturnProcessOpen(proc) ==
    /\ pc' = "started" /\ process' = proc
    /\ UNCHANGED <<holders, reason, limited, attached, destroyed>> /\ OthersUnchanged

\* ForkClient::SendRequest returns; StartSubProcess closes client_comms_fd_.
ReturnProcess(proc) ==
    /\ pc' = "started" /\ process' = proc
    /\ holders' = holders \ {"host"}
    /\ UNCHANGED <<reason, limited, attached, destroyed>> /\ OthersUnchanged

\* A descriptor on its way keeps the socket open until the receiver is gone.
SendToServer(step, message, next) ==
    /\ pc = step
    /\ \/ fs = "dead" /\ ReturnProcess(process) /\ UNCHANGED sockets
       \/ /\ fs # "dead"
          /\ to_server' = Append(to_server, message)
          /\ holders' = IF message = "comms_fd" THEN holders \cup {"server"} ELSE holders
          /\ pc' = next
          /\ UNCHANGED <<reason, process, limited, attached, destroyed, from_server,
                         signaling, to_client, from_client>>
          /\ OthersUnchanged

SendRequest ==
    \/ SendToServer("send_request", "request", "send_comms_fd")
    \/ SendToServer("send_comms_fd", "comms_fd",
                    IF mode.execve THEN "send_exec_fd" ELSE "recv_init_pid")
    \/ SendToServer("send_exec_fd", "exec_fd", "recv_init_pid")

FromServer(step) == pc = step /\ from_server # <<>> /\ from_server' = Tail(from_server)

HostReceives ==
    UNCHANGED <<reason, limited, attached, destroyed, to_server, signaling,
                to_client, from_client>>

RecvInitPid ==
    /\ FromServer("recv_init_pid")
    /\ process' = [process EXCEPT !.init = Head(from_server)]
    /\ pc' = "recv_main_pid"
    /\ UNCHANGED holders /\ HostReceives /\ OthersUnchanged

RecvMainPid ==
    /\ FromServer("recv_main_pid")
    /\ LET proc == [process EXCEPT !.main = Head(from_server)]
       IN  IF mode.unotify
           THEN /\ process' = proc /\ pc' = "recv_status_fd"
                /\ UNCHANGED holders /\ HostReceives /\ OthersUnchanged
           ELSE ReturnProcess(proc) /\ UNCHANGED <<to_server, signaling, to_client, from_client>>

RecvStatusFd ==
    /\ FromServer("recv_status_fd")
    /\ ReturnProcess(process)
    /\ UNCHANGED <<to_server, signaling, to_client, from_client>>

RecvFails ==
    /\ pc \in {"recv_init_pid", "recv_main_pid", "recv_status_fd"}
    /\ from_server = <<>> /\ fs = "dead"
    /\ ReturnProcess(process) /\ UNCHANGED sockets

PidMissing == process.main # "pid" \/ (mode.namespaces /\ process.init # "pid")

\* The pids are checked, and EventStarted may refuse.
CheckProcess ==
    /\ pc = "started"
    /\ \/ PidMissing /\ Fail("FAILED_SUBPROCESS")
       \/ ~PidMissing /\ "notify" \in mode.faults /\ Fail("FAILED_NOTIFY")
       \/ /\ ~PidMissing /\ pc' = "ipc"
          /\ UNCHANGED <<reason, process, limited, attached, destroyed, sockets, holders>>
          /\ OthersUnchanged

\* Sending succeeds while anybody holds the other end.
Deliver(messages, next) ==
    /\ holders # {}
    /\ to_client' = to_client \o messages
    /\ pc' = next
    /\ UNCHANGED <<reason, process, limited, attached, destroyed, to_server,
                   from_server, signaling, from_client, holders>>
    /\ OthersUnchanged

SendToClient(step, messages, next, code) ==
    /\ pc = step
    /\ \/ holders = {} /\ Fail(code)
       \/ Deliver(messages, next)

\* Three messages for each mapped descriptor.
MappedFd == <<"requested", "fd", "name">>
MappedFds(n) == [i \in 1 .. 3 * n |-> MappedFd[((i - 1) % 3) + 1]]

InitSendIPC ==
    SendToClient("ipc", <<"count">> \o MappedFds(mode.fds), "cwd", "FAILED_IPC")

InitSendCwd == SendToClient("cwd", <<"cwd">>, "policy", "FAILED_CWD")

\* Mutant: the host does not wait for the sandboxee to be ready.
InitSendPolicyOnly == SendToClient("policy", <<"policy">>, "limits", "FAILED_POLICY")

InitSendPolicy == SendToClient("policy", <<"policy">>, "ready", "FAILED_POLICY")

FromClient(step, message, next) ==
    /\ pc = step /\ from_client # <<>> /\ Head(from_client) = message
    /\ from_client' = Tail(from_client)
    /\ pc' = next
    /\ UNCHANGED <<reason, process, limited, attached, destroyed, to_server, from_server,
                   signaling, to_client, holders>>
    /\ OthersUnchanged

ClientHangsUp(step, message) ==
    /\ pc = step
    /\ IF from_client = <<>> THEN holders = {} ELSE Head(from_client) # message

WaitForSandboxReady ==
    \/ FromClient("ready", "ready", "limits")
    \/ ClientHangsUp("ready", "ready") /\ Fail("FAILED_WAIT")

\* prlimit64 fails once the process is gone; a zombie still takes the limits.
InitApplyLimits ==
    /\ pc = "limits"
    /\ \/ (client = "dead" \/ "limits" \in mode.faults) /\ Fail("FAILED_LIMITS")
       \/ /\ limited' = TRUE /\ pc' = "run"
          /\ UNCHANGED <<reason, process, attached, destroyed, sockets, holders>>
          /\ OthersUnchanged

\* RunInternal, up to setup_notification_: process_cleanup is cancelled.
SetupFails ==
    /\ pc' = "setup_failed"
    /\ UNCHANGED <<mode, reason, process, limited, attached, destroyed, server,
                   sandboxee, sockets, holders, killed>>

\* PtraceMonitor::InitPtraceAttach: seize, then tell the sandboxee.
PtraceAttach ==
    /\ pc = "run" /\ ~mode.unotify
    /\ \/ (client = "dead" \/ "attach" \in mode.faults) /\ SetupFails
       \/ /\ ClientAlive
          /\ attached' = TRUE /\ pc' = "send_done"
          /\ UNCHANGED <<reason, process, limited, destroyed, sockets, holders>>
          /\ OthersUnchanged

SendClientDone ==
    /\ pc = "send_done"
    /\ \/ holders = {} /\ SetupFails
       \/ Deliver(<<"done">>, "monitoring")

\* UnotifyMonitor::InitSetupUnotify: tell the sandboxee, then get its listener.
InitSetupUnotify ==
    \/ /\ pc = "run" /\ mode.unotify
       /\ \/ holders = {} /\ SetupFails
          \/ Deliver(<<"unotify">>, "recv_listener")
    \/ FromClient("recv_listener", "listener", "notify_pipe")
    \/ ClientHangsUp("recv_listener", "listener") /\ SetupFails

\* Asking for the sizes of a notification, then InitSetupNotifyPipe: either may
\* fail with the sandboxee let go already.
InitSetupNotifyPipe ==
    /\ pc = "notify_pipe"
    /\ \/ "pipe" \in mode.faults /\ SetupFails
       \/ /\ pc' = "monitoring"
          /\ UNCHANGED <<reason, process, limited, attached, destroyed, sockets, holders>>
          /\ OthersUnchanged

\* ~Sandbox2 after a start that failed closes the host's end of the Comms.
Destroy ==
    /\ pc \in {"failed", "setup_failed"} /\ ~destroyed
    /\ destroyed' = TRUE
    /\ UNCHANGED <<pc, reason, process, limited, attached, sockets, holders>>
    /\ OthersUnchanged

Host ==
    \/ StartSubProcess \/ SendRequest \/ RecvInitPid \/ RecvMainPid \/ RecvStatusFd
    \/ RecvFails \/ CheckProcess \/ InitSendIPC \/ InitSendCwd \/ InitSendPolicy
    \/ WaitForSandboxReady \/ InitApplyLimits \/ PtraceAttach \/ SendClientDone
    \/ InitSetupUnotify \/ InitSetupNotifyPipe

-----------------------------------------------------------------------------
(***************************************************************************)
(* The fork-server: one pass of ForkServer::ServeRequest.                  *)
(***************************************************************************)
ServerUnchanged == UNCHANGED <<mode, host, client, fds_left, confused>>

FromHost(step, message, next) ==
    /\ fs = step /\ to_server # <<>> /\ Head(to_server) = message
    /\ to_server' = Tail(to_server)
    /\ fs' = next
    /\ UNCHANGED <<fs_pids, init, from_server, signaling, to_client, from_client, holders, killed>>
    /\ ServerUnchanged

ReceiveRequest ==
    \/ FromHost("request", "request", "comms_fd")
    \/ FromHost("comms_fd", "comms_fd", IF mode.execve THEN "exec_fd" ELSE "fork")
    \/ FromHost("exec_fd", "exec_fd", "fork")

\* The sandboxee is forked, or with namespaces (by way of a process that joins
\* the initial ones) the init process.
Fork ==
    /\ fs = "fork"
    /\ fs' = IF mode.namespaces THEN "recv_init" ELSE "close"
    /\ \/ /\ "fork" \in mode.faults
          /\ fs_pids' = [init |-> "zero", main |-> "invalid"]
          /\ UNCHANGED <<init, client, holders>>
       \/ /\ mode.namespaces
          /\ fs_pids' = [init |-> "zero", main |-> "invalid"]
          /\ init' = "new" /\ holders' = holders \cup {"init"}
          /\ UNCHANGED client
       \/ /\ ~mode.namespaces
          /\ fs_pids' = [init |-> "zero", main |-> "pid"]
          /\ client' = "boot" /\ holders' = holders \cup {"client"}
          /\ UNCHANGED init
    /\ UNCHANGED <<mode, host, fds_left, confused, sockets, killed>>

\* ReceivePid: end of file when no process holds the other end any more.
SignalingOpen == init \in {"new", "launch", "forked"} \/ ClientAlive

ReceivePid(step, received, failed, next) ==
    /\ fs = step /\ fs' = next
    /\ \/ /\ signaling # <<>>
          /\ signaling' = Tail(signaling) /\ fs_pids' = received
          /\ UNCHANGED killed
       \/ /\ signaling = <<>> /\ ~SignalingOpen
          /\ fs_pids' = failed
          /\ killed' = IF step = "recv_main" /\ fs_pids.init = "pid"
                       THEN killed \cup {"init"} ELSE killed
          /\ UNCHANGED signaling
    /\ UNCHANGED <<init, to_server, from_server, to_client, from_client, holders>>
    /\ ServerUnchanged

ReceivePids ==
    \/ ReceivePid("recv_init", [init |-> "pid", main |-> "invalid"], NoProcess, "recv_main")
    \/ ReceivePid("recv_main", [fs_pids EXCEPT !.main = "pid"], NoProcess, "close")

CloseFds ==
    /\ fs = "close" /\ fs' = "reply_init"
    /\ holders' = holders \ {"server"}
    /\ UNCHANGED <<fs_pids, init, sockets, killed>> /\ ServerUnchanged

Reply(step, message, next) ==
    /\ fs = step /\ fs' = next
    /\ from_server' = Append(from_server, message)
    /\ UNCHANGED <<fs_pids, init, to_server, signaling, to_client, from_client, holders, killed>>
    /\ ServerUnchanged

SendReply ==
    \/ Reply("reply_init", fs_pids.init, "reply_main")
    \/ Reply("reply_main", fs_pids.main, IF mode.unotify THEN "reply_status" ELSE "served")
    \/ Reply("reply_status", "status_fd", "served")

ServeRequest == ReceiveRequest \/ Fork \/ ReceivePids \/ CloseFds \/ SendReply

-----------------------------------------------------------------------------
(***************************************************************************)
(* The init process and the sandboxee: LaunchChild and the Client.         *)
(***************************************************************************)
InitUnchanged == UNCHANGED <<mode, host, server, fds_left, confused, to_server,
                             from_server, to_client, from_client, killed>>

InitSendPid ==
    /\ init = "new" /\ init' = "launch"
    /\ signaling' = Append(signaling, "init")
    /\ UNCHANGED <<client, holders>> /\ InitUnchanged

InitForks ==
    /\ init = "launch" /\ init' = "forked"
    /\ client' = "boot" /\ holders' = holders \cup {"client"}
    /\ UNCHANGED signaling /\ InitUnchanged

\* Mutant: the init process stays when the sandboxee is gone.
RunInitProcessOn ==
    /\ init = "forked" /\ init' = "reaper"
    /\ holders' = holders \ {"init"}
    /\ UNCHANGED <<client, signaling>> /\ InitUnchanged

\* RunInitProcess closes what was open, then waits for the sandboxee.
RunInitProcess ==
    /\ \/ /\ init = "forked" /\ init' = "reaper"
          /\ holders' = holders \ {"init"}
       \/ /\ init = "reaper" /\ client = "dead"
          /\ init' = "dead" /\ UNCHANGED holders
    /\ UNCHANGED <<client, signaling>> /\ InitUnchanged

ClientUnchanged == UNCHANGED <<mode, host, server, init, to_server, from_server, killed>>

LaunchChild ==
    /\ client = "boot" /\ client' = "count"
    /\ signaling' = IF mode.namespaces THEN Append(signaling, "main") ELSE signaling
    /\ UNCHANGED <<fds_left, confused, to_client, from_client, holders>> /\ ClientUnchanged

\* SAPI_RAW_CHECK in the sandboxee.
ClientAborts(mixed_up) ==
    /\ client' = "dead" /\ confused' = (confused \/ mixed_up)
    /\ holders' = holders \ {"client"}
    /\ UNCHANGED <<fds_left, signaling, to_client, from_client>> /\ ClientUnchanged

ClientRecv(step, messages, next, left) ==
    /\ client = step
    /\ \/ /\ to_client # <<>> /\ Head(to_client) \in messages
          /\ to_client' = Tail(to_client)
          /\ client' = next /\ fds_left' = left
          /\ UNCHANGED <<confused, signaling, from_client, holders>> /\ ClientUnchanged
       \/ to_client # <<>> /\ Head(to_client) \notin messages /\ ClientAborts(TRUE)
       \/ to_client = <<>> /\ destroyed /\ ClientAborts(FALSE)

\* Mutant: one descriptor too many is expected.
SetUpIPCOneMore ==
    \/ ClientRecv("count", {"count"}, "requested", mode.fds)
    \/ ClientRecv("requested", {"requested"}, "fd", fds_left)
    \/ ClientRecv("fd", {"fd"}, "name", fds_left)
    \/ ClientRecv("name", {"name"}, IF fds_left = 0 THEN "cwd" ELSE "requested", fds_left - 1)

SetUpIPC ==
    \/ ClientRecv("count", {"count"}, IF mode.fds = 0 THEN "cwd" ELSE "requested", mode.fds)
    \/ ClientRecv("requested", {"requested"}, "fd", fds_left)
    \/ ClientRecv("fd", {"fd"}, "name", fds_left)
    \/ ClientRecv("name", {"name"}, IF fds_left = 1 THEN "cwd" ELSE "requested", fds_left - 1)

SetUpCwd == ClientRecv("cwd", {"cwd"}, "policy", fds_left)

ReceivePolicy == ClientRecv("policy", {"policy"}, "ready", fds_left)

ClientSend(step, message, next) ==
    /\ client = step
    /\ \/ /\ ~destroyed
          /\ from_client' = Append(from_client, message)
          /\ client' = next
          /\ UNCHANGED <<fds_left, confused, signaling, to_client, holders>> /\ ClientUnchanged
       \/ destroyed /\ ClientAborts(FALSE)

\* The kernel installs the filter.
Seccomp(step, next) ==
    /\ client = step /\ client' = next
    /\ UNCHANGED <<fds_left, confused, signaling, to_client, from_client, holders>>
    /\ ClientUnchanged

InitSeccompUnotify ==
    \/ Seccomp("listener", "sendfd")
    \/ ClientSend("sendfd", "listener", "tsync")
    \/ Seccomp("tsync", "run")

InitSeccompRegular == Seccomp("regular", "run")

Confirmed == IF to_client # <<>> /\ Head(to_client) = "unotify" THEN "listener" ELSE "regular"

ApplyPolicyAndBecomeTracee ==
    \/ ClientSend("ready", "ready", "confirm")
    \/ ClientRecv("confirm", {"done", "unotify"}, Confirmed, fds_left)
    \/ InitSeccompUnotify \/ InitSeccompRegular

Sandboxee ==
    \/ InitSendPid \/ InitForks \/ RunInitProcess
    \/ LaunchChild \/ SetUpIPC \/ SetUpCwd \/ ReceivePolicy \/ ApplyPolicyAndBecomeTracee

-----------------------------------------------------------------------------
(***************************************************************************)
(* Deaths.  With the init process dies everything in its pid namespace.    *)
(***************************************************************************)
Dies(proc) ==
    /\ \/ /\ proc = "client" /\ ClientAlive
          /\ client' = "dead" /\ holders' = holders \ {"client"}
          /\ UNCHANGED init
       \/ /\ proc = "init" /\ InitAlive
          /\ init' = "dead" /\ holders' = holders \ {"init", "client"}
          /\ client' = IF ClientAlive THEN "dead" ELSE client
    /\ UNCHANGED <<mode, host, server, fds_left, confused, sockets, killed>>

SigKillLands == \E proc \in killed : Dies(proc)

ProcessDies == \E proc \in mode.faults : Dies(proc)

ServerDies ==
    /\ "server" \in mode.faults /\ fs # "dead"
    /\ fs' = "dead" /\ to_server' = <<>> /\ holders' = holders \ {"server"}
    /\ UNCHANGED <<mode, host, fs_pids, sandboxee, from_server, signaling, to_client,
                   from_client, killed>>

Next ==
    \/ Host \/ Destroy \/ ServeRequest \/ Sandboxee
    \/ SigKillLands \/ ProcessDies \/ ServerDies

Spec == Init /\ [][Next]_vars

\* Every process runs, and a SIGKILL is delivered.  Nobody has to die, and the
\* Sandbox2 object need not be destroyed.
FairSpec == Spec /\ WF_vars(Host) /\ WF_vars(ServeRequest) /\ WF_vars(Sandboxee)
                 /\ WF_vars(SigKillLands)

-----------------------------------------------------------------------------
\* Both ends of each channel agree, although either side skips messages
\* depending on the mode.  The handshake (InitSendIPC, InitSendCwd,
\* InitSendPolicy against SetUpIPC, SetUpCwd, ReceivePolicy) leaves nothing in
\* the channel once the sandboxee runs under its filter: the Comms can be handed
\* to the user, as RunInternal assumes.  And when SendRequest returned and the
\* fork-server is alive, nothing is left over for the next request.
ChannelsInSync ==
    /\ ~confused
    /\ client = "run" => to_client = <<>>
    /\ pc = "monitoring" => from_client = <<>>
    /\ pc \notin {"start", "send_request", "send_comms_fd", "send_exec_fd",
                  "recv_init_pid", "recv_main_pid", "recv_status_fd"} =>
           (fs # "dead" => to_server = <<>> /\ from_server = <<>>)

\* "We want limits at the last moment" (client.cc): no sandboxed code runs
\* before the limits are applied and the monitor has attached, and the limits
\* are not applied to a sandboxee that is still setting itself up.
RunsLimitedAndMonitored ==
    /\ client \in {"regular", "listener", "sendfd", "tsync", "run"} =>
           limited /\ (mode.unotify \/ attached)
    /\ limited /\ ClientAlive =>
           client \in {"confirm", "regular", "listener", "sendfd", "tsync", "run"}

\* Launch ends, whoever dies at whatever step: the host never waits for a
\* message nobody is left to send.  Without faults it ends with the sandboxee
\* running and monitored, in every mode.
LaunchEnds ==
    /\ <>(pc \in {"failed", "setup_failed", "monitoring"})
    /\ mode.faults = {} ~> (pc = "monitoring" /\ client = "run")

\* The set-up of the unotify monitor failed after the sandboxee had been let go:
\* it no longer waits for the host, and no clean-up is left that would kill it.
LetGoUnmonitored == pc = "setup_failed" /\ client \in {"tsync", "run"}

\* A launch that failed leaves no process behind, unless the fork-server died
\* before it reported a pid that process_cleanup can kill; and when the Sandbox2
\* object is gone nothing is left, neither after a failed set-up of the monitor
\* nor after the fork-server's death, with the one exception the code makes:
\* the set-up of a unotify monitor that fails once it has the listener.
FailedLaunchCleansUp ==
    /\ pc = "failed" ~> \/ ~ClientAlive /\ ~InitAlive
                        \/ fs = "dead" /\ ProcessCleanup = {}
    /\ destroyed ~> (~ClientAlive /\ ~InitAlive) \/ LetGoUnmonitored
=============================================================================
