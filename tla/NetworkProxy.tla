----------------------------- MODULE NetworkProxy -----------------------------
(***************************************************************************)
(* The network proxy (sandbox2/network_proxy): threads of the sandboxee    *)
(* ask for connections through one NetworkProxyClient, a thread of the     *)
(* host (NetworkProxyServer::Run) makes them and sends the sockets, and    *)
(* the monitor ends the run when a host is asked for that is not allowed.  *)
(* The two ends of the Comms channel are queues; a receive fails once the  *)
(* other end is closed in every process and the queue is empty.            *)
(***************************************************************************)
EXTENDS Naturals, Sequences

CONSTANTS ProxyThreads,   \* threads of the sandboxee
          OpenHosts,      \* allowed hosts that accept connections
          RefusingHosts,  \* allowed hosts that may refuse them
          MaxConnects     \* calls of Connect() by each thread

\* A host that is not allowed, and an address of the wrong size or family.
Forbidden == "forbidden"
Malformed == "malformed"
AllowedAddresses == OpenHosts \cup RefusingHosts
Addresses == AllowedAddresses \cup {Forbidden, Malformed}

ASSUME AddressesAssumption ==
    {Forbidden, Malformed, "error", "none", "empty"} \cap AllowedAddresses = {}

VARIABLES
    clientPc,     \* where each thread is in Connect()
    clientAsks,   \* the address it asks for
    clientCalls,  \* the calls it has made
    clientGot,    \* its last outcome: the peer of its socket, or an error
    clientMutex,  \* the threads in Connect() past its lock
    toServer, toClient,
    serverPc, serverAddr,
    fatal_error, violation_occurred, violation_msg,
    proxied,      \* the sandboxee is alive
    fdMapped,     \* the host still holds the client's end (IPC::fd_map_)
    refused,      \* history: a connect() of the server has failed
    watcher,      \* the monitor: "watching", "killing", "done" or "gone"
    netReport     \* what the result says of the network

clientVars == <<clientPc, clientAsks, clientCalls, clientGot, clientMutex>>
serverVars == <<serverPc, serverAddr, fatal_error, violation_occurred,
                violation_msg, refused>>
watcherVars == <<proxied, fdMapped, watcher, netReport>>
proxyVars == <<clientVars, serverVars, watcherVars, toServer, toClient>>

\* EnableNetworkProxyServer() runs before the sandboxee is started, which may
\* fail.
ProxyInit ==
    /\ clientPc = [t \in ProxyThreads |-> "idle"]
    /\ clientAsks = [t \in ProxyThreads |-> Malformed]
    /\ clientCalls = [t \in ProxyThreads |-> 0]
    /\ clientGot = [t \in ProxyThreads |-> "none"]
    /\ clientMutex = {}
    /\ toServer = <<>> /\ toClient = <<>>
    /\ serverPc = "receive" /\ serverAddr = Malformed
    /\ fatal_error = FALSE /\ violation_occurred = FALSE /\ violation_msg = "empty"
    /\ refused = FALSE
    /\ proxied \in BOOLEAN /\ fdMapped = TRUE
    /\ watcher = "watching" /\ netReport = "unset"

\* Some process holds the client's end of the channel.
ClientEndOpen == proxied \/ fdMapped

-----------------------------------------------------------------------------
(* NetworkProxyClient                                                      *)

Connect(t, a) ==
    /\ proxied /\ clientPc[t] = "idle" /\ clientCalls[t] < MaxConnects
    /\ clientPc' = [clientPc EXCEPT ![t] = "lock"]
    /\ clientAsks' = [clientAsks EXCEPT ![t] = a]
    /\ clientCalls' = [clientCalls EXCEPT ![t] = @ + 1]
    /\ UNCHANGED <<clientGot, clientMutex, serverVars, watcherVars,
                   toServer, toClient>>

MayEnter(t) == clientMutex = {}

\* Under the mutex: a socket that is none, or not a stream, is an error; else
\* the address is sent.
SendAddress(t) ==
    /\ proxied /\ clientPc[t] = "lock" /\ MayEnter(t)
    /\ \/ /\ clientPc' = [clientPc EXCEPT ![t] = "idle"]
          /\ clientGot' = [clientGot EXCEPT ![t] = "error"]
          /\ UNCHANGED <<clientMutex, toServer>>
       \/ /\ clientPc' = [clientPc EXCEPT ![t] = "result"]
          /\ clientMutex' = clientMutex \cup {t}
          /\ toServer' = Append(toServer, clientAsks[t])
          /\ UNCHANGED clientGot
    /\ UNCHANGED <<clientAsks, clientCalls, serverVars, watcherVars,
                   toClient>>

ReturnFromConnect(t, outcome) ==
    /\ clientPc' = [clientPc EXCEPT ![t] = "idle"]
    /\ clientGot' = [clientGot EXCEPT ![t] = outcome]
    /\ clientMutex' = clientMutex \ {t}

\* ReceiveRemoteResult: a message that is no integer, or not zero, is an error.
ReceiveRemoteResult(t) ==
    /\ proxied /\ clientPc[t] = "result" /\ toClient # <<>>
    /\ toClient' = Tail(toClient)
    /\ IF Head(toClient) = "success"
       THEN /\ clientPc' = [clientPc EXCEPT ![t] = "socket"]
            /\ UNCHANGED <<clientGot, clientMutex>>
       ELSE ReturnFromConnect(t, "error")
    /\ UNCHANGED <<clientAsks, clientCalls, serverVars, watcherVars,
                   toServer>>

\* The socket is received and dup2() puts it in the place of sockfd, or fails.
ReceiveSocket(t) ==
    /\ proxied /\ clientPc[t] = "socket" /\ toClient # <<>>
    /\ toClient' = Tail(toClient)
    /\ \/ /\ Head(toClient) \in Addresses
          /\ ReturnFromConnect(t, Head(toClient))
       \/ ReturnFromConnect(t, "error")
    /\ UNCHANGED <<clientAsks, clientCalls, serverVars, watcherVars, toServer>>

ProxyClientStep(t) ==
    SendAddress(t) \/ ReceiveRemoteResult(t) \/ ReceiveSocket(t)

-----------------------------------------------------------------------------
(* NetworkProxyServer                                                      *)

\* SendError, NotifySuccess, SendFD: a failing send is fatal.
Reply(message) ==
    IF ClientEndOpen
    THEN toClient' = Append(toClient, message) /\ UNCHANGED fatal_error
    ELSE fatal_error' = TRUE /\ UNCHANGED toClient

Serving == ~fatal_error /\ ~violation_occurred

\* Mutant: every host is allowed.
HostAllowedAlways(a) == TRUE

HostAllowed(a) == a \in AllowedAddresses

\* The first part of ProcessConnectRequest, up to connect().
ReceiveRequest ==
    /\ serverPc = "receive" /\ Serving
    /\ toServer # <<>>
    /\ toServer' = Tail(toServer)
    /\ LET a == Head(toServer)
       IN  /\ serverAddr' = a
           /\ \/ /\ a = Malformed
                 /\ Reply("errno")
                 /\ UNCHANGED serverPc
              \/ /\ a # Malformed /\ ~HostAllowed(a)
                 /\ serverPc' = "violation"
                 /\ UNCHANGED <<fatal_error, toClient>>
              \/ /\ a # Malformed /\ HostAllowed(a)
                 /\ serverPc' = "connecting"
                 /\ UNCHANGED <<fatal_error, toClient>>
              \/ /\ a # Malformed /\ HostAllowed(a)
                 /\ Reply("errno")
                 /\ UNCHANGED serverPc
    /\ UNCHANGED <<violation_occurred, violation_msg, refused, clientVars,
                   watcherVars>>

ReceiveFails ==
    /\ serverPc = "receive" /\ Serving
    /\ toServer = <<>> /\ ~ClientEndOpen
    /\ fatal_error' = TRUE
    /\ UNCHANGED <<serverPc, serverAddr, violation_occurred, violation_msg,
                   refused, clientVars, watcherVars, toServer, toClient>>

NotifyViolationUnchanged ==
    UNCHANGED <<serverAddr, fatal_error, refused, clientVars, watcherVars, toServer,
                toClient>>

\* NotifyViolation: the message, then the flag.  The signal that follows goes to
\* the thread that launched the sandboxee, not to the monitor, which finds the
\* flag when it next wakes up.
NotifyViolation ==
    /\ \/ /\ serverPc = "violation" /\ violation_msg = "empty"
          /\ violation_msg' = serverAddr
          /\ UNCHANGED <<violation_occurred, serverPc>>
       \/ /\ serverPc = "violation" /\ violation_msg # "empty"
          /\ violation_occurred' = TRUE /\ serverPc' = "receive"
          /\ UNCHANGED violation_msg
    /\ NotifyViolationUnchanged

\* connect() returns.  Nothing is sent when it failed.
ConnectSucceeds ==
    /\ serverPc = "connecting"
    /\ Reply("success")
    /\ serverPc' = (IF ClientEndOpen THEN "send" ELSE "receive")
    /\ UNCHANGED <<serverAddr, violation_occurred, violation_msg, refused, clientVars,
                   watcherVars, toServer>>

ConnectFails ==
    /\ serverPc = "connecting" /\ serverAddr \notin OpenHosts
    /\ serverPc' = "receive" /\ refused' = TRUE
    /\ UNCHANGED <<serverAddr, fatal_error, violation_occurred, violation_msg,
                   clientVars, watcherVars, toServer, toClient>>

SendSocket ==
    /\ serverPc = "send"
    /\ Reply(serverAddr)
    /\ serverPc' = "receive"
    /\ UNCHANGED <<serverAddr, violation_occurred, violation_msg, refused, clientVars,
                   watcherVars, toServer>>

LeaveRun ==
    /\ serverPc = "receive" /\ ~Serving
    /\ serverPc' = "ended"
    /\ UNCHANGED <<serverAddr, fatal_error, violation_occurred,
                   violation_msg, refused, clientVars, watcherVars, toServer, toClient>>

ProxyServerStep == ReceiveRequest \/ ReceiveFails \/ NotifyViolation
                   \/ ConnectSucceeds \/ ConnectFails \/ SendSocket \/ LeaveRun

-----------------------------------------------------------------------------
(* The monitor and the end of the sandboxee                                *)

SandboxeeEnds ==
    /\ proxied /\ proxied' = FALSE
    /\ UNCHANGED <<fdMapped, watcher, netReport, clientVars, serverVars, toServer,
                   toClient>>

NoticeViolation ==
    /\ watcher = "watching" /\ violation_occurred
    /\ watcher' = "killing"
    /\ UNCHANGED <<proxied, fdMapped, netReport, clientVars, serverVars, toServer,
                   toClient>>

KillForViolation == watcher = "killing" /\ SandboxeeEnds

\* Mutant: the host keeps its descriptors of the client's ends.
WatcherDoneKeepsFds ==
    /\ watcher \in {"watching", "killing"} /\ ~proxied
    /\ netReport' = (IF watcher = "killing" THEN violation_msg ELSE "none")
    /\ watcher' = "done"
    /\ UNCHANGED <<fdMapped, proxied, clientVars, serverVars, toServer, toClient>>

\* The result is set, and OnDone() closes the descriptors of IPC::fd_map_.
WatcherDone ==
    /\ watcher \in {"watching", "killing"} /\ ~proxied
    /\ netReport' = (IF watcher = "killing" THEN violation_msg ELSE "none")
    /\ watcher' = "done" /\ fdMapped' = FALSE
    /\ UNCHANGED <<proxied, clientVars, serverVars, toServer, toClient>>

\* ~MonitorBase joins the thread of the server.
JoinServer ==
    /\ watcher = "done" /\ serverPc = "ended"
    /\ watcher' = "gone"
    /\ UNCHANGED <<proxied, fdMapped, netReport, clientVars, serverVars, toServer,
                   toClient>>

WatcherStep == NoticeViolation \/ KillForViolation \/ WatcherDone \/ JoinServer

ProxyNext ==
    \/ \E t \in ProxyThreads : (\E a \in Addresses : Connect(t, a)) \/ ProxyClientStep(t)
    \/ ProxyServerStep \/ WatcherStep \/ SandboxeeEnds

ProxySpec == ProxyInit /\ [][ProxyNext]_proxyVars

-----------------------------------------------------------------------------
Outcomes == Addresses \cup {"none", "error"}

\* Threads that connect at the same time through the one NetworkProxyClient get
\* each the socket it asked for, connected to a host that is allowed.
SocketsAreOwn ==
    \A t \in ProxyThreads :
      clientPc[t] = "idle" /\ clientGot[t] \in Addresses =>
        clientGot[t] = clientAsks[t] /\ clientGot[t] \in AllowedAddresses

\* A run that the monitor ended for a network violation names the host in its
\* result: violation_msg_ is complete when violation_occurred_ is seen.
ReportNamesHost == netReport # "empty"

\* Whatever happens to the sandboxee, the thread of the server ends and with it
\* ~MonitorBase returns; a violation leads there.  A call of Connect() returns
\* unless the sandboxee ends, or the server failed to connect to a host before.
\* And the run that a violation ended names its host.
ProxyCallsReturn ==
    /\ []ReportNamesHost
    /\ (violation_occurred \/ ~proxied) ~> watcher = "gone"
    /\ \A t \in ProxyThreads :
         (clientPc[t] # "idle") ~> (clientPc[t] = "idle" \/ ~proxied \/ refused)

\* "Establishes a new network connection with semantics similar to a regular
\* connect() call." (network_proxy/client.h): the call returns, also when the
\* connection is refused.
ConnectReturnsLikeConnect ==
    \A t \in ProxyThreads : (clientPc[t] # "idle") ~> (clientPc[t] = "idle" \/ ~proxied)
=============================================================================
