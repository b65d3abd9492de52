---------------------------- MODULE ChannelsProofs ----------------------------
(***************************************************************************)
(* The channels between host and sandboxee for any number of threads at    *)
(* either end.  A request to the network proxy gets its own socket, and a  *)
(* violation is reported in full; a request to the fork-server returns the *)
(* pids of its own sandboxee or none, and a fork-server that was lost is   *)
(* never used again.  And NoThreadEscapes for any set of threads: what the *)
(* monitor attaches to a sandboxee that the fork-server has started.       *)
(***************************************************************************)
EXTENDS NetworkProxy, ForkClients, PtraceAttach, TLAPS

\* The queues of a channel hold at most two messages.
LEMMA ShortQueues ==
    ASSUME NEW a, NEW b
    PROVE  /\ <<a>> # <<>> /\ <<a, b>> # <<>> /\ <<a>> # <<a, b>>
           /\ Append(<<>>, a) = <<a>> /\ Append(<<a>>, b) = <<a, b>>
           /\ <<>> \o <<a, b>> = <<a, b>>
           /\ Head(<<a>>) = a /\ Head(<<a, b>>) = a
           /\ Tail(<<a>>) = <<>> /\ Tail(<<a, b>>) = <<b>>
<1>1. <<a>> # <<>> /\ <<a, b>> # <<>> /\ <<a>> # <<a, b>>
    OBVIOUS
<1>2. Append(<<>>, a) = <<a>> /\ Append(<<a>>, b) = <<a, b>>
    <2>1. <<>> \in Seq({a, b}) /\ <<a>> \in Seq({a, b})
        OBVIOUS
    <2>2. Append(<<>>, a) = <<a>>
        BY <2>1
    <2>3. Append(<<a>>, b) = <<a, b>>
        <3> DEFINE s == Append(<<a>>, b)
        <3>1. s \in Seq({a, b}) /\ Len(s) = 2 /\ s[1] = a /\ s[2] = b
            BY <2>1
        <3> HIDE DEF s
        <3>2. s = <<a, b>>
            BY <3>1
        <3> QED BY <3>2, Zenon DEF s
    <2> QED BY <2>2, <2>3, Zenon
<1>3. Head(<<a>>) = a /\ Head(<<a, b>>) = a
    OBVIOUS
<1>4. Tail(<<a>>) = <<>>
    OBVIOUS
<1>5. Tail(<<a, b>>) = <<b>>
    OBVIOUS
<1>6. <<>> \o <<a, b>> = <<a, b>>
    <2>1. <<a, b>> \in Seq({a, b})
        OBVIOUS
    <2> QED BY <2>1
<1> QED BY <1>1, <1>2, <1>3, <1>4, <1>5, <1>6, Zenon

-----------------------------------------------------------------------------
(***************************************************************************)
(* The network proxy.                                                      *)
(***************************************************************************)
ClientType ==
    /\ clientPc \in [ProxyThreads -> {"idle", "lock", "result", "socket"}]
    /\ clientAsks \in [ProxyThreads -> Addresses]
    /\ clientGot \in [ProxyThreads -> Outcomes]
    /\ clientMutex \subseteq ProxyThreads

\* The mutex of the client: those past it, and only they, wait for an answer.
MutexInv ==
    /\ \A t \in ProxyThreads : t \in clientMutex <=> clientPc[t] \in {"result", "socket"}
    /\ \A t, u \in clientMutex : t = u

ServerIdle == serverPc \in {"receive", "ended"}

\* The channel holds nothing.
Quiet == toServer = <<>> /\ toClient = <<>>

\* Where the request of thread t may be: sent, with the server, answered in part
\* or in full, or lost because the server failed to connect or to answer.
RequestOf(t) ==
    \/ /\ clientPc[t] = "result" /\ ServerIdle
       /\ toServer = <<clientAsks[t]>> /\ toClient = <<>>
    \/ /\ clientPc[t] = "result" /\ Quiet
       /\ \/ serverPc = "violation" /\ serverAddr = clientAsks[t]
          \/ /\ serverPc = "connecting" /\ serverAddr = clientAsks[t]
             /\ clientAsks[t] \in AllowedAddresses
          \/ ServerIdle
    \/ /\ toServer = <<>> /\ serverPc = "send"
       /\ serverAddr = clientAsks[t] /\ clientAsks[t] \in AllowedAddresses
       /\ \/ clientPc[t] = "result" /\ toClient = <<"success">>
          \/ clientPc[t] = "socket" /\ toClient = <<>>
    \/ /\ toServer = <<>> /\ ServerIdle /\ clientPc[t] = "result"
       /\ \/ toClient = <<"errno">> \/ toClient = <<"success">>
          \/ toClient = <<"success", clientAsks[t]>> /\ clientAsks[t] \in AllowedAddresses
    \/ /\ toServer = <<>> /\ ServerIdle /\ clientPc[t] = "socket"
       /\ \/ toClient = <<>>
          \/ toClient = <<clientAsks[t]>> /\ clientAsks[t] \in AllowedAddresses

\* One request at a time is on its way, and it is that of the holder of the mutex.
ChannelInv ==
    /\ clientMutex = {} => Quiet /\ ServerIdle
    /\ \A t \in clientMutex : RequestOf(t)

\* The message is complete before the flag is set, and the flag is seen before
\* the monitor kills.
ViolationInv ==
    /\ violation_occurred \in BOOLEAN
    /\ violation_occurred => violation_msg # "empty" /\ ServerIdle
    /\ watcher = "killing" => violation_occurred
    /\ serverPc = "violation" => serverAddr # "empty"
    /\ netReport # "empty"

ProxyInv == ClientType /\ MutexInv /\ ChannelInv /\ ViolationInv /\ SocketsAreOwn

\* The proxy starts with an empty channel.
LEMMA ProxyInvInit == ProxyInit => ProxyInv
BY AddressesAssumption, ZenonT(30) DEF ProxyInit, ProxyInv, ClientType, MutexInv, ChannelInv,
    ViolationInv, SocketsAreOwn, Addresses, Outcomes, Quiet, ServerIdle, Forbidden,
    Malformed

\* A thread calls Connect().
LEMMA ConnectInv ==
    ASSUME ProxyInv, NEW t \in ProxyThreads, NEW a \in Addresses, Connect(t, a)
    PROVE  ProxyInv'
<1> USE DEF ProxyInv, Connect, serverVars, watcherVars
<1>1. ClientType'
    BY Zenon DEF ClientType
<1>2. MutexInv'
    BY Zenon DEF ClientType, MutexInv
<1>3. ChannelInv'
    <2>1. t \notin clientMutex
        BY Zenon DEF MutexInv
    <2>2. \A u \in clientMutex : clientPc'[u] = clientPc[u] /\ clientAsks'[u] = clientAsks[u]
        BY <2>1, Zenon DEF ClientType
    <2> QED BY <2>2, ZenonT(30) DEF ChannelInv, RequestOf, Quiet, ServerIdle
<1>4. ViolationInv'
    BY Zenon DEF ViolationInv, ServerIdle
<1>5. SocketsAreOwn'
    BY Zenon DEF SocketsAreOwn, ClientType
<1> QED BY <1>1, <1>2, <1>3, <1>4, <1>5, Zenon

\* It takes the mutex, so that the channel is empty when it sends the address.
LEMMA SendAddressInv ==
    ASSUME ProxyInv, NEW t \in ProxyThreads, SendAddress(t)
    PROVE  ProxyInv'
<1> USE DEF ProxyInv, SendAddress, MayEnter, serverVars, watcherVars
<1>1. ClientType'
    BY Zenon DEF ClientType, Outcomes
<1>2. MutexInv'
    BY Zenon DEF ClientType, MutexInv
<1>3. ChannelInv'
    BY ShortQueues, ZenonT(30) DEF ClientType, ChannelInv, RequestOf, Quiet, ServerIdle
<1>4. ViolationInv'
    BY Zenon DEF ViolationInv, ServerIdle
<1>5. SocketsAreOwn'
    BY AddressesAssumption, Zenon DEF SocketsAreOwn, ClientType, Addresses, Forbidden, Malformed
<1> QED BY <1>1, <1>2, <1>3, <1>4, <1>5, Zenon

\* It receives the result: an error ends the call, after which the channel is
\* empty; after a success the socket may follow.
LEMMA ReceiveRemoteResultInv ==
    ASSUME ProxyInv, NEW t \in ProxyThreads, ReceiveRemoteResult(t)
    PROVE  ProxyInv'
<1> USE DEF ProxyInv, ReceiveRemoteResult, ReturnFromConnect, serverVars, watcherVars
<1>1. ClientType'
    BY Zenon DEF ClientType, Outcomes
<1>2. MutexInv'
    BY Zenon DEF ClientType, MutexInv
<1>3. t \in clientMutex /\ RequestOf(t)
    BY Zenon DEF MutexInv, ChannelInv
<1>4. ChannelInv'
    <2>1. CASE Head(toClient) = "success"
        <3>1. clientMutex' = clientMutex /\ \A u \in clientMutex : u = t
            BY <1>3, <2>1, Zenon DEF MutexInv
        <3>2. clientPc'[t] = "socket"
            BY <2>1, Zenon DEF ClientType
        <3>3. /\ toServer = <<>>
              /\ \/ toClient = <<"success">> /\ (ServerIdle \/ serverPc = "send")
                 \/ toClient = <<"success", clientAsks[t]>> /\ ServerIdle
            BY <1>3, <2>1, ShortQueues, Zenon DEF RequestOf, Quiet
        <3>4. serverPc = "send" =>
                serverAddr = clientAsks[t] /\ clientAsks[t] \in AllowedAddresses
            BY <1>3, Zenon DEF RequestOf, ServerIdle
        <3>5. toClient = <<"success", clientAsks[t]>> => clientAsks[t] \in AllowedAddresses
            <4>1. \A c : <<c>> # <<"success", clientAsks[t]>>
                OBVIOUS
            <4>2. <<>> # <<"success", clientAsks[t]>>
                OBVIOUS
            <4> QED BY <1>3, <4>1, <4>2, Zenon DEF RequestOf, Quiet
        <3>6. toClient' = <<>> \/ (toClient = <<"success", clientAsks[t]>>
                                   /\ toClient' = <<clientAsks[t]>>)
            <4>1. Tail(<<"success">>) = <<>>
                  /\ Tail(<<"success", clientAsks[t]>>) = <<clientAsks[t]>>
                BY ShortQueues, Zenon
            <4>2. toClient' = Tail(toClient)
                OBVIOUS
            <4> HIDE DEF ReceiveRemoteResult, ProxyInv
            <4> QED BY <3>3, <4>1, <4>2, Zenon
        <3>7. RequestOf(t)'
            BY <3>2, <3>3, <3>4, <3>5, <3>6 DEF RequestOf, ServerIdle
        <3> QED BY <1>3, <3>1, <3>7, Zenon DEF ChannelInv
    <2>2. CASE Head(toClient) # "success"
        <3>1. toClient = <<"errno">> /\ toServer = <<>> /\ ServerIdle
            BY <1>3, <2>2, ShortQueues DEF RequestOf, Quiet
        <3>2. clientMutex' = {}
            BY <1>3, <2>2, Zenon DEF MutexInv
        <3> QED BY <3>1, <3>2 DEF ChannelInv, Quiet, ServerIdle
    <2> QED BY <2>1, <2>2, Zenon
<1>5. ViolationInv'
    BY Zenon DEF ViolationInv, ServerIdle
<1>6. SocketsAreOwn'
    BY AddressesAssumption, Zenon DEF SocketsAreOwn, ClientType, Addresses, Forbidden, Malformed
<1> QED BY <1>1, <1>2, <1>4, <1>5, <1>6, Zenon

\* It receives the socket: the one it asked for.
LEMMA ReceiveSocketInv ==
    ASSUME ProxyInv, NEW t \in ProxyThreads, ReceiveSocket(t)
    PROVE  ProxyInv'
<1> USE DEF ProxyInv, ReceiveSocket, ReturnFromConnect, serverVars, watcherVars
<1>1. ClientType'
    BY Zenon DEF ClientType, Outcomes
<1>2. MutexInv'
    BY Zenon DEF ClientType, MutexInv
<1>3. t \in clientMutex /\ RequestOf(t)
    BY Zenon DEF MutexInv, ChannelInv
<1>a. /\ toClient = <<clientAsks[t]>> /\ clientAsks[t] \in AllowedAddresses
      /\ toServer = <<>> /\ ServerIdle
    BY <1>3, Zenon DEF RequestOf, Quiet
<1>b. Head(toClient) = clientAsks[t] /\ Tail(toClient) = <<>>
    BY <1>a
<1>4. ChannelInv'
    BY <1>3, <1>a, <1>b, Zenon DEF MutexInv, ChannelInv, Quiet, ServerIdle
<1>5. ViolationInv'
    BY Zenon DEF ViolationInv, ServerIdle
<1>6. SocketsAreOwn'
    BY <1>a, <1>b, AddressesAssumption, Zenon
       DEF SocketsAreOwn, ClientType, Addresses, Forbidden, Malformed
<1> QED BY <1>1, <1>2, <1>4, <1>5, <1>6, Zenon

-----------------------------------------------------------------------------
\* The server receives the request of the thread that holds the mutex.
LEMMA ReceiveRequestInv ==
    ASSUME ProxyInv, ReceiveRequest
    PROVE  ProxyInv'
<1> USE DEF ProxyInv, ReceiveRequest, clientVars, watcherVars
<1>1. ClientType'
    BY Zenon DEF ClientType
<1>2. MutexInv'
    BY Zenon DEF ClientType, MutexInv
<1>3. PICK t \in clientMutex : RequestOf(t)
    BY Zenon DEF ChannelInv, Quiet
<1>4. /\ toServer = <<clientAsks[t]>> /\ toClient = <<>> /\ clientPc[t] = "result"
    BY <1>3, Zenon DEF RequestOf, Quiet
<1>5. toServer' = <<>> /\ serverAddr' = clientAsks[t] /\ Append(toClient, "errno") = <<"errno">>
    BY <1>4, ShortQueues, Zenon
<1>6. \/ toClient' = <<"errno">> /\ serverPc' = "receive"
      \/ toClient' = <<>> /\ serverPc' = "receive"
      \/ toClient' = <<>> /\ serverPc' = "violation"
      \/ toClient' = <<>> /\ serverPc' = "connecting" /\ clientAsks[t] \in AllowedAddresses
    BY <1>4, <1>5, ShortQueues, Zenon DEF Reply, HostAllowed
<1>7. ChannelInv'
    <2>1. RequestOf(t)'
        BY <1>4, <1>5, <1>6, Zenon DEF RequestOf, Quiet, ServerIdle
    <2> QED BY <1>3, <2>1, Zenon DEF ChannelInv, MutexInv
<1>8. ViolationInv'
    <2>1. serverAddr' # "empty"
        BY <1>3, <1>5, AddressesAssumption, Zenon DEF ClientType, Addresses, Forbidden, Malformed
    <2> QED BY <2>1, Zenon DEF ViolationInv, Serving
<1>9. SocketsAreOwn'
    BY Zenon DEF SocketsAreOwn
<1> QED BY <1>1, <1>2, <1>7, <1>8, <1>9, Zenon

\* connect() has succeeded.
LEMMA ConnectSucceedsInv ==
    ASSUME ProxyInv, ConnectSucceeds
    PROVE  ProxyInv'
<1> USE DEF ProxyInv, ConnectSucceeds, clientVars, watcherVars
<1>1. ClientType' /\ MutexInv' /\ SocketsAreOwn'
    BY Zenon DEF ClientType, MutexInv, SocketsAreOwn
<1>2. PICK t \in clientMutex : RequestOf(t)
    BY Zenon DEF ChannelInv, ServerIdle
<1>3. /\ toServer = <<>> /\ toClient = <<>> /\ clientPc[t] = "result"
      /\ serverAddr = clientAsks[t] /\ clientAsks[t] \in AllowedAddresses
    BY <1>2, Zenon DEF RequestOf, Quiet, ServerIdle
<1>4. \/ toClient' = <<"success">> /\ serverPc' = "send"
      \/ toClient' = <<>> /\ serverPc' = "receive"
    BY <1>3, ShortQueues, Zenon DEF Reply
<1>5. ChannelInv'
    <2>1. RequestOf(t)'
        BY <1>3, <1>4, Zenon DEF RequestOf, Quiet, ServerIdle
    <2> QED BY <1>2, <2>1, Zenon DEF ChannelInv, MutexInv
<1>6. ViolationInv'
    BY <1>4, Zenon DEF ViolationInv, ServerIdle
<1> QED BY <1>1, <1>5, <1>6, Zenon

\* The socket follows.
LEMMA SendSocketInv ==
    ASSUME ProxyInv, SendSocket
    PROVE  ProxyInv'
<1> USE DEF ProxyInv, SendSocket, clientVars, watcherVars
<1>1. ClientType' /\ MutexInv' /\ SocketsAreOwn'
    BY Zenon DEF ClientType, MutexInv, SocketsAreOwn
<1>2. PICK t \in clientMutex : RequestOf(t)
    BY Zenon DEF ChannelInv, ServerIdle
<1>3. /\ toServer = <<>> /\ serverAddr = clientAsks[t] /\ clientAsks[t] \in AllowedAddresses
      /\ \/ clientPc[t] = "result" /\ toClient = <<"success">>
         \/ clientPc[t] = "socket" /\ toClient = <<>>
    BY <1>2, Zenon DEF RequestOf, Quiet, ServerIdle
<1>4. /\ Append(<<"success">>, clientAsks[t]) = <<"success", clientAsks[t]>>
      /\ Append(<<>>, clientAsks[t]) = <<clientAsks[t]>>
    BY ShortQueues, Zenon
<1>5. ChannelInv'
    <2>1. RequestOf(t)'
        BY <1>3, <1>4, Zenon DEF RequestOf, Quiet, ServerIdle, Reply
    <2> QED BY <1>2, <2>1, Zenon DEF ChannelInv, MutexInv
<1>6. ViolationInv'
    BY Zenon DEF ViolationInv, ServerIdle
<1> QED BY <1>1, <1>5, <1>6, Zenon

\* What the server does without sending anything.
LEMMA ServerSilentInv ==
    ASSUME ProxyInv, ReceiveFails \/ NotifyViolation \/ ConnectFails \/ LeaveRun
    PROVE  ProxyInv'
<1> USE DEF ProxyInv, ReceiveFails, NotifyViolation, ConnectFails, LeaveRun, clientVars,
            watcherVars, NotifyViolationUnchanged
<1>1. ClientType' /\ MutexInv' /\ SocketsAreOwn'
    BY Zenon DEF ClientType, MutexInv, SocketsAreOwn
<1>2. UNCHANGED <<clientPc, clientAsks, clientMutex, toServer, toClient, serverAddr>>
      /\ (serverPc' = serverPc \/ ServerIdle')
    BY Zenon DEF ServerIdle
<1>3. ChannelInv'
    <2>1. ASSUME NEW t \in clientMutex PROVE RequestOf(t)'
        <3>1. RequestOf(t)
            BY Zenon DEF ChannelInv
        <3>2. serverPc # "send"
            BY <3>1, Zenon DEF RequestOf, Serving
        <3> QED BY <1>2, <3>1, <3>2, Zenon DEF RequestOf, Quiet, ServerIdle
    <2> QED BY <1>2, <2>1, Zenon DEF ChannelInv, Quiet, ServerIdle
<1>4. ViolationInv'
    <2>1. CASE NotifyViolation
        <3>1. ~violation_occurred /\ serverPc = "violation" /\ serverAddr # "empty"
            BY <2>1, Zenon DEF ViolationInv, ServerIdle
        <3>2. CASE violation_msg = "empty"
            BY <2>1, <3>1, <3>2 DEF ViolationInv, ServerIdle
        <3>3. CASE violation_msg # "empty"
            BY <2>1, <3>1, <3>3, Zenon DEF ViolationInv, ServerIdle
        <3> QED BY <3>2, <3>3, Zenon
    <2>2. CASE ReceiveFails \/ LeaveRun
        BY <2>2 DEF ViolationInv, ServerIdle
    <2>3. CASE ConnectFails
        BY <2>3, Zenon DEF ViolationInv, ServerIdle
    <2> QED BY <2>1, <2>2, <2>3, Zenon
<1> QED BY <1>1, <1>3, <1>4, Zenon

\* The monitor, and the end of the sandboxee.
LEMMA WatcherInv ==
    ASSUME ProxyInv, WatcherStep \/ SandboxeeEnds
    PROVE  ProxyInv'
<1>1. UNCHANGED <<clientVars, serverVars, toServer, toClient>>
    BY Zenon DEF WatcherStep, SandboxeeEnds, NoticeViolation, KillForViolation, WatcherDone,
           JoinServer
<1>2. ClientType' /\ MutexInv' /\ SocketsAreOwn'
    BY <1>1, Zenon DEF ProxyInv, ClientType, MutexInv, SocketsAreOwn, clientVars
<1>3. ChannelInv'
    BY <1>1, Zenon DEF ProxyInv, ChannelInv, RequestOf, Quiet, ServerIdle, clientVars, serverVars
<1>4. ViolationInv'
    BY <1>1, Zenon DEF ProxyInv, ViolationInv, ServerIdle, serverVars, WatcherStep, SandboxeeEnds,
                NoticeViolation, KillForViolation, WatcherDone, JoinServer
<1> QED BY <1>2, <1>3, <1>4, Zenon DEF ProxyInv

-----------------------------------------------------------------------------
\* The invariant is inductive.
LEMMA ProxyInvStep == ProxyInv /\ [ProxyNext]_proxyVars => ProxyInv'
<1> SUFFICES ASSUME ProxyInv, [ProxyNext]_proxyVars PROVE ProxyInv'
    OBVIOUS
<1>1. CASE \E t \in ProxyThreads : \E a \in Addresses : Connect(t, a)
    BY <1>1, ConnectInv, Zenon
<1>2. CASE \E t \in ProxyThreads : ProxyClientStep(t)
    BY <1>2, SendAddressInv, ReceiveRemoteResultInv, ReceiveSocketInv, Zenon DEF ProxyClientStep
<1>3. CASE ProxyServerStep
    <2>1. CASE ReceiveRequest
        BY <2>1, ReceiveRequestInv, Zenon
    <2>2. CASE ConnectSucceeds
        BY <2>2, ConnectSucceedsInv, Zenon
    <2>3. CASE SendSocket
        BY <2>3, SendSocketInv, Zenon
    <2>4. CASE ReceiveFails \/ NotifyViolation \/ ConnectFails \/ LeaveRun
        BY <2>4, ServerSilentInv, Zenon
    <2> QED BY <1>3, <2>1, <2>2, <2>3, <2>4, Zenon DEF ProxyServerStep
<1>4. CASE WatcherStep \/ SandboxeeEnds
    BY <1>4, WatcherInv, Zenon
<1>5. CASE UNCHANGED proxyVars
    BY <1>5, Zenon DEF proxyVars, clientVars, serverVars, watcherVars, ProxyInv, ClientType,
        MutexInv, ChannelInv, RequestOf, Quiet, ServerIdle, ViolationInv, SocketsAreOwn
<1> QED BY <1>1, <1>2, <1>3, <1>4, <1>5, Zenon DEF ProxyNext

\* The inductive invariant holds in every state.
THEOREM ProxyInvariant == ProxySpec => []ProxyInv
BY ProxyInvInit, ProxyInvStep, PTL DEF ProxySpec

\* Whatever number of threads of the sandboxee connect at the same time
\* (NetworkProxyClient::Connect), each gets the socket it asked for, connected to
\* a host that is allowed.
THEOREM SocketsGoToTheirThreads == ProxySpec => []SocketsAreOwn
<1>1. ProxyInv => SocketsAreOwn
    BY Zenon DEF ProxyInv
<1> QED BY <1>1, ProxyInvariant, PTL

\* A network violation that the monitor reports names the host: violation_msg_ is
\* complete when violation_occurred_ is seen (network_proxy/server.cc).
THEOREM ViolationsAreNamed == ProxySpec => []ReportNamesHost
<1>1. ProxyInv => ReportNamesHost
    BY Zenon DEF ProxyInv, ViolationInv, ReportNamesHost
<1> QED BY <1>1, ProxyInvariant, PTL

-----------------------------------------------------------------------------
(***************************************************************************)
(* The fork-server.                                                        *)
(***************************************************************************)
ForkPcs == {"idle", "lock", "comms", "init", "main", "sent", "wait"}
Pids == {<<t, w>> : t \in ForkThreads, w \in {"init", "main"}} \cup {NoPid}

ForkType ==
    /\ forkMode \in {"global", "custom"}
    /\ forkPc \in [ForkThreads -> ForkPcs]
    /\ forkGot \in [ForkThreads -> [1..2 -> Pids]]
    /\ waitsFor \in [ForkThreads -> 0..MaxServers]
    /\ instance \in 0..MaxServers
    /\ servers \in [Servers -> {"none", "alive", "dead", "reaped"}]
    /\ forkTerminated \in BOOLEAN

\* instance_mutex_: its holder is in a request, and there is a ForkClient.  A
\* custom ForkClient is never deleted.
InstanceInv ==
    /\ instanceMutex \subseteq ForkThreads
    /\ \A t, u \in instanceMutex : t = u
    /\ forkMode = "global" =>
         \A t \in ForkThreads :
           t \in instanceMutex <=> forkPc[t] \in {"comms", "init", "main", "sent"}
    /\ instanceMutex # {} \/ forkMode = "custom" => instance # 0
    /\ \A t \in ForkThreads : forkPc[t] = "wait" => waitsFor[t] # 0
    /\ forkMode = "custom" => \A t \in ForkThreads : forkPc[t] \notin {"lock", "wait"}

\* The mutex of the channel: those who wait for pids hold it.
CommsInv ==
    /\ commsMutex \subseteq ForkThreads
    /\ \A t, u \in commsMutex : t = u
    /\ \A t \in ForkThreads : forkPc[t] \in {"init", "main"} => t \in commsMutex
    /\ \A t \in commsMutex : forkPc[t] \in {"init", "main", "sent"}

InitPid(t) == <<t, "init">>
MainPid(t) == <<t, "main">>

ServerLost == servers[instance] # "alive"

\* Where the request of thread t may be: unanswered, answered by the first pid
\* only by a server that died, or answered in full; and what was received.
ForkRequestOf(t) ==
    \/ /\ forkPc[t] = "init"
       /\ \/ requestQ = <<t>> /\ replyQ = <<>>
          \/ requestQ = <<t>> /\ replyQ = <<InitPid(t)>> /\ ServerLost
          \/ requestQ = <<>> /\ replyQ = <<InitPid(t), MainPid(t)>>
    \/ /\ forkPc[t] = "main"
       /\ \/ requestQ = <<t>> /\ replyQ = <<>> /\ ServerLost
          \/ requestQ = <<>> /\ replyQ = <<MainPid(t)>>
    \/ /\ forkPc[t] = "sent" /\ replyQ = <<>>
       /\ requestQ = <<>> \/ forkTerminated

\* A request that nobody waits for is left only in a channel that is terminated,
\* where no server reads it.
LeftoverInv ==
    /\ commsMutex = {} => replyQ = <<>> /\ (requestQ = <<>> \/ forkTerminated)
    /\ forkTerminated /\ instance # 0 => ServerLost

ForkInv ==
    /\ ForkType /\ InstanceInv /\ CommsInv /\ LeftoverInv
    /\ \A t \in commsMutex : ForkRequestOf(t)
    /\ PidsAreOwn /\ LostServerIsReplaced

\* No request has pids in the beginning.
LEMMA ForkInvInit == ForkInit => ForkInv
<1> SUFFICES ASSUME ForkInit PROVE ForkInv
    OBVIOUS
<1>1. NoPids \in [1..2 -> Pids] /\ NoPids[1] = NoPid /\ NoPids[2] = NoPid
    BY DEF NoPids, Pids
<1>2. ForkType
    <2>1. instance \in 0..MaxServers
        <3>1. 0 \in 0..MaxServers /\ 1 \in 0..MaxServers
            BY MaxServersAssumption
        <3> QED BY <3>1, Zenon DEF ForkInit
    <2>2. waitsFor \in [ForkThreads -> 0..MaxServers]
        BY MaxServersAssumption DEF ForkInit
    <2>3. servers \in [Servers -> {"none", "alive", "dead", "reaped"}]
        BY Zenon DEF ForkInit
    <2>4. forkPc \in [ForkThreads -> ForkPcs] /\ forkGot \in [ForkThreads -> [1..2 -> Pids]]
        BY <1>1, Zenon DEF ForkInit, ForkPcs
    <2> QED BY <2>1, <2>2, <2>3, <2>4, Zenon DEF ForkInit, ForkType
<1>3. InstanceInv /\ CommsInv /\ LeftoverInv
    BY DEF ForkInit, InstanceInv, CommsInv, LeftoverInv
<1>4. PidsAreOwn /\ LostServerIsReplaced
    BY <1>1, Zenon DEF ForkInit, PidsAreOwn, LostServerIsReplaced
<1> QED BY <1>2, <1>3, <1>4, Zenon DEF ForkInv, ForkInit

\* A step that leaves the channel, its server and those who wait for it alone.
LEMMA ChannelUntouched ==
    ASSUME ForkInv,
           UNCHANGED <<commsMutex, channelVars, instance, servers>>,
           \A t \in commsMutex : forkPc'[t] = forkPc[t]
    PROVE  LeftoverInv' /\ \A t \in commsMutex' : ForkRequestOf(t)'
<1>1. LeftoverInv'
    BY Zenon DEF ForkInv, LeftoverInv, ServerLost, channelVars
<1>2. ASSUME NEW t \in commsMutex' PROVE ForkRequestOf(t)'
    BY <1>2, Zenon DEF ForkInv, ForkRequestOf, ServerLost, channelVars
<1> QED BY <1>1, <1>2, Zenon

\* A thread calls SendRequest, EnsureStarted, ForceStart or Shutdown.
LEMMA CallForkInv ==
    ASSUME ForkInv, NEW t \in ForkThreads, NEW op \in ForkOps, CallFork(t, op)
    PROVE  ForkInv'
<1> USE DEF CallFork
<1>1. ForkType'
    BY Zenon DEF ForkInv, ForkType, ForkPcs, channelVars
<1>2. InstanceInv'
    BY Zenon DEF ForkInv, ForkType, InstanceInv
<1>3. CommsInv'
    BY Zenon DEF ForkInv, ForkType, CommsInv
<1>4. \A u \in commsMutex : forkPc'[u] = forkPc[u]
    BY Zenon DEF ForkInv, ForkType, CommsInv
<1>5. LeftoverInv' /\ \A u \in commsMutex' : ForkRequestOf(u)'
    BY <1>4, ChannelUntouched, Zenon
<1>6. PidsAreOwn' /\ LostServerIsReplaced'
    BY Zenon DEF ForkInv, PidsAreOwn, LostServerIsReplaced, channelVars
<1> QED BY <1>1, <1>2, <1>3, <1>5, <1>6, Zenon DEF ForkInv

\* With instance_mutex_ free nobody uses the channel of the global fork-server.
LEMMA ChannelIsFree ==
    ASSUME ForkInv, NEW t \in ForkThreads, forkPc[t] = "lock", instanceMutex = {}
    PROVE  forkMode = "global" /\ commsMutex = {} /\ replyQ = <<>>
<1>1. forkMode = "global"
    BY Zenon DEF ForkInv, ForkType, InstanceInv
<1>2. commsMutex = {}
    BY <1>1, Zenon DEF ForkInv, InstanceInv, CommsInv
<1> QED BY <1>1, <1>2, Zenon DEF ForkInv, LeftoverInv

\* StartGlobalForkServer starts with an empty channel.
LEMMA StartInv ==
    ASSUME ForkInv, StartGlobalForkServer, commsMutex = {}, UNCHANGED commsMutex
    PROVE  /\ instance' \in Servers /\ LeftoverInv' /\ forkTerminated' = FALSE
           /\ servers' \in [Servers -> {"none", "alive", "dead", "reaped"}]
<1>1. NextServer \in Servers
    BY Zenon DEF StartGlobalForkServer, MayStart, NextServer
<1> QED BY <1>1, Zenon DEF StartGlobalForkServer, ForkInv, ForkType, LeftoverInv

\* EnsureStarted and SendRequest, up to the request itself.
LEMMA LockAndEnsureStartedInv ==
    ASSUME ForkInv, NEW t \in ForkThreads, LockAndEnsureStarted(t)
    PROVE  ForkInv'
<1>1. forkMode = "global" /\ commsMutex = {} /\ replyQ = <<>> /\ instanceMutex = {}
      /\ forkPc[t] = "lock"
    BY ChannelIsFree, Zenon DEF LockAndEnsureStarted
<1>2. NoPids \in [1..2 -> Pids] /\ NoPids[1] = NoPid /\ NoPids[2] = NoPid
    BY DEF NoPids, Pids
<1>3. UNCHANGED <<forkMode, waitsFor, commsMutex>>
    BY Zenon DEF LockAndEnsureStarted
<1>4. \/ NotStarted
      \/ instance = 0 /\ StartGlobalForkServer
    BY Zenon DEF LockAndEnsureStarted
<1>5. /\ LeftoverInv' /\ instance' \in 0..MaxServers /\ forkTerminated' \in BOOLEAN
      /\ servers' \in [Servers -> {"none", "alive", "dead", "reaped"}]
      /\ forkTerminated' => forkTerminated /\ instance' = instance
    <2>1. CASE NotStarted
        BY <1>1, <1>3, <2>1, Zenon DEF NotStarted, channelVars, ForkInv, ForkType, LeftoverInv,
                                ServerLost
    <2>2. CASE StartGlobalForkServer
        BY <1>1, <1>3, <2>2, StartInv DEF Servers
    <2> QED BY <1>4, <2>1, <2>2, Zenon
<1>6. \/ forkGot' = forkGot
      \/ forkGot' = [forkGot EXCEPT ![t] = NoPids]
    BY Zenon DEF LockAndEnsureStarted
<1>7. \/ forkPc' = [forkPc EXCEPT ![t] = "idle"] /\ UNCHANGED instanceMutex
      \/ UNCHANGED <<forkPc, instanceMutex>>
      \/ forkPc' = [forkPc EXCEPT ![t] = "comms"] /\ instanceMutex' = {t} /\ instance' # 0
    <2>1. StartGlobalForkServer => instance' # 0
        BY <1>1, <1>3, StartInv DEF Servers
    <2> QED BY <2>1, Zenon DEF LockAndEnsureStarted, NotStarted, ReturnAtOnce, HoldInstance
<1>8. ForkType'
    BY <1>2, <1>3, <1>5, <1>6, <1>7, ZenonT(30) DEF ForkInv, ForkType, ForkPcs
<1>9. InstanceInv'
    BY <1>1, <1>3, <1>7, Zenon DEF ForkInv, ForkType, InstanceInv
<1>10. CommsInv'
    BY <1>1, <1>3, <1>7, Zenon DEF ForkInv, ForkType, CommsInv
<1>11. PidsAreOwn'
    BY <1>2, <1>6, Zenon DEF ForkInv, ForkType, PidsAreOwn
<1>12. LostServerIsReplaced'
    BY <1>1, <1>5, Zenon DEF ForkInv, LostServerIsReplaced
<1> QED BY <1>1, <1>3, <1>5, <1>8, <1>9, <1>10, <1>11, <1>12, Zenon DEF ForkInv

\* ForceStart.
LEMMA ForceStartInv ==
    ASSUME ForkInv, NEW t \in ForkThreads, ForceStart(t)
    PROVE  ForkInv'
<1>1. forkMode = "global" /\ commsMutex = {} /\ instanceMutex = {} /\ forkPc[t] = "lock"
    BY ChannelIsFree, Zenon DEF ForceStart
<1>2. UNCHANGED <<forkMode, waitsFor, commsMutex, instanceMutex, forkGot>>
      /\ (forkPc' = forkPc \/ forkPc' = [forkPc EXCEPT ![t] = "idle"])
    BY Zenon DEF ForceStart, ReturnAtOnce
<1>3. /\ LeftoverInv' /\ instance' \in 0..MaxServers /\ forkTerminated' \in BOOLEAN
      /\ servers' \in [Servers -> {"none", "alive", "dead", "reaped"}]
      /\ forkTerminated' => forkTerminated /\ instance' = instance
    <2>1. CASE NotStarted
        BY <1>1, <1>2, <2>1, Zenon DEF NotStarted, channelVars, ForkInv, ForkType, LeftoverInv,
                                ServerLost
    <2>2. CASE StartGlobalForkServer
        BY <1>1, <1>2, <2>2, StartInv DEF Servers
    <2> QED BY <2>1, <2>2, Zenon DEF ForceStart
<1>4. ForkType'
    BY <1>2, <1>3, Zenon DEF ForkInv, ForkType, ForkPcs
<1>5. InstanceInv'
    BY <1>1, <1>2, Zenon DEF ForkInv, ForkType, InstanceInv
<1>6. CommsInv'
    BY <1>1, <1>2, Zenon DEF ForkInv, ForkType, CommsInv
<1>7. PidsAreOwn' /\ LostServerIsReplaced'
    BY <1>1, <1>2, <1>3, ZenonT(30) DEF ForkInv, PidsAreOwn, LostServerIsReplaced
<1> QED BY <1>1, <1>2, <1>3, <1>4, <1>5, <1>6, <1>7, Zenon DEF ForkInv

\* Shutdown deletes the ForkClient while nobody uses it.
LEMMA ShutdownInv ==
    ASSUME ForkInv, NEW t \in ForkThreads, Shutdown(t)
    PROVE  ForkInv'
<1>1. forkMode = "global" /\ commsMutex = {} /\ instanceMutex = {} /\ forkPc[t] = "lock"
    BY ChannelIsFree, Zenon DEF Shutdown
<1> USE DEF Shutdown, channelVars
<1>2. ForkType'
    BY <1>1, MaxServersAssumption DEF ForkInv, ForkType, ForkPcs
<1>3. InstanceInv'
    BY <1>1, Zenon DEF ForkInv, ForkType, InstanceInv
<1>4. CommsInv'
    BY <1>1, Zenon DEF ForkInv, ForkType, CommsInv
<1>5. LeftoverInv' /\ PidsAreOwn' /\ LostServerIsReplaced'
    BY <1>1, Zenon DEF ForkInv, LeftoverInv, PidsAreOwn, LostServerIsReplaced
<1> QED BY <1>1, <1>2, <1>3, <1>4, <1>5, Zenon DEF ForkInv

\* A server that is waited for has exited.
LEMMA WaitForForkserverInv ==
    ASSUME ForkInv, NEW t \in ForkThreads, WaitForForkserver(t)
    PROVE  ForkInv'
<1> USE DEF WaitForForkserver, channelVars
<1>1. waitsFor[t] \in Servers
    BY MaxServersAssumption DEF ForkInv, ForkType, InstanceInv, Servers
<1>2. ForkType'
    BY <1>1, Zenon DEF ForkInv, ForkType, ForkPcs
<1>3. InstanceInv'
    BY Zenon DEF ForkInv, ForkType, InstanceInv
<1>4. CommsInv'
    BY Zenon DEF ForkInv, ForkType, CommsInv
<1>5. ServerLost => ServerLost'
    BY <1>1 DEF ForkInv, ForkType, ServerLost, Servers
<1>6. LeftoverInv'
    BY <1>5, ZenonT(30) DEF ForkInv, LeftoverInv
<1>7. ASSUME NEW u \in commsMutex' PROVE ForkRequestOf(u)'
    <2>1. u # t /\ u \in ForkThreads /\ ForkRequestOf(u)
        BY <1>7, Zenon DEF ForkInv, CommsInv
    <2>2. forkPc'[u] = forkPc[u]
        BY <2>1, Zenon DEF ForkInv, ForkType
    <2> QED BY <1>5, <2>1, <2>2, Zenon DEF ForkRequestOf
<1>8. PidsAreOwn' /\ LostServerIsReplaced'
    BY Zenon DEF ForkInv, PidsAreOwn, LostServerIsReplaced
<1> QED BY <1>2, <1>3, <1>4, <1>6, <1>7, <1>8, ZenonT(30) DEF ForkInv

-----------------------------------------------------------------------------
\* ForkClient::SendRequest: with the mutex of the channel, which is empty then,
\* the request is sent or the channel found to be lost.
LEMMA SendForkRequestInv ==
    ASSUME ForkInv, NEW t \in ForkThreads, SendForkRequest(t)
    PROVE  ForkInv'
<1> USE DEF SendForkRequest, CommsFree
<1>1. NoPids \in [1..2 -> Pids] /\ NoPids[1] = NoPid /\ NoPids[2] = NoPid
    BY DEF NoPids, Pids
<1>2. commsMutex = {} /\ forkPc[t] = "comms" /\ instance # 0 /\ replyQ = <<>>
      /\ forkMode \in {"global", "custom"}
    BY Zenon DEF ForkInv, ForkType, InstanceInv, LeftoverInv
<1>3. ForkType'
    BY <1>1, Zenon DEF ForkInv, ForkType, ForkPcs
<1>4. InstanceInv'
    BY <1>2, ZenonT(30) DEF ForkInv, ForkType, InstanceInv
<1>5. PidsAreOwn'
    BY <1>1, Zenon DEF ForkInv, ForkType, PidsAreOwn
<1>6. LostServerIsReplaced'
    BY <1>2, Zenon DEF ForkInv, InstanceInv, LostServerIsReplaced
<1>7. CASE ServerAnswers
    <2>1. requestQ = <<>> /\ ~forkTerminated
        BY <1>2, <1>7, Zenon DEF ForkInv, LeftoverInv, ServerAnswers
    <2>2. requestQ' = <<t>> /\ replyQ' = <<>> /\ commsMutex' = {t} /\ forkPc'[t] = "init"
          /\ ~forkTerminated'
        BY <1>2, <1>7, <2>1, ShortQueues, Zenon DEF ForkInv, ForkType
    <2>3. CommsInv'
        BY <1>2, <1>7, <2>2, Zenon DEF ForkInv, ForkType, CommsInv
    <2>4. LeftoverInv' /\ ForkRequestOf(t)'
        BY <2>2, Zenon DEF LeftoverInv, ForkRequestOf
    <2> QED BY <1>3, <1>4, <1>5, <1>6, <2>2, <2>3, <2>4, Zenon DEF ForkInv
<1>8. CASE ~ServerAnswers
    <2>1. commsMutex' = {} /\ replyQ' = <<>> /\ forkTerminated' = TRUE
        BY <1>2, <1>8, Zenon
    <2>2. CommsInv'
        BY <1>2, <1>8, Zenon DEF ForkInv, ForkType, CommsInv
    <2>3. ServerLost'
        BY <1>2, <1>8, Zenon DEF ServerAnswers, ServerLost, ForkInv, LeftoverInv
    <2>4. LeftoverInv'
        BY <2>1, <2>3, Zenon DEF LeftoverInv
    <2> QED BY <1>3, <1>4, <1>5, <1>6, <2>1, <2>2, <2>4, Zenon DEF ForkInv
<1> QED BY <1>7, <1>8, Zenon

\* A pid is received: it is the next of this request.
LEMMA ReceivePidInv ==
    ASSUME ForkInv, NEW t \in ForkThreads, ReceivePid(t)
    PROVE  ForkInv'
<1> DEFINE i == IF forkPc[t] = "init" THEN 1 ELSE 2
           mine == IF forkPc[t] = "init" THEN InitPid(t) ELSE MainPid(t)
<1>1. /\ UNCHANGED <<forkMode, waitsFor, instanceMutex, commsMutex, instance, servers, requestQ>>
      /\ forkPc[t] \in {"init", "main"}
    BY Zenon DEF ReceivePid
<1>2. t \in commsMutex /\ ForkRequestOf(t) /\ \A u \in commsMutex : u = t
    BY <1>1, Zenon DEF ForkInv, CommsInv
<1>3. InstanceInv' /\ CommsInv' /\ instance # 0
    <2>1. \/ forkPc' = [forkPc EXCEPT ![t] = "main"]
          \/ forkPc' = [forkPc EXCEPT ![t] = "sent"]
        BY <1>1, Zenon DEF ReceivePid, ForkInv, ForkType
    <2>2. InstanceInv'
        BY <1>1, <2>1, ZenonT(30) DEF ForkInv, ForkType, InstanceInv
    <2>3. CommsInv'
        BY <1>1, <1>2, <2>1, Zenon DEF ForkInv, ForkType, CommsInv
    <2> QED BY <1>1, <2>2, <2>3, Zenon DEF ForkInv, ForkType, InstanceInv
<1>4. CASE replyQ # <<>>
    <2>1. /\ replyQ' = Tail(replyQ) /\ forkTerminated' = forkTerminated
          /\ forkGot' = [forkGot EXCEPT ![t][i] = Head(replyQ)]
          /\ forkPc' = [forkPc EXCEPT ![t] = IF @ = "init" THEN "main" ELSE "sent"]
        BY <1>4, Zenon DEF ReceivePid
    <2>2. Head(replyQ) = mine
        BY <1>1, <1>2, <1>4, ShortQueues DEF ForkRequestOf
    <2>3. mine \in Pids
        BY DEF Pids, InitPid, MainPid
    <2>4. ForkType'
        BY <1>1, <2>1, <2>2, <2>3, Zenon DEF ForkInv, ForkType, ForkPcs
    <2>5. PidsAreOwn'
        <3>1. \A u \in ForkThreads : u # t => forkGot'[u] = forkGot[u]
            BY <2>1, Zenon DEF ForkInv, ForkType
        <3>2. forkGot'[t] = [forkGot[t] EXCEPT ![i] = mine]
            BY <2>1, <2>2, Zenon DEF ForkInv, ForkType
        <3>3. \A j \in 1..2 : forkGot'[t][j] = IF j = i THEN mine ELSE forkGot[t][j]
            BY <3>2, Zenon DEF ForkInv, ForkType
        <3>4. /\ forkGot'[t][1] \in {NoPid, <<t, "init">>}
              /\ forkGot'[t][2] \in {NoPid, <<t, "main">>}
            <4>1. /\ forkGot[t][1] \in {NoPid, <<t, "init">>}
                  /\ forkGot[t][2] \in {NoPid, <<t, "main">>}
                BY Zenon DEF ForkInv, PidsAreOwn
            <4>2. CASE forkPc[t] = "init"
                <5>1. i = 1 /\ mine = <<t, "init">>
                    BY <4>2, Zenon DEF InitPid
                <5> HIDE DEF i, mine
                <5> QED BY <3>3, <4>1, <5>1
            <4>3. CASE forkPc[t] # "init"
                <5>1. i = 2 /\ mine = <<t, "main">>
                    BY <4>3, Zenon DEF MainPid
                <5> HIDE DEF i, mine
                <5> QED BY <3>3, <4>1, <5>1
            <4> QED BY <4>2, <4>3, Zenon
        <3> QED BY <3>1, <3>4, Zenon DEF ForkInv, PidsAreOwn
    <2>6. ForkRequestOf(t)'
        <3>1. CASE forkPc[t] = "init"
            <4>1. forkPc'[t] = "main"
                BY <2>1, <3>1, Zenon DEF ForkInv, ForkType
            <4>2. \/ requestQ = <<t>> /\ replyQ = <<InitPid(t)>> /\ ServerLost
                  \/ requestQ = <<>> /\ replyQ = <<InitPid(t), MainPid(t)>>
                BY <1>2, <1>4, <3>1, Zenon DEF ForkRequestOf
            <4>3. \/ requestQ = <<t>> /\ replyQ' = <<>> /\ ServerLost
                  \/ requestQ = <<>> /\ replyQ' = <<MainPid(t)>>
                <5>1. Tail(<<InitPid(t)>>) = <<>>
                      /\ Tail(<<InitPid(t), MainPid(t)>>) = <<MainPid(t)>>
                    BY ShortQueues, Zenon
                <5> QED BY <2>1, <4>2, <5>1, Zenon
            <4> QED BY <1>1, <4>1, <4>3, Zenon DEF ForkRequestOf, ServerLost, MainPid
        <3>2. CASE forkPc[t] = "main"
            <4>1. forkPc'[t] = "sent"
                BY <2>1, <3>2, Zenon DEF ForkInv, ForkType
            <4>2. requestQ = <<>> /\ replyQ = <<MainPid(t)>>
                BY <1>2, <1>4, <3>2, Zenon DEF ForkRequestOf
            <4>3. replyQ' = <<>>
                BY <2>1, <4>2, ShortQueues, Zenon
            <4> QED BY <1>1, <4>1, <4>2, <4>3, Zenon DEF ForkRequestOf
        <3> QED BY <1>1, <3>1, <3>2, Zenon
    <2>7. LeftoverInv' /\ LostServerIsReplaced'
        BY <1>1, <1>2, <2>1, Zenon DEF ForkInv, LeftoverInv, LostServerIsReplaced, ServerLost
    <2> QED BY <1>1, <1>2, <1>3, <2>4, <2>5, <2>6, <2>7, Zenon DEF ForkInv
<1>5. CASE replyQ = <<>>
    <2>1. /\ forkTerminated' = TRUE /\ replyQ' = <<>> /\ forkGot' = forkGot /\ ServerLost
          /\ forkPc' = [forkPc EXCEPT ![t] = "sent"]
        BY <1>5, Zenon DEF ReceivePid, ServerLost
    <2>2. ForkType'
        BY <1>1, <2>1, Zenon DEF ForkInv, ForkType, ForkPcs
    <2>3. ForkRequestOf(t)'
        BY <2>1, Zenon DEF ForkRequestOf, ForkInv, ForkType
    <2>4. LeftoverInv' /\ PidsAreOwn'
        BY <1>1, <1>2, <2>1, Zenon DEF ForkInv, LeftoverInv, PidsAreOwn, ServerLost
    <2>5. LostServerIsReplaced'
        BY <1>1, ZenonT(30) DEF ForkInv, InstanceInv, LostServerIsReplaced
    <2> QED BY <1>1, <1>2, <1>3, <2>2, <2>3, <2>4, <2>5, Zenon DEF ForkInv
<1> QED BY <1>4, <1>5, Zenon

\* The mutexes are released, and a ForkClient that lost its server is deleted.
LEMMA RequestDoneInv ==
    ASSUME ForkInv, NEW t \in ForkThreads, RequestDone(t)
    PROVE  ForkInv'
<1> USE DEF RequestDone, Release, Lost, channelVars
<1>1. forkPc[t] = "sent" /\ instance # 0 /\ forkMode \in {"global", "custom"}
    BY Zenon DEF ForkInv, ForkType, InstanceInv
<1>2. ForkType'
    BY MaxServersAssumption DEF ForkInv, ForkType, ForkPcs
<1>3. InstanceInv'
    BY <1>1 DEF ForkInv, ForkType, InstanceInv
<1>4. CommsInv'
    BY <1>1, Zenon DEF ForkInv, ForkType, CommsInv
<1>5. \A u \in commsMutex' : u \in commsMutex /\ u # t /\ forkPc'[u] = forkPc[u]
    BY <1>4, ZenonT(30) DEF ForkInv, ForkType, CommsInv
<1>6. ASSUME NEW u \in commsMutex' PROVE ForkRequestOf(u)' /\ instance' = instance
    <2>1. ForkRequestOf(u) /\ u \in ForkThreads /\ forkPc[u] \in {"init", "main", "sent"}
        BY <1>5, <1>6, Zenon DEF ForkInv, CommsInv
    <2>2. forkMode = "global" => u \in instanceMutex /\ t \in instanceMutex
        BY <1>1, <2>1, Zenon DEF ForkInv, InstanceInv
    <2>3. forkMode # "global"
        BY <1>5, <1>6, <2>2, Zenon DEF ForkInv, InstanceInv
    <2> QED BY <1>5, <1>6, <2>1, <2>3, ZenonT(30) DEF ForkRequestOf, ServerLost
<1>7. LeftoverInv'
    <2>1. ASSUME commsMutex' = {} PROVE replyQ = <<>> /\ (requestQ = <<>> \/ forkTerminated)
        <3>1. CASE t \in commsMutex
            BY <1>1, <3>1, Zenon DEF ForkInv, ForkRequestOf
        <3>2. CASE t \notin commsMutex
            BY <2>1, <3>2, Zenon DEF ForkInv, LeftoverInv
        <3> QED BY <3>1, <3>2, Zenon
    <2>2. instance' # 0 => instance' = instance
        OBVIOUS
    <2> QED BY <2>1, <2>2, Zenon DEF ForkInv, LeftoverInv, ServerLost
<1>8. PidsAreOwn'
    BY Zenon DEF ForkInv, PidsAreOwn
<1>9. LostServerIsReplaced'
    BY Zenon DEF LostServerIsReplaced
<1> QED BY <1>2, <1>3, <1>4, <1>6, <1>7, <1>8, <1>9, Zenon DEF ForkInv

-----------------------------------------------------------------------------
\* A request in the channel of a server that runs is that of the holder of the
\* mutex.
LEMMA PendingIsOwn ==
    ASSUME ForkInv, instance # 0, servers[instance] = "alive", requestQ # <<>>
    PROVE  \E t \in commsMutex : /\ \A u \in commsMutex : u = t
                                 /\ forkPc[t] = "init" /\ requestQ = <<t>> /\ replyQ = <<>>
<1>1. ~forkTerminated
    BY Zenon DEF ForkInv, LeftoverInv, ServerLost
<1>2. PICK t \in commsMutex : ForkRequestOf(t)
    BY <1>1, Zenon DEF ForkInv, LeftoverInv
<1>3. forkPc[t] = "init" /\ requestQ = <<t>> /\ replyQ = <<>>
    BY <1>1, <1>2, Zenon DEF ForkRequestOf, ServerLost
<1> QED BY <1>2, <1>3, Zenon DEF ForkInv, CommsInv

\* A fork-server answers.
LEMMA ServeForkInv ==
    ASSUME ForkInv, ServeFork
    PROVE  ForkInv'
<1>1. PICK t \in commsMutex : /\ \A u \in commsMutex : u = t
                              /\ forkPc[t] = "init" /\ requestQ = <<t>> /\ replyQ = <<>>
    BY PendingIsOwn, Zenon DEF ServeFork
<1> USE DEF ServeFork, callVars
<1>2. ForkType' /\ InstanceInv' /\ CommsInv' /\ PidsAreOwn' /\ LostServerIsReplaced'
    BY Zenon DEF ForkInv, ForkType, InstanceInv, CommsInv, PidsAreOwn, LostServerIsReplaced
<1>3. requestQ' = <<>>
    BY <1>1, ShortQueues, Zenon
<1>4. replyQ' = <<InitPid(t), MainPid(t)>>
    BY <1>1, ShortQueues DEF InitPid, MainPid
<1>5. ForkRequestOf(t)'
    BY <1>1, <1>3, <1>4, Zenon DEF ForkRequestOf, InitPid, MainPid
<1>6. LeftoverInv'
    BY <1>1, Zenon DEF ForkInv, LeftoverInv, ServerLost
<1> QED BY <1>1, <1>2, <1>5, <1>6, Zenon DEF ForkInv

\* A fork-server dies, possibly after the first pid.
LEMMA ServerDiesInv ==
    ASSUME ForkInv, NEW g \in Servers, ServerDies(g) \/ ServerHangsUp(g)
    PROVE  ForkInv'
<1>1. /\ UNCHANGED <<forkMode, callVars, instanceMutex, commsMutex, instance, requestQ,
                     forkTerminated>>
      /\ servers[g] = "alive" /\ servers' = [servers EXCEPT ![g] = "dead"]
    BY Zenon DEF ServerDies, ServerHangsUp, channelVars
<1>2. ForkType'
    BY <1>1, Zenon DEF ForkInv, ForkType, callVars
<1>3. InstanceInv' /\ CommsInv' /\ PidsAreOwn' /\ LostServerIsReplaced'
    BY <1>1, Zenon DEF ForkInv, InstanceInv, CommsInv, PidsAreOwn, LostServerIsReplaced, callVars
<1>4. instance # 0 => (ServerLost => ServerLost')
    BY <1>1 DEF ForkInv, ForkType, ServerLost, Servers
<1>5. CASE replyQ' = replyQ
    <2>1. LeftoverInv'
        BY <1>1, <1>4, <1>5, Zenon DEF ForkInv, LeftoverInv
    <2>2. ASSUME NEW t \in commsMutex' PROVE ForkRequestOf(t)'
        <3>1. ForkRequestOf(t) /\ forkPc[t] \in {"init", "main", "sent"} /\ t \in ForkThreads
            BY <1>1, <2>2, Zenon DEF ForkInv, CommsInv
        <3>2. instance # 0
            BY <3>1, Zenon DEF ForkInv, ForkType, InstanceInv
        <3> QED BY <1>1, <1>4, <1>5, <3>1, <3>2, Zenon DEF ForkRequestOf, callVars
    <2> QED BY <1>2, <1>3, <2>1, <2>2, Zenon DEF ForkInv
<1>6. CASE replyQ' # replyQ
    <2>1. g = instance /\ requestQ # <<>> /\ replyQ' = Append(replyQ, <<Head(requestQ), "init">>)
        BY <1>6, Zenon DEF ServerDies, ServerHangsUp, channelVars
    <2>2. instance # 0 /\ ServerLost'
        BY <1>1, <2>1, MaxServersAssumption DEF ForkInv, ForkType, ServerLost, Servers
    <2>3. PICK t \in commsMutex : /\ \A u \in commsMutex : u = t
                                  /\ forkPc[t] = "init" /\ requestQ = <<t>> /\ replyQ = <<>>
        BY <1>1, <2>1, <2>2, PendingIsOwn, Zenon
    <2>4. replyQ' = <<InitPid(t)>>
        BY <2>1, <2>3, ShortQueues, Zenon DEF InitPid
    <2>5. ForkRequestOf(t)'
        BY <1>1, <2>2, <2>3, <2>4, Zenon DEF ForkRequestOf, callVars, InitPid
    <2>6. LeftoverInv'
        BY <1>1, <2>2, <2>3, Zenon DEF LeftoverInv
    <2> QED BY <1>1, <1>2, <1>3, <2>3, <2>5, <2>6, Zenon DEF ForkInv
<1> QED BY <1>5, <1>6, Zenon

-----------------------------------------------------------------------------
\* The invariant is inductive.
LEMMA ForkInvStep == ForkInv /\ [ForkNext]_forkVars => ForkInv'
<1> SUFFICES ASSUME ForkInv, [ForkNext]_forkVars PROVE ForkInv'
    OBVIOUS
<1>1. ASSUME NEW t \in ForkThreads, NEW op \in ForkOps, CallFork(t, op) PROVE ForkInv'
    BY <1>1, CallForkInv, Zenon
<1>2. ASSUME NEW t \in ForkThreads, ForkThreadStep(t) PROVE ForkInv'
    <2>1. CASE LockAndEnsureStarted(t)
        BY <2>1, LockAndEnsureStartedInv, Zenon
    <2>2. CASE ForceStart(t)
        BY <2>2, ForceStartInv, Zenon
    <2>3. CASE Shutdown(t)
        BY <2>3, ShutdownInv, Zenon
    <2>4. CASE WaitForForkserver(t)
        BY <2>4, WaitForForkserverInv, Zenon
    <2>5. CASE SendForkRequest(t)
        BY <2>5, SendForkRequestInv, Zenon
    <2>6. CASE ReceivePid(t)
        BY <2>6, ReceivePidInv, Zenon
    <2>7. CASE RequestDone(t)
        BY <2>7, RequestDoneInv, Zenon
    <2> QED BY <1>2, <2>1, <2>2, <2>3, <2>4, <2>5, <2>6, <2>7, Zenon DEF ForkThreadStep
<1>3. CASE ServeFork
    BY <1>3, ServeForkInv, Zenon
<1>4. ASSUME NEW g \in Servers, ServerDies(g) \/ ServerHangsUp(g) PROVE ForkInv'
    BY <1>4, ServerDiesInv, Zenon
<1>5. CASE UNCHANGED forkVars
    <2>1. LeftoverInv' /\ \A t \in commsMutex' : ForkRequestOf(t)'
        BY <1>5, ChannelUntouched, Zenon DEF forkVars, callVars
    <2> QED BY <1>5, <2>1, Zenon DEF forkVars, callVars, channelVars, ForkInv, ForkType,
                InstanceInv, CommsInv, PidsAreOwn, LostServerIsReplaced
<1> QED BY <1>1, <1>2, <1>3, <1>4, <1>5, Zenon DEF ForkNext, ForkServerStep

\* The inductive invariant holds in every state.
THEOREM ForkInvariant == ForkSpec => []ForkInv
BY ForkInvInit, ForkInvStep, PTL DEF ForkSpec

\* Whatever number of threads share a channel to a fork-server (fork_client.cc)
\* that may die at any moment, a request returns the pids of its own sandboxee,
\* each in its place, or none.
THEOREM PidsGoToTheirRequests == ForkSpec => []PidsAreOwn
<1>1. ForkInv => PidsAreOwn
    BY Zenon DEF ForkInv
<1> QED BY <1>1, ForkInvariant, PTL

\* A thread that finds instance_mutex_ free (global_forkclient.cc) never gets a
\* ForkClient whose channel is known to be lost.
THEOREM LostServersAreReplaced == ForkSpec => []LostServerIsReplaced
<1>1. ForkInv => LostServerIsReplaced
    BY Zenon DEF ForkInv
<1> QED BY <1>1, ForkInvariant, PTL
-----------------------------------------------------------------------------
(* InitPtraceAttach compares the tasks it has seized with a second list of *)
(* the tasks, and this is enough however threads are spawned and exit      *)
(* between its system calls.                                               *)

\* A thread id in tasks_attached is alive or used up, so a new thread is never
\* mistaken for one that was attached.
AttachedKnown == tasks_attached \subseteq live \cup ended

\* What was attached and is alive is traced.
AttachedTraced == tasks_attached \cap live \subseteq traced

AttachInv == TypeOK /\ AttachedKnown /\ AttachedTraced /\ NoThreadEscapes

\* Each system call of InitPtraceAttach keeps the invariant; the interesting one
\* is the second list, where tasks_attached = live makes every live task traced.
LEMMA AttachStep == AttachInv /\ InitPtraceAttach => AttachInv'
<1> SUFFICES ASSUME AttachInv, InitPtraceAttach PROVE AttachInv'
    OBVIOUS
<1> USE DEF AttachInv, TypeOK, AttachedKnown, AttachedTraced, NoThreadEscapes, kernel
<1>1. CASE SeizeInit
    BY <1>1 DEF SeizeInit, Fail
<1>2. CASE ListTasks
    BY <1>2 DEF ListTasks, Fail
<1>3. CASE EndRound
    BY <1>3 DEF EndRound, Fail
<1>4. CASE CheckTasks
    BY <1>4 DEF CheckTasks, Fail
<1>5. CASE SendDone
    BY <1>5 DEF SendDone, Fail
<1>6. ASSUME NEW task \in Threads, SeizeTask(task) PROVE AttachInv'
    BY <1>6 DEF SeizeTask, Fail
<1> QED BY <1>1, <1>2, <1>3, <1>4, <1>5, <1>6 DEF InitPtraceAttach

\* Spawning and exiting threads keep the invariant: the child of a traced thread
\* is traced, and a traced thread does not vanish.
LEMMA KernelStep == AttachInv /\ Kernel => AttachInv'
<1> SUFFICES ASSUME AttachInv, NEW task \in Threads,
                    \/ \E new \in Threads : Spawn(task, new)
                    \/ StartExit(task) \/ EndExit(task)
             PROVE  AttachInv'
    BY DEF Kernel
<1> USE DEF AttachInv, TypeOK, AttachedKnown, AttachedTraced, NoThreadEscapes,
            KernelUnchanged
<1>1. ASSUME NEW new \in Threads, Spawn(task, new) PROVE AttachInv'
    BY <1>1 DEF Spawn
<1>2. CASE StartExit(task)
    BY <1>2 DEF StartExit
<1>3. CASE EndExit(task)
    BY <1>3 DEF EndExit
<1> QED BY <1>1, <1>2, <1>3

\* The invariant holds in every state of a run.
THEOREM AttachInvariance == Spec => []AttachInv
<1>1. Init => AttachInv
    BY Zenon DEF Init, AttachInv, TypeOK, AttachedKnown, AttachedTraced, NoThreadEscapes
<1>2. AttachInv /\ [Next]_vars => AttachInv'
    <2> SUFFICES ASSUME AttachInv, [Next]_vars PROVE AttachInv'
        OBVIOUS
    <2>1. CASE DeadlinePasses
        BY <2>1 DEF DeadlinePasses, kernel, AttachInv, TypeOK, AttachedKnown,
                    AttachedTraced, NoThreadEscapes
    <2>2. CASE UNCHANGED vars
        BY <2>2 DEF vars, kernel, AttachInv, TypeOK, AttachedKnown, AttachedTraced,
                    NoThreadEscapes
    <2> QED BY <2>1, <2>2, AttachStep, KernelStep DEF Next
<1> QED BY <1>1, <1>2, PTL DEF Spec

\* A task is traced or exiting only while it is alive, and InitPtraceAttach keeps
\* its sets of tasks within the threads there are.
THEOREM AttachTypes == Spec => []TypeOK
<1>1. AttachInv => TypeOK
    BY DEF AttachInv
<1> QED BY <1>1, AttachInvariance, PTL

\* InitPtraceAttach (monitor_ptrace.cc) never tells the sandboxee to go on while
\* one of its threads is not traced, however many threads there are.
THEOREM AttachLeavesNoThread == Spec => []NoThreadEscapes
<1>1. AttachInv => NoThreadEscapes
    BY DEF AttachInv
<1> QED BY <1>1, AttachInvariance, PTL
=============================================================================
