---------------------------- MODULE LaunchProofs ----------------------------
(***************************************************************************)
(* For any number of mapped descriptors and any faults: the two ends of    *)
(* each channel of a launch agree, and no sandboxed code runs before the   *)
(* limits are applied and the monitor has attached.                        *)
(***************************************************************************)
EXTENDS Launch, SequenceTheorems, TLAPS

(***************************************************************************)
(* The handshake.  The host says the same in every launch with mode m:     *)
(* message i is Script(m, i).  How far it has come is told by its step,    *)
(* and how much of it the sandboxee has received by that one's.            *)
(***************************************************************************)
Mapped(m) == 3 * m.fds + 1

Script(m, i) ==
    IF i = 1 THEN "count"
    ELSE IF i <= Mapped(m) THEN MappedFd[((i - 2) % 3) + 1]
    ELSE IF i = Mapped(m) + 1 THEN "cwd"
    ELSE IF i = Mapped(m) + 2 THEN "policy"
    ELSE IF m.unotify THEN "unotify" ELSE "done"

\* The messages after the first c, up to the s-th.
Window(m, c, s) == [i \in 1 .. (s - c) |-> Script(m, c + i)]

RequestPcs == {"start", "send_request", "send_comms_fd", "send_exec_fd",
               "recv_init_pid", "recv_main_pid", "recv_status_fd"}
FailedPcs == {"failed", "setup_failed"}
LimitedPcs == {"run", "send_done", "recv_listener", "notify_pipe", "monitoring"}
HostPcs == RequestPcs \cup FailedPcs \cup LimitedPcs
           \cup {"started", "ipc", "cwd", "policy", "ready", "limits"}

SentBy(m, step) ==
    IF step \in RequestPcs \cup {"started", "ipc"} THEN 0
    ELSE IF step = "cwd" THEN Mapped(m)
    ELSE IF step = "policy" THEN Mapped(m) + 1
    ELSE IF step \in {"recv_listener", "notify_pipe", "monitoring"} THEN Mapped(m) + 3
    ELSE Mapped(m) + 2

EarlyClients == {"none", "boot", "count"}
FdClients == {"requested", "fd", "name"}
FilterClients == {"regular", "listener", "sendfd", "tsync", "run"}
Clients == EarlyClients \cup FdClients \cup FilterClients
           \cup {"cwd", "policy", "ready", "confirm", "dead"}

ReceivedBy(m, step, left) ==
    IF step \in EarlyClients THEN 0
    ELSE IF step = "requested" THEN 1 + 3 * (m.fds - left)
    ELSE IF step = "fd" THEN 2 + 3 * (m.fds - left)
    ELSE IF step = "name" THEN 3 + 3 * (m.fds - left)
    ELSE IF step = "cwd" THEN Mapped(m)
    ELSE IF step = "policy" THEN Mapped(m) + 1
    ELSE IF step \in {"ready", "confirm"} THEN Mapped(m) + 2
    ELSE Mapped(m) + 3

LaunchType ==
    /\ mode \in Modes
    /\ pc \in HostPcs /\ client \in Clients
    /\ limited \in BOOLEAN /\ attached \in BOOLEAN /\ confused \in BOOLEAN
    /\ client \in FdClients => fds_left \in 1 .. mode.fds

\* What is on its way to the sandboxee.  The last message is sent when the limits
\* are applied and a ptrace monitor has attached.
ToClientInv ==
    \E s \in 0 .. Mapped(mode) + 3 :
      /\ pc \notin FailedPcs => s = SentBy(mode, pc)
      /\ s = Mapped(mode) + 3 => limited /\ (mode.unotify \/ attached)
      /\ client # "dead" =>
           /\ ReceivedBy(mode, client, fds_left) <= s
           /\ to_client = Window(mode, ReceivedBy(mode, client, fds_left), s)

\* What is on its way from it: "ready", and later the listener.
FromClientInv ==
    /\ pc \in RequestPcs \cup {"started", "ipc", "cwd", "policy", "ready"} =>
         /\ client \in EarlyClients \cup FdClients \cup {"cwd", "policy", "ready"} =>
              from_client = <<>>
         /\ from_client \in {<<>>, <<"ready">>}
    /\ pc \in {"limits", "run", "send_done"} => from_client = <<>>
    /\ pc = "recv_listener" =>
         /\ client \in {"confirm", "listener", "sendfd"} => from_client = <<>>
         /\ from_client \in {<<>>, <<"listener">>}
    /\ pc = "notify_pipe" => mode.unotify
    /\ pc \in {"notify_pipe", "monitoring"} =>
         /\ from_client = <<>>
         /\ mode.unotify => client \in {"tsync", "run", "dead"}

\* The order of the steps of host and sandboxee.
StepsInv ==
    /\ pc \in LimitedPcs => limited
    /\ pc = "send_done" => attached /\ ~mode.unotify
    /\ pc = "recv_listener" => mode.unotify
    /\ limited \/ pc = "limits" => client \in FilterClients \cup {"confirm", "dead"}
    /\ client \in {"listener", "sendfd", "tsync"} => mode.unotify
    /\ client = "regular" => ~mode.unotify
    /\ ~confused

\* The sandboxee is forked once.
ForkedOnce ==
    /\ fs \in {"request", "comms_fd", "exec_fd", "fork"} => init = "none" /\ client = "none"
    /\ init \in {"new", "launch"} => client = "none"

(***************************************************************************)
(* The request.  Its messages are counted.                                 *)
(***************************************************************************)
ServerSteps == {"request", "comms_fd", "exec_fd", "fork", "recv_init", "recv_main",
                "close", "reply_init", "reply_main", "reply_status", "served", "dead"}

PidValues == {"pid", "zero", "invalid"}

Requests(m) == IF m.execve THEN 3 ELSE 2
Replies(m) == IF m.unotify THEN 3 ELSE 2

Requested(m, step) ==
    IF step \in {"start", "send_request"} THEN 0
    ELSE IF step = "send_comms_fd" THEN 1
    ELSE IF step = "send_exec_fd" THEN 2 ELSE Requests(m)
TakenBy(m, step) ==
    IF step = "request" THEN 0
    ELSE IF step = "comms_fd" THEN 1
    ELSE IF step = "exec_fd" THEN 2 ELSE Requests(m)
Replied(m, step) ==
    IF step = "reply_main" THEN 1
    ELSE IF step = "reply_status" THEN 2
    ELSE IF step = "served" THEN Replies(m) ELSE 0
Returned(step) ==
    IF step = "recv_main_pid" THEN 1
    ELSE IF step = "recv_status_fd" THEN 2 ELSE 0

\* What is on its way between host and fork-server, while that one lives.
RequestInv ==
    /\ fs \in ServerSteps
    /\ fs_pids \in [init : PidValues, main : PidValues]
    /\ to_server \in Seq({"request", "comms_fd", "exec_fd"})
    /\ from_server \in Seq(PidValues \cup {"status_fd"})
    /\ pc = "send_exec_fd" \/ fs = "exec_fd" => mode.execve
    /\ pc = "recv_status_fd" \/ fs = "reply_status" => mode.unotify
    /\ fs # "dead" =>
         IF pc \in RequestPcs
         THEN /\ Len(to_server) = Requested(mode, pc) - TakenBy(mode, fs)
              /\ Len(from_server) = Replied(mode, fs) - Returned(pc)
         ELSE to_server = <<>> /\ from_server = <<>> /\ fs \in {"request", "served"}

LaunchInv == LaunchType /\ ToClientInv /\ FromClientInv /\ StepsInv /\ ForkedOnce /\ RequestInv

-----------------------------------------------------------------------------
(***************************************************************************)
(* Windows of the script.                                                  *)
(***************************************************************************)
LEMMA ModeType ==
    ASSUME NEW m \in Modes
    PROVE  m.fds \in Nat /\ m.unotify \in BOOLEAN /\ m.execve \in BOOLEAN
           /\ Mapped(m) \in Nat \ {0}
BY LaunchAssumption DEF Modes, Mapped

\* A window is a sequence.
LEMMA WindowSeq ==
    ASSUME NEW m, NEW c \in Nat, NEW s \in Nat, c <= s,
           NEW T, T = {Script(m, i) : i \in Nat}
    PROVE  /\ Window(m, c, s) \in Seq(T) /\ Len(Window(m, c, s)) = s - c
           /\ \A i \in 1 .. (s - c) : Window(m, c, s)[i] = Script(m, c + i)
<1>1. s - c \in Nat
    OBVIOUS
<1>2. Window(m, c, s) \in [1 .. (s - c) -> T]
    BY <1>1 DEF Window
<1>3. Window(m, c, s) \in Seq(T) /\ Len(Window(m, c, s)) = s - c
    BY <1>1, <1>2
<1>4. \A i \in 1 .. (s - c) : Window(m, c, s)[i] = Script(m, c + i)
    BY Zenon DEF Window
<1> QED BY <1>3, <1>4, Zenon

\* A window that is not empty begins with the next message, and the rest of it is
\* the window after that.
LEMMA WindowHead ==
    ASSUME NEW m, NEW c \in Nat, NEW s \in Nat, c <= s
    PROVE  /\ Window(m, c, s) = <<>> <=> c = s
           /\ c < s => /\ Head(Window(m, c, s)) = Script(m, c + 1)
                       /\ Tail(Window(m, c, s)) = Window(m, c + 1, s)
<1> DEFINE w == Window(m, c, s)
<1> DEFINE v == Window(m, c + 1, s)
<1> DEFINE T == {Script(m, i) : i \in Nat}
<1>1. w \in Seq(T) /\ Len(w) = s - c /\ \A i \in 1 .. (s - c) : w[i] = Script(m, c + i)
    BY WindowSeq, Zenon
<1>2. c < s => /\ v \in Seq(T) /\ Len(v) = s - (c + 1)
               /\ \A i \in 1 .. (s - (c + 1)) : v[i] = Script(m, (c + 1) + i)
    <2>1. c + 1 \in Nat /\ (c < s => c + 1 <= s)
        OBVIOUS
    <2> QED BY <2>1, WindowSeq, Zenon
<1> HIDE DEF w, v, T
<1>3. w = <<>> <=> c = s
    <2>1. w = <<>> <=> Len(w) = 0
        BY <1>1, EmptySeq, Zenon
    <2>2. s - c = 0 <=> c = s
        OBVIOUS
    <2> QED BY <1>1, <2>1, <2>2, Zenon
<1>4. ASSUME c < s PROVE Head(w) = Script(m, c + 1) /\ Tail(w) = v
    <2>1. Head(w) = w[1] /\ 1 \in 1 .. (s - c)
        BY <1>1, <1>3, <1>4
    <2>2. Tail(w) \in Seq(T) /\ Len(Tail(w)) = s - (c + 1)
          /\ \A i \in 1 .. (s - (c + 1)) : Tail(w)[i] = w[i + 1]
        BY <1>1, <1>3, <1>4, HeadTailProperties
    <2>3. \A i \in 1 .. (s - (c + 1)) : Tail(w)[i] = v[i]
        <3> TAKE i \in 1 .. (s - (c + 1))
        <3>1. i + 1 \in 1 .. (s - c) /\ c + (i + 1) = (c + 1) + i
            OBVIOUS
        <3> QED BY <1>1, <1>2, <1>4, <2>2, <3>1, Zenon
    <2> QED BY <1>1, <1>2, <1>4, <2>1, <2>2, <2>3, SeqEqual, Zenon
<1> QED BY <1>3, <1>4, Zenon DEF w, v

\* Sending the messages that come next makes the window longer.
LEMMA WindowGrows ==
    ASSUME NEW m, NEW c \in Nat, NEW s \in Nat, c <= s, NEW k \in Nat
    PROVE  Window(m, c, s) \o Window(m, s, s + k) = Window(m, c, s + k)
<1> DEFINE T == {Script(m, i) : i \in Nat}
<1> DEFINE w == Window(m, c, s)
<1> DEFINE v == Window(m, c, s + k)
<1> DEFINE u == Window(m, s, s + k)
<1>0. s + k \in Nat /\ c <= s + k /\ s <= s + k
    OBVIOUS
<1>1. w \in Seq(T) /\ Len(w) = s - c /\ \A i \in 1 .. (s - c) : w[i] = Script(m, c + i)
    BY WindowSeq, Zenon
<1>2. v \in Seq(T) /\ Len(v) = (s + k) - c
      /\ \A i \in 1 .. ((s + k) - c) : v[i] = Script(m, c + i)
    BY <1>0, WindowSeq, Zenon
<1>3. u \in Seq(T) /\ Len(u) = (s + k) - s
      /\ \A i \in 1 .. ((s + k) - s) : u[i] = Script(m, s + i)
    BY <1>0, WindowSeq, Zenon
<1>4. (s + k) - s = k
    OBVIOUS
<1> HIDE DEF T, w, v, u
<1>k. Len(u) = k
    BY <1>3, <1>4, Zenon
<1>5. /\ w \o u \in Seq(T) /\ Len(w \o u) = (s - c) + k
      /\ \A i \in 1 .. (s - c) + k :
            (w \o u)[i] = IF i <= s - c THEN w[i] ELSE u[i - (s - c)]
    <2>1. /\ w \o u \in Seq(T) /\ Len(w \o u) = Len(w) + Len(u)
          /\ \A i \in 1 .. Len(w) + Len(u) :
                (w \o u)[i] = IF i <= Len(w) THEN w[i] ELSE u[i - Len(w)]
        BY <1>1, <1>3, ConcatProperties, Zenon
    <2>2. Len(w) = s - c
        BY <1>1, Zenon
    <2> QED BY <1>k, <2>1, <2>2, Zenon
<1>6. \A i \in 1 .. (s - c) + k : (w \o u)[i] = v[i]
    <2> TAKE i \in 1 .. (s - c) + k
    <2>1. i \in 1 .. ((s + k) - c)
        OBVIOUS
    <2>2. CASE i <= s - c
        BY <1>1, <1>2, <1>5, <2>1, <2>2
    <2>3. CASE ~(i <= s - c)
        <3>1. i - (s - c) \in 1 .. k /\ s + (i - (s - c)) = c + i
            BY <2>3
        <3> QED BY <1>2, <1>3, <1>4, <1>5, <2>1, <2>3, <3>1, Zenon
    <2> QED BY <2>2, <2>3, Zenon
<1>7. (s - c) + k = (s + k) - c
    OBVIOUS
<1> QED BY <1>2, <1>4, <1>5, <1>6, <1>7, SeqEqual, Zenon DEF w, v, u

\* The message that each step of the sandboxee waits for is the one that comes
\* next.
LEMMA ScriptAt ==
    ASSUME NEW m \in Modes
    PROVE  /\ Script(m, 1) = "count"
           /\ \A left \in 1 .. m.fds :
                 /\ Script(m, 2 + 3 * (m.fds - left)) = "requested"
                 /\ Script(m, 3 + 3 * (m.fds - left)) = "fd"
                 /\ Script(m, 4 + 3 * (m.fds - left)) = "name"
           /\ Script(m, Mapped(m) + 1) = "cwd" /\ Script(m, Mapped(m) + 2) = "policy"
           /\ Script(m, Mapped(m) + 3) = IF m.unotify THEN "unotify" ELSE "done"
<1>1. m.fds \in Nat
    BY ModeType, Zenon
<1>2. ASSUME NEW left \in 1 .. m.fds
      PROVE  /\ Script(m, 2 + 3 * (m.fds - left)) = "requested"
             /\ Script(m, 3 + 3 * (m.fds - left)) = "fd"
             /\ Script(m, 4 + 3 * (m.fds - left)) = "name"
    <2> DEFINE d == m.fds - left
    <2>1. d \in Nat /\ 3 * d + 4 <= 3 * m.fds + 1
        BY <1>1
    <2>2. /\ (3 * d) % 3 = 0 /\ (1 + 3 * d) % 3 = 1 /\ (2 + 3 * d) % 3 = 2
        <3> HIDE DEF d
        <3> QED BY <2>1
    <2>3. /\ (2 + 3 * d) - 2 = 3 * d /\ (3 + 3 * d) - 2 = 1 + 3 * d
          /\ (4 + 3 * d) - 2 = 2 + 3 * d
        BY <2>1
    <2>4. MappedFd[1] = "requested" /\ MappedFd[2] = "fd" /\ MappedFd[3] = "name"
        BY Zenon DEF MappedFd
    <2>5. /\ 2 + 3 * d <= 3 * m.fds + 1 /\ 2 + 3 * d # 1
          /\ 3 + 3 * d <= 3 * m.fds + 1 /\ 3 + 3 * d # 1
          /\ 4 + 3 * d <= 3 * m.fds + 1 /\ 4 + 3 * d # 1
        BY <1>1, <2>1
    <2> HIDE DEF d
    <2>6. /\ Script(m, 2 + 3 * d) = MappedFd[((3 * d) % 3) + 1]
          /\ Script(m, 3 + 3 * d) = MappedFd[((1 + 3 * d) % 3) + 1]
          /\ Script(m, 4 + 3 * d) = MappedFd[((2 + 3 * d) % 3) + 1]
        BY <2>3, <2>5, Zenon DEF Script, Mapped
    <2>7. 0 + 1 = 1 /\ 1 + 1 = 2 /\ 2 + 1 = 3
        OBVIOUS
    <2>8. /\ Script(m, 2 + 3 * d) = "requested" /\ Script(m, 3 + 3 * d) = "fd"
          /\ Script(m, 4 + 3 * d) = "name"
        BY <2>2, <2>4, <2>6, <2>7, Zenon
    <2> QED BY <2>8, Zenon DEF d
<1> QED BY <1>1, <1>2 DEF Script, Mapped

\* InitSendIPC says the first part of the script.
LEMMA IpcMessages ==
    ASSUME NEW m \in Modes
    PROVE  <<"count">> \o MappedFds(m.fds) = Window(m, 0, Mapped(m))
<1> DEFINE n == m.fds
<1> DEFINE T == {"count", "requested", "fd", "name"}
<1> DEFINE w == Window(m, 0, Mapped(m))
<1>1. n \in Nat /\ 3 * n \in Nat /\ Mapped(m) = 3 * n + 1
    BY ModeType DEF Mapped
<1>2. \A i \in Nat \ {0} : MappedFd[((i - 1) % 3) + 1] \in T
    <2>1. \A i \in Nat \ {0} : (i - 1) % 3 \in 0 .. 2
        OBVIOUS
    <2>2. \A j \in 0 .. 2 : MappedFd[j + 1] \in T
        BY DEF MappedFd
    <2> QED BY <2>1, <2>2, Zenon
<1>3. /\ MappedFds(n) \in Seq(T) /\ Len(MappedFds(n)) = 3 * n
      /\ \A i \in 1 .. 3 * n : MappedFds(n)[i] = MappedFd[((i - 1) % 3) + 1]
    <2>1. MappedFds(n) \in [1 .. 3 * n -> T]
        BY <1>2 DEF MappedFds
    <2>2. MappedFds(n) \in Seq(T) /\ Len(MappedFds(n)) = 3 * n
        BY <1>1, <2>1
    <2> QED BY <2>2, Zenon DEF MappedFds
<1>4. /\ <<"count">> \in Seq(T) /\ Len(<<"count">>) = 1 /\ <<"count">>[1] = "count"
    OBVIOUS
<1> DEFINE v == <<"count">> \o MappedFds(n)
<1>5. /\ v \in Seq(T) /\ Len(v) = 1 + 3 * n
      /\ v[1] = "count"
      /\ \A i \in 2 .. 3 * n + 1 : v[i] = MappedFds(n)[i - 1]
    BY <1>1, <1>3, <1>4
<1>6. \A i \in 1 .. 3 * n + 1 : v[i] = Script(m, 0 + i)
    <2> TAKE i \in 1 .. 3 * n + 1
    <2>1. CASE i = 1
        BY <1>5, <2>1 DEF Script
    <2>2. CASE i # 1
        <3>1. i \in 2 .. 3 * n + 1 /\ i - 1 \in 1 .. 3 * n /\ (i - 1) - 1 = i - 2 /\ 0 + i = i
            BY <1>1, <2>2
        <3>2. v[i] = MappedFd[((i - 2) % 3) + 1]
            BY <1>3, <1>5, <3>1, Zenon
        <3>3. i <= Mapped(m)
            BY <1>1, <3>1
        <3> QED BY <2>2, <3>1, <3>2, <3>3, Zenon DEF Script
    <2> QED BY <2>1, <2>2, Zenon
<1>7. w = [i \in 1 .. 3 * n + 1 |-> Script(m, 0 + i)]
    BY <1>1 DEF Window
<1>8. v = [i \in 1 .. 3 * n + 1 |-> v[i]]
    BY <1>1, <1>5
<1> QED BY <1>6, <1>7, <1>8, Zenon

-----------------------------------------------------------------------------
(***************************************************************************)
(* The steps of the handshake.                                             *)
(***************************************************************************)
LEMMA ReceivedType ==
    ASSUME LaunchType
    PROVE  /\ ReceivedBy(mode, client, fds_left) \in Nat
           /\ \A step \in HostPcs : SentBy(mode, step) \in 0 .. Mapped(mode) + 3
           /\ client \in {"regular", "listener", "sendfd", "tsync", "run"} <=>
                client # "dead" /\ ReceivedBy(mode, client, fds_left) = Mapped(mode) + 3
           /\ client \in {"cwd", "policy", "ready", "confirm"} =>
                ReceivedBy(mode, client, fds_left) >= Mapped(mode)
<1>1. mode.fds \in Nat /\ Mapped(mode) \in Nat /\ Mapped(mode) = 3 * mode.fds + 1
    BY ModeType, Zenon DEF LaunchType, Mapped
<1>2. CASE client \in FdClients
    <2>1. fds_left \in 1 .. mode.fds
        BY <1>2, Zenon DEF LaunchType
    <2>2. /\ 1 + 3 * (mode.fds - fds_left) \in Nat
          /\ 3 + 3 * (mode.fds - fds_left) < Mapped(mode) + 3
        BY <1>1, <2>1
    <2>3. \A step \in HostPcs : SentBy(mode, step) \in 0 .. Mapped(mode) + 3
        BY <1>1 DEF SentBy
    <2> QED BY <1>1, <1>2, <2>1, <2>2, <2>3 DEF FdClients, ReceivedBy, EarlyClients
<1>3. CASE client \notin FdClients
    BY <1>1, <1>3 DEF LaunchType, Clients, FdClients, EarlyClients, FilterClients,
       ReceivedBy, SentBy
<1> QED BY <1>2, <1>3, Zenon

\* A message is received in its place: none is ever taken for another.
LEMMA ReceivesInPlace ==
    ASSUME LaunchInv, NEW step, NEW messages, NEW next, NEW left,
           ClientRecv(step, messages, next, left), step # "dead",
           LET r == ReceivedBy(mode, step, fds_left)
           IN  /\ Script(mode, r + 1) \in messages
               /\ next # "dead" /\ ReceivedBy(mode, next, left) = r + 1
    PROVE  /\ ToClientInv' /\ confused' = confused
           /\ \/ client' = "dead"
              \/ client' = next /\ fds_left' = left /\ to_client # <<>>
                 /\ Head(to_client) = Script(mode, ReceivedBy(mode, step, fds_left) + 1)
           /\ UNCHANGED <<mode, host, server, init, to_server, from_server, from_client>>
<1> DEFINE r == ReceivedBy(mode, step, fds_left)
<1>1. /\ client = step /\ UNCHANGED <<mode, host, server, init, to_server, from_server>>
      /\ UNCHANGED from_client
    BY Zenon DEF ClientRecv, ClientAborts, ClientUnchanged
<1>2. r \in Nat /\ mode \in Modes /\ Mapped(mode) \in Nat
    BY <1>1, ReceivedType, ModeType, Zenon DEF LaunchInv, LaunchType
<1>3. PICK s \in 0 .. Mapped(mode) + 3 :
        /\ pc \notin FailedPcs => s = SentBy(mode, pc)
        /\ s = Mapped(mode) + 3 => limited /\ (mode.unotify \/ attached)
        /\ r <= s /\ to_client = Window(mode, r, s)
    BY <1>1, Zenon DEF LaunchInv, ToClientInv
<1>4. s \in Nat
    BY <1>2, <1>3
<1>5. to_client # <<>> => r < s /\ Head(to_client) = Script(mode, r + 1)
                          /\ Tail(to_client) = Window(mode, r + 1, s)
    BY <1>2, <1>3, <1>4, WindowHead
<1>6. CASE client' = "dead"
    <2>1. ToClientInv'
        BY <1>1, <1>3, <1>6, Zenon DEF ToClientInv, host
    <2>2. confused' = confused
        <3>1. ~(to_client # <<>> /\ Head(to_client) \notin messages)
            BY <1>5, Zenon
        <3>2. CASE to_client = <<>> /\ destroyed /\ ClientAborts(FALSE)
            BY <3>2, Zenon DEF ClientAborts, LaunchInv, LaunchType
        <3> QED BY <3>1, <3>2, Zenon DEF ClientRecv
    <2> QED BY <1>1, <1>6, <2>1, <2>2, Zenon
<1>7. CASE client' # "dead"
    <2>1. /\ to_client # <<>> /\ to_client' = Tail(to_client) /\ client' = next
          /\ fds_left' = left /\ UNCHANGED confused
        BY <1>5, <1>7, Zenon DEF ClientRecv, ClientAborts
    <2>2. ToClientInv'
        <3>1. r + 1 <= s
            BY <1>2, <1>4, <1>5, <2>1
        <3>2. ReceivedBy(mode, client, fds_left)' = r + 1
            BY <1>1, <2>1, Zenon DEF ReceivedBy, Mapped
        <3>3. to_client' = Window(mode, r + 1, s)
            BY <1>5, <2>1, Zenon
        <3> QED BY <1>1, <1>3, <3>1, <3>2, <3>3, ZenonT(30)
                   DEF ToClientInv, host, Mapped, SentBy, Window, Script
    <2> QED BY <1>1, <1>5, <2>1, <2>2, Zenon
<1> QED BY <1>6, <1>7, Zenon

\* A step of the sandboxee that receives nothing leaves the script alone.
LEMMA ToClientKept ==
    ASSUME LaunchInv, UNCHANGED <<mode, pc, limited, attached, to_client>>,
           \/ client' = "dead"
           \/ client # "dead" /\ ReceivedBy(mode, client, fds_left)' = ReceivedBy(mode, client, fds_left)
    PROVE  ToClientInv'
BY DEF LaunchInv, ToClientInv, Mapped, SentBy, Window, Script

\* A step of the host that sends nothing leaves the script alone.
LEMMA NothingSent ==
    ASSUME LaunchInv, UNCHANGED <<mode, client, fds_left, to_client>>,
           limited => limited', attached => attached',
           \/ pc' = pc \/ pc' \in FailedPcs
           \/ pc \notin FailedPcs /\ SentBy(mode, pc') = SentBy(mode, pc)
    PROVE  ToClientInv'
<1> DEFINE r == ReceivedBy(mode, client, fds_left)
           all == Mapped(mode) + 3
<1>1. PICK s \in 0 .. all :
        /\ pc \notin FailedPcs => s = SentBy(mode, pc)
        /\ s = all => limited /\ (mode.unotify \/ attached)
        /\ client # "dead" => r <= s /\ to_client = Window(mode, r, s)
    BY Zenon DEF LaunchInv, ToClientInv
<1>2. all' = all
    BY Zenon DEF Mapped
<1>3. r' = r
    BY Zenon DEF ReceivedBy, Mapped
<1>4. pc' \notin FailedPcs => s = SentBy(mode, pc)'
    <2>1. SentBy(mode, pc)' = SentBy(mode, pc')
        BY Zenon DEF SentBy, Mapped
    <2> QED BY <1>1, <2>1, Zenon
<1>5. Window(mode, r, s)' = Window(mode, r, s)
    BY <1>3, Zenon DEF Window, Script, Mapped
<1> HIDE DEF r, all
<1>6. /\ s \in 0 .. all'
      /\ s = all' => limited' /\ (mode'.unotify \/ attached')
      /\ client' # "dead" => r' <= s /\ to_client' = Window(mode, r, s)'
    BY <1>1, <1>2, <1>3, <1>5, Zenon
<1> QED BY <1>4, <1>6, Zenon DEF ToClientInv, r, all

-----------------------------------------------------------------------------
(***************************************************************************)
(* The host.                                                               *)
(***************************************************************************)
\* Giving up keeps every channel as it is.
LEMMA HostFails ==
    ASSUME LaunchInv, pc = "start" \/ pc \notin RequestPcs,
           (\E code : Fail(code)) \/ SetupFails
    PROVE  LaunchInv'
<1>1. /\ pc' \in FailedPcs
      /\ UNCHANGED <<mode, limited, attached, server, sandboxee, sockets>>
    BY Zenon DEF Fail, SetupFails, FailedPcs
<1>2. ToClientInv'
    BY <1>1, NothingSent, Zenon DEF sandboxee, sockets
<1>3. RequestInv'
    <2>1. fs # "dead" => to_server = <<>> /\ from_server = <<>> /\ fs \in {"request", "served"}
        <3> SUFFICES ASSUME pc = "start", fs # "dead"
                     PROVE  to_server = <<>> /\ from_server = <<>> /\ fs = "request"
            BY Zenon DEF LaunchInv, RequestInv
        <3>1. /\ Len(to_server) = 0 - TakenBy(mode, fs)
              /\ Len(from_server) = Replied(mode, fs) - 0
            BY Zenon DEF LaunchInv, RequestInv, RequestPcs, Requested, Returned
        <3>2. Len(to_server) \in Nat /\ Len(from_server) \in Nat
            BY LenProperties, Zenon DEF LaunchInv, RequestInv
        <3>3. TakenBy(mode, fs) \in Nat /\ (TakenBy(mode, fs) = 0 => fs = "request")
            BY DEF TakenBy, Requests
        <3>4. TakenBy(mode, fs) = 0
            BY <3>1, <3>2, <3>3
        <3>5. fs = "request" /\ Len(to_server) = 0 /\ Len(from_server) = 0
            BY <3>1, <3>3, <3>4 DEF Replied
        <3> QED BY <3>5, EmptySeq, Zenon DEF LaunchInv, RequestInv
    <2>2. pc' \notin RequestPcs /\ pc' # "send_exec_fd" /\ pc' # "recv_status_fd"
        BY <1>1, Zenon DEF FailedPcs, RequestPcs
    <2> QED BY <1>1, <2>1, <2>2, Zenon DEF LaunchInv, RequestInv, server, sockets
<1>4. LaunchType' /\ FromClientInv' /\ StepsInv' /\ ForkedOnce'
    BY <1>1, Zenon DEF LaunchInv, LaunchType, FromClientInv, StepsInv, ForkedOnce, sandboxee,
          sockets, server, HostPcs, FailedPcs, LimitedPcs, RequestPcs
<1> QED BY <1>2, <1>3, <1>4, Zenon DEF LaunchInv

\* What host and fork-server do between them keeps the handshake as it is.
LEMMA RequestFrame ==
    ASSUME LaunchInv, UNCHANGED <<mode, limited, attached, sandboxee, to_client, from_client>>,
           \/ UNCHANGED pc
           \/ pc \in RequestPcs /\ pc' \in RequestPcs \cup {"started"} /\ UNCHANGED fs
    PROVE  LaunchType' /\ ToClientInv' /\ FromClientInv' /\ StepsInv'
<1>1. ToClientInv'
    <2>1. \/ pc' = pc
          \/ pc \notin FailedPcs /\ SentBy(mode, pc) = 0 /\ SentBy(mode, pc') = 0
        BY Zenon DEF SentBy, FailedPcs, RequestPcs
    <2> QED BY <2>1, NothingSent, Zenon DEF sandboxee
<1>2. LaunchType'
    BY Zenon DEF LaunchInv, LaunchType, sandboxee, HostPcs
<1>3. FromClientInv' /\ StepsInv'
    <2>1. CASE pc' = pc
        BY <2>1, Zenon DEF LaunchInv, FromClientInv, StepsInv, sandboxee
    <2>2. CASE pc \in RequestPcs /\ pc' \in RequestPcs \cup {"started"}
        BY <2>2, Zenon DEF LaunchInv, FromClientInv, StepsInv, sandboxee, RequestPcs, LimitedPcs
    <2> QED BY <2>1, <2>2, Zenon
<1> QED BY <1>1, <1>2, <1>3, Zenon

\* SendRequest and the answers: the messages are counted.
LEMMA RequestSteps ==
    ASSUME LaunchInv, \/ StartSubProcess \/ SendRequest \/ RecvInitPid \/ RecvMainPid
                      \/ RecvStatusFd \/ RecvFails
    PROVE  LaunchInv'
<1> DEFINE Messages == {"request", "comms_fd", "exec_fd"}
<1>1. /\ to_server \in Seq(Messages) /\ from_server \in Seq(PidValues \cup {"status_fd"})
      /\ Len(to_server) \in Nat /\ Len(from_server) \in Nat /\ mode \in Modes
    BY LenProperties, Zenon DEF LaunchInv, RequestInv, LaunchType
<1>2. CASE \E code : Fail(code)
    <2>1. pc = "start"
        BY <1>2, Zenon DEF StartSubProcess, SendRequest, SendToServer, RecvInitPid, RecvMainPid,
              RecvStatusFd, RecvFails, FromServer, ReturnProcess, Fail
    <2> QED BY <1>2, <2>1, HostFails, Zenon
<1> SUFFICES ASSUME ~\E code : Fail(code) PROVE LaunchInv'
    BY <1>2, Zenon
<1>3. /\ UNCHANGED <<mode, limited, attached, server, sandboxee, to_client, from_client>>
      /\ pc \in RequestPcs /\ pc' \in RequestPcs \cup {"started"}
    BY Zenon DEF StartSubProcess, SendRequest, SendToServer, RecvInitPid, RecvMainPid,
           RecvStatusFd, RecvFails, FromServer, ReturnProcess, OthersUnchanged,
           HostReceives, RequestPcs, sockets
<1>4. LaunchType' /\ ToClientInv' /\ FromClientInv' /\ StepsInv' /\ ForkedOnce'
    BY <1>3, RequestFrame, Zenon DEF LaunchInv, ForkedOnce, server, sandboxee
<1>5. ASSUME fs # "dead"
      PROVE  /\ Len(to_server) = Requested(mode, pc) - TakenBy(mode, fs)
             /\ Len(from_server) = Replied(mode, fs) - Returned(pc)
             /\ TakenBy(mode, fs) \in 0 .. 3 /\ Replied(mode, fs) \in 0 .. 3
    BY <1>3, <1>5 DEF LaunchInv, RequestInv, TakenBy, Requests, Replied, Replies
<1>6. RequestInv'
    <2> DEFINE Counted == fs # "dead" =>
                 IF pc' \in RequestPcs
                 THEN /\ Len(to_server') = Requested(mode, pc') - TakenBy(mode, fs)
                      /\ Len(from_server') = Replied(mode, fs) - Returned(pc')
                 ELSE to_server' = <<>> /\ from_server' = <<>> /\ fs \in {"request", "served"}
    <2> DEFINE Typed == /\ to_server' \in Seq(Messages)
                        /\ from_server' \in Seq(PidValues \cup {"status_fd"})
                        /\ pc' = "send_exec_fd" => mode.execve
                        /\ pc' = "recv_status_fd" => mode.unotify
    <2>a. ASSUME NEW message \in Messages, to_server' = Append(to_server, message)
          PROVE  to_server' \in Seq(Messages) /\ Len(to_server') = Len(to_server) + 1
        BY <1>1, <2>a, AppendProperties
    <2>t. ASSUME from_server # <<>>, from_server' = Tail(from_server)
          PROVE  /\ from_server' \in Seq(PidValues \cup {"status_fd"})
                 /\ Len(from_server') = Len(from_server) - 1
        BY <1>1, <2>t, HeadTailProperties, Zenon
    <2>1. CASE StartSubProcess
        <3>1. /\ pc = "start" /\ pc' = "send_request" /\ UNCHANGED <<to_server, from_server>>
            BY <2>1, Zenon DEF StartSubProcess, sockets
        <3> QED BY <1>1, <1>3, <1>5, <3>1, Zenon
               DEF LaunchInv, RequestInv, RequestPcs, Requested, Returned, server
    <2>2. ASSUME NEW step, NEW message \in Messages, NEW next, SendToServer(step, message, next),
                 /\ step \in RequestPcs /\ next \in RequestPcs
                 /\ step # "recv_status_fd" /\ next # "recv_status_fd"
                 /\ Returned(step) = 0 /\ Returned(next) = 0
                 /\ Requested(mode, step) \in Nat
                 /\ Requested(mode, next) = Requested(mode, step) + 1
                 /\ next = "send_exec_fd" => mode.execve
          PROVE  RequestInv'
        <3>1. CASE fs = "dead"
            <4>1. pc' = "started" /\ UNCHANGED <<to_server, from_server>>
                BY <2>2, <3>1, Zenon DEF SendToServer, ReturnProcess, sockets
            <4> QED BY <1>1, <1>3, <3>1, <4>1, Zenon DEF LaunchInv, RequestInv, server
        <3>2. CASE fs # "dead"
            <4>1. /\ pc = step /\ pc' = next /\ to_server' = Append(to_server, message)
                  /\ UNCHANGED from_server
                BY <2>2, <3>2, Zenon DEF SendToServer
            <4>2. /\ Len(to_server') = Requested(mode, pc') - TakenBy(mode, fs)
                  /\ to_server' \in Seq(Messages)
                BY <1>5, <2>2, <2>a, <3>2, <4>1
            <4>3. Len(from_server') = Replied(mode, fs) - Returned(pc')
                BY <1>5, <2>2, <3>2, <4>1, Zenon
            <4> QED BY <1>1, <1>3, <2>2, <3>2, <4>1, <4>2, <4>3, Zenon
                   DEF LaunchInv, RequestInv, server, Requested, TakenBy, Replied,
                       Requests, Replies
        <3> QED BY <3>1, <3>2, Zenon
    <2>3. CASE SendRequest
        <3> USE DEF RequestPcs, Requested, Returned, Requests
        <3>1. CASE SendToServer("send_request", "request", "send_comms_fd")
            BY <2>2, <3>1
        <3>2. CASE SendToServer("send_comms_fd", "comms_fd", "send_exec_fd") /\ mode.execve
            BY <2>2, <3>2
        <3>3. CASE SendToServer("send_comms_fd", "comms_fd", "recv_init_pid") /\ ~mode.execve
            BY <2>2, <3>3
        <3>4. CASE SendToServer("send_exec_fd", "exec_fd", "recv_init_pid")
            <4>1. mode.execve
                BY <3>4, Zenon DEF SendToServer, LaunchInv, RequestInv
            <4> QED BY <2>2, <3>4, <4>1
        <3> QED BY <2>3, <3>1, <3>2, <3>3, <3>4, Zenon DEF SendRequest
    <2>4. CASE RecvInitPid
        <3>1. /\ pc = "recv_init_pid" /\ pc' = "recv_main_pid" /\ UNCHANGED to_server
              /\ from_server # <<>> /\ from_server' = Tail(from_server)
            BY <2>4, Zenon DEF RecvInitPid, FromServer, HostReceives
        <3> QED BY <1>1, <1>3, <1>5, <2>t, <3>1
               DEF LaunchInv, RequestInv, RequestPcs, Requested, Returned, server,
                   TakenBy, Replied, Requests, Replies
    <2>5. CASE RecvMainPid /\ mode.unotify
        <3>1. /\ pc = "recv_main_pid" /\ pc' = "recv_status_fd" /\ UNCHANGED to_server
              /\ from_server # <<>> /\ from_server' = Tail(from_server)
            BY <2>5, Zenon DEF RecvMainPid, FromServer, HostReceives
        <3> QED BY <1>1, <1>3, <1>5, <2>5, <2>t, <3>1
               DEF LaunchInv, RequestInv, RequestPcs, Requested, Returned, server,
                   TakenBy, Replied, Requests, Replies
    <2>6. CASE (RecvMainPid /\ ~mode.unotify) \/ RecvStatusFd
        <3>1. /\ pc' = "started" /\ UNCHANGED to_server
              /\ from_server # <<>> /\ from_server' = Tail(from_server)
              /\ Returned(pc) = Replies(mode) - 1 /\ Requested(mode, pc) = Requests(mode)
            BY <2>6 DEF RecvMainPid, RecvStatusFd, FromServer, HostReceives, ReturnProcess,
                  Returned, Replies, Requested, LaunchInv, RequestInv
        <3>2. ASSUME fs # "dead"
              PROVE  to_server' = <<>> /\ from_server' = <<>> /\ fs = "served"
            <4>1. Len(from_server) # 0
                BY <1>1, <3>1
            <4>2. Replied(mode, fs) = Replies(mode)
                <5>1. Replied(mode, fs) <= Replies(mode) /\ Replies(mode) \in {2, 3}
                    BY DEF Replied, Replies, LaunchInv, RequestInv
                <5>2. Len(from_server) = Replied(mode, fs) - (Replies(mode) - 1)
                    BY <1>5, <3>1, <3>2, Zenon
                <5> QED BY <1>1, <1>5, <3>2, <4>1, <5>1, <5>2
            <4>3. fs = "served"
                BY <4>2 DEF Replied, Replies, LaunchInv, RequestInv
            <4>4. Len(to_server) = 0 /\ Len(from_server) = 1
                BY <1>5, <3>1, <3>2, <4>2, <4>3 DEF TakenBy, Requests, Replies
            <4> QED BY <1>1, <2>t, <3>1, <4>3, <4>4, EmptySeq
        <3>3. from_server' \in Seq(PidValues \cup {"status_fd"})
            BY <2>t, <3>1, Zenon
        <3> QED BY <1>1, <1>3, <3>1, <3>2, <3>3, Zenon DEF LaunchInv, RequestInv, RequestPcs, server
    <2>7. CASE RecvFails
        <3>1. pc' = "started" /\ fs = "dead" /\ UNCHANGED <<to_server, from_server>>
            BY <2>7, Zenon DEF RecvFails, ReturnProcess, sockets
        <3> QED BY <1>1, <1>3, <3>1, Zenon DEF LaunchInv, RequestInv, server
    <2> QED BY <2>1, <2>3, <2>4, <2>5, <2>6, <2>7, Zenon
<1> QED BY <1>4, <1>6, Zenon DEF LaunchInv

\* Sending what comes next in the script.
LEMMA Delivers ==
    ASSUME LaunchInv, NEW messages, NEW next, Deliver(messages, next), NEW k \in Nat,
           pc \notin FailedPcs, SentBy(mode, next) = SentBy(mode, pc) + k,
           pc \in HostPcs, next \in HostPcs,
           messages = Window(mode, SentBy(mode, pc), SentBy(mode, next)),
           SentBy(mode, next) = Mapped(mode) + 3 => limited /\ (mode.unotify \/ attached)
    PROVE  ToClientInv'
<1> DEFINE s == SentBy(mode, pc)
<1> DEFINE r == ReceivedBy(mode, client, fds_left)
<1>1. /\ UNCHANGED <<mode, limited, attached, client, fds_left>> /\ pc' = next
      /\ to_client' = to_client \o messages
    BY Zenon DEF Deliver, OthersUnchanged, sandboxee
<1>2. s \in Nat /\ s + k \in 0 .. Mapped(mode) + 3 /\ r \in Nat
    BY ReceivedType, ModeType DEF LaunchInv, LaunchType
<1>3. client # "dead" => r <= s /\ to_client = Window(mode, r, s)
    BY Zenon DEF LaunchInv, ToClientInv
<1>4. client # "dead" => r <= s + k /\ to_client' = Window(mode, r, s + k)
    <2> SUFFICES ASSUME client # "dead"
                 PROVE  r <= s + k /\ to_client' = Window(mode, r, s + k)
        OBVIOUS
    <2> HIDE DEF r, s
    <2>1. r <= s /\ to_client = Window(mode, r, s)
        BY <1>3, Zenon
    <2>2. Window(mode, r, s) \o messages = Window(mode, r, s + k)
        <3>1. messages = Window(mode, s, s + k)
            BY Zenon DEF s
        <3>2. Window(mode, r, s) \o Window(mode, s, s + k) = Window(mode, r, s + k)
            BY <1>2, <2>1, WindowGrows, Zenon
        <3> QED BY <3>1, <3>2, Zenon
    <2>3. r <= s + k
        BY <1>2, <2>1
    <2> QED BY <1>1, <2>1, <2>2, <2>3, Zenon
<1>5. /\ Mapped(mode') = Mapped(mode) /\ SentBy(mode', pc') = s + k
      /\ ReceivedBy(mode', client', fds_left') = r
    BY <1>1, Zenon
<1>6. ToClientInv' = \E t \in 0 .. Mapped(mode') + 3 :
        /\ pc' \notin FailedPcs => t = SentBy(mode', pc')
        /\ t = Mapped(mode') + 3 => limited' /\ (mode'.unotify \/ attached')
        /\ client' # "dead" =>
             /\ ReceivedBy(mode', client', fds_left') <= t
             /\ to_client' = Window(mode', ReceivedBy(mode', client', fds_left'), t)
    BY Zenon DEF ToClientInv, Mapped, SentBy, ReceivedBy, Window, Script
<1> HIDE DEF r, s
<1> QED BY <1>1, <1>2, <1>4, <1>5, <1>6, Zenon DEF s

\* What the handshake does to host and sandboxee keeps the request as it is.
LEMMA HandshakeFrame ==
    ASSUME LaunchInv, pc \notin RequestPcs \/ UNCHANGED pc, pc' = pc \/ pc' \notin RequestPcs,
           UNCHANGED <<mode, server, to_server, from_server>>
    PROVE  RequestInv'
<1>1. CASE pc' = pc
    BY <1>1, Zenon DEF LaunchInv, RequestInv, server
<1>2. CASE pc' # pc
    <2>1. pc' # "send_exec_fd" /\ pc' # "recv_status_fd"
        BY <1>2, Zenon DEF RequestPcs
    <2> QED BY <1>2, <2>1, Zenon DEF LaunchInv, RequestInv, server
<1> QED BY <1>1, <1>2, Zenon

\* One message of the script.
LEMMA OneMessage ==
    ASSUME NEW m, NEW n \in Nat, NEW a, Script(m, n + 1) = a
    PROVE  <<a>> = Window(m, n, n + 1)
<1>1. (n + 1) - n = 1 /\ \A i \in 1 .. 1 : i = 1
    OBVIOUS
<1>2. Window(m, n, n + 1) = [i \in 1 .. 1 |-> a]
    BY <1>1, Zenon DEF Window
<1> QED BY <1>2

\* A step of the host's half of the handshake.
LEMMA HostStep ==
    ASSUME LaunchInv, pc \notin RequestPcs, pc' \in HostPcs \ RequestPcs,
           UNCHANGED <<mode, server, sandboxee, to_server, from_server>>,
           limited' \in BOOLEAN, attached' \in BOOLEAN, ToClientInv', FromClientInv', StepsInv'
    PROVE  LaunchInv'
<1>1. RequestInv'
    BY HandshakeFrame, Zenon
<1>2. LaunchType' /\ ForkedOnce'
    BY Zenon DEF LaunchInv, LaunchType, ForkedOnce, sandboxee, server
<1> QED BY <1>1, <1>2, Zenon DEF LaunchInv

\* The part that sends: descriptors, directory, policy.
LEMMA HandshakeSends ==
    ASSUME LaunchInv, CheckProcess \/ InitSendIPC \/ InitSendCwd \/ InitSendPolicy
    PROVE  LaunchInv'
<1>0. /\ mode \in Modes /\ Mapped(mode) \in Nat /\ pc \in {"started", "ipc", "cwd", "policy"}
      /\ limited \in BOOLEAN /\ attached \in BOOLEAN
    BY ModeType, Zenon DEF LaunchInv, LaunchType, CheckProcess, InitSendIPC, InitSendCwd,
       InitSendPolicy, SendToClient
<1>1. CASE \E code : Fail(code)
    BY <1>0, <1>1, HostFails, Zenon DEF RequestPcs
<1>2. CASE CheckProcess /\ ~ \E code : Fail(code)
    <2>1. /\ pc = "started" /\ pc' = "ipc"
          /\ UNCHANGED <<mode, server, sandboxee, limited, attached, sockets>>
        BY <1>2, Zenon DEF CheckProcess, OthersUnchanged
    <2>2. ToClientInv'
        BY <2>1, NothingSent, Zenon DEF SentBy, RequestPcs, FailedPcs, sandboxee, sockets
    <2>3. FromClientInv' /\ StepsInv'
        BY <2>1, Zenon DEF LaunchInv, FromClientInv, StepsInv, sandboxee, sockets, LimitedPcs
    <2> QED BY <1>0, <2>1, <2>2, <2>3, HostStep, Zenon DEF RequestPcs, HostPcs, sockets
<1>d. ASSUME NEW messages, NEW next \in {"cwd", "policy", "ready"}, Deliver(messages, next),
             pc \in {"ipc", "cwd", "policy"}, ToClientInv'
      PROVE  LaunchInv'
    <2>1. /\ pc' = next
          /\ UNCHANGED <<mode, server, sandboxee, limited, attached, to_server, from_server,
                         from_client>>
        BY <1>d, Zenon DEF Deliver, OthersUnchanged
    <2>2. FromClientInv' /\ StepsInv'
        BY <1>d, <2>1, Zenon DEF LaunchInv, FromClientInv, StepsInv, sandboxee, LimitedPcs
    <2> QED BY <1>0, <1>d, <2>1, <2>2, HostStep, Zenon DEF RequestPcs, HostPcs
<1>3. CASE InitSendIPC /\ ~ \E code : Fail(code)
    <2>1. Deliver(<<"count">> \o MappedFds(mode.fds), "cwd") /\ pc = "ipc"
        BY <1>3, Zenon DEF InitSendIPC, SendToClient
    <2>2. SentBy(mode, pc) = 0 /\ SentBy(mode, "cwd") = 0 + Mapped(mode) /\ SentBy(mode, "cwd") = Mapped(mode)
        BY <1>0, <2>1 DEF SentBy, RequestPcs
    <2>3. <<"count">> \o MappedFds(mode.fds) = Window(mode, SentBy(mode, pc), SentBy(mode, "cwd"))
        BY <1>0, <2>2, IpcMessages, Zenon
    <2>4. ToClientInv'
        <3>1. SentBy(mode, "cwd") = SentBy(mode, pc) + Mapped(mode)
            BY <1>0, <2>2, Zenon
        <3>2. SentBy(mode, "cwd") # Mapped(mode) + 3
            BY <1>0, <2>2
        <3>3. pc \notin FailedPcs /\ pc \in HostPcs /\ "cwd" \in HostPcs
            BY <2>1, Zenon DEF FailedPcs, HostPcs
        <3> QED BY <1>0, <2>1, <2>3, <3>1, <3>2, <3>3, Delivers, Zenon
    <2> QED BY <1>d, <2>1, <2>4, Zenon
<1>4. CASE InitSendCwd /\ ~ \E code : Fail(code)
    <2>1. Deliver(<<"cwd">>, "policy") /\ pc = "cwd"
        BY <1>4, Zenon DEF InitSendCwd, SendToClient
    <2>2. SentBy(mode, pc) = Mapped(mode) /\ SentBy(mode, "policy") = Mapped(mode) + 1
        BY <1>0, <2>1, Zenon DEF SentBy, RequestPcs
    <2>3. <<"cwd">> = Window(mode, SentBy(mode, pc), SentBy(mode, "policy"))
        BY <1>0, <2>2, OneMessage, ScriptAt, Zenon
    <2>4. ToClientInv'
        BY <1>0, <2>1, <2>2, <2>3, Delivers DEF FailedPcs, HostPcs
    <2> QED BY <1>d, <2>1, <2>4, Zenon
<1>5. CASE InitSendPolicy /\ ~ \E code : Fail(code)
    <2>1. Deliver(<<"policy">>, "ready") /\ pc = "policy"
        BY <1>5, Zenon DEF InitSendPolicy, SendToClient
    <2>2. /\ SentBy(mode, pc) = Mapped(mode) + 1 /\ SentBy(mode, "ready") = (Mapped(mode) + 1) + 1
          /\ (Mapped(mode) + 1) + 1 = Mapped(mode) + 2 /\ Mapped(mode) + 1 \in Nat
        BY <1>0, <2>1 DEF SentBy, RequestPcs
    <2>3. <<"policy">> = Window(mode, SentBy(mode, pc), SentBy(mode, "ready"))
        BY <1>0, <2>2, OneMessage, ScriptAt, Zenon
    <2>4. ToClientInv'
        BY <1>0, <2>1, <2>2, <2>3, Delivers DEF FailedPcs, HostPcs
    <2> QED BY <1>d, <2>1, <2>4, Zenon
<1> QED BY <1>1, <1>2, <1>3, <1>4, <1>5, Zenon

\* The part that waits, limits and attaches.
LEMMA HandshakeEnds ==
    ASSUME LaunchInv, \/ WaitForSandboxReady \/ InitApplyLimits \/ PtraceAttach
                      \/ SendClientDone \/ InitSetupUnotify \/ InitSetupNotifyPipe
    PROVE  LaunchInv'
<1>0. /\ mode \in Modes /\ Mapped(mode) \in Nat /\ mode.unotify \in BOOLEAN
      /\ pc \in {"ready", "limits", "run", "send_done", "recv_listener", "notify_pipe"}
      /\ limited \in BOOLEAN /\ attached \in BOOLEAN
    BY ModeType, Zenon
       DEF LaunchInv, LaunchType, WaitForSandboxReady, InitApplyLimits, PtraceAttach,
       SendClientDone, InitSetupUnotify, InitSetupNotifyPipe, FromClient, ClientHangsUp
<1>1. CASE (\E code : Fail(code)) \/ SetupFails
    BY <1>0, <1>1, HostFails, Zenon DEF RequestPcs
<1>2. CASE FromClient("ready", "ready", "limits")
    <2>1. /\ pc = "ready" /\ pc' = "limits" /\ from_client # <<>> /\ from_client' = Tail(from_client)
          /\ UNCHANGED <<mode, server, sandboxee, limited, attached, to_server, from_server,
                         to_client>>
        BY <1>2, Zenon DEF FromClient, OthersUnchanged
    <2>2. ToClientInv'
        BY <2>1, NothingSent, Zenon DEF SentBy, RequestPcs, FailedPcs, sandboxee
    <2>3. from_client = <<"ready">>
        BY <2>1, Zenon DEF LaunchInv, FromClientInv
    <2>4. from_client' = <<>>
        BY <2>1, <2>3
    <2>5. client \in FilterClients \cup {"confirm", "dead"}
        BY <2>1, Zenon DEF LaunchInv, FromClientInv, LaunchType, Clients
    <2>6. FromClientInv' /\ StepsInv'
        BY <2>1, <2>4, <2>5, Zenon
           DEF LaunchInv, FromClientInv, StepsInv, sandboxee, LimitedPcs, RequestPcs
    <2> QED BY <1>0, <2>1, <2>2, <2>6, HostStep, Zenon DEF RequestPcs, HostPcs
<1>3. CASE InitApplyLimits /\ ~ \E code : Fail(code)
    <2>1. /\ pc = "limits" /\ pc' = "run" /\ limited' = TRUE
          /\ UNCHANGED <<mode, server, sandboxee, attached, sockets>>
        BY <1>3, Zenon DEF InitApplyLimits, OthersUnchanged
    <2>2. ToClientInv'
        BY <2>1, NothingSent, Zenon DEF SentBy, RequestPcs, FailedPcs, sandboxee, sockets
    <2>3. FromClientInv' /\ StepsInv'
        BY <2>1, Zenon
           DEF LaunchInv, FromClientInv, StepsInv, sandboxee, sockets, LimitedPcs, RequestPcs
    <2> QED BY <1>0, <2>1, <2>2, <2>3, HostStep, Zenon DEF RequestPcs, HostPcs, LimitedPcs, sockets
<1>4. CASE PtraceAttach /\ ~SetupFails
    <2>1. /\ pc = "run" /\ pc' = "send_done" /\ attached' = TRUE /\ ~mode.unotify
          /\ UNCHANGED <<mode, server, sandboxee, limited, sockets>>
        BY <1>4, Zenon DEF PtraceAttach, OthersUnchanged
    <2>2. ToClientInv'
        BY <2>1, NothingSent, Zenon DEF SentBy, RequestPcs, FailedPcs, sandboxee, sockets
    <2>3. FromClientInv' /\ StepsInv'
        BY <2>1, Zenon
           DEF LaunchInv, FromClientInv, StepsInv, sandboxee, sockets, LimitedPcs, RequestPcs
    <2> QED BY <1>0, <2>1, <2>2, <2>3, HostStep, Zenon DEF RequestPcs, HostPcs, LimitedPcs, sockets
<1>5. /\ (Mapped(mode) + 2) + 1 = Mapped(mode) + 3 /\ Mapped(mode) + 2 \in Nat
      /\ SentBy(mode, "run") = Mapped(mode) + 2 /\ SentBy(mode, "send_done") = Mapped(mode) + 2
      /\ SentBy(mode, "monitoring") = (Mapped(mode) + 2) + 1
      /\ SentBy(mode, "recv_listener") = (Mapped(mode) + 2) + 1
    BY <1>0 DEF SentBy, RequestPcs
<1>6. CASE SendClientDone /\ ~SetupFails
    <2>1. Deliver(<<"done">>, "monitoring") /\ pc = "send_done"
        BY <1>6, Zenon DEF SendClientDone
    <2>2. limited /\ attached /\ ~mode.unotify
        BY <2>1, Zenon DEF LaunchInv, StepsInv, LimitedPcs
    <2>3. <<"done">> = Window(mode, SentBy(mode, pc), SentBy(mode, "monitoring"))
        BY <1>0, <1>5, <2>1, <2>2, OneMessage, ScriptAt, Zenon
    <2>4. ToClientInv'
        BY <1>0, <1>5, <2>1, <2>2, <2>3, Delivers, Zenon DEF FailedPcs, HostPcs, LimitedPcs
    <2>5. /\ pc' = "monitoring"
          /\ UNCHANGED <<mode, server, sandboxee, limited, attached, to_server, from_server,
                         from_client>>
        BY <2>1, Zenon DEF Deliver, OthersUnchanged
    <2>6. FromClientInv' /\ StepsInv'
        BY <2>1, <2>2, <2>5, Zenon
           DEF LaunchInv, FromClientInv, StepsInv, sandboxee, LimitedPcs, RequestPcs
    <2> QED BY <1>0, <2>4, <2>5, <2>6, HostStep, Zenon DEF RequestPcs, HostPcs, LimitedPcs
<1>7. CASE pc = "run" /\ mode.unotify /\ Deliver(<<"unotify">>, "recv_listener")
    <2>2. limited
        BY <1>7, Zenon DEF LaunchInv, StepsInv, LimitedPcs
    <2>3. <<"unotify">> = Window(mode, SentBy(mode, pc), SentBy(mode, "recv_listener"))
        BY <1>0, <1>5, <1>7, OneMessage, ScriptAt, Zenon
    <2>4. ToClientInv'
        BY <1>0, <1>5, <1>7, <2>2, <2>3, Delivers, Zenon DEF FailedPcs, HostPcs, LimitedPcs
    <2>5. /\ pc' = "recv_listener"
          /\ UNCHANGED <<mode, server, sandboxee, limited, attached, to_server, from_server,
                         from_client>>
        BY <1>7, Zenon DEF Deliver, OthersUnchanged
    <2>6. FromClientInv' /\ StepsInv'
        BY <1>7, <2>2, <2>5, Zenon
           DEF LaunchInv, FromClientInv, StepsInv, sandboxee, LimitedPcs, RequestPcs
    <2> QED BY <1>0, <2>4, <2>5, <2>6, HostStep, Zenon DEF RequestPcs, HostPcs, LimitedPcs
<1>8. CASE FromClient("recv_listener", "listener", "notify_pipe")
    <2>1. /\ pc = "recv_listener" /\ pc' = "notify_pipe" /\ from_client # <<>>
          /\ from_client' = Tail(from_client)
          /\ UNCHANGED <<mode, server, sandboxee, limited, attached, to_server, from_server,
                         to_client>>
        BY <1>8, Zenon DEF FromClient, OthersUnchanged
    <2>2. ToClientInv'
        BY <2>1, NothingSent, Zenon DEF SentBy, RequestPcs, FailedPcs, sandboxee
    <2>3. from_client = <<"listener">> /\ client \notin {"confirm", "listener", "sendfd"}
        BY <2>1, Zenon DEF LaunchInv, FromClientInv
    <2>4. from_client' = <<>>
        BY <2>1, <2>3
    <2>5. client \in {"tsync", "run", "dead"} /\ limited
        BY <2>1, <2>3, Zenon DEF LaunchInv, StepsInv, LimitedPcs, FilterClients
    <2>6. FromClientInv' /\ StepsInv'
        BY <2>1, <2>4, <2>5, Zenon
           DEF LaunchInv, FromClientInv, StepsInv, sandboxee, LimitedPcs, RequestPcs
    <2> QED BY <1>0, <2>1, <2>2, <2>6, HostStep, Zenon DEF RequestPcs, HostPcs, LimitedPcs
<1>9. CASE InitSetupNotifyPipe /\ ~SetupFails
    <2>1. /\ pc = "notify_pipe" /\ pc' = "monitoring"
          /\ UNCHANGED <<mode, server, sandboxee, limited, attached, sockets>>
        BY <1>9, Zenon DEF InitSetupNotifyPipe, OthersUnchanged
    <2>2. ToClientInv'
        BY <2>1, NothingSent, Zenon DEF SentBy, RequestPcs, FailedPcs, sandboxee, sockets
    <2>3. FromClientInv' /\ StepsInv'
        BY <2>1, Zenon
           DEF LaunchInv, FromClientInv, StepsInv, sandboxee, sockets, LimitedPcs, RequestPcs
    <2> QED BY <1>0, <2>1, <2>2, <2>3, HostStep, Zenon DEF RequestPcs, HostPcs, LimitedPcs, sockets
<1> QED BY <1>1, <1>2, <1>3, <1>4, <1>6, <1>7, <1>8, <1>9, Zenon
       DEF WaitForSandboxReady, InitApplyLimits, PtraceAttach, SendClientDone, InitSetupUnotify,
       InitSetupNotifyPipe

-----------------------------------------------------------------------------
(***************************************************************************)
(* The steps of the fork-server.                                           *)
(***************************************************************************)
\* It is at work only while the host waits.
LEMMA ServerAtWork ==
    ASSUME LaunchInv, fs \notin {"request", "served", "dead"} \/ (fs # "dead" /\ to_server # <<>>)
    PROVE  /\ pc \in RequestPcs
           /\ Len(to_server) = Requested(mode, pc) - TakenBy(mode, fs)
           /\ Len(from_server) = Replied(mode, fs) - Returned(pc)
BY Zenon DEF LaunchInv, RequestInv

\* The lengths and counts that RequestInv compares are natural numbers.
LEMMA CountsType ==
    ASSUME LaunchInv
    PROVE  /\ Len(to_server) \in Nat /\ Len(from_server) \in Nat
           /\ Requested(mode, pc) \in 0 .. 3 /\ Returned(pc) \in 0 .. 3
           /\ mode.execve \in BOOLEAN /\ mode.unotify \in BOOLEAN /\ fs_pids.init \in PidValues
           /\ fs_pids.main \in PidValues
<1>1. mode.execve \in BOOLEAN /\ mode.unotify \in BOOLEAN
    BY ModeType, Zenon DEF LaunchInv, LaunchType
<1>2. Len(to_server) \in Nat /\ Len(from_server) \in Nat
    BY LenProperties, Zenon DEF LaunchInv, RequestInv
<1> QED BY <1>1, <1>2 DEF LaunchInv, RequestInv, Requested, Requests, Returned

\* A step that keeps the processes and the handshake.
LEMMA ServerStep ==
    ASSUME LaunchInv, ServerUnchanged, UNCHANGED <<init, to_client, from_client>>, RequestInv',
           fs' \in {"request", "comms_fd", "exec_fd", "fork"} =>
               fs \in {"request", "comms_fd", "exec_fd", "fork"}
    PROVE  LaunchInv'
<1>1. UNCHANGED <<mode, host, sandboxee>>
    BY Zenon DEF ServerUnchanged, sandboxee
<1>2. LaunchType' /\ ToClientInv' /\ FromClientInv' /\ StepsInv'
    BY <1>1, RequestFrame, Zenon DEF host
<1>3. ForkedOnce'
    BY <1>1, Zenon DEF LaunchInv, ForkedOnce, sandboxee
<1> QED BY <1>2, <1>3, Zenon DEF LaunchInv

\* ServeRequest() takes the request and its descriptors.
LEMMA ReceiveRequestInv ==
    ASSUME LaunchInv, ReceiveRequest
    PROVE  LaunchInv'
<1>1. PICK step \in {"request", "comms_fd", "exec_fd"}, next \in {"comms_fd", "exec_fd", "fork"} :
        /\ fs = step /\ fs' = next /\ to_server # <<>> /\ to_server' = Tail(to_server)
        /\ UNCHANGED <<fs_pids, init, from_server, to_client, from_client>> /\ ServerUnchanged
        /\ \/ step = "request" /\ next = "comms_fd"
           \/ step = "comms_fd" /\ next = IF mode.execve THEN "exec_fd" ELSE "fork"
           \/ step = "exec_fd" /\ next = "fork"
    BY Zenon DEF ReceiveRequest, FromHost
<1>2. /\ pc \in RequestPcs
      /\ Len(to_server) = Requested(mode, pc) - TakenBy(mode, fs)
      /\ Len(from_server) = Replied(mode, fs) - Returned(pc)
    BY <1>1, ServerAtWork, Zenon
<1>3. TakenBy(mode, fs') = TakenBy(mode, fs) + 1 /\ TakenBy(mode, fs) \in Nat
    BY <1>1, CountsType DEF TakenBy, Requests, LaunchInv, RequestInv
<1>4. Replied(mode, fs') = Replied(mode, fs)
    BY <1>1, Zenon DEF Replied
<1>5. /\ to_server' \in Seq({"request", "comms_fd", "exec_fd"})
      /\ Len(to_server') = Len(to_server) - 1
    BY <1>1, HeadTailProperties, Zenon DEF LaunchInv, RequestInv
<1>6. UNCHANGED <<mode, pc>>
    BY <1>1, Zenon DEF ServerUnchanged, host
<1>7. Len(to_server') = Requested(mode, pc) - TakenBy(mode, fs')
    BY <1>2, <1>3, <1>5, CountsType
<1>8. fs' = "exec_fd" => mode.execve
    BY <1>1, Zenon
<1>9. RequestInv'
    BY <1>1, <1>2, <1>4, <1>5, <1>6, <1>7, <1>8, Zenon
       DEF LaunchInv, RequestInv, ServerSteps, Requested, Requests, TakenBy, Replied, Replies, Returned
<1> QED BY <1>1, <1>9, ServerStep, Zenon

\* The fork-server forks, or fails to.
LEMMA ForkInv ==
    ASSUME LaunchInv, Fork
    PROVE  LaunchInv'
<1>1. /\ fs = "fork" /\ fs' \in {"recv_init", "close"} /\ init = "none" /\ client = "none"
      /\ fs_pids' \in [init : PidValues, main : PidValues]
      /\ UNCHANGED <<mode, host, fds_left, confused, sockets>>
      /\ client' \in {"none", "boot"}
      /\ init' \in {"new", "launch"} => client' = "none"
    BY DEF Fork, LaunchInv, ForkedOnce, PidValues
<1>2. RequestInv'
    <2>1. /\ pc \in RequestPcs
          /\ Len(to_server) = Requested(mode, pc) - TakenBy(mode, fs)
          /\ Len(from_server) = Replied(mode, fs) - Returned(pc)
        BY <1>1, ServerAtWork, Zenon
    <2>2. TakenBy(mode, fs') = TakenBy(mode, fs) /\ Replied(mode, fs') = Replied(mode, fs)
        BY <1>1, Zenon DEF TakenBy, Replied
    <2> QED BY <1>1, <2>1, <2>2, Zenon DEF LaunchInv, RequestInv, ServerSteps, host, sockets,
               Requested, Requests, TakenBy, Replied, Replies, Returned
<1>3. ToClientInv'
    <2>1. ReceivedBy(mode, client, fds_left)' = ReceivedBy(mode, client, fds_left)
        BY <1>1, Zenon DEF ReceivedBy, EarlyClients
    <2> QED BY <1>1, <2>1, ToClientKept, Zenon DEF host, sockets
<1>4. LaunchType' /\ FromClientInv' /\ StepsInv' /\ ForkedOnce'
    BY <1>1, Zenon DEF LaunchInv, LaunchType, FromClientInv, StepsInv, ForkedOnce, host, sockets,
       Clients, EarlyClients, FdClients, FilterClients
<1> QED BY <1>2, <1>3, <1>4, Zenon DEF LaunchInv

\* The fork-server learns the pids of its children and closes its descriptors.
LEMMA PidsInv ==
    ASSUME LaunchInv, ReceivePids \/ CloseFds
    PROVE  LaunchInv'
<1>1. /\ fs \in {"recv_init", "recv_main", "close"} /\ fs' \in {"recv_main", "close", "reply_init"}
      /\ ServerUnchanged /\ UNCHANGED <<init, to_server, from_server, to_client, from_client>>
    BY Zenon DEF ReceivePids, ReceivePid, CloseFds, sockets
<1>2. fs_pids' \in [init : PidValues, main : PidValues]
    <2>1. fs_pids \in [init : PidValues, main : PidValues]
        BY Zenon DEF LaunchInv, RequestInv
    <2>2. [fs_pids EXCEPT !.main = "pid"] \in [init : PidValues, main : PidValues]
        BY <2>1, Zenon DEF PidValues
    <2> QED BY <2>1, <2>2 DEF ReceivePids, ReceivePid, CloseFds, PidValues, NoProcess
<1>3. /\ pc \in RequestPcs
      /\ Len(to_server) = Requested(mode, pc) - TakenBy(mode, fs)
      /\ Len(from_server) = Replied(mode, fs) - Returned(pc)
    BY <1>1, ServerAtWork, Zenon
<1>4. TakenBy(mode, fs') = TakenBy(mode, fs) /\ Replied(mode, fs') = Replied(mode, fs)
    BY <1>1, Zenon DEF TakenBy, Replied
<1>5. RequestInv'
    BY <1>1, <1>2, <1>3, <1>4, Zenon DEF LaunchInv, RequestInv, ServerSteps, ServerUnchanged, host,
       Requested, Requests, TakenBy, Replied, Replies, Returned
<1> QED BY <1>1, <1>5, ServerStep, Zenon

\* The fork-server sends the pids and the status descriptor.
LEMMA SendReplyInv ==
    ASSUME LaunchInv, SendReply
    PROVE  LaunchInv'
<1>1. PICK step \in {"reply_init", "reply_main", "reply_status"},
           next \in {"reply_main", "reply_status", "served"}, message \in PidValues \cup {"status_fd"} :
        /\ fs = step /\ fs' = next /\ from_server' = Append(from_server, message)
        /\ UNCHANGED <<fs_pids, init, to_server, to_client, from_client>> /\ ServerUnchanged
        /\ \/ step = "reply_init" /\ next = "reply_main"
           \/ step = "reply_main" /\ next = IF mode.unotify THEN "reply_status" ELSE "served"
           \/ step = "reply_status" /\ next = "served"
    BY CountsType, Zenon DEF SendReply, Reply
<1>2. /\ pc \in RequestPcs
      /\ Len(to_server) = Requested(mode, pc) - TakenBy(mode, fs)
      /\ Len(from_server) = Replied(mode, fs) - Returned(pc)
    BY <1>1, ServerAtWork, Zenon
<1>3. Replied(mode, fs') = Replied(mode, fs) + 1 /\ Replied(mode, fs) \in Nat
    BY <1>1, CountsType DEF Replied, Replies, LaunchInv, RequestInv
<1>4. TakenBy(mode, fs') = TakenBy(mode, fs)
    BY <1>1, Zenon DEF TakenBy
<1>5. /\ from_server' \in Seq(PidValues \cup {"status_fd"})
      /\ Len(from_server') = Len(from_server) + 1
    BY <1>1, AppendProperties DEF LaunchInv, RequestInv
<1>6. UNCHANGED <<mode, pc>>
    BY <1>1, Zenon DEF ServerUnchanged, host
<1>7. Len(from_server') = Replied(mode, fs') - Returned(pc)
    BY <1>2, <1>3, <1>5, CountsType
<1>8. fs' = "reply_status" => mode.unotify
    BY <1>1, Zenon
<1>9. RequestInv'
    BY <1>1, <1>2, <1>4, <1>5, <1>6, <1>7, <1>8, Zenon
       DEF LaunchInv, RequestInv, ServerSteps, Requested, Requests, TakenBy, Replied, Replies, Returned
<1> QED BY <1>1, <1>9, ServerStep, Zenon

\* It dies, and with it the requests not yet received.
LEMMA ServerDiesInv ==
    ASSUME LaunchInv, ServerDies
    PROVE  LaunchInv'
<1>1. /\ fs' = "dead" /\ to_server' = <<>>
      /\ UNCHANGED <<mode, host, fs_pids, sandboxee, from_server, to_client, from_client>>
    BY Zenon DEF ServerDies
<1>2. RequestInv'
    BY <1>1 DEF LaunchInv, RequestInv, ServerSteps, host
<1> QED BY <1>1, <1>2, ServerStep, Zenon DEF ServerUnchanged, sandboxee

-----------------------------------------------------------------------------
(***************************************************************************)
(* The steps of the init process and of the sandboxee.                     *)
(***************************************************************************)
LEMMA ClientStep ==
    ASSUME LaunchInv, UNCHANGED <<mode, host, server, to_server, from_server, confused>>,
           client' \in Clients, client' \in FdClients => fds_left' \in 1 .. mode.fds,
           ToClientInv', FromClientInv', StepsInv', ForkedOnce'
    PROVE  LaunchInv'
<1>1. RequestInv'
    BY HandshakeFrame, Zenon DEF host
<1>2. LaunchType'
    BY Zenon DEF LaunchInv, LaunchType, host
<1> QED BY <1>1, <1>2, Zenon DEF LaunchInv

\* The sandboxee dies, alone or with the init process.
LEMMA ClientDied ==
    ASSUME LaunchInv, ClientAlive, client' = "dead", init' \in {init, "dead"}, ToClientInv',
           UNCHANGED <<mode, host, server, to_server, from_server, from_client, confused>>
    PROVE  LaunchInv'
<1>1. FromClientInv' /\ StepsInv' /\ ForkedOnce'
    BY Zenon DEF LaunchInv, FromClientInv, StepsInv, ForkedOnce, ClientAlive, host, server,
       EarlyClients, FdClients
<1> QED BY <1>1, ClientStep, Zenon DEF Clients, FdClients

\* The init process or the sandboxee dies at any step.
LEMMA DiesInv ==
    ASSUME LaunchInv, NEW proc, Dies(proc)
    PROVE  LaunchInv'
<1>1. /\ UNCHANGED <<mode, host, server, fds_left, confused, sockets>>
      /\ \/ ClientAlive /\ client' = "dead" /\ init' \in {init, "dead"}
         \/ ~ClientAlive /\ UNCHANGED client /\ InitAlive /\ init' = "dead"
    BY Zenon DEF Dies
<1>2. ToClientInv'
    BY <1>1, ToClientKept, Zenon DEF host, sockets, LaunchInv, ToClientInv
<1>3. CASE ClientAlive
    BY <1>1, <1>2, <1>3, ClientDied, Zenon DEF sockets
<1>4. CASE ~ClientAlive
    <2>1. FromClientInv' /\ StepsInv' /\ ForkedOnce'
        BY <1>1, <1>4, Zenon DEF LaunchInv, FromClientInv, StepsInv, ForkedOnce, InitAlive, host,
           server, sockets
    <2> QED BY <1>1, <1>2, <1>4, <2>1, ClientStep, Zenon DEF LaunchInv, LaunchType, sockets
<1> QED BY <1>3, <1>4, Zenon

\* The processes start.
LEMMA BootInv ==
    ASSUME LaunchInv, InitSendPid \/ InitForks \/ RunInitProcess \/ LaunchChild
    PROVE  LaunchInv'
<1>1. UNCHANGED <<mode, host, server, fds_left, confused, to_server, from_server,
                  to_client, from_client>>
    BY Zenon DEF InitSendPid, InitForks, RunInitProcess, LaunchChild, InitUnchanged, ClientUnchanged
<1>2. \/ UNCHANGED client /\ init' \notin {"none", "new"} /\ init # "none"
         /\ (init' = "launch" => init = "new")
      \/ client = "none" /\ client' = "boot" /\ init = "launch" /\ init' = "forked"
      \/ client = "boot" /\ client' = "count" /\ UNCHANGED init
    BY Zenon
       DEF InitSendPid, InitForks, RunInitProcess, LaunchChild, InitUnchanged, ClientUnchanged,
       LaunchInv, ForkedOnce
<1>3. ForkedOnce'
    BY <1>1, <1>2, Zenon DEF LaunchInv, ForkedOnce, server
<1>4. ToClientInv'
    <2>1. CASE UNCHANGED client
        BY <1>1, <2>1, ToClientKept, Zenon DEF host, ReceivedBy, Mapped, LaunchInv, ToClientInv
    <2>2. CASE client # client'
        <3>1. client # "dead" /\ client' # "dead"
              /\ ReceivedBy(mode, client, fds_left)' = ReceivedBy(mode, client, fds_left)
            BY <1>2, <2>2, Zenon DEF ReceivedBy, EarlyClients
        <3> QED BY <1>1, <3>1, ToClientKept, Zenon DEF host
    <2> QED BY <2>1, <2>2, Zenon
<1>5. FromClientInv' /\ StepsInv'
    BY <1>1, <1>2, Zenon
       DEF LaunchInv, FromClientInv, StepsInv, host, EarlyClients, FdClients, FilterClients
<1>6. client' \in Clients /\ (client' \in FdClients => fds_left' \in 1 .. mode.fds)
    BY <1>1, <1>2, Zenon DEF LaunchInv, LaunchType, Clients, EarlyClients, FdClients
<1> QED BY <1>1, <1>3, <1>4, <1>5, <1>6, ClientStep, Zenon

\* A message of the first part of the handshake is received.
LEMMA HandshakeRecv ==
    ASSUME LaunchInv, client \in {"count", "requested", "fd", "name", "cwd", "policy"},
           client' \in {"requested", "fd", "name", "cwd", "policy", "ready"},
           client' \in FdClients => fds_left' \in 1 .. mode.fds, ToClientInv',
           UNCHANGED <<mode, host, server, init, to_server, from_server, from_client, confused>>
    PROVE  LaunchInv'
<1>1. FromClientInv' /\ StepsInv' /\ ForkedOnce'
    BY Zenon DEF LaunchInv, FromClientInv, StepsInv, ForkedOnce, host, server,
       EarlyClients, FdClients, FilterClients
<1> QED BY <1>1, ClientStep, Zenon DEF Clients, FdClients

\* The sandboxee takes the next message of the script and goes one step on.
LEMMA RecvStep ==
    ASSUME LaunchInv, NEW message, NEW left,
           NEW step \in {"count", "requested", "fd", "name", "cwd", "policy"},
           NEW next \in {"requested", "fd", "name", "cwd", "policy", "ready"},
           next \in FdClients => left \in 1 .. mode.fds,
           ClientRecv(step, {message}, next, left),
           Script(mode, ReceivedBy(mode, step, fds_left) + 1) = message,
           ReceivedBy(mode, next, left) = ReceivedBy(mode, step, fds_left) + 1
    PROVE  LaunchInv'
<1>1. /\ ToClientInv' /\ confused' = confused
      /\ client' = "dead" \/ (client' = next /\ fds_left' = left)
      /\ UNCHANGED <<mode, host, server, init, to_server, from_server, from_client>>
    BY ReceivesInPlace, ZenonT(30)
<1>2. client = step
    BY Zenon DEF ClientRecv
<1>3. CASE client' = "dead"
    BY <1>1, <1>2, <1>3, ClientDied, Zenon DEF ClientAlive
<1>4. CASE client' = next /\ fds_left' = left
    BY <1>1, <1>2, <1>4, HandshakeRecv, Zenon
<1> QED BY <1>1, <1>3, <1>4, Zenon

\* SetUpIPC, SetUpCwd and ReceivePolicy take the messages they expect.
LEMMA SetUpInv ==
    ASSUME LaunchInv, SetUpIPC \/ SetUpCwd \/ ReceivePolicy
    PROVE  LaunchInv'
<1>0. mode \in Modes /\ mode.fds \in Nat /\ Mapped(mode) = 3 * mode.fds + 1
    BY ModeType, Zenon DEF LaunchInv, LaunchType, Mapped
<1> DEFINE at == 3 * (mode.fds - fds_left)
<1>l. client \in FdClients =>
        /\ fds_left \in 1 .. mode.fds /\ at \in Nat
        /\ Script(mode, (1 + at) + 1) = "requested" /\ Script(mode, (2 + at) + 1) = "fd"
        /\ Script(mode, (3 + at) + 1) = "name"
    <2> SUFFICES ASSUME client \in FdClients
                 PROVE  /\ fds_left \in 1 .. mode.fds /\ at \in Nat
                        /\ Script(mode, (1 + at) + 1) = "requested"
                        /\ Script(mode, (2 + at) + 1) = "fd"
                        /\ Script(mode, (3 + at) + 1) = "name"
        OBVIOUS
    <2>1. fds_left \in 1 .. mode.fds
        BY Zenon DEF LaunchInv, LaunchType
    <2>2. at \in Nat /\ (1 + at) + 1 = 2 + at /\ (2 + at) + 1 = 3 + at /\ (3 + at) + 1 = 4 + at
        BY <1>0, <2>1
    <2> QED BY <1>0, <2>1, <2>2, ScriptAt, Zenon
<1> HIDE DEF at
<1>1. CASE ClientRecv("count", {"count"}, IF mode.fds = 0 THEN "cwd" ELSE "requested", mode.fds)
    <2>1. ReceivedBy(mode, "count", fds_left) = 0 /\ Script(mode, 0 + 1) = "count"
        BY <1>0, ScriptAt DEF ReceivedBy, EarlyClients
    <2>2. ReceivedBy(mode, IF mode.fds = 0 THEN "cwd" ELSE "requested", mode.fds) = 0 + 1
        BY <1>0 DEF ReceivedBy, EarlyClients
    <2>3. mode.fds # 0 => mode.fds \in 1 .. mode.fds
        BY <1>0
    <2> QED BY <1>1, <2>1, <2>2, <2>3, RecvStep, ZenonT(30) DEF FdClients
<1>2. CASE ClientRecv("requested", {"requested"}, "fd", fds_left)
    <2>1. client = "requested"
        BY <1>2, Zenon DEF ClientRecv
    <2>2. ReceivedBy(mode, "requested", fds_left) = 1 + at /\ ReceivedBy(mode, "fd", fds_left) = 2 + at
        BY Zenon DEF ReceivedBy, EarlyClients, at
    <2>3. 2 + at = (1 + at) + 1 /\ fds_left \in 1 .. mode.fds
        BY <1>l, <2>1 DEF FdClients
    <2> QED BY <1>2, <1>l, <2>1, <2>2, <2>3, RecvStep, Zenon DEF FdClients
<1>3. CASE ClientRecv("fd", {"fd"}, "name", fds_left)
    <2>1. client = "fd"
        BY <1>3, Zenon DEF ClientRecv
    <2>2. ReceivedBy(mode, "fd", fds_left) = 2 + at /\ ReceivedBy(mode, "name", fds_left) = 3 + at
        BY Zenon DEF ReceivedBy, EarlyClients, at
    <2>3. 3 + at = (2 + at) + 1 /\ fds_left \in 1 .. mode.fds
        BY <1>l, <2>1 DEF FdClients
    <2> QED BY <1>3, <1>l, <2>1, <2>2, <2>3, RecvStep, Zenon DEF FdClients
<1>4. CASE ClientRecv("name", {"name"}, IF fds_left = 1 THEN "cwd" ELSE "requested", fds_left - 1)
    <2>1. client = "name"
        BY <1>4, Zenon DEF ClientRecv
    <2>2. fds_left \in 1 .. mode.fds /\ Script(mode, (3 + at) + 1) = "name"
        BY <1>l, <2>1, Zenon DEF FdClients
    <2>3. ReceivedBy(mode, "name", fds_left) = 3 + at
        BY Zenon DEF ReceivedBy, EarlyClients, at
    <2>4. CASE fds_left = 1
        <3>1. ReceivedBy(mode, "cwd", fds_left - 1) = (3 + at) + 1
            BY <1>0, <2>2, <2>4 DEF ReceivedBy, EarlyClients, at
        <3>2. ClientRecv("name", {"name"}, "cwd", fds_left - 1)
            BY <1>4, <2>4, Zenon
        <3> QED BY <2>2, <2>3, <3>1, <3>2, RecvStep, Zenon DEF FdClients
    <2>5. CASE fds_left # 1
        <3>1. fds_left - 1 \in 1 .. mode.fds
            BY <1>0, <2>2, <2>5
        <3>2. 1 + 3 * (mode.fds - (fds_left - 1)) = (3 + at) + 1
            BY <1>0, <2>2 DEF at
        <3>3. ReceivedBy(mode, "requested", fds_left - 1) = (3 + at) + 1
            BY <3>2, Zenon DEF ReceivedBy, EarlyClients
        <3>4. ClientRecv("name", {"name"}, "requested", fds_left - 1)
            BY <1>4, <2>5, Zenon
        <3> QED BY <2>2, <2>3, <3>1, <3>3, <3>4, RecvStep, Zenon DEF FdClients
    <2> QED BY <2>4, <2>5, Zenon
<1>5. CASE SetUpCwd
    <2>1. /\ ReceivedBy(mode, "cwd", fds_left) = Mapped(mode)
          /\ ReceivedBy(mode, "policy", fds_left) = Mapped(mode) + 1
          /\ Script(mode, Mapped(mode) + 1) = "cwd"
        BY <1>0, ScriptAt, Zenon DEF ReceivedBy, EarlyClients
    <2> QED BY <1>5, <2>1, RecvStep, Zenon DEF SetUpCwd, FdClients
<1>6. CASE ReceivePolicy
    <2>1. /\ ReceivedBy(mode, "policy", fds_left) = Mapped(mode) + 1
          /\ ReceivedBy(mode, "ready", fds_left) = (Mapped(mode) + 1) + 1
          /\ Script(mode, (Mapped(mode) + 1) + 1) = "policy"
        <3>1. (Mapped(mode) + 1) + 1 = Mapped(mode) + 2
            BY <1>0
        <3> QED BY <1>0, <3>1, ScriptAt, Zenon DEF ReceivedBy, EarlyClients
    <2> QED BY <1>6, <2>1, RecvStep, Zenon DEF ReceivePolicy, FdClients
<1> QED BY <1>1, <1>2, <1>3, <1>4, <1>5, <1>6, Zenon DEF SetUpIPC

\* What the sandboxee may be about once it has the last message.
LEMMA FilterMeans ==
    ASSUME LaunchInv
    PROVE  /\ client \in FilterClients =>
                /\ limited /\ (mode.unotify \/ attached)
                /\ to_client = <<>>
                /\ pc \in FailedPcs \cup {"recv_listener", "notify_pipe", "monitoring"}
           /\ client = "ready" => ~limited /\ pc # "limits" /\ pc \notin LimitedPcs
<1>0. mode.fds \in Nat /\ Mapped(mode) \in Nat /\ LaunchType
    BY ModeType, Zenon DEF LaunchInv, LaunchType
<1>1. ASSUME client \in FilterClients
      PROVE  /\ limited /\ (mode.unotify \/ attached) /\ to_client = <<>>
             /\ pc \in FailedPcs \cup {"recv_listener", "notify_pipe", "monitoring"}
    <2>1. client # "dead" /\ ReceivedBy(mode, client, fds_left) = Mapped(mode) + 3
        BY <1>0, <1>1, ReceivedType, Zenon DEF FilterClients
    <2>2. PICK s \in 0 .. Mapped(mode) + 3 :
            /\ pc \notin FailedPcs => s = SentBy(mode, pc)
            /\ s = Mapped(mode) + 3 => limited /\ (mode.unotify \/ attached)
            /\ Mapped(mode) + 3 <= s /\ to_client = Window(mode, Mapped(mode) + 3, s)
        BY <2>1, Zenon DEF LaunchInv, ToClientInv
    <2>3. s = Mapped(mode) + 3 /\ Mapped(mode) + 3 \in Nat
        BY <1>0, <2>2
    <2>4. to_client = <<>>
        BY <2>2, <2>3, WindowHead, ZenonT(30)
    <2>5. pc \notin FailedPcs => pc \in {"recv_listener", "notify_pipe", "monitoring"}
        <3>1. pc \notin FailedPcs => SentBy(mode, pc) = Mapped(mode) + 3
            BY <2>2, <2>3, Zenon
        <3> QED BY <1>0, <3>1 DEF SentBy
    <2> QED BY <2>2, <2>3, <2>4, <2>5, Zenon
<1>2. client = "ready" => ~limited /\ pc # "limits" /\ pc \notin LimitedPcs
    BY Zenon DEF LaunchInv, StepsInv, FilterClients
<1> QED BY <1>1, <1>2, Zenon

\* The sandboxee says it is ready, or sends its listener.
LEMMA ClientSendInv ==
    ASSUME LaunchInv,
           ClientSend("ready", "ready", "confirm") \/ ClientSend("sendfd", "listener", "tsync")
    PROVE  LaunchInv'
<1>1. /\ UNCHANGED <<mode, host, server, init, to_server, from_server, to_client, fds_left>>
      /\ client \in {"ready", "sendfd"}
      /\ \/ client' = "dead" /\ UNCHANGED from_client /\ confused' = (confused \/ FALSE)
         \/ client = "ready" /\ client' = "confirm" /\ from_client' = Append(from_client, "ready")
            /\ UNCHANGED confused
         \/ client = "sendfd" /\ client' = "tsync" /\ from_client' = Append(from_client, "listener")
            /\ UNCHANGED confused
    BY Zenon DEF ClientSend, ClientAborts, ClientUnchanged
<1>2. UNCHANGED confused
    BY <1>1, Zenon DEF LaunchInv, LaunchType
<1>3. ToClientInv'
    <2>1. CASE client' = "dead"
        BY <1>1, <2>1, ToClientKept, Zenon DEF host
    <2>2. CASE client' # "dead"
        <3>1. client # "dead" /\ ReceivedBy(mode, client, fds_left)' = ReceivedBy(mode, client, fds_left)
            BY <1>1, <2>2, Zenon DEF ReceivedBy, EarlyClients, Mapped
        <3> QED BY <1>1, <3>1, ToClientKept, Zenon DEF host
    <2> QED BY <2>1, <2>2, Zenon
<1>4. CASE client' = "dead"
    BY <1>1, <1>2, <1>3, <1>4, ClientDied, Zenon DEF ClientAlive
<1>5. CASE client = "ready" /\ client' = "confirm" /\ from_client' = Append(from_client, "ready")
    <2>1. ~limited /\ pc # "limits" /\ pc \notin LimitedPcs
        BY <1>5, FilterMeans, Zenon
    <2>2. pc \notin FailedPcs => from_client' = <<"ready">>
        <3>1. pc \notin FailedPcs => from_client = <<>>
            BY <1>5, <2>1, Zenon DEF LaunchInv, FromClientInv, LaunchType, HostPcs
        <3> QED BY <1>5, <3>1
    <2>3. FromClientInv'
        BY <1>1, <1>5, <2>1, <2>2, Zenon DEF FromClientInv, host, LimitedPcs, FailedPcs, RequestPcs,
           EarlyClients, FdClients
    <2>4. StepsInv' /\ ForkedOnce'
        BY <1>1, <1>2, <1>5, Zenon DEF LaunchInv, StepsInv, ForkedOnce, host, server
    <2> QED BY <1>1, <1>2, <1>3, <1>5, <2>3, <2>4, ClientStep, Zenon DEF Clients, FdClients
<1>6. CASE client = "sendfd" /\ client' = "tsync" /\ from_client' = Append(from_client, "listener")
    <2>1. limited /\ mode.unotify /\ pc \in FailedPcs \cup {"recv_listener"}
        BY <1>6, FilterMeans, Zenon DEF LaunchInv, StepsInv, FromClientInv, FilterClients
    <2>2. pc = "recv_listener" => from_client' = <<"listener">>
        <3>1. pc = "recv_listener" => from_client = <<>>
            BY <1>6, Zenon DEF LaunchInv, FromClientInv
        <3> QED BY <1>6, <3>1
    <2>3. FromClientInv'
        BY <1>1, <1>6, <2>1, <2>2, Zenon DEF FromClientInv, host, FailedPcs, RequestPcs
    <2>4. StepsInv' /\ ForkedOnce'
        BY <1>1, <1>2, <1>6, <2>1, Zenon
           DEF LaunchInv, StepsInv, ForkedOnce, host, server, FilterClients
    <2> QED BY <1>1, <1>2, <1>3, <1>6, <2>3, <2>4, ClientStep, Zenon
               DEF Clients, FdClients, FilterClients
<1> QED BY <1>1, <1>4, <1>5, <1>6, Zenon

\* The kernel installs a filter.
LEMMA SeccompInv ==
    ASSUME LaunchInv,
           Seccomp("listener", "sendfd") \/ Seccomp("tsync", "run") \/ Seccomp("regular", "run")
    PROVE  LaunchInv'
<1>1. /\ UNCHANGED <<mode, host, server, init, to_server, from_server, to_client, from_client,
                     fds_left, confused>>
      /\ \/ client = "listener" /\ client' = "sendfd"
         \/ client \in {"tsync", "regular"} /\ client' = "run"
    BY Zenon DEF Seccomp, ClientUnchanged
<1>2. ToClientInv'
    <2>1. client # "dead" /\ ReceivedBy(mode, client, fds_left)' = ReceivedBy(mode, client, fds_left)
        BY <1>1, Zenon DEF ReceivedBy, EarlyClients, Mapped
    <2> QED BY <1>1, <2>1, ToClientKept, Zenon DEF host
<1>3. FromClientInv'
    BY <1>1, Zenon DEF LaunchInv, FromClientInv, host, EarlyClients, FdClients
<1>4. StepsInv' /\ ForkedOnce'
    BY <1>1, Zenon DEF LaunchInv, StepsInv, ForkedOnce, host, server, FilterClients
<1> QED BY <1>1, <1>2, <1>3, <1>4, ClientStep, Zenon DEF Clients, FdClients, FilterClients

\* The host's last message tells the sandboxee which filter to install.
LEMMA ConfirmInv ==
    ASSUME LaunchInv, ClientRecv("confirm", {"done", "unotify"}, Confirmed, fds_left)
    PROVE  LaunchInv'
<1>0. mode \in Modes /\ Mapped(mode) \in Nat /\ mode.unotify \in BOOLEAN
    BY ModeType, Zenon DEF LaunchInv, LaunchType
<1>1. /\ ReceivedBy(mode, "confirm", fds_left) = Mapped(mode) + 2
      /\ (Mapped(mode) + 2) + 1 = Mapped(mode) + 3
      /\ Script(mode, Mapped(mode) + 3) = IF mode.unotify THEN "unotify" ELSE "done"
    BY <1>0, ScriptAt DEF ReceivedBy, EarlyClients
<1>2. Confirmed \in {"listener", "regular"}
    BY Zenon DEF Confirmed
<1>3. ReceivedBy(mode, Confirmed, fds_left) = (Mapped(mode) + 2) + 1 /\ Confirmed # "dead"
    BY <1>1, <1>2, Zenon DEF ReceivedBy, EarlyClients
<1>4. Script(mode, (Mapped(mode) + 2) + 1) \in {"done", "unotify"}
    BY <1>0, <1>1, Zenon
<1>5. /\ ToClientInv' /\ confused' = confused
      /\ \/ client' = "dead"
         \/ client' = Confirmed /\ fds_left' = fds_left /\ to_client # <<>>
            /\ Head(to_client) = Script(mode, (Mapped(mode) + 2) + 1)
      /\ UNCHANGED <<mode, host, server, init, to_server, from_server, from_client>>
    BY <1>1, <1>3, <1>4, ReceivesInPlace, Zenon
<1>6. client = "confirm"
    BY Zenon DEF ClientRecv
<1>7. CASE client' = "dead"
    BY <1>5, <1>6, <1>7, ClientDied, Zenon DEF ClientAlive
<1>8. CASE client' # "dead"
    <2>1. client' = IF mode.unotify THEN "listener" ELSE "regular"
        BY <1>0, <1>1, <1>5, <1>8, Zenon DEF Confirmed
    <2>2. FromClientInv'
        BY <1>5, <1>6, <2>1, Zenon DEF LaunchInv, FromClientInv, host, EarlyClients, FdClients
    <2>3. StepsInv' /\ ForkedOnce'
        BY <1>5, <1>6, <2>1, Zenon DEF LaunchInv, StepsInv, ForkedOnce, host, server, FilterClients
    <2> QED BY <1>5, <2>1, <2>2, <2>3, ClientStep, Zenon DEF Clients, FdClients, FilterClients
<1> QED BY <1>7, <1>8, Zenon

-----------------------------------------------------------------------------
\* The invariant holds before the launch.
LEMMA LaunchInvInit == Init => LaunchInv
<1> SUFFICES ASSUME Init PROVE LaunchInv
    OBVIOUS
<1>0. mode \in Modes /\ Mapped(mode) \in Nat
    BY ModeType, Zenon DEF Init
<1>1. LaunchType /\ FromClientInv /\ StepsInv /\ ForkedOnce
    BY ZenonT(30) DEF Init, LaunchType, FromClientInv, StepsInv, ForkedOnce, HostPcs, RequestPcs,
       LimitedPcs, Clients, EarlyClients, FdClients
<1>2. RequestInv
    BY EmptySeq DEF Init, RequestInv, ServerSteps, PidValues, NoProcess, RequestPcs, Requested,
       TakenBy, Replied, Returned
<1>3. ToClientInv
    <2>1. SentBy(mode, pc) = 0 /\ ReceivedBy(mode, client, fds_left) = 0 /\ to_client = <<>>
        BY Zenon DEF Init, SentBy, RequestPcs, ReceivedBy, EarlyClients
    <2>2. Window(mode, 0, 0) = <<>>
        <3>1. 0 \in Nat /\ 0 <= 0
            OBVIOUS
        <3> QED BY <3>1, WindowHead, Zenon
    <2>3. 0 \in 0 .. Mapped(mode) + 3 /\ 0 # Mapped(mode) + 3 /\ 0 <= 0
        BY <1>0
    <2> QED BY <2>1, <2>2, <2>3, Zenon DEF ToClientInv
<1> QED BY <1>1, <1>2, <1>3, Zenon DEF LaunchInv

\* Every step of the host, the fork-server and its children keeps the invariant.
LEMMA LaunchInvStep ==
    ASSUME LaunchInv, [Next]_vars
    PROVE  LaunchInv'
<1>1. CASE Host
    BY <1>1, RequestSteps, HandshakeSends, HandshakeEnds, Zenon DEF Host
<1>2. CASE Destroy \/ UNCHANGED vars
    <2>1. UNCHANGED <<mode, pc, limited, attached, server, sandboxee, sockets>>
        BY <1>2, Zenon DEF Destroy, OthersUnchanged, vars, host
    <2>2. LaunchType' /\ ToClientInv' /\ FromClientInv' /\ StepsInv'
        BY <2>1, RequestFrame, Zenon DEF sockets
    <2>3. ForkedOnce' /\ RequestInv'
        BY <2>1, Zenon DEF LaunchInv, ForkedOnce, RequestInv, server, sandboxee, sockets
    <2> QED BY <2>2, <2>3, Zenon DEF LaunchInv
<1>3. CASE ServeRequest
    BY <1>3, ReceiveRequestInv, ForkInv, PidsInv, SendReplyInv, Zenon DEF ServeRequest
<1>4. CASE Sandboxee
    BY <1>4, BootInv, SetUpInv, ClientSendInv, SeccompInv, ConfirmInv, Zenon
       DEF Sandboxee, ApplyPolicyAndBecomeTracee, InitSeccompUnotify, InitSeccompRegular
<1> QED BY <1>1, <1>2, <1>3, <1>4, DiesInv, ServerDiesInv, Zenon DEF Next, SigKillLands, ProcessDies

\* Both ends of the three channels agree for any number of mapped descriptors,
\* in every mode, whoever dies: the sandboxee takes no message for another, and
\* the channels are empty when they are handed on.
THEOREM ChannelsAgree == Spec => []ChannelsInSync
<1>1. LaunchInv => ChannelsInSync
    <2> SUFFICES ASSUME LaunchInv PROVE ChannelsInSync
        OBVIOUS
    <2>1. ~confused /\ (pc = "monitoring" => from_client = <<>>)
        BY Zenon DEF LaunchInv, StepsInv, FromClientInv
    <2>2. client = "run" => to_client = <<>>
        BY FilterMeans, Zenon DEF FilterClients
    <2>3. pc \notin RequestPcs => (fs # "dead" => to_server = <<>> /\ from_server = <<>>)
        BY Zenon DEF LaunchInv, RequestInv
    <2> QED BY <2>1, <2>2, <2>3, Zenon DEF ChannelsInSync, RequestPcs
<1> QED BY <1>1, LaunchInvInit, LaunchInvStep, PTL DEF Spec

\* No sandboxed code runs before the limits are applied and the monitor has
\* attached, and no limit is applied before the sandboxee has set itself up.
THEOREM RunsMonitored == Spec => []RunsLimitedAndMonitored
<1>1. LaunchInv => RunsLimitedAndMonitored
    <2> SUFFICES ASSUME LaunchInv PROVE RunsLimitedAndMonitored
        OBVIOUS
    <2>1. client \in FilterClients => limited /\ (mode.unotify \/ attached)
        BY FilterMeans, Zenon
    <2>2. limited /\ ClientAlive => client \in FilterClients \cup {"confirm"}
        BY Zenon DEF LaunchInv, StepsInv, ClientAlive
    <2> QED BY <2>1, <2>2, Zenon DEF RunsLimitedAndMonitored, FilterClients
<1> QED BY <1>1, LaunchInvInit, LaunchInvStep, PTL DEF Spec
=============================================================================
