----------------------------- MODULE CommsChannel -----------------------------
(***************************************************************************)
(* One direction of a Comms channel (sandbox2/comms.cc): threads of one    *)
(* process send TLV messages, threads of another receive them, over a      *)
(* stream socket that takes and gives any number of units at a time.  A    *)
(* unit stands for four bytes: a message is a tag, two units of length and *)
(* the units of its value.  The processes may go away at any moment.       *)
(* Descriptors, which travel in one sendmsg() of their own, are left out.  *)
(***************************************************************************)
EXTENDS Naturals, Sequences

CONSTANTS Senders, Receivers,   \* threads at either end
          MaxSends,             \* messages of each sender
          SocketSpace           \* units that fit into the socket

VARIABLES
    wire,                 \* the units in the socket
    sendMutex, recvMutex, \* the threads past tlv_send/recv_transmission_mutex_
    sendRest,             \* what each sender still has to write
    sendCount,
    recvOp,               \* "none", "int" (a one-unit buffer) or "bytes"
    recvGot, recvWant,    \* what each receiver has read, and wants to have read
    sentLog, gotLog,      \* history: messages in the order they were begun, and
                          \* consumed
    tooLong, garbled,     \* history: a value did not fit the buffer; a unit was
                          \* taken for another
    senderUp, receiverUp  \* the two processes hold their end of the channel

sendVars == <<sendMutex, sendRest, sendCount, sentLog>>
recvVars == <<recvMutex, recvOp, recvGot, recvWant, gotLog, tooLong, garbled>>
commsVars == <<wire, sendVars, recvVars, senderUp, receiverUp>>

UnitsOf(m) == <<<<m, "tag">>, <<m, "len">>, <<m, "len">>>>
              \o [i \in 1..m.len |-> <<m, "value">>]

CommsInit ==
    /\ wire = <<>> /\ sendMutex = {} /\ recvMutex = {}
    /\ sendRest = [t \in Senders |-> <<>>] /\ sendCount = [t \in Senders |-> 0]
    /\ recvOp = [r \in Receivers |-> "none"]
    /\ recvGot = [r \in Receivers |-> <<>>] /\ recvWant = [r \in Receivers |-> 0]
    /\ sentLog = <<>> /\ gotLog = <<>> /\ tooLong = FALSE /\ garbled = FALSE
    /\ senderUp = TRUE /\ receiverUp = TRUE

-----------------------------------------------------------------------------
\* Mutant: the tag, the length and the value are sent without the mutex.
MaySendAlways == TRUE

MaySend == sendMutex = {}

\* SendTLV with the mutex.
SendTLV(t, len) ==
    /\ senderUp /\ sendRest[t] = <<>> /\ t \notin sendMutex /\ sendCount[t] < MaxSends
    /\ MaySend
    /\ LET m == [from |-> t, n |-> sendCount[t] + 1, len |-> len]
       IN  /\ sendRest' = [sendRest EXCEPT ![t] = UnitsOf(m)]
           /\ sentLog' = Append(sentLog, m)
    /\ sendMutex' = sendMutex \cup {t}
    /\ sendCount' = [sendCount EXCEPT ![t] = @ + 1]
    /\ UNCHANGED <<wire, recvVars, senderUp, receiverUp>>

\* Send(): write() is called until everything is written; the socket takes the
\* units one by one, as there is room for them.
Send(t) ==
    /\ senderUp /\ receiverUp /\ sendRest[t] # <<>> /\ Len(wire) < SocketSpace
    /\ wire' = Append(wire, Head(sendRest[t]))
    /\ sendRest' = [sendRest EXCEPT ![t] = Tail(@)]
    /\ UNCHANGED <<sendMutex, sendCount, sentLog, recvVars, senderUp, receiverUp>>

\* The message is written, or EPIPE gives it up: SendTLV returns.
SendReturns(t) ==
    /\ senderUp /\ t \in sendMutex /\ (sendRest[t] = <<>> \/ ~receiverUp)
    /\ sendMutex' = sendMutex \ {t}
    /\ sendRest' = [sendRest EXCEPT ![t] = <<>>]
    /\ UNCHANGED <<wire, sendCount, sentLog, recvVars, senderUp, receiverUp>>

-----------------------------------------------------------------------------
HeaderUnits == 3

MayReceive == recvMutex = {}

\* RecvTLV is called, with a buffer that grows ("bytes") or that has room for one
\* unit (RecvInt).
RecvTLV(r, op) ==
    /\ receiverUp /\ ~garbled /\ recvOp[r] = "none"
    /\ recvOp' = [recvOp EXCEPT ![r] = op]
    /\ UNCHANGED <<wire, sendVars, recvMutex, recvGot, recvWant, gotLog, tooLong, garbled,
                   senderUp, receiverUp>>

\* It gets the mutex; RecvTL comes first.
RecvTL(r) ==
    /\ receiverUp /\ recvOp[r] # "none" /\ r \notin recvMutex /\ MayReceive
    /\ recvMutex' = recvMutex \cup {r}
    /\ recvWant' = [recvWant EXCEPT ![r] = HeaderUnits]
    /\ UNCHANGED <<wire, sendVars, recvOp, recvGot, gotLog, tooLong, garbled, senderUp,
                   receiverUp>>

ShortOf(r) == recvWant[r] - Len(recvGot[r])

\* One read() of Recv(): as much as there is, or less.
Recv(r) ==
    /\ receiverUp /\ r \in recvMutex /\ ShortOf(r) > 0 /\ wire # <<>>
    /\ \E k \in 1..ShortOf(r) :
         /\ k <= Len(wire)
         /\ wire' = SubSeq(wire, k + 1, Len(wire))
         /\ recvGot' = [recvGot EXCEPT ![r] = @ \o SubSeq(wire, 1, k)]
    /\ UNCHANGED <<sendVars, recvMutex, recvOp, recvWant, gotLog, tooLong, garbled,
                   senderUp, receiverUp>>

RecvDone(r) ==
    /\ recvOp' = [recvOp EXCEPT ![r] = "none"]
    /\ recvMutex' = recvMutex \ {r}
    /\ recvGot' = [recvGot EXCEPT ![r] = <<>>]
    /\ recvWant' = [recvWant EXCEPT ![r] = 0]

\* What was read is whole.  Units out of their place make a value that nobody
\* sent; a value that does not fit stays in the socket; else it is read, or the
\* message is complete.
Decode(r) ==
    /\ receiverUp /\ r \in recvMutex /\ ShortOf(r) = 0
    /\ LET m == recvGot[r][1][1]
           inPlace == recvGot[r] = SubSeq(UnitsOf(m), 1, recvWant[r])
       IN  \/ /\ ~inPlace
              /\ garbled' = TRUE
              /\ RecvDone(r)
              /\ UNCHANGED <<gotLog, tooLong>>
           \/ /\ inPlace /\ recvWant[r] = HeaderUnits /\ recvOp[r] = "int" /\ m.len > 1
              /\ tooLong' = TRUE
              /\ RecvDone(r)
              /\ UNCHANGED <<gotLog, garbled>>
           \/ /\ inPlace /\ recvWant[r] = HeaderUnits
              /\ m.len > 0 /\ (recvOp[r] = "int" => m.len = 1)
              /\ recvWant' = [recvWant EXCEPT ![r] = HeaderUnits + m.len]
              /\ UNCHANGED <<recvMutex, recvOp, recvGot, gotLog, tooLong, garbled>>
           \/ /\ inPlace /\ recvWant[r] = HeaderUnits + m.len
              /\ gotLog' = Append(gotLog, m)
              /\ RecvDone(r)
              /\ UNCHANGED <<tooLong, garbled>>
    /\ UNCHANGED <<wire, sendVars, senderUp, receiverUp>>

\* Mutant: the other end's going away is taken for an interruption.
RecvEofRetried(r) == FALSE /\ UNCHANGED commsVars

\* read() returns 0, or fails because the channel was terminated before: the
\* receive fails and the channel is terminated.
RecvEof(r) ==
    /\ receiverUp /\ r \in recvMutex /\ ShortOf(r) > 0 /\ wire = <<>> /\ ~senderUp
    /\ RecvDone(r)
    /\ UNCHANGED <<wire, sendVars, gotLog, tooLong, garbled, senderUp, receiverUp>>

-----------------------------------------------------------------------------
SenderGone == senderUp /\ senderUp' = FALSE
              /\ UNCHANGED <<wire, sendVars, recvVars, receiverUp>>

ReceiverGone == receiverUp /\ receiverUp' = FALSE
                /\ UNCHANGED <<wire, sendVars, recvVars, senderUp>>

SenderStep(t) == Send(t) \/ SendReturns(t)
ReceiverStep(r) == RecvTL(r) \/ Recv(r) \/ Decode(r) \/ RecvEof(r)

CommsNext ==
    \/ \E t \in Senders : (\E len \in 0..2 : SendTLV(t, len)) \/ SenderStep(t)
    \/ \E r \in Receivers : (\E op \in {"int", "bytes"} : RecvTLV(r, op)) \/ ReceiverStep(r)
    \/ SenderGone \/ ReceiverGone

CommsSpec == CommsInit /\ [][CommsNext]_commsVars

-----------------------------------------------------------------------------
\* "Mutex making sure that we serialize TLV messages (which consist out of three
\* different calls to send / receive)." (comms.h): messages arrive whole and in
\* the order in which SendTLV took the mutex, however reads and writes are cut;
\* only a value longer than the buffer of its receiver puts the stream out of
\* step.
MessagesArriveWhole ==
    ~tooLong => ~garbled /\ gotLog = SubSeq(sentLog, 1, Len(gotLog))

\* A thread that receives is let go when the sending process goes away, also one
\* that waits for the mutex behind another, and a thread that sends when the
\* receiving process does.
PeersAreLetGo ==
    /\ \A r \in Receivers :
         (recvOp[r] # "none" /\ ~senderUp) ~> (recvOp[r] = "none" \/ ~receiverUp)
    /\ \A t \in Senders : (t \in sendMutex /\ ~receiverUp) ~> (t \notin sendMutex \/ ~senderUp)
=============================================================================
