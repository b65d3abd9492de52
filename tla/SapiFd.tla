-------------------------------- MODULE SapiFd --------------------------------
(***************************************************************************)
(* A descriptor shared with the sandboxed library: v::Fd (var_int.cc), the *)
(* RPCs SendFD, RecvFD and Close (rpcchannel.cc, client.cc), and its use   *)
(* as argument and return value of a call (sandbox.cc).                    *)
(***************************************************************************)
EXTENDS Integers

CONSTANTS HostFds,   \* descriptor numbers of the host; FdNumber is the Fd's
          FdNumber,
          BoxFds     \* descriptor numbers free in the sandboxee

ASSUME FdAssumption == FdNumber \in HostFds /\ HostFds \cup BoxFds \subseteq Nat

VARIABLES
    hostOpen,     \* open descriptors of the host
    boxOpen,      \* open descriptors of the sandboxee, of BoxFds
    fdValue,      \* Fd::GetValue(): -1 when closed
    fdRemote,     \* Fd::remote_fd_
    ownLocal, ownRemote,
    fdChannel,    \* a free_rpc_channel_ is set
    fdStatus,     \* status of the last operation
    fdReturned,   \* the Fd was the return value of a call
    fdGone        \* ~Fd() has run

fdVars == <<hostOpen, boxOpen, fdValue, fdRemote, ownLocal, ownRemote, fdChannel,
            fdStatus, fdReturned, fdGone>>

FdInit ==
    /\ fdValue \in {FdNumber, 0, -1} /\ fdRemote = -1
    /\ hostOpen = IF fdValue = FdNumber THEN HostFds ELSE HostFds \ {FdNumber}
    /\ boxOpen = {}
    /\ ownLocal = TRUE /\ ownRemote = TRUE /\ fdChannel = FALSE
    /\ fdStatus = TRUE /\ fdReturned = FALSE /\ fdGone = FALSE

Lowest(S) == CHOOSE n \in S : \A m \in S : n <= m

\* RPCChannel::SendFD() and HandleSendFd(): the lowest free number.
SendFD ==
    \/ /\ BoxFds \ boxOpen # {}
       /\ fdRemote' = Lowest(BoxFds \ boxOpen)
       /\ boxOpen' = boxOpen \cup {fdRemote'}
       /\ fdStatus' = TRUE
    \/ fdStatus' = FALSE /\ UNCHANGED <<fdRemote, boxOpen>>

\* Fd::TransferToSandboxee(): the channel and the ownership are recorded first.
FdTransferToSandboxee ==
    /\ ~fdGone
    /\ fdChannel' = TRUE /\ ownRemote' = TRUE
    /\ IF fdValue < 0 \/ fdRemote >= 0
       THEN fdStatus' = FALSE /\ UNCHANGED <<fdRemote, boxOpen>>
       ELSE SendFD
    /\ UNCHANGED <<hostOpen, fdValue, ownLocal, fdReturned, fdGone>>

\* An Fd argument of Sandbox::Call() is transferred unless it was before.
FdArgument == fdRemote < 0 /\ FdTransferToSandboxee

\* RPCChannel::RecvFD() and HandleRecvFd(): a new descriptor of the host.
RecvFD ==
    \/ /\ fdRemote \in boxOpen /\ HostFds \ hostOpen # {}
       /\ fdValue' = Lowest(HostFds \ hostOpen)
       /\ hostOpen' = hostOpen \cup {fdValue'}
       /\ fdStatus' = TRUE
    \/ fdStatus' = FALSE /\ UNCHANGED <<fdValue, hostOpen>>

\* Fd::TransferFromSandboxee(): any value other than 0 counts as valid.
FdTransferFromSandboxee ==
    /\ ~fdGone
    /\ fdChannel' = TRUE /\ ownRemote' = FALSE
    /\ IF fdValue # 0 \/ fdRemote < 0
       THEN fdStatus' = FALSE /\ UNCHANGED <<fdValue, hostOpen>>
       ELSE RecvFD
    /\ UNCHANGED <<boxOpen, fdRemote, ownLocal, fdReturned, fdGone>>

\* A call that returns an Fd: the library opened a descriptor, its number is
\* stored as the local value, and then TransferFromSandboxee() is called.
FdReturnValue ==
    /\ ~fdGone /\ ~fdReturned /\ BoxFds \ boxOpen # {}
    /\ LET n == Lowest(BoxFds \ boxOpen) IN
       /\ boxOpen' = boxOpen \cup {n} /\ fdValue' = n
       /\ fdStatus' = FALSE          \* n # 0 counts as "already valid"
    /\ fdReturned' = TRUE /\ fdChannel' = TRUE /\ ownRemote' = FALSE
    /\ UNCHANGED <<hostOpen, fdRemote, ownLocal, fdGone>>

\* SetRemoteFd() with the number of a descriptor the library opened.
SetRemoteFd ==
    /\ ~fdGone /\ fdRemote < 0 /\ BoxFds \ boxOpen # {}
    /\ fdRemote' = Lowest(BoxFds \ boxOpen)
    /\ boxOpen' = boxOpen \cup {fdRemote'}
    /\ UNCHANGED <<hostOpen, fdValue, ownLocal, ownRemote, fdChannel, fdStatus,
                   fdReturned, fdGone>>

\* Fd::CloseRemoteFd(), HandleCloseFd()
CloseRemoteFd ==
    /\ ~fdGone /\ fdRemote >= 0
    /\ boxOpen' = boxOpen \ {fdRemote} /\ fdRemote' = -1 /\ fdStatus' = TRUE
    /\ UNCHANGED <<hostOpen, fdValue, ownLocal, ownRemote, fdChannel, fdReturned,
                   fdGone>>

CloseLocalFd ==
    /\ ~fdGone /\ fdValue >= 0
    /\ hostOpen' = hostOpen \ {fdValue} /\ fdValue' = -1
    /\ UNCHANGED <<boxOpen, fdRemote, ownLocal, ownRemote, fdChannel, fdStatus,
                   fdReturned, fdGone>>

OwnFd ==
    /\ ~fdGone
    /\ ownLocal' \in BOOLEAN /\ ownRemote' \in BOOLEAN
    /\ UNCHANGED <<hostOpen, boxOpen, fdValue, fdRemote, fdChannel, fdStatus,
                   fdReturned, fdGone>>

\* ~Fd()
LocalToClose == IF fdValue >= 0 /\ ownLocal THEN {fdValue} ELSE {}

\* Mutant: a remote descriptor is closed only if a local one is left.
RemoteToCloseIfLocal ==
    IF fdChannel /\ fdRemote >= 0 /\ ownRemote /\ fdValue >= 0 THEN {fdRemote} ELSE {}

RemoteToClose ==
    IF fdChannel /\ fdRemote >= 0 /\ ownRemote THEN {fdRemote} ELSE {}

FdDestroy ==
    /\ ~fdGone /\ fdGone' = TRUE
    /\ boxOpen' = boxOpen \ RemoteToClose
    /\ hostOpen' = hostOpen \ LocalToClose
    /\ UNCHANGED <<fdValue, fdRemote, ownLocal, ownRemote, fdChannel, fdStatus,
                   fdReturned>>

FdNext ==
    \/ FdTransferToSandboxee \/ FdArgument \/ FdTransferFromSandboxee
    \/ FdReturnValue \/ SetRemoteFd \/ CloseRemoteFd \/ CloseLocalFd \/ OwnFd \/ FdDestroy

FdSpec == FdInit /\ [][FdNext]_fdVars

-----------------------------------------------------------------------------
\* Host descriptors other than the Fd's own stay open, and its own one does
\* when it was declared not owned; a returned Fd is the exception: the number
\* stored is one of the sandboxee, and ~Fd() closes that number in the host.
\* An owned Fd that was transferred leaves nothing open in the sandboxee,
\* whichever of its two descriptors was closed before.
ClosesWhatItOwns ==
    /\ [][~fdReturned /\ fdGone' => HostFds \ hostOpen' \subseteq
            (HostFds \ hostOpen) \cup (IF ownLocal THEN {fdValue} ELSE {})]_fdVars
    /\ [](fdGone /\ ownRemote /\ fdChannel /\ ~fdReturned => boxOpen = {})
=============================================================================
