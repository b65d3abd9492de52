------------------------------- MODULE SapiVars -------------------------------
(***************************************************************************)
(* A length-value variable shared with the sandboxed library               *)
(* (var_abstract.cc, var_lenval.cc, var_array.h, var_proto.h) and the      *)
(* memory it occupies in the sandboxee (client.cc).  LenVal is a structure *)
(* {size, data} and the array it points to; both have a host copy and a    *)
(* remote block, and the library may replace the array by another one.     *)
(* Proto wraps a LenVal: its argument is serialised again after each call. *)
(***************************************************************************)
EXTENDS Naturals

CONSTANTS Blocks,     \* addresses malloc() may return in the sandboxee
          MaxLength   \* bound: length of an array

ASSUME VarsAssumption == MaxLength \in Nat \ {0} /\ Blocks \subseteq Nat \ {0}

Null == 0
Lengths == 0..MaxLength
Syncs == {"none", "before", "after", "both"}

VARIABLES
    allocated,    \* sandboxee: the blocks that are allocated,
    heap,         \* their lengths (0 if not)
    content,      \* and what they hold
    remoteStruct, \* sandboxee: the LenValStruct
    structAt,     \* struct_.remote_
    structAuto,   \* struct_ has a free_rpc_channel_
    structLocal,  \* struct_.struct_: [size, data]
    arrayAt,      \* array_.remote_
    arrayAuto,    \* array_ has a free_rpc_channel_
    arrayLocal,   \* array_: [size, data, owned]
    syncType,     \* of the pointer passed to the call in progress
    varPc,        \* "idle", "called", "returned", "destroyed"
    varOk,        \* status of the last operation
    damage,       \* memory of the sandboxee or of the host was misused
    departures    \* what has gone wrong with the two copies, see Departures

remoteVars == <<allocated, heap, content, remoteStruct>>
structVars == <<structAt, structAuto, structLocal>>
arrayVars == <<arrayAt, arrayAuto, arrayLocal>>
varVars == <<remoteVars, structVars, arrayVars, syncType, varPc, varOk,
             damage, departures>>

\* "early": ResizeData() before the array was allocated remotely;
\* "resize": the remote realloc() failed after the local one;
\* "unread": a call ended, and what the library had done to the structure did
\* not reach the host;
\* "empty": realloc(arr_, 0) gave the local buffer back, and arr_ still points to it.
Departures == {"early", "resize", "unread", "empty"}

Contents == {0, 1}
StructLength == 1

\* LenVal(data, size) or LenVal(size): nothing is allocated remotely.
VarsInit ==
    /\ allocated = {} /\ heap = [b \in Blocks |-> 0] /\ content = [b \in Blocks |-> 0]
    /\ remoteStruct = [size |-> 0, data |-> Null]
    /\ structAt = Null /\ structAuto = FALSE
    /\ arrayAt = Null /\ arrayAuto = FALSE
    /\ \E n \in Lengths, owned \in BOOLEAN :
         /\ structLocal = [size |-> n, data |-> Null]
         /\ arrayLocal = [size |-> n, data |-> 1, owned |-> owned]
    /\ syncType = "none" /\ varPc = "idle" /\ varOk = TRUE
    /\ damage = FALSE /\ departures = {}

Live(b) == b \in allocated

\* malloc(n) gives block b; free(p) and realloc(p, n) of the sandboxee.
Put(f, b, v) == [f EXCEPT ![b] = v]
Erase(f, p) == IF p = Null THEN f ELSE [f EXCEPT ![p] = 0]
FreeIsSound(blocks, p) == p = Null \/ p \in blocks

-----------------------------------------------------------------------------
\* LenVal::Allocate(): the structure, then the array (which is always freed
\* automatically).  Either malloc() may return null.

\* array_.Allocate(rpc_channel, true)
ArrayAuto(automatic) == TRUE

Allocate(automatic) ==
    \/ UNCHANGED <<allocated, heap, structVars, arrayVars>> /\ varOk' = FALSE
    \/ \E s \in Blocks \ allocated :
         /\ structAt' = s /\ structAuto' = (structAuto \/ automatic)
         /\ \/ /\ allocated' = allocated \cup {s} /\ heap' = Put(heap, s, StructLength)
               /\ varOk' = FALSE /\ UNCHANGED <<structLocal, arrayVars>>
            \/ \E a \in Blocks \ (allocated \cup {s}) :
                 /\ allocated' = allocated \cup {s, a}
                 /\ heap' = Put(Put(heap, s, StructLength), a, arrayLocal.size)
                 /\ arrayAt' = a /\ arrayAuto' = ArrayAuto(automatic)
                 /\ structLocal' = [structLocal EXCEPT !.data = a]
                 /\ varOk' = TRUE /\ UNCHANGED arrayLocal

\* process_vm_writev() of the local array: it must fit, and its buffer be there.
WriteIsSound ==
    Live(structAt) /\ (arrayAt # Null =>
        Live(arrayAt) /\ arrayLocal.size <= heap[arrayAt] /\ "empty" \notin departures)

\* LenVal::TransferToSandboxee(): both are written; the array is refused when it
\* has no remote block.
TransferToSandboxee ==
    /\ remoteStruct' = structLocal
    /\ damage' = (damage \/ ~WriteIsSound)
    /\ IF arrayAt = Null
       THEN varOk' = FALSE /\ varPc' = "idle" /\ UNCHANGED content
       ELSE /\ content' = Put(content, arrayAt, arrayLocal.data)
            /\ varOk' = TRUE /\ varPc' = "called"

\* What the caller of a function owes: without a transfer before the call, the
\* remote structure must not be older than the host's, nor the last operation a
\* failure.
CallerContract(sync) ==
    \/ sync \in {"before", "both"}
    \/ varOk /\ (remoteStruct = structLocal \/ "unread" \in departures)

\* Sandbox::SynchronizePtrBefore(), allocation needed.
AllocateForCall ==
    /\ varPc = "idle" /\ structAt = Null
    /\ Allocate(TRUE)
    /\ UNCHANGED <<content, remoteStruct, syncType, varPc, damage, departures>>

\* Sandbox::SynchronizePtrBefore() on allocated memory.
SynchronizePtrBefore(sync) ==
    /\ varPc = "idle" /\ structAt # Null /\ CallerContract(sync)
    /\ syncType' = sync
    /\ IF sync \in {"before", "both"}
       THEN TransferToSandboxee
       ELSE varPc' = "called" /\ UNCHANGED <<remoteStruct, content, varOk, damage>>
    /\ UNCHANGED <<allocated, heap, structVars, arrayVars, departures>>

\* Sandbox::Call() returns early: another argument fails, or there is no such
\* function.
CallFails ==
    /\ varPc = "called" /\ varPc' = "idle" /\ syncType' = "none" /\ varOk' = FALSE
    /\ UNCHANGED <<remoteVars, structVars, arrayVars, damage, departures>>

-----------------------------------------------------------------------------
\* The library function.  It may read the array, write to it in place, or leave
\* another array behind, whatever the caller synchronises: duplicate_string() of
\* examples/stringop replaces it, ~FunctionCallPreparer reallocates that of a Proto.

ArgumentIsSound ==
    remoteStruct.data = Null \/
        (Live(remoteStruct.data) /\ remoteStruct.size <= heap[remoteStruct.data])

LibraryReads ==
    /\ varPc = "called" /\ varPc' = "returned"
    /\ damage' = (damage \/ ~ArgumentIsSound)
    /\ UNCHANGED <<remoteVars, structVars, arrayVars, syncType, varOk, departures>>

LibraryWrites ==
    /\ varPc = "called" /\ Live(remoteStruct.data)
    /\ varPc' = "returned"
    /\ content' = [content EXCEPT ![remoteStruct.data] = 1 - @]
    /\ damage' = (damage \/ ~ArgumentIsSound)
    /\ UNCHANGED <<allocated, heap, remoteStruct, structVars, arrayVars, syncType, varOk,
                   departures>>

LibraryReplaces ==
    /\ varPc = "called" /\ Live(remoteStruct.data)
    /\ \E a \in (Blocks \ allocated) \cup {remoteStruct.data}, n \in Lengths :
         /\ allocated' = (allocated \ {remoteStruct.data}) \cup {a}
         /\ heap' = Put(Erase(heap, remoteStruct.data), a, n)
         /\ remoteStruct' = [size |-> n, data |-> a]
         /\ \E c \in Contents :
              content' = Put(Erase(content, remoteStruct.data), a, c)
    /\ varPc' = "returned"
    /\ damage' = (damage \/ ~ArgumentIsSound)
    /\ UNCHANGED <<structVars, arrayVars, syncType, varOk, departures>>

-----------------------------------------------------------------------------
\* Array::EnsureOwnedLocalBuffer(n).  It does nothing when the buffer fits; it may
\* fail when there is no memory, and fails when realloc(arr_, 0) returns null,
\* having freed the buffer.

BufferFits(n) == n = arrayLocal.size /\ arrayLocal.owned
BufferGiven(n) == BufferFits(n) \/ n > 0 \/ ~arrayLocal.owned
BufferIsGone == arrayLocal.owned /\ "empty" \in departures
Emptied(n) == IF arrayLocal.owned /\ n = 0 THEN {"empty"} ELSE {}

\* The length the library left behind.
LengthAfter(struct) == struct.size

\* Mutant: the array is taken to be where it was.
AddressKept(struct) == arrayAt

\* "Remote pointer might have changed, update it."
AddressAfter(struct) == struct.data

Unread == IF remoteStruct = structLocal THEN {} ELSE {"unread"}

\* Sandbox::SynchronizePtrAfter(), not reached or without anything to do: the
\* caller did not ask for the result, or something else failed before it.
NotSynchronized ==
    /\ \/ syncType \notin {"after", "both"} /\ UNCHANGED varOk
       \/ varOk' = FALSE
    /\ departures' = departures \cup Unread
    /\ UNCHANGED <<structLocal, arrayAt, arrayLocal, damage>>

\* LenVal::TransferFromSandboxee(): the structure, then the array, which is
\* resized and owned from now on and read from wherever the structure says it is.
TransferFromSandboxee(n) ==
    /\ structLocal' = remoteStruct
    /\ damage' = (damage \/ BufferIsGone)
    /\ \/ /\ ~BufferFits(n) /\ varOk' = FALSE
          /\ departures' = departures \cup Unread \cup Emptied(n)
          /\ UNCHANGED <<arrayAt, arrayLocal>>
       \/ /\ BufferGiven(n)
          /\ arrayAt' = AddressAfter(remoteStruct)
          /\ arrayLocal' = [size |-> n, owned |-> TRUE,
                            data |-> IF Live(arrayAt') THEN content[arrayAt']
                                                       ELSE arrayLocal.data]
          /\ varOk' = (Live(arrayAt') \/ n = 0) /\ UNCHANGED departures

SynchronizePtrAfter ==
    /\ varPc = "returned" /\ varPc' = "idle" /\ syncType' = "none"
    /\ \/ NotSynchronized
       \/ syncType \in {"after", "both"} /\ TransferFromSandboxee(LengthAfter(remoteStruct))
    /\ UNCHANGED <<remoteVars, structAt, structAuto, arrayAuto>>

-----------------------------------------------------------------------------
\* LenVal::ResizeData(): the local buffer first, then realloc() in the sandboxee,
\* then the host copy of the structure.

\* realloc(p, 0) frees the block, and returns null unless p was null.
NoBlockGiven(n) ==
    IF n = 0 /\ arrayAt # Null
    THEN allocated' = allocated \ {arrayAt} /\ heap' = Erase(heap, arrayAt)
         /\ content' = Erase(content, arrayAt)
    ELSE UNCHANGED <<allocated, heap, content>>

BlockGiven(n, a) ==
    /\ n > 0 \/ arrayAt = Null
    /\ allocated' = (allocated \ {arrayAt}) \cup {a}
    /\ heap' = Put(Erase(heap, arrayAt), a, n)
    /\ content' = Put(Erase(content, arrayAt), a,
                      IF arrayAt = Null THEN content[a] ELSE content[arrayAt])

Early == IF arrayAt = Null THEN {"early"} ELSE {}

ResizeData(n) ==
    /\ varPc = "idle"
    /\ \/ /\ ~BufferFits(n) /\ varOk' = FALSE
          /\ departures' = departures \cup Emptied(n)
          /\ damage' = (damage \/ BufferIsGone)
          /\ UNCHANGED <<allocated, heap, content, structLocal, arrayAt, arrayLocal>>
       \/ /\ BufferGiven(n)
          /\ arrayLocal' = [arrayLocal EXCEPT !.size = n, !.owned = TRUE]
          /\ damage' = (damage \/ (BufferIsGone /\ ~BufferFits(n))
                               \/ ~FreeIsSound(allocated, arrayAt))
          /\ \/ /\ NoBlockGiven(n) /\ varOk' = FALSE
                /\ departures' = departures \cup {"resize"} \cup Early
                /\ UNCHANGED <<structLocal, arrayAt>>
             \/ \E a \in (Blocks \ allocated) \cup ({arrayAt} \ {Null}) :
                  /\ BlockGiven(n, a)
                  /\ arrayAt' = a /\ structLocal' = [size |-> n, data |-> a]
                  /\ varOk' = TRUE /\ departures' = departures \cup Early
    /\ UNCHANGED <<remoteStruct, structAt, structAuto, arrayAuto, syncType, varPc>>

\* Sandbox::Allocate() by the caller, on a variable that has no remote memory.
AllocateVar(automatic) ==
    /\ varPc = "idle" /\ structAt = Null /\ arrayAt = Null
    /\ Allocate(automatic)
    /\ UNCHANGED <<content, remoteStruct, syncType, varPc, damage, departures>>

\* LenVal::Free(): the array, then the structure.
FreeVar ==
    /\ varPc = "idle" /\ (structAt # Null \/ arrayAt # Null)
    /\ allocated' = allocated \ {arrayAt, structAt}
    /\ heap' = Erase(Erase(heap, arrayAt), structAt)
    /\ damage' = (damage \/ ~FreeIsSound(allocated, arrayAt)
                         \/ ~FreeIsSound(allocated \ {arrayAt}, structAt))
    /\ arrayAt' = Null /\ structAt' = Null /\ varOk' = TRUE
    /\ content' = Erase(content, arrayAt) /\ remoteStruct' = [size |-> 0, data |-> Null]
    /\ UNCHANGED <<structAuto, structLocal, arrayAuto,
                   arrayLocal, syncType, varPc, departures>>

\* ~LenVal(): ~Var() of its members frees what has a free_rpc_channel_, and
\* ~Array() the local buffer.
VarDestroy ==
    LET array == IF arrayAuto THEN arrayAt ELSE Null
        struct == IF structAuto THEN structAt ELSE Null
    IN  /\ varPc = "idle" /\ varPc' = "destroyed"
        /\ allocated' = allocated \ {array, struct}
        /\ heap' = Erase(Erase(heap, struct), array)
        /\ damage' = (damage \/ ~FreeIsSound(allocated, struct)
                             \/ ~FreeIsSound(allocated \ {struct}, array)
                             \/ BufferIsGone)
        /\ UNCHANGED <<content, remoteStruct, structVars, arrayVars, syncType,
                       varOk, departures>>

VarsStep ==
    \/ AllocateForCall
    \/ \E sync \in Syncs : SynchronizePtrBefore(sync)
    \/ LibraryReads \/ LibraryWrites \/ LibraryReplaces \/ CallFails
    \/ SynchronizePtrAfter
    \/ \E n \in Lengths : ResizeData(n)
    \/ \E automatic \in BOOLEAN : AllocateVar(automatic)
    \/ FreeVar \/ VarDestroy

\* What follows a misuse of memory is not explored: it could be anything.
VarsNext == ~damage /\ VarsStep

VarsSpec == VarsInit /\ [][VarsNext]_varVars

-----------------------------------------------------------------------------
\* As long as what the library did to the array reaches the host, and no resizing
\* fails half way or to nothing, the host never makes the sandboxee free,
\* reallocate or overrun a block it does not own, nor uses a local buffer it gave
\* back, however often the library moved or resized the array.  Nothing stays
\* allocated remotely when the variable goes away, unless the caller asked for
\* memory that is not freed automatically, the host lost sight of the array, or
\* the caller resized it before it was allocated (which the later Allocate()
\* forgets).  A call that succeeds and synchronises its result never loses sight of
\* it: the two copies agree, same length, same bytes, and the host knows where the
\* array is.
RemoteMemoryIsSound ==
    /\ [](departures \subseteq {"early"} => ~damage)
    /\ [](varPc = "destroyed" /\ structAuto /\ departures \subseteq {"resize", "empty"}
             => allocated = {})
    /\ [][varPc = "returned" /\ syncType \in {"after", "both"} /\ varOk' =>
            /\ structLocal' = remoteStruct /\ arrayAt' = remoteStruct.data
            /\ arrayLocal'.size = remoteStruct.size
            /\ remoteStruct.size > 0 => arrayLocal'.data = content[remoteStruct.data]
            /\ departures' = departures]_varVars
=============================================================================
