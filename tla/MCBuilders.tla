----------------------------- MODULE MCBuilders -----------------------------
(***************************************************************************)
(* What a host program puts together before a sandboxee starts: the paths, *)
(* the mounts, the libraries of a binary, the instructions of a policy,   *)
(* the policy builder, the policies the repository ships and the hosts     *)
(* that the network proxy may connect to.  The components share no state;  *)
(* a behaviour is about one of them, which `part' names.                   *)
(***************************************************************************)
EXTENDS BpfCode, LibraryResolver, SandboxPolicies, HostFilter

VARIABLE part

D == <<"", "D">>
F == <<"", "F">>
L == <<"", "L">>
R == <<"", "R">>
G == <<"", "G">>
\* Two directories, the second on a read-only device, two names of one file,
\* and one that does not exist.
MCOutside == {D, F, L, R, G}
MCInode == D :> "d" @@ F :> "f" @@ L :> "f" @@ R :> "r" @@ G :> "none"
MCHostKind == D :> "dir" @@ F :> "file" @@ L :> "file" @@ R :> "dir" @@ G :> "file"
MCHostBelow ==
    D :> (<<"b">> :> "dir" @@ <<"b", "c">> :> "file") @@ R :> (<<"b">> :> "file")
    @@ [o \in {F, L, G} |-> <<>>]
\* Something writable is mounted in the first directory, and a file that is not in it.
MCHostMounts ==
    D :> (<<"b">> :> TRUE @@ <<"b", "c">> :> FALSE) @@ [o \in {F, L, R, G} |-> <<>>]
MCInside ==
    {<<"", "a">>, <<"", "a", "b">>, <<"", "a", "b", "c">>, <<"", "">>, <<"b">>,
     <<"", "a", "..", "b">>}
MCReadOnlyDevs == {R}

Components == {"", ".", "..", "a", "b"}
Bounded(n) == UNION {[1 .. k -> Components] : k \in 1 .. n}
MCLongPaths == Bounded(4)
MCShortPaths == Bounded(2)
MCWorkDir == <<"a", "b", "a", "b", "a">>

MCLibNames == {<<"x">>, <<"y">>, <<"z">>, <<"..", "e">>}
MCLdLibraryPath == <<<<"", "o">>>>
MCStandardPaths == <<<<"", "l">>, <<"", "m">>>>
MCPlatform == <<"p">>
MCHostFiles ==
    {<<"", "o">>, <<"", "l">>, <<"", "l", "p">>, <<"", "o", "x">>, <<"", "l", "x">>,
     <<"", "l", "p", "y">>, <<"", "l", "z">>, <<"", "e">>, <<"", "l", "e">>}
MCNeedLists ==
    {<<>>} \cup {<<n>> : n \in MCLibNames}
    \cup {<<<<"x">>, <<"y">>>>, <<<<"y">>, <<"x">>>>, <<<<"z">>, <<"y">>>>, <<<<"x">>, <<"z">>>>,
          <<<<"x">>, <<"y">>, <<"z">>>>}

MCListed == {{"ptrace"}, {"bpf"}, {"read"}, {"mmap", "mprotect"}, {"connect"}}
MCCustomRules ==
    {[calls |-> CallsOf({"ptrace"}), action |-> "ALLOW", size |-> 0],
     [calls |-> CallsOf({"read"}), action |-> "KILL", size |-> 250],
     [calls |-> On("mprotect", {"RX"}), action |-> "ALLOW", size |-> 0]}
MCAddedPaths ==
    {[outside |-> D, inside |-> <<"", "a">>], [outside |-> F, inside |-> <<"", "a", "b">>],
     [outside |-> R, inside |-> <<"", "a">>],
     [outside |-> <<"", "proc", "self">>, inside |-> <<"", "p">>],
     [outside |-> <<"a">>, inside |-> <<"", "a">>]}
MCLibraryLists == {<<<<"", "l">>, <<"", "m">>>>}

\* Loads of an argument and the number, returns, tests, jumps near and far, a
\* label and a jump to it: every policy of at most three of them.
MCInstructions ==
    {LoadArg, Ret(1), Ret(TraceOther), Jeq(0, 0, 1), Ja(1), Jump(7), Label(7), Ja(2)}
MCPolicies == UNION {[1 .. n -> MCInstructions] : n \in 0 .. 3}
MCNumLists == {[i \in 1 .. n |-> i] : n \in 0 .. 5} \cup {[i \in 1 .. n |-> 6 - i] : n \in 1 .. 5}
-----------------------------------------------------------------------------
NoBpf == bpfPolicy = <<>> /\ bpfNums = <<>> /\ bpfCode = <<>> /\ bpfState = "given"
NoProgram == program = "none" /\ running = "none" /\ inits = 1
NoPaths == longPath = Root /\ shortPath = Root
NoLibs ==
    /\ needs = [l \in Libraries \cup {Binary} |-> <<>>] /\ interpreter = "none"
    /\ toResolve = <<>> /\ imported = {} /\ resolved = 0 /\ loaded = 0 /\ libState = "parse"

Init ==
    /\ MountInit /\ BuilderInit /\ FilterInit
    /\ \/ part = "bpf" /\ BpfInit /\ NoPaths /\ NoLibs /\ NoProgram
       \/ part = "paths" /\ PathsInit /\ NoBpf /\ NoLibs /\ NoProgram
       \/ part = "libraries" /\ LibInit /\ NoBpf /\ NoPaths /\ NoProgram
       \/ part \in {"mounts", "builder", "hosts"} /\ NoBpf /\ NoPaths /\ NoLibs /\ NoProgram
       \/ part = "programs" /\ ProgramsInit /\ NoBpf /\ NoPaths /\ NoLibs

Next ==
    \/ /\ part = "bpf" /\ BpfNext
       /\ UNCHANGED <<part, pathVars, libVars, mountVars, builderVars, programVars,
                      filterVars>>
    \/ /\ part = "libraries" /\ LibNext
       /\ UNCHANGED <<part, bpfVars, pathVars, mountVars, builderVars, programVars,
                      filterVars>>
    \/ /\ part = "mounts" /\ MountNext
       /\ UNCHANGED <<part, bpfVars, pathVars, libVars, builderVars, programVars,
                      filterVars>>
    \/ /\ part = "builder" /\ BuilderNext
       /\ UNCHANGED <<part, bpfVars, pathVars, libVars, mountVars, programVars,
                      filterVars>>
    \/ /\ part = "programs" /\ Reinit
       /\ UNCHANGED <<part, bpfVars, pathVars, libVars, mountVars, builderVars,
                      filterVars>>
    \/ /\ part = "hosts" /\ FilterNext
       /\ UNCHANGED <<part, bpfVars, pathVars, libVars, mountVars, builderVars,
                      programVars>>

vars == <<part, bpfVars, pathVars, libVars, mountVars, builderVars, programVars,
          filterVars>>

Spec == Init /\ [][Next]_vars
=============================================================================
