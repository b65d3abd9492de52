--------------------------- MODULE LibraryResolver ---------------------------
(***************************************************************************)
(* Mounts::AddMappingsForBinary: the shared libraries a binary needs, and  *)
(* those they need in turn, are looked up in the directories the dynamic   *)
(* linker would search and added to the mounts.  The walk is depth first   *)
(* with an explicit stack and gives up at fixed limits.                    *)
(***************************************************************************)
EXTENDS Paths

CONSTANTS
    LdLibraryPath,   \* the directories of ld_library_path, in order
    StandardPaths,   \* /lib, /lib64, /usr/lib, /usr/lib64
    Platform,        \* GetPlatform(): x86_64-linux-gnu
    HostFiles,       \* external: the files and directories that exist
    LibNames,        \* the names that occur in DT_NEEDED
    NeedLists,       \* external: the DT_NEEDED lists a file may have
    MaxResolvingDepth, MaxResolvedEntries, MaxLoadedEntries,
    MaxImportedLibraries, MaxWorkQueueSize

ASSUME LibAssumption ==
    /\ LdLibraryPath \in Seq(Seq(STRING)) /\ StandardPaths \in Seq(Seq(STRING))
    /\ <<>> \notin HostFiles
    /\ IsFiniteSet(LibNames) /\ NeedLists \subseteq Seq(LibNames)
    /\ {MaxResolvingDepth, MaxResolvedEntries, MaxLoadedEntries, MaxImportedLibraries,
        MaxWorkQueueSize} \subseteq Nat

SearchDirs == LdLibraryPath \o StandardPaths

\* A directory and its hardware capability subdirectories, the most specific
\* combination first.
HwCapPaths(dir) ==
    <<JoinPath(JoinPath(dir, Platform), <<"tls">>), JoinPath(dir, <<"tls">>),
      JoinPath(dir, Platform), dir>>

\* The paths to search, in their order, and the positions of those that exist.
SearchPath(i) == HwCapPaths(SearchDirs[((i - 1) \div 4) + 1])[((i - 1) % 4) + 1]
FullSearchPaths == {i \in 1 .. 4 * Len(SearchDirs) : SearchPath(i) \in HostFiles}

\* ExistingPathInsideDir: a name that leads out of the directory is refused.
InsideDir(dir, path) == StripBasename(path) = dir

ExistingPathInsideDir(dir, name) ==
    LET path == CleanPath(JoinPath(dir, name))
    IN IF InsideDir(dir, path) /\ path \in HostFiles THEN path ELSE Empty

\* ResolveLibraryPath: the first directory that has it.
ResolveLibraryPath(name) ==
    LET hits == {i \in FullSearchPaths : ExistingPathInsideDir(SearchPath(i), name) # Empty}
    IN IF hits = {} THEN Empty ELSE ExistingPathInsideDir(SearchPath(Min(hits)), name)

LibraryPath == [n \in LibNames |-> ResolveLibraryPath(n)]

Libraries == {LibraryPath[n] : n \in LibNames} \ {Empty}
-----------------------------------------------------------------------------
VARIABLES needs, interpreter, toResolve, imported, resolved, loaded, libState

libVars == <<needs, interpreter, toResolve, imported, resolved, loaded, libState>>

\* Stands for the binary among the files: it is no path.
Binary == <<>>

\* Stands for the DT_NEEDED list of a file that ElfFile::ParseFromFile rejects.
NotElf == <<Empty>>

\* Any graph of dependencies, cycles included.
LibInit ==
    /\ needs \in [Libraries \cup {Binary} -> NeedLists \cup {NotElf}]
    /\ interpreter \in {"none", "allowed", "other"}
    /\ toResolve = <<>> /\ imported = {} /\ resolved = 0 /\ loaded = 0
    /\ libState = "parse"

\* The stack: its top is at the back.
Back(stack) == stack[Len(stack)]
PopBack(stack) == SubSeq(stack, 1, Len(stack) - 1)

WithDepth(list, depth) == [i \in 1 .. Len(list) |-> [name |-> list[i], depth |-> depth]]

LibError == libState' = "error" /\ UNCHANGED <<toResolve, imported, resolved, loaded>>

ParseBinary ==
    /\ libState = "parse"
    /\ CASE needs[Binary] = NotElf -> LibError
         [] interpreter = "none" -> /\ libState' = "ok"
                                    /\ UNCHANGED <<toResolve, imported, resolved, loaded>>
         [] interpreter = "other" -> LibError
         [] Len(needs[Binary]) > MaxWorkQueueSize -> LibError
         [] OTHER -> /\ toResolve' = WithDepth(needs[Binary], 1) /\ libState' = "walk"
                     /\ UNCHANGED <<imported, resolved, loaded>>
    /\ UNCHANGED <<needs, interpreter>>

\* Mutant: libraries found before are walked through again.
NeverImported(lib) == FALSE

AlreadyImported(lib) == lib \in imported

\* What a library found for the first time adds to the stack.
Pushed(rest, lib, depth) == rest \o WithDepth(needs[lib], depth + 1)

ResolveNext ==
    /\ libState = "walk" /\ toResolve # <<>>
    /\ LET top == Back(toResolve)
           rest == PopBack(toResolve)
           lib == LibraryPath[top.name]
       IN /\ resolved' = resolved + 1
          /\ IF resolved' > MaxResolvedEntries \/ top.depth > MaxResolvingDepth
             THEN libState' = "error" /\ toResolve' = rest /\ UNCHANGED <<imported, loaded>>
             ELSE IF lib = Empty \/ AlreadyImported(lib)
             THEN toResolve' = rest /\ UNCHANGED <<imported, loaded, libState>>
             ELSE /\ imported' = imported \cup {lib}
                  /\ IF Cardinality(imported') > MaxImportedLibraries
                     THEN libState' = "error" /\ toResolve' = rest /\ UNCHANGED loaded
                     ELSE /\ loaded' = loaded + 1
                          /\ IF \/ loaded' > MaxLoadedEntries
                                \/ needs[lib] = NotElf
                                \/ Len(needs[lib]) > MaxWorkQueueSize - Len(rest)
                             THEN libState' = "error" /\ toResolve' = rest
                             ELSE toResolve' = Pushed(rest, lib, top.depth) /\ UNCHANGED libState
    /\ UNCHANGED <<needs, interpreter>>

\* The libraries and the interpreter are added to the mounts.
AddLibraries ==
    /\ libState = "walk" /\ toResolve = <<>> /\ libState' = "ok"
    /\ UNCHANGED <<needs, interpreter, toResolve, imported, resolved, loaded>>

LibNext == ParseBinary \/ ResolveNext \/ AddLibraries

LibSpec == LibInit /\ [][LibNext]_libVars
-----------------------------------------------------------------------------
\* The libraries a set of files needs, directly.
NeededBy(files) == {LibraryPath[n] : n \in UNION {Range(needs[f]) : f \in files}} \ {Empty}

\* The entries the files ask for: each file with the positions of its list.
EdgesOf(files) == UNION {{f} \X (1 .. Len(needs[f])) : f \in files}

Edges == Cardinality(EdgesOf({Binary} \cup Libraries))

\* When the walk succeeds for a dynamic executable it has found exactly the
\* libraries the binary needs, directly or through others: none is missed when
\* two libraries need the same one, or each other.  "It adds libraries only from
\* standard library dirs and ld_library_path" (policybuilder.h), whatever names
\* the binary asks for.  And libraries that need each other do not exhaust the
\* limits: each is walked through once, so that the walk of a graph within the
\* limits fails only for a file that cannot be parsed.
LibrariesAreComplete ==
    /\ libState = "ok" /\ interpreter = "allowed"
        => /\ NeededBy({Binary} \cup imported) = imported
           /\ \A sub \in SUBSET imported : NeededBy({Binary} \cup sub) \subseteq sub => sub = imported
    /\ \A lib \in imported : \E i \in FullSearchPaths : StripBasename(lib) = SearchPath(i)
    /\ /\ libState = "error" /\ interpreter # "other"
       /\ Edges <= Min({MaxResolvedEntries, MaxWorkQueueSize})
       /\ Cardinality(Libraries) < MaxResolvingDepth
       /\ Cardinality(Libraries) <= Min({MaxLoadedEntries, MaxImportedLibraries})
       => NotElf \in Range(needs)
=============================================================================
