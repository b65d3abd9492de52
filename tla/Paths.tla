-------------------------------- MODULE Paths --------------------------------
(***************************************************************************)
(* Path handling: util/path.cc and the lexical helpers of util/fileops.cc. *)
(* A path is the sequence of its components, split at every slash, so that *)
(* each string has exactly one representation: "/a//b" is                  *)
(* <<"", "a", "", "b">>, "/" is <<"", "">> and the empty string is <<"">>. *)
(***************************************************************************)
EXTENDS Integers, Sequences, FiniteSetsExt, Functions

Empty == <<"">>
Root == <<"", "">>

\* The last component, and the path without it.
Leaf(p) == p[Len(p)]
Parent(p) == SubSeq(p, 1, Len(p) - 1)

IsAbsolutePath(p) == Len(p) > 1 /\ p[1] = ""

\* The components a walk along the path goes through.
NonEmpty(p) == SelectSeq(p, LAMBDA c : c # "")

StripPrefix(p) == IF IsAbsolutePath(p) THEN Tail(p) ELSE p
EndsWithSlash(p) == Len(p) > 1 /\ Leaf(p) = ""
StripSuffix(p) == IF EndsWithSlash(p) THEN Parent(p) ELSE p

JoinPath(a, b) ==
    CASE a = Empty -> b
      [] b = Empty -> a
      [] OTHER -> StripSuffix(a) \o StripPrefix(b)

\* A ".." that has nothing to remove is counted, and put back in front of a
\* relative path only.
DotDot(acc) ==
    IF acc.parts = <<>> THEN [acc EXCEPT !.up = @ + 1]
    ELSE [acc EXCEPT !.parts = Parent(@)]

CleanStep(acc, c) ==
    CASE c = ".." -> DotDot(acc)
      [] c = "." -> acc
      [] OTHER -> [acc EXCEPT !.parts = Append(@, c)]

CleanParts(names) ==
    LET done[n \in 0 .. Len(names)] ==
            IF n = 0 THEN [parts |-> <<>>, up |-> 0] ELSE CleanStep(done[n - 1], names[n])
    IN done[Len(names)]

FromRoot(parts) == IF parts = <<>> THEN Root ELSE <<"">> \o parts
FromHere(up, parts) ==
    IF up = 0 /\ parts = <<>> THEN <<".">> ELSE [i \in 1 .. up |-> ".."] \o parts

Cleaned(absolute, done) ==
    IF absolute THEN FromRoot(done.parts) ELSE FromHere(done.up, done.parts)

CleanPath(p) == Cleaned(IsAbsolutePath(p), CleanParts(NonEmpty(p)))

SplitPath(p) ==
    CASE Len(p) = 1 -> <<Empty, p>>
      [] Len(p) = 2 /\ p[1] = "" -> <<Root, <<p[2]>>>>
      [] OTHER -> <<Parent(p), <<Leaf(p)>>>>

Basename(p) == <<Leaf(p)>>

StripBasename(p) ==
    CASE Len(p) = 1 -> Empty
      [] Len(p) = 2 /\ p[1] = "" -> Root
      [] OTHER -> Parent(p)

\* The prefix of p up to its last component that is not empty.
UpToName(p) == SubSeq(p, 1, Max({i \in 1 .. Len(p) : p[i] # ""}))

RemoveLastPathComponent(p) ==
    IF NonEmpty(p) = <<>> THEN (IF p = Empty THEN Empty ELSE Root)
    ELSE LET dir == Parent(UpToName(p))
         IN CASE dir = <<>> -> Empty
              [] NonEmpty(dir) = <<>> -> Root
              [] OTHER -> UpToName(dir)

\* Mutant: the working directory is used whatever the base.
BaseIgnored(base, cwd) == cwd

\* MakeAbsolute with respect to base, or to the working directory when base is
\* empty; the empty name has no absolute form and stays empty.
BaseOr(base, cwd) == IF base = Empty THEN cwd ELSE base

MakeAbsolute(name, base, cwd) ==
    LET dir == StripSuffix(BaseOr(base, cwd))
    IN CASE name = Empty \/ IsAbsolutePath(name) -> name
         [] name = <<".">> -> IF dir = Empty THEN Root ELSE dir
         [] OTHER -> dir \o name

\* The absolute form of what the symbolic link `name' holds.
ReadLinkAbsolute(name, link, cwd) ==
    IF link = Empty THEN Empty
    ELSE MakeAbsolute(MakeAbsolute(link, RemoveLastPathComponent(name), cwd), Empty, cwd)
-----------------------------------------------------------------------------
(* The place a path leads to, without symbolic links on the way: the       *)
(* components below the root after a walk that starts in directory `from'. *)

Walk(from, p) ==
    LET names == NonEmpty(p)
        Step(at, c) ==
            CASE c = ".." -> IF at = <<>> THEN <<>> ELSE Parent(at)
              [] c = "." -> at
              [] OTHER -> Append(at, c)
        place[n \in 0 .. Len(names)] ==
            IF n = 0 THEN (IF IsAbsolutePath(p) THEN <<>> ELSE from)
            ELSE Step(place[n - 1], names[n])
    IN place[Len(names)]

CONSTANTS LongPaths, ShortPaths, WorkDir

VARIABLES longPath, shortPath

pathVars == <<longPath, shortPath>>

PathsInit == longPath \in LongPaths /\ shortPath \in ShortPaths

\* Paths lead to the same place before and after the conversions.  CleanPath
\* keeps the place, and what it returns is clean: cleaning again changes
\* nothing, which is how PolicyBuilder::ValidatePath tells a normalised path
\* from another.  Joining two paths leads where the second one leads from the
\* first, however many slashes the two have at their ends, and undoes
\* SplitPath, whose parts Basename and StripBasename find.  A relative link is
\* resolved against the directory that holds it, a relative name of the link
\* against the working directory: the two calls of MakeAbsolute in
\* ReadLinkAbsolute find the place the kernel would go to.
PathsKeepPlace ==
    LET below == IF IsAbsolutePath(shortPath) THEN Tail(shortPath) ELSE shortPath
        first == Walk(WorkDir, longPath)
    IN /\ Walk(WorkDir, CleanPath(longPath)) = first
       /\ CleanPath(CleanPath(longPath)) = CleanPath(longPath)
       /\ longPath # Empty /\ ~IsAbsolutePath(below)
            => Walk(WorkDir, JoinPath(longPath, shortPath)) = Walk(first, below)
       /\ SplitPath(longPath) = <<StripBasename(longPath), Basename(longPath)>>
       /\ longPath # Empty
            => Walk(WorkDir, JoinPath(SplitPath(longPath)[1], Basename(longPath))) = first
       /\ NonEmpty(longPath) # <<>> /\ shortPath # Empty
            => Walk(<<>>, ReadLinkAbsolute(longPath, shortPath, <<"">> \o WorkDir))
               = Walk(Walk(WorkDir, RemoveLastPathComponent(longPath)), shortPath)
=============================================================================
