------------------------------ MODULE MountTree ------------------------------
(***************************************************************************)
(* sandbox2/mounts.cc: the tree of mounts a policy asks for, as a function *)
(* from the paths below the root (sequences of names) to the nodes, whose  *)
(* domain is closed under prefixes; and the walk that performs the mounts  *)
(* in the sandboxee's new root.                                            *)
(***************************************************************************)
EXTENDS Paths

CONSTANTS
    Outside,      \* the paths of the host that are offered for mounting
    Inode,        \* external: the file each of them leads to, "none" if there is none
    HostKind,     \* external: "file" or "dir"
    HostBelow,    \* external: what a directory holds: names below it to kinds
    HostMounts,   \* external: the names below it where the host has mounted something
                  \* else, and whether that is writable
    ReadOnlyDevs, \* external: those of Outside on a read-only device
    InsidePaths,  \* the paths given for the inside
    NulName,      \* a component with a null byte in it
    MaxMountCalls \* bound on the calls that change the tree

\* CleanPath leaves the names of the walk, and below a directory are paths.
ASSUME MountAssumption ==
    /\ \A path \in InsidePaths :
          /\ NonEmpty(CleanPath(path)) \in Seq(STRING)
          /\ NonEmpty(CleanPath(path)) = <<>> /\ IsAbsolutePath(CleanPath(path))
                => CleanPath(path) = Root
    /\ \A o \in Outside : DOMAIN HostBelow[o] \subseteq Seq(STRING)

\* The function f, and g where f says nothing.
Over(f, g) == [x \in DOMAIN f \cup DOMAIN g |-> IF x \in DOMAIN f THEN f[x] ELSE g[x]]
Put(f, x, y) == [z \in DOMAIN f \cup {x} |-> IF z = x THEN y ELSE f[z]]

NoneNode == [kind |-> "none", outside |-> Empty, rw |-> FALSE]
FileNode(outside, isRo) == [kind |-> "file", outside |-> outside, rw |-> ~isRo]
DirNode(outside, isRo) == [kind |-> "dir", outside |-> outside, rw |-> ~isRo]
TmpfsNode == [kind |-> "tmpfs", outside |-> Empty, rw |-> TRUE]
RootNode(rw) == [kind |-> "root", outside |-> Empty, rw |-> rw]

\* The constructor: a root that is not writable.
NewTree == [p \in {<<>>} |-> RootNode(FALSE)]

PathContainsNullByte(p) == NulName \in Range(p)

IsSameFile(a, b) == a = b \/ (Inode[a] = Inode[b] /\ Inode[a] # "none")

IsEquivalentNode(n1, n2) ==
    /\ n1.kind = n2.kind /\ n1.rw = n2.rw
    /\ n1.kind \in {"file", "dir"} => IsSameFile(n1.outside, n2.outside)

\* Path p leads to q or to a directory above it.
IsAbove(p, q) == Len(p) <= Len(q) /\ SubSeq(q, 1, Len(p)) = p

Below(tree, p) == {q \in DOMAIN tree : q # p /\ IsAbove(p, q)}
NodeAt(tree, p) == IF p \in DOMAIN tree THEN tree[p] ELSE NoneNode

\* A component of the path where a file is mounted.
FileAbove(tree, p) == \E n \in 1 .. Len(p) - 1 : NodeAt(tree, SubSeq(p, 1, n)).kind = "file"

\* A file on a path that has entries below it already.
FileOverDirectory(tree, p, node) == node.kind = "file" /\ Below(tree, p) # {}

\* The entries the walk along p makes before it stops at a file or at its end.
Walked(tree, p) ==
    LET Passed(n) == \A i \in 1 .. n - 1 : NodeAt(tree, SubSeq(p, 1, i)).kind # "file"
    IN Over(tree, [q \in {SubSeq(p, 1, n) : n \in {m \in 1 .. Len(p) : Passed(m)}} |-> NoneNode])

\* Insert: whether it succeeds, and the tree it leaves.
Refused(tree) == [ok |-> FALSE, tree |-> tree]

InsertWalked(tree, walked, p, node) ==
    IF FileAbove(tree, p) THEN Refused(walked)
    ELSE IF walked[p].kind # "none"
         THEN [ok |-> IsEquivalentNode(walked[p], node), tree |-> walked]
         ELSE IF FileOverDirectory(tree, p, node) THEN Refused(walked)
              ELSE [ok |-> TRUE, tree |-> Put(walked, p, node)]

InsertClean(tree, clean, node) ==
    IF ~IsAbsolutePath(clean) \/ clean = Root THEN Refused(tree)
    ELSE InsertWalked(tree, Walked(tree, NonEmpty(clean)), NonEmpty(clean), node)

NoSource(node) ==
    /\ node.kind \in {"file", "dir"}
    /\ node.outside = Empty \/ PathContainsNullByte(node.outside)

Insert(tree, path, node) ==
    IF PathContainsNullByte(path) \/ NoSource(node) THEN Refused(tree)
    ELSE InsertClean(tree, CleanPath(path), node)

MountsAddFileAt(tree, outside, inside, isRo) == Insert(tree, inside, FileNode(outside, isRo))
MountsAddDirectoryAt(tree, outside, inside, isRo) == Insert(tree, inside, DirNode(outside, isRo))
MountsAddTmpfs(tree, inside) == Insert(tree, inside, TmpfsNode)

\* Remove clears the node and what is below it; the entry itself stays.
Cleared(tree, p) == Put(Restrict(tree, DOMAIN tree \ Below(tree, p)), p, NoneNode)

RemoveMount(tree, path) ==
    LET clean == CleanPath(path)
        p == NonEmpty(clean)
    IN IF \/ PathContainsNullByte(path) \/ ~IsAbsolutePath(clean) \/ clean = Root
          \/ FileAbove(tree, p) \/ p \notin DOMAIN tree
       THEN [ok |-> FALSE, tree |-> tree]
       ELSE [ok |-> TRUE, tree |-> Cleared(tree, p)]

MountsSetRootWritable(tree) == [tree EXCEPT ![<<>>] = RootNode(TRUE)]
IsRootReadOnly(tree) == ~tree[<<>>].rw

\* How many components of p the walk of ResolvePath finds in the tree.
Deepest(tree, p) == Max({i \in 0 .. Len(p) : SubSeq(p, 1, i) \in DOMAIN tree})

\* ResolvePath: the host's path behind an inside path, or Empty.
ResolvePath(tree, path) ==
    LET p == NonEmpty(CleanPath(path))
        n == Deepest(tree, p)
        at == NodeAt(tree, SubSeq(p, 1, n))
    IN CASE ~IsAbsolutePath(path) -> Empty
         [] n = Len(p) /\ at.kind \in {"file", "dir"} -> at.outside
         [] n < Len(p) /\ at.kind = "dir" -> JoinPath(at.outside, SubSeq(p, n + 1, Len(p)))
         [] OTHER -> Empty
-----------------------------------------------------------------------------
(* The calls on a tree, and CreateMounts, which walks it depth first.      *)
(* `view' is the sandboxee's file system as far as the walk has got: each  *)
(* path that exists, its kind, the host's path behind it (Empty for what   *)
(* was created in the new root or a tmpfs) and whether it can be written.  *)

VARIABLES mtree, mcalls, mok, mphase, todo, view

mountVars == <<mtree, mcalls, mok, mphase, todo, view>>

Shown(kind, host, rw) == [kind |-> kind, host |-> host, rw |-> rw]

MountInit ==
    /\ mtree = NewTree /\ mcalls = 0 /\ mok = TRUE /\ mphase = "build"
    /\ todo = <<>> /\ view = [p \in {<<>>} |-> Shown("dir", Empty, TRUE)]

MountCall(result) ==
    /\ mphase = "build" /\ mcalls < MaxMountCalls
    /\ mcalls' = mcalls + 1 /\ mtree' = result.tree /\ mok' = result.ok
    /\ UNCHANGED <<mphase, todo, view>>

MountFile == \E o \in Outside \cup {Empty, <<NulName>>}, i \in InsidePaths, ro \in BOOLEAN :
    MountCall(MountsAddFileAt(mtree, o, i, ro))
MountDirectory == \E o \in Outside, i \in InsidePaths, ro \in BOOLEAN :
    MountCall(MountsAddDirectoryAt(mtree, o, i, ro))
MountTmpfs == \E i \in InsidePaths : MountCall(MountsAddTmpfs(mtree, i))
Unmount == \E i \in InsidePaths : MountCall(RemoveMount(mtree, i))
MakeRootWritable == MountCall([ok |-> TRUE, tree |-> MountsSetRootWritable(mtree)])

\* CreateMounts is called with create_backing_files for the root.
StartCreateMounts ==
    /\ mphase = "build" /\ mphase' = "walk"
    /\ todo' = <<[path |-> <<>>, create |-> TRUE]>>
    /\ UNCHANGED <<mtree, mcalls, mok, view>>

Entries(tree, p) == {q \in DOMAIN tree : q # <<>> /\ Parent(q) = p}

\* Backing files: a file is made with O_EXCL, a directory may exist already.
Backed(v, p, node, create) ==
    IF ~create \/ p \in DOMAIN v THEN v
    ELSE Put(v, p, Shown(IF node.kind = "file" THEN "file" ELSE "dir", Empty, TRUE))

Hidden(v, p) == [q \in {r \in DOMAIN v : ~IsAbove(p, r)} |-> v[q]]

\* Mutant: without the remount the flags are ignored.
NotRemounted(node) == TRUE

\* The flags of a bind mount take effect with a remount.
RemountedWritable(node) == node.rw

\* What is below p on the way to q, and where that is on the host.
Rest(p, q) == SubSeq(q, Len(p) + 1, Len(q))
HostPath(o, r) == IF r = <<>> THEN o ELSE JoinPath(o, r)

\* MS_REC binds what the host has mounted below a directory as well, and the
\* remount is of the topmost mount only: the others stay as they are.
MountPointsTo(o, r) == {n \in 1 .. Len(r) : SubSeq(r, 1, n) \in DOMAIN HostMounts[o]}
OnSubmount(o, r) == MountPointsTo(o, r) # {}
SubmountWritable(o, r) == HostMounts[o][SubSeq(r, 1, Max(MountPointsTo(o, r)))]

BoundWritable(node, r) ==
    IF OnSubmount(node.outside, r) THEN SubmountWritable(node.outside, r)
    ELSE RemountedWritable(node)

Bound(node, kind, r) == Shown(kind, HostPath(node.outside, r), BoundWritable(node, r))

\* mount(2): what it shows at p from then on.
Mounted(v, p, node) ==
    CASE node.kind = "tmpfs" -> Put(Hidden(v, p), p, Shown("dir", Empty, TRUE))
      [] node.kind \in {"file", "dir"} ->
            LET below == HostBelow[node.outside]
                contents == [q \in {p \o r : r \in DOMAIN below} |->
                              Bound(node, below[Rest(p, q)], Rest(p, q))]
            IN Put(Over(contents, Hidden(v, p)), p,
                   Bound(node, HostKind[node.outside], <<>>))
      [] OTHER -> v

\* MountWithDefaults: ENOENT of either path is a warning, anything else fatal.
Missing(v, p, node) ==
    \/ p \notin DOMAIN v
    \/ node.kind \in {"file", "dir"} /\ Inode[node.outside] = "none"

CannotMount(v, p, node) ==
    /\ node.kind \in {"file", "dir"} /\ ~Missing(v, p, node)
    /\ \/ (HostKind[node.outside] = "dir") # (v[p].kind = "dir")
       \/ node.rw /\ node.outside \in ReadOnlyDevs

\* Below a bind mount nothing is created, below a tmpfs everything is.
CreateBelow(node, create) ==
    CASE node.kind = "dir" -> FALSE [] node.kind = "tmpfs" -> TRUE [] OTHER -> create

\* Where the subtrees are put: the node is mounted before any of them is visited.
NextTodo(rest, children) == children \o rest

Orders(paths) == Bijection(1 .. Cardinality(paths), paths)

VisitNode ==
    /\ mphase = "walk" /\ todo # <<>>
    /\ LET p == Head(todo).path
           node == mtree[p]
           v == Backed(view, p, node, Head(todo).create)
           below == CreateBelow(node, Head(todo).create)
       IN IF CannotMount(v, p, node)
          THEN mphase' = "fatal" /\ view' = v /\ UNCHANGED todo
          ELSE /\ view' = IF Missing(v, p, node) THEN v ELSE Mounted(v, p, node)
               /\ \E order \in Orders(Entries(mtree, p)) :
                     todo' = NextTodo(Tail(todo), [i \in 1 .. Len(order) |->
                                                    [path |-> order[i], create |-> below]])
               /\ UNCHANGED mphase
    /\ UNCHANGED <<mtree, mcalls, mok>>

\* PrepareChroot: the new root is remounted read-only unless asked otherwise.
FinishMounts ==
    /\ mphase = "walk" /\ todo = <<>> /\ mphase' = "done"
    /\ view' = [p \in DOMAIN view |->
          IF IsRootReadOnly(mtree) /\ view[p].host = Empty
             /\ ~\E q \in DOMAIN mtree : mtree[q].kind = "tmpfs" /\ IsAbove(q, p)
          THEN [view[p] EXCEPT !.rw = FALSE] ELSE view[p]]
    /\ UNCHANGED <<mtree, mcalls, mok, todo>>

MountNext ==
    \/ MountFile \/ MountDirectory \/ MountTmpfs \/ Unmount \/ MakeRootWritable
    \/ StartCreateMounts \/ VisitNode \/ FinishMounts

MountSpec == MountInit /\ [][MountNext]_mountVars
-----------------------------------------------------------------------------
EveryMountHasSource ==
    \A q \in DOMAIN mtree :
       mtree[q].kind \in {"file", "dir"} => Inode[mtree[q].outside] # "none"

\* What ResolvePath says is behind an inside path is what the sandboxee finds
\* there once the mounts are made, if it finds anything of the host, provided
\* every mount has a source: one without is skipped with a warning.
PathsResolveAsShown ==
    mphase = "done" /\ EveryMountHasSource =>
        \A p \in DOMAIN view :
           LET host == ResolvePath(mtree, <<"">> \o p)
           IN p # <<>> /\ host # Empty /\ view[p].host # Empty => view[p].host = host

FilesAreLeaves == \A p \in DOMAIN mtree : mtree[p].kind = "file" => Below(mtree, p) = {}

RefusedLeavesTree == mcalls' # mcalls /\ ~mok' => mtree' = mtree

\* q is bound where it shows what the host has at p, and with the access asked for
\* q, unless the host has mounted something else on the way there.
AskedFor(q, p, host) ==
    LET node == mtree[q]
        r == Rest(q, p)
    IN /\ IsAbove(q, p) /\ node.kind \in {"file", "dir"} /\ host = HostPath(node.outside, r)
       /\ IF OnSubmount(node.outside, r) THEN SubmountWritable(node.outside, r) ELSE node.rw

WritableAsAsked ==
    \A p \in DOMAIN view : view[p].host # Empty /\ view[p].rw =>
        \E q \in DOMAIN mtree : AskedFor(q, p, view[p].host)

\* The mounts of a policy are what was asked for.  "A file node has to be a leaf
\* so we can skip traversing here" (mounts.cc): whatever is inserted and
\* removed, in whatever order, nothing is below a file.  A call that is refused
\* leaves the mounts as they were, although Insert creates entries on its way
\* before it knows.  And a file of the host is writable in the sandboxee only
\* through a mount of this file, or of a directory above it, that was asked for as
\* writable; only what the host has mounted below such a directory keeps the
\* access it has there, whatever was asked.
MountsAreAsAsked ==
    [](FilesAreLeaves /\ WritableAsAsked) /\ [][RefusedLeavesTree]_mountVars
=============================================================================
