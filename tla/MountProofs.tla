----------------------------- MODULE MountProofs -----------------------------
(***************************************************************************)
(* sandbox2/mounts.cc, proved for every set of paths and every graph of    *)
(* libraries.                                                              *)
(*                                                                         *)
(* The tree of mounts.  MountInv says that the tree is closed under        *)
(* prefixes, that nothing is below a file, and that what the walk shows of *)
(* the host is writable only as the mount that shows it was asked for, or  *)
(* as the host has mounted it.  Insert makes entries on its way before it  *)
(* knows whether it will refuse: the closure is what shows that it made    *)
(* none when it does.                                                      *)
(*                                                                         *)
(* The libraries.  LibInv says that what the files found need is found or  *)
(* on the stack, that nothing else is found, and how the counters follow   *)
(* from the graph.  At the end the stack is empty and the libraries are    *)
(* the least set closed under the dependencies.                            *)
(***************************************************************************)
EXTENDS MountTree, LibraryResolver, FiniteSetTheorems, SequenceTheorems,
        WellFoundedInduction, TLAPS
-----------------------------------------------------------------------------
(* The tree of mounts.                                                     *)

\* A tree is a function on a set of paths that is closed under prefixes.
IsTree(t) ==
    /\ t = [q \in DOMAIN t |-> t[q]]
    /\ IsFiniteSet(DOMAIN t) /\ DOMAIN t \subseteq Seq(STRING)
    /\ \A q \in DOMAIN t : \A n \in 0 .. Len(q) : SubSeq(q, 1, n) \in DOMAIN t
    /\ <<>> \in DOMAIN t /\ t[<<>>].kind = "root"

\* What is mounted from the host is a path of the host.
Sourced(t) == \A q \in DOMAIN t : t[q].kind \in {"file", "dir"} => t[q].outside \in Outside

Leaves(t) == \A q \in DOMAIN t : t[q].kind = "file" => Below(t, q) = {}

TreeOK(t) == IsTree(t) /\ Sourced(t) /\ Leaves(t)

\* The walk has paths of the tree before it.
Todo == [path : DOMAIN mtree, create : BOOLEAN]

\* What is shown at p of the host is writable only as a mount above it was asked for,
\* or as the host has it mounted.
Asked(p, shown) ==
    /\ DOMAIN shown = {"kind", "host", "rw"}
    /\ shown.host # Empty /\ shown.rw =>
          \E q \in DOMAIN mtree : AskedFor(q, p, shown.host)

AllAsked(v) == \A p \in DOMAIN v : Asked(p, v[p])

MountInv ==
    /\ TreeOK(mtree) /\ todo \in Seq(Todo) /\ AllAsked(view)
    /\ mphase = "build" => view = [p \in {<<>>} |-> Shown("dir", Empty, TRUE)] /\ todo = <<>>
-----------------------------------------------------------------------------
(* Paths and their prefixes.                                               *)

Path == Seq(STRING)

\* A prefix of a path.
LEMMA PrefixOf ==
    ASSUME NEW p \in Path, NEW n \in 0 .. Len(p)
    PROVE  /\ SubSeq(p, 1, n) \in Path /\ Len(SubSeq(p, 1, n)) = n
           /\ \A i \in 1 .. n : SubSeq(p, 1, n)[i] = p[i]
BY SubSeqProperties DEF Path

\* Paths with the same components are the same.
LEMMA SamePath ==
    ASSUME NEW p \in Path, NEW q \in Path, Len(p) = Len(q), \A i \in 1 .. Len(p) : p[i] = q[i]
    PROVE  p = q
BY SeqEqual DEF Path

\* To be above is to have the first components of the other.
LEMMA AboveElements ==
    ASSUME NEW p \in Path, NEW q \in Path
    PROVE  IsAbove(p, q) <=> Len(p) <= Len(q) /\ \A i \in 1 .. Len(p) : p[i] = q[i]
<1>1. Len(p) \in Nat /\ Len(q) \in Nat
    BY DEF Path
<1>2. ASSUME Len(p) <= Len(q)
      PROVE  SubSeq(q, 1, Len(p)) = p <=> \A i \in 1 .. Len(p) : p[i] = q[i]
    <2>1. Len(p) \in 0 .. Len(q)
        BY <1>1, <1>2
    <2>2. /\ SubSeq(q, 1, Len(p)) \in Path /\ Len(SubSeq(q, 1, Len(p))) = Len(p)
          /\ \A i \in 1 .. Len(p) : SubSeq(q, 1, Len(p))[i] = q[i]
        BY <2>1, PrefixOf, Zenon
    <2> QED BY <2>2, SamePath, Zenon
<1> QED BY <1>2, Zenon DEF IsAbove

\* A prefix is above the path, and a prefix of a prefix is one of the path.
LEMMA PrefixAbove ==
    ASSUME NEW p \in Path, NEW n \in 0 .. Len(p)
    PROVE  /\ IsAbove(SubSeq(p, 1, n), p)
           /\ SubSeq(p, 1, n) = p => n = Len(p)
           /\ SubSeq(p, 1, Len(p)) = p
           /\ \A m \in 0 .. n : SubSeq(SubSeq(p, 1, n), 1, m) = SubSeq(p, 1, m)
<1>0. Len(p) \in Nat
    BY DEF Path
<1>1. /\ SubSeq(p, 1, n) \in Path /\ Len(SubSeq(p, 1, n)) = n
      /\ \A i \in 1 .. n : SubSeq(p, 1, n)[i] = p[i]
    BY PrefixOf, Zenon
<1>2. IsAbove(SubSeq(p, 1, n), p)
    <2>1. n <= Len(p)
        BY <1>0
    <2> QED BY <1>1, <2>1, AboveElements, Zenon
<1>3. SubSeq(p, 1, Len(p)) = p
    <2>1. Len(p) \in 0 .. Len(p)
        BY <1>0
    <2>2. /\ SubSeq(p, 1, Len(p)) \in Path /\ Len(SubSeq(p, 1, Len(p))) = Len(p)
          /\ \A i \in 1 .. Len(p) : SubSeq(p, 1, Len(p))[i] = p[i]
        BY <2>1, PrefixOf, Zenon
    <2> QED BY <2>2, SamePath, Zenon
<1>4. ASSUME NEW m \in 0 .. n
      PROVE  SubSeq(SubSeq(p, 1, n), 1, m) = SubSeq(p, 1, m)
    <2> DEFINE q == SubSeq(p, 1, n)
    <2>1. m \in 0 .. Len(p) /\ m \in 0 .. n /\ 1 .. m \subseteq 1 .. n
        BY <1>0
    <2>2. /\ SubSeq(p, 1, m) \in Path /\ Len(SubSeq(p, 1, m)) = m
          /\ \A i \in 1 .. m : SubSeq(p, 1, m)[i] = p[i]
        BY <2>1, PrefixOf, Zenon
    <2> HIDE DEF q
    <2>3. q \in Path /\ Len(q) = n /\ \A i \in 1 .. n : q[i] = p[i]
        BY <1>1, Zenon DEF q
    <2>4. m \in 0 .. Len(q)
        BY <2>1, <2>3
    <2>5. /\ SubSeq(q, 1, m) \in Path /\ Len(SubSeq(q, 1, m)) = m
          /\ \A i \in 1 .. m : SubSeq(q, 1, m)[i] = q[i]
        BY <2>3, <2>4, PrefixOf, Zenon
    <2>6. \A i \in 1 .. m : SubSeq(q, 1, m)[i] = SubSeq(p, 1, m)[i]
        BY <2>1, <2>2, <2>3, <2>5, Zenon
    <2>7. SubSeq(q, 1, m) = SubSeq(p, 1, m)
        BY <2>2, <2>5, <2>6, SamePath
    <2> QED BY <2>7, Zenon DEF q
<1> QED BY <1>1, <1>2, <1>3, <1>4, Zenon

\* Above is an order.
LEMMA AboveOrder ==
    ASSUME NEW p \in Path, NEW q \in Path, NEW r \in Path
    PROVE  /\ IsAbove(p, p)
           /\ IsAbove(p, q) /\ IsAbove(q, r) => IsAbove(p, r)
           /\ IsAbove(p, q) /\ IsAbove(q, p) => p = q
           /\ IsAbove(p, r) /\ IsAbove(q, r) => IsAbove(p, q) \/ IsAbove(q, p)
           /\ IsAbove(p, q) => Len(p) \in 0 .. Len(q) /\ p = SubSeq(q, 1, Len(p))
<1>1. Len(p) \in Nat /\ Len(q) \in Nat /\ Len(r) \in Nat
    BY DEF Path
<1>2. IsAbove(p, p)
    BY <1>1, AboveElements
<1>3. IsAbove(p, q) /\ IsAbove(q, r) => IsAbove(p, r)
    BY <1>1, AboveElements
<1>4. IsAbove(p, q) /\ IsAbove(q, p) => p = q
    BY <1>1, AboveElements, SamePath
<1>5. IsAbove(p, r) /\ IsAbove(q, r) => IsAbove(p, q) \/ IsAbove(q, p)
    BY <1>1, AboveElements
<1>6. IsAbove(p, q) => Len(p) \in 0 .. Len(q) /\ p = SubSeq(q, 1, Len(p))
    BY <1>1 DEF IsAbove
<1> QED BY <1>2, <1>3, <1>4, <1>5, <1>6, Zenon

\* What is joined to a path is below it.
LEMMA JoinedBelow ==
    ASSUME NEW p \in Path, NEW r \in Path
    PROVE  p \o r \in Path /\ IsAbove(p, p \o r)
<1>1. Len(p) \in Nat /\ Len(r) \in Nat
    BY DEF Path
<1>2. /\ p \o r \in Path /\ Len(p \o r) = Len(p) + Len(r)
      /\ \A i \in 1 .. Len(p) : (p \o r)[i] = p[i]
    BY ConcatProperties DEF Path
<1>3. Len(p) <= Len(p \o r)
    BY <1>1, <1>2
<1> QED BY <1>2, <1>3, AboveElements, Zenon
-----------------------------------------------------------------------------
(* Insert and Remove.                                                      *)

\* The prefixes of a path without the empty one.
Prefixes(p) == {SubSeq(p, 1, n) : n \in 1 .. Len(p)}

\* There are finitely many of them, and their prefixes are among them.
LEMMA PrefixesOf ==
    ASSUME NEW p \in Path
    PROVE  /\ IsFiniteSet(Prefixes(p)) /\ Prefixes(p) \subseteq Path
           /\ p # <<>> => p \in Prefixes(p)
           /\ \A q \in Prefixes(p) : IsAbove(q, p)
           /\ \A q \in Prefixes(p) : \A n \in 1 .. Len(q) : SubSeq(q, 1, n) \in Prefixes(p)
           /\ \A q \in Path : IsAbove(q, p) /\ q # <<>> => q \in Prefixes(p)
<1>0. Len(p) \in Nat
    BY DEF Path
<1>1. IsFiniteSet(Prefixes(p))
    <2> DEFINE f == [n \in 1 .. Len(p) |-> SubSeq(p, 1, n)]
    <2>1. IsFiniteSet(1 .. Len(p))
        BY <1>0, FS_Interval
    <2>2. f \in Surjection(1 .. Len(p), Prefixes(p))
        BY Zenon DEF Prefixes, Surjection
    <2> QED BY <2>1, <2>2, FS_Surjection, Zenon
<1>2. ASSUME NEW n \in 1 .. Len(p)
      PROVE  n \in 0 .. Len(p)
    BY <1>0
<1>3. ASSUME NEW q \in Prefixes(p)
      PROVE  q \in Path /\ IsAbove(q, p)
    <2>1. PICK n \in 1 .. Len(p) : q = SubSeq(p, 1, n)
        BY Zenon DEF Prefixes
    <2> QED BY <1>2, <2>1, PrefixOf, PrefixAbove, Zenon
<1>4. ASSUME p # <<>> PROVE p \in Prefixes(p)
    <2>1. Len(p) \in 1 .. Len(p)
        BY <1>4, EmptySeq DEF Path
    <2>2. SubSeq(p, 1, Len(p)) = p
        BY <1>2, <2>1, PrefixAbove, Zenon
    <2> QED BY <2>1, <2>2, Zenon DEF Prefixes
<1>5. ASSUME NEW q \in Prefixes(p), NEW n \in 1 .. Len(q)
      PROVE  SubSeq(q, 1, n) \in Prefixes(p)
    <2>1. PICK m \in 1 .. Len(p) : q = SubSeq(p, 1, m)
        BY Zenon DEF Prefixes
    <2>2. Len(q) = m
        BY <1>2, <2>1, PrefixOf, Zenon
    <2>3. n \in 0 .. m /\ n \in 1 .. Len(p)
        BY <1>0, <2>2
    <2>4. SubSeq(q, 1, n) = SubSeq(p, 1, n)
        BY <1>2, <2>1, <2>3, PrefixAbove, Zenon
    <2> QED BY <2>3, <2>4, Zenon DEF Prefixes
<1>6. ASSUME NEW q \in Path, IsAbove(q, p), q # <<>>
      PROVE  q \in Prefixes(p)
    <2>1. Len(q) \in 0 .. Len(p) /\ q = SubSeq(p, 1, Len(q))
        BY <1>6, AboveOrder, Zenon
    <2>2. Len(q) # 0
        BY <1>6, EmptySeq DEF Path
    <2>3. Len(q) \in 1 .. Len(p)
        BY <1>0, <2>1, <2>2
    <2> QED BY <2>1, <2>3, Zenon DEF Prefixes
<1> QED BY <1>1, <1>3, <1>4, <1>5, <1>6, Zenon

\* What is above a path of the tree is in the tree.
LEMMA TreeIsClosed ==
    ASSUME NEW t, IsTree(t), NEW q \in DOMAIN t, NEW p \in Path, IsAbove(p, q)
    PROVE  p \in DOMAIN t
<1>1. q \in Path
    BY Zenon DEF IsTree, Path
<1>2. Len(p) \in 0 .. Len(q) /\ p = SubSeq(q, 1, Len(p))
    BY <1>1, AboveOrder, Zenon
<1>3. SubSeq(q, 1, Len(p)) \in DOMAIN t
    BY <1>2, Zenon DEF IsTree
<1> QED BY <1>2, <1>3, Zenon

\* The entries that Insert makes on its way.
Stops(t, p) == {SubSeq(p, 1, n) : n \in {m \in 1 .. Len(p) :
                   \A i \in 1 .. m - 1 : NodeAt(t, SubSeq(p, 1, i)).kind # "file"}}

\* The walk of Insert adds those and leaves the rest as it is.
LEMMA WalkedAdds ==
    ASSUME NEW t, NEW p
    PROVE  Walked(t, p) = [q \in DOMAIN t \cup Stops(t, p) |->
                             IF q \in DOMAIN t THEN t[q] ELSE NoneNode]
BY Zenon DEF Walked, Over, Stops

\* When Insert will refuse, and when it finds a node in place, it has made none.
LEMMA WalkedSame ==
    ASSUME NEW t, IsTree(t), NEW p \in Path, p \in DOMAIN t \/ FileAbove(t, p) \/ Below(t, p) # {}
    PROVE  Walked(t, p) = t
<1>0. Len(p) \in Nat
    BY DEF Path
<1>1. ASSUME NEW m \in 1 .. Len(p), \A i \in 1 .. m - 1 : NodeAt(t, SubSeq(p, 1, i)).kind # "file"
      PROVE  SubSeq(p, 1, m) \in DOMAIN t
    <2>0. m \in 0 .. Len(p)
        BY <1>0
    <2>1. SubSeq(p, 1, m) \in Path /\ IsAbove(SubSeq(p, 1, m), p)
        BY <2>0, PrefixOf, PrefixAbove, Zenon
    <2>2. CASE p \in DOMAIN t
        BY <2>1, <2>2, TreeIsClosed, Zenon
    <2>3. CASE FileAbove(t, p)
        <3>1. PICK n \in 1 .. Len(p) - 1 : NodeAt(t, SubSeq(p, 1, n)).kind = "file"
            BY <2>3, Zenon DEF FileAbove
        <3>2. ~(n \in 1 .. m - 1)
            BY <1>1, <3>1, Zenon
        <3>3. m \in 0 .. n /\ n \in 0 .. Len(p)
            BY <1>0, <3>2
        <3>4. "none" # "file" /\ NoneNode.kind = "none"
            BY DEF NoneNode
        <3>5. SubSeq(p, 1, n) \in DOMAIN t
            BY <3>1, <3>4, Zenon DEF NodeAt
        <3>6. Len(SubSeq(p, 1, n)) = n /\ SubSeq(SubSeq(p, 1, n), 1, m) = SubSeq(p, 1, m)
            BY <3>3, PrefixOf, PrefixAbove, Zenon
        <3>7. SubSeq(SubSeq(p, 1, n), 1, m) \in DOMAIN t
            BY <3>3, <3>5, <3>6, Zenon DEF IsTree
        <3> QED BY <3>6, <3>7, Zenon
    <2>4. CASE Below(t, p) # {}
        <3>1. PICK q \in DOMAIN t : IsAbove(p, q)
            BY <2>4, Zenon DEF Below
        <3>2. p \in DOMAIN t
            BY <3>1, TreeIsClosed, Zenon
        <3> QED BY <2>1, <3>2, TreeIsClosed, Zenon
    <2> QED BY <2>2, <2>3, <2>4, Zenon
<1>2. Stops(t, p) \subseteq DOMAIN t
    BY <1>1, Zenon DEF Stops
<1>3. DOMAIN t \cup Stops(t, p) = DOMAIN t
    BY <1>2, Zenon
<1>4. Walked(t, p) = [q \in DOMAIN t |-> IF q \in DOMAIN t THEN t[q] ELSE NoneNode]
    BY <1>3, WalkedAdds, Zenon
<1>5. [q \in DOMAIN t |-> IF q \in DOMAIN t THEN t[q] ELSE NoneNode] = [q \in DOMAIN t |-> t[q]]
    BY Zenon
<1> QED BY <1>4, <1>5, Zenon DEF IsTree

\* What Insert may put into a tree.
Mountable(node) ==
    /\ node.kind \in {"file", "dir", "tmpfs"}
    /\ node.kind \in {"file", "dir"} => node.outside \in Outside

\* A node put where there was none, with the entries on the way to it.
LEMMA PutKeeps ==
    ASSUME NEW t, TreeOK(t), NEW p \in Path, p # <<>>, NEW node, Mountable(node),
           ~FileAbove(t, p), NodeAt(t, p).kind = "none", ~FileOverDirectory(t, p, node)
    PROVE  TreeOK(Put(Walked(t, p), p, node))
<1> DEFINE r == Put(Walked(t, p), p, node)
<1>0. Len(p) \in Nat /\ DOMAIN t \subseteq Path
    BY DEF Path, TreeOK, IsTree
<1>1. Stops(t, p) = Prefixes(p)
    <2>1. ASSUME NEW m \in 1 .. Len(p), NEW i \in 1 .. m - 1
          PROVE  NodeAt(t, SubSeq(p, 1, i)).kind # "file"
        <3>1. i \in 1 .. Len(p) - 1
            BY <1>0
        <3> QED BY <3>1, Zenon DEF FileAbove
    <2> QED BY <2>1, Zenon DEF Stops, Prefixes
<1>2. p \in Prefixes(p) /\ Prefixes(p) \subseteq Path /\ \A q \in Prefixes(p) : IsAbove(q, p)
    BY PrefixesOf, Zenon
<1>3. Walked(t, p) = [q \in DOMAIN t \cup Prefixes(p) |-> IF q \in DOMAIN t THEN t[q] ELSE NoneNode]
    BY <1>1, WalkedAdds, Zenon
<1>4. DOMAIN Walked(t, p) = DOMAIN t \cup Prefixes(p)
    BY <1>3, Zenon
<1>5. DOMAIN r = DOMAIN t \cup Prefixes(p) /\ r = [q \in DOMAIN r |-> r[q]]
    BY <1>2, <1>4, Zenon DEF Put
<1>6. /\ r[p] = node
      /\ \A q \in DOMAIN t : q # p => r[q] = t[q]
      /\ \A q \in Prefixes(p) : q \notin DOMAIN t /\ q # p => r[q] = NoneNode
    BY <1>2, <1>3, <1>4, Zenon DEF Put
<1> HIDE DEF r
<1>7. NoneNode.kind = "none"
    BY Zenon DEF NoneNode
<1>8. IsTree(r)
    <2>1. IsFiniteSet(DOMAIN r)
        <3>1. IsFiniteSet(DOMAIN t) /\ IsFiniteSet(Prefixes(p))
            BY PrefixesOf, Zenon DEF TreeOK, IsTree
        <3>2. IsFiniteSet(DOMAIN t \cup Prefixes(p))
            BY <3>1, FS_Union, Zenon
        <3> QED BY <1>5, <3>2
    <2>2. ASSUME NEW q \in DOMAIN r, NEW n \in 0 .. Len(q)
          PROVE  SubSeq(q, 1, n) \in DOMAIN r
        <3>1. CASE q \in DOMAIN t
            BY <1>5, <3>1, Zenon DEF TreeOK, IsTree
        <3>2. CASE q \in Prefixes(p) /\ n = 0
            <4>1. SubSeq(q, 1, 0) = <<>>
                BY <1>2, <3>2, SubSeqEmpty DEF Path
            <4> QED BY <1>5, <3>2, <4>1, Zenon DEF TreeOK, IsTree
        <3>3. CASE q \in Prefixes(p) /\ n # 0
            <4>1. Len(q) \in Nat
                BY <1>2, <3>3 DEF Path
            <4>2. n \in 1 .. Len(q)
                BY <3>3, <4>1
            <4> QED BY <1>5, <3>3, <4>2, PrefixesOf, Zenon
        <3> QED BY <1>5, <3>1, <3>2, <3>3, Zenon
    <2>3. <<>> \in DOMAIN r /\ r[<<>>].kind = "root"
        <3>1. <<>> \in DOMAIN t /\ t[<<>>].kind = "root"
            BY Zenon DEF TreeOK, IsTree
        <3> QED BY <1>5, <1>6, <3>1
    <2>4. DOMAIN r \subseteq Seq(STRING)
        BY <1>0, <1>2, <1>5, Zenon DEF Path
    <2> QED BY <1>5, <2>1, <2>2, <2>3, <2>4, Zenon DEF IsTree
<1>9. Sourced(r)
    <2> SUFFICES ASSUME NEW q \in DOMAIN r, r[q].kind \in {"file", "dir"}
                 PROVE  r[q].outside \in Outside
        BY Zenon DEF Sourced
    <2>1. CASE q = p
        BY <1>6, <2>1, Zenon DEF Mountable
    <2>2. CASE q # p
        <3>1. q \in DOMAIN t /\ r[q] = t[q]
            BY <1>5, <1>6, <1>7, <2>2
        <3> QED BY <3>1, Zenon DEF TreeOK, Sourced
    <2> QED BY <2>1, <2>2, Zenon
<1>10. Leaves(r)
    <2> SUFFICES ASSUME NEW q \in DOMAIN r, r[q].kind = "file",
                        NEW x \in DOMAIN r, x # q, IsAbove(q, x)
                 PROVE  FALSE
        BY Zenon DEF Leaves, Below
    <2>0. q \in Path /\ x \in Path
        BY <1>0, <1>2, <1>5, Zenon
    <2>1. CASE q = p
        <3>1. ~IsAbove(x, p)
            BY <2>0, <2>1, AboveOrder, Zenon
        <3>2. x \in DOMAIN t
            BY <1>2, <1>5, <3>1, Zenon
        <3> QED BY <1>6, <2>1, <3>2, Zenon DEF FileOverDirectory, Below
    <2>2. CASE q # p
        <3>1. q \in DOMAIN t /\ t[q].kind = "file"
            BY <1>5, <1>6, <1>7, <2>2
        <3>2. x \notin DOMAIN t
            BY <3>1, Zenon DEF TreeOK, Leaves, Below
        <3>3. IsAbove(q, p)
            BY <1>2, <1>5, <2>0, <3>2, AboveOrder, Zenon
        <3>4. q # <<>>
            BY <3>1 DEF TreeOK, IsTree
        <3>5. Len(q) \in 0 .. Len(p) /\ q = SubSeq(p, 1, Len(q))
            BY <2>0, <3>3, AboveOrder, ZenonT(30)
        <3>6. Len(q) # Len(p)
            <4>1. Len(p) \in 0 .. Len(p)
                BY <1>0
            <4>2. SubSeq(p, 1, Len(p)) = p
                BY <4>1, PrefixAbove, Zenon
            <4> QED BY <2>2, <3>5, <4>2, Zenon
        <3>7. Len(q) # 0
            BY <2>0, <3>4, EmptySeq DEF Path
        <3>8. Len(q) \in 1 .. Len(p) - 1
            BY <1>0, <3>5, <3>6, <3>7
        <3>9. NodeAt(t, SubSeq(p, 1, Len(q))).kind = "file"
            BY <3>1, <3>5, Zenon DEF NodeAt
        <3> QED BY <3>8, <3>9, Zenon DEF FileAbove
    <2> QED BY <2>1, <2>2, Zenon
<1> QED BY <1>8, <1>9, <1>10, Zenon DEF TreeOK, r

\* Insert keeps the tree a tree with files for leaves, and a call that is
\* refused leaves it as it was.
LEMMA InsertKeeps ==
    ASSUME NEW t, TreeOK(t), NEW path \in InsidePaths, NEW node, NoSource(node) \/ Mountable(node)
    PROVE  LET r == Insert(t, path, node) IN TreeOK(r.tree) /\ (~r.ok => r.tree = t)
<1> DEFINE r == Insert(t, path, node)
           clean == CleanPath(path)
           p == NonEmpty(clean)
           w == Walked(t, p)
           Kept(x) == TreeOK(x.tree) /\ (~x.ok => x.tree = t)
<1> SUFFICES Kept(r)
    BY Zenon
<1> HIDE DEF r
<1>1. Kept(Refused(t))
    BY Zenon DEF Refused
<1>2. CASE PathContainsNullByte(path) \/ NoSource(node)
    <2>1. r = Refused(t)
        BY <1>2, Zenon DEF Insert, r
    <2> QED BY <1>1, <2>1
<1>3. CASE ~(PathContainsNullByte(path) \/ NoSource(node)) /\ (~IsAbsolutePath(clean) \/ clean = Root)
    <2>1. r = Refused(t)
        BY <1>3, Zenon DEF Insert, InsertClean, r
    <2> QED BY <1>1, <2>1
<1>4. CASE ~(PathContainsNullByte(path) \/ NoSource(node)) /\ ~(~IsAbsolutePath(clean) \/ clean = Root)
    <2>1. r = InsertWalked(t, w, p, node)
        BY <1>4, Zenon DEF Insert, InsertClean, r
    <2>2. p \in Path /\ p # <<>>
        BY <1>4, MountAssumption, Zenon DEF Path
    <2>3. Mountable(node)
        BY <1>4, Zenon
    <2> HIDE DEF p
    <2>4. CASE FileAbove(t, p)
        <3>1. r = Refused(w)
            BY <2>1, <2>4, Zenon DEF InsertWalked
        <3>2. w = t
            BY <2>2, <2>4, WalkedSame, Zenon DEF TreeOK
        <3> QED BY <1>1, <3>1, <3>2
    <2>5. CASE ~FileAbove(t, p) /\ w[p].kind # "none"
        <3>1. r = [ok |-> IsEquivalentNode(w[p], node), tree |-> w]
            BY <2>1, <2>5, Zenon DEF InsertWalked
        <3>2. p \in DOMAIN t
            <4> SUFFICES ASSUME p \notin DOMAIN t PROVE FALSE
                BY Zenon
            <4>1. Stops(t, p) = Prefixes(p)
                <5>1. Len(p) \in Nat
                    BY <2>2 DEF Path
                <5>2. ASSUME NEW m \in 1 .. Len(p), NEW i \in 1 .. m - 1
                      PROVE  NodeAt(t, SubSeq(p, 1, i)).kind # "file"
                    <6>1. i \in 1 .. Len(p) - 1
                        BY <5>1
                    <6> QED BY <2>5, <6>1, Zenon DEF FileAbove
                <5> QED BY <5>2, Zenon DEF Stops, Prefixes
            <4>2. p \in Stops(t, p)
                BY <2>2, <4>1, PrefixesOf, Zenon
            <4>3. w[p] = NoneNode
                BY <4>2, WalkedAdds, Zenon
            <4> HIDE DEF w
            <4> QED BY <2>5, <4>3 DEF NoneNode
        <3>3. w = t
            BY <2>2, <3>2, WalkedSame, Zenon DEF TreeOK
        <3> HIDE DEF w
        <3> QED BY <3>1, <3>3
    <2>6. CASE ~FileAbove(t, p) /\ w[p].kind = "none" /\ FileOverDirectory(t, p, node)
        <3>1. r = Refused(w)
            BY <2>1, <2>6, Zenon DEF InsertWalked
        <3>2. w = t
            BY <2>2, <2>6, WalkedSame, Zenon DEF TreeOK, FileOverDirectory
        <3> QED BY <1>1, <3>1, <3>2
    <2>7. CASE ~FileAbove(t, p) /\ w[p].kind = "none" /\ ~FileOverDirectory(t, p, node)
        <3>1. r = [ok |-> TRUE, tree |-> Put(w, p, node)]
            BY <2>1, <2>7, Zenon DEF InsertWalked
        <3>2. p \in DOMAIN t => w[p] = t[p]
            BY WalkedAdds, Zenon
        <3>3. NodeAt(t, p).kind = "none"
            BY <2>7, <3>2, Zenon DEF NodeAt, NoneNode
        <3>4. TreeOK(Put(w, p, node))
            BY <2>2, <2>3, <2>7, <3>3, PutKeeps, Zenon
        <3> HIDE DEF w
        <3> QED BY <3>1, <3>4
    <2> QED BY <2>4, <2>5, <2>6, <2>7, Zenon
<1> QED BY <1>2, <1>3, <1>4, Zenon

\* Remove takes what is below along, so the paths above what is left are left.
LEMMA RemoveKeeps ==
    ASSUME NEW t, TreeOK(t), NEW path \in InsidePaths
    PROVE  LET r == RemoveMount(t, path) IN TreeOK(r.tree) /\ (~r.ok => r.tree = t)
<1> DEFINE clean == CleanPath(path)
           p == NonEmpty(clean)
           x == RemoveMount(t, path)
           r == Cleared(t, p)
           kept == DOMAIN t \ Below(t, p)
<1> SUFFICES TreeOK(x.tree) /\ (~x.ok => x.tree = t)
    BY Zenon
<1> HIDE DEF x
<1>1. CASE x = [ok |-> FALSE, tree |-> t]
    BY <1>1
<1>2. CASE x # [ok |-> FALSE, tree |-> t]
    <2>1. /\ IsAbsolutePath(clean) /\ clean # Root /\ p \in DOMAIN t
          /\ x = [ok |-> TRUE, tree |-> r]
        BY <1>2, Zenon DEF RemoveMount, x
    <2>2. p \in Path /\ p # <<>> /\ DOMAIN t \subseteq Path
        BY <2>1, MountAssumption, Zenon DEF Path, TreeOK, IsTree
    <2> HIDE DEF p
    <2>3. p \in kept
        BY <2>1, Zenon DEF Below
    <2>4. DOMAIN r = kept \cup {p} /\ r = [q \in DOMAIN r |-> r[q]] /\ r[p] = NoneNode
          /\ \A q \in kept : q # p => r[q] = t[q]
        BY <2>3, Zenon DEF Cleared, Put, Restrict
    <2>5. DOMAIN r = kept
        BY <2>3, <2>4, Zenon
    <2>6. NoneNode.kind = "none"
        BY Zenon DEF NoneNode
    <2> HIDE DEF r
    <2>7. IsTree(r)
        <3>1. IsFiniteSet(DOMAIN r)
            BY <2>5, FS_Subset, Zenon DEF TreeOK, IsTree
        <3>2. ASSUME NEW q \in DOMAIN r, NEW n \in 0 .. Len(q)
              PROVE  SubSeq(q, 1, n) \in DOMAIN r
            <4>1. q \in DOMAIN t /\ q \in Path /\ q \notin Below(t, p)
                BY <2>2, <2>5, Zenon
            <4>2. SubSeq(q, 1, n) \in DOMAIN t
                BY <4>1, Zenon DEF TreeOK, IsTree
            <4>3. SubSeq(q, 1, n) \in Path /\ IsAbove(SubSeq(q, 1, n), q)
                BY <4>1, PrefixOf, PrefixAbove, Zenon
            <4>4. SubSeq(q, 1, n) \notin Below(t, p)
                <5> SUFFICES ASSUME SubSeq(q, 1, n) # p, IsAbove(p, SubSeq(q, 1, n)) PROVE FALSE
                    BY Zenon DEF Below
                <5>1. IsAbove(p, q)
                    <6> DEFINE y == SubSeq(q, 1, n)
                    <6> HIDE DEF y
                    <6>1. y \in Path /\ IsAbove(y, q) /\ IsAbove(p, y)
                        BY <4>3, Zenon DEF y
                    <6> QED BY <2>2, <4>1, <6>1, AboveOrder, Zenon
                <5>2. q = p
                    BY <4>1, <5>1, Zenon DEF Below
                <5>3. IsAbove(SubSeq(q, 1, n), p)
                    BY <4>3, <5>2
                <5> QED BY <2>2, <4>3, <5>3, AboveOrder, Zenon
            <4> QED BY <2>5, <4>2, <4>4, Zenon
        <3>3. <<>> \in DOMAIN t /\ t[<<>>].kind = "root"
            BY Zenon DEF TreeOK, IsTree
        <3>4. <<>> \notin Below(t, p)
            <4> SUFFICES ASSUME IsAbove(p, <<>>) PROVE FALSE
                BY Zenon DEF Below
            <4>1. Len(p) <= 0
                BY DEF IsAbove
            <4> QED BY <2>2, <4>1, EmptySeq DEF Path
        <3>5. <<>> \in DOMAIN r /\ r[<<>>].kind = "root"
            BY <2>2, <2>4, <2>5, <3>3, <3>4
        <3>6. DOMAIN r \subseteq Seq(STRING)
            BY <2>2, <2>5, Zenon DEF Path
        <3> QED BY <2>4, <3>1, <3>2, <3>5, <3>6, Zenon DEF IsTree
    <2>8. ASSUME NEW q \in DOMAIN r, r[q].kind # "none"
          PROVE  q \in DOMAIN t /\ r[q] = t[q]
        BY <2>4, <2>5, <2>6, <2>8
    <2>9. Sourced(r)
        BY <2>6, <2>8, Zenon DEF TreeOK, Sourced
    <2>10. Leaves(r)
        <3> SUFFICES ASSUME NEW q \in DOMAIN r, r[q].kind = "file",
                            NEW y \in DOMAIN r, y # q, IsAbove(q, y)
                     PROVE  FALSE
            BY Zenon DEF Leaves, Below
        <3>1. q \in DOMAIN t /\ t[q].kind = "file" /\ y \in DOMAIN t
            BY <2>5, <2>8, Zenon
        <3> QED BY <3>1, Zenon DEF TreeOK, Leaves, Below
    <2>11. TreeOK(r)
        BY <2>7, <2>9, <2>10, Zenon DEF TreeOK
    <2> QED BY <2>1, <2>11
<1> QED BY <1>1, <1>2, Zenon
-----------------------------------------------------------------------------
(* The calls that change the tree.                                         *)

\* A call keeps the invariant if it leaves a tree: nothing is mounted yet.
LEMMA CallKeeps ==
    ASSUME MountInv, NEW result, MountCall(result), TreeOK(result.tree)
    PROVE  MountInv'
<1>1. /\ mtree' = result.tree /\ mphase' = "build" /\ todo' = <<>>
      /\ view' = [p \in {<<>>} |-> Shown("dir", Empty, TRUE)] 
    BY Zenon DEF MountCall, MountInv
<1>2. TreeOK(mtree)'
    BY <1>1, Zenon DEF TreeOK, IsTree, Sourced, Leaves, Below
<1>3. todo' \in Seq(Todo')
    BY <1>1, EmptySeq
<1>4. AllAsked(view)'
    <2>1. DOMAIN view' = {<<>>} /\ view'[<<>>] = Shown("dir", Empty, TRUE)
        BY <1>1, Zenon
    <2>2. DOMAIN Shown("dir", Empty, TRUE) = {"kind", "host", "rw"} /\ Shown("dir", Empty, TRUE).host = Empty
        BY DEF Shown
    <2>3. \A p \in DOMAIN view' : p = <<>>
        BY <2>1, Zenon
    <2> QED BY <2>1, <2>2, <2>3, Zenon DEF AllAsked, Asked
<1> QED BY <1>1, <1>2, <1>3, <1>4, Zenon DEF MountInv

\* The nodes of the three methods that add a mount.
LEMMA NodesAre ==
    ASSUME NEW o, NEW ro
    PROVE  /\ o \in Outside => Mountable(FileNode(o, ro)) /\ Mountable(DirNode(o, ro))
           /\ o \in {Empty, <<NulName>>} => NoSource(FileNode(o, ro))
           /\ Mountable(TmpfsNode)
<1>1. FileNode(o, ro).kind = "file" /\ FileNode(o, ro).outside = o
    BY DEF FileNode
<1>2. DirNode(o, ro).kind = "dir" /\ DirNode(o, ro).outside = o
    BY DEF DirNode
<1>3. TmpfsNode.kind = "tmpfs"
    BY DEF TmpfsNode
<1>4. DOMAIN <<NulName>> = 1 .. 1 /\ <<NulName>>[1] = NulName /\ 1 \in 1 .. 1
    OBVIOUS
<1>5. NulName \in Range(<<NulName>>)
    BY <1>4, Zenon DEF Range
<1>6. o \in {Empty, <<NulName>>} => NoSource(FileNode(o, ro))
    BY <1>1, <1>5, Zenon DEF NoSource, PathContainsNullByte
<1>7. o \in Outside => Mountable(FileNode(o, ro)) /\ Mountable(DirNode(o, ro))
    BY <1>1, <1>2, Zenon DEF Mountable
<1>8. Mountable(TmpfsNode)
    BY <1>3 DEF Mountable
<1> QED BY <1>6, <1>7, <1>8, Zenon

\* Every call on the tree: what it leaves is a tree, the same if it refuses.
LEMMA CallsAre ==
    ASSUME MountInv, MountFile \/ MountDirectory \/ MountTmpfs \/ Unmount \/ MakeRootWritable
    PROVE  \E result : /\ MountCall(result) /\ TreeOK(result.tree)
                       /\ ~result.ok => result.tree = mtree
<1>0. TreeOK(mtree)
    BY Zenon DEF MountInv
<1>1. CASE MountFile
    <2>1. PICK o \in Outside \cup {Empty, <<NulName>>}, i \in InsidePaths, ro \in BOOLEAN :
             MountCall(Insert(mtree, i, FileNode(o, ro)))
        BY <1>1, Zenon DEF MountFile, MountsAddFileAt
    <2>2. NoSource(FileNode(o, ro)) \/ Mountable(FileNode(o, ro))
        BY NodesAre, Zenon
    <2> QED BY <1>0, <2>1, <2>2, InsertKeeps, Zenon
<1>2. CASE MountDirectory
    <2>1. PICK o \in Outside, i \in InsidePaths, ro \in BOOLEAN :
             MountCall(Insert(mtree, i, DirNode(o, ro)))
        BY <1>2, Zenon DEF MountDirectory, MountsAddDirectoryAt
    <2>2. Mountable(DirNode(o, ro))
        BY NodesAre, Zenon
    <2> QED BY <1>0, <2>1, <2>2, InsertKeeps, Zenon
<1>3. CASE MountTmpfs
    <2>1. PICK i \in InsidePaths : MountCall(Insert(mtree, i, TmpfsNode))
        BY <1>3, Zenon DEF MountTmpfs, MountsAddTmpfs
    <2>2. Mountable(TmpfsNode)
        BY NodesAre, Zenon
    <2> QED BY <1>0, <2>1, <2>2, InsertKeeps, Zenon
<1>4. CASE Unmount
    <2>1. PICK i \in InsidePaths : MountCall(RemoveMount(mtree, i))
        BY <1>4, Zenon DEF Unmount
    <2> QED BY <1>0, <2>1, RemoveKeeps, Zenon
<1>5. CASE MakeRootWritable
    <2> DEFINE t == MountsSetRootWritable(mtree)
    <2>1. MountCall([ok |-> TRUE, tree |-> t])
        BY <1>5, Zenon DEF MakeRootWritable
    <2>2. RootNode(TRUE).kind = "root"
        BY DEF RootNode
    <2>3. /\ DOMAIN t = DOMAIN mtree /\ t = [q \in DOMAIN t |-> t[q]]
          /\ t[<<>>] = RootNode(TRUE) /\ \A q \in DOMAIN mtree : q # <<>> => t[q] = mtree[q]
        BY <1>0, Zenon DEF MountsSetRootWritable, TreeOK, IsTree
    <2> HIDE DEF t
    <2>4. IsTree(t)
        BY <1>0, <2>2, <2>3, Zenon DEF TreeOK, IsTree
    <2>5. ASSUME NEW q \in DOMAIN t, t[q].kind \in {"file", "dir"}
          PROVE  t[q] = mtree[q]
        BY <2>2, <2>3, <2>5, Zenon
    <2>6. Sourced(t) /\ Leaves(t)
        BY <1>0, <2>3, <2>5, Zenon DEF TreeOK, Sourced, Leaves, Below
    <2>7. TreeOK(t)
        BY <2>4, <2>6, Zenon DEF TreeOK
    <2> DEFINE result == [ok |-> TRUE, tree |-> t]
    <2>8. result.ok /\ result.tree = t
        BY Zenon
    <2> QED BY <2>1, <2>7, <2>8, Zenon
<1> QED BY <1>1, <1>2, <1>3, <1>4, <1>5, Zenon
-----------------------------------------------------------------------------
(* The walk that mounts.                                                   *)

\* One more path in a view, and one view over another.
LEMMA AskedPut ==
    ASSUME NEW v, NEW p, NEW shown, AllAsked(v), Asked(p, shown)
    PROVE  AllAsked(Put(v, p, shown))
<1> SUFFICES ASSUME NEW q \in DOMAIN v \cup {p}
             PROVE  Asked(q, Put(v, p, shown)[q])
    BY Zenon DEF AllAsked, Put
<1>1. Put(v, p, shown)[q] = IF q = p THEN shown ELSE v[q]
    BY Zenon DEF Put
<1>2. CASE q = p
    BY <1>1, <1>2
<1>3. CASE q # p
    BY <1>1, <1>3, Zenon DEF AllAsked
<1> QED BY <1>2, <1>3, Zenon

\* The same for the contents of a directory over what was there.
LEMMA AskedOver ==
    ASSUME NEW v, NEW w, AllAsked(v), AllAsked(w)
    PROVE  AllAsked(Over(v, w))
BY Zenon DEF AllAsked, Over

\* What a mount hides, and what was there before, was asked for.
LEMMA AskedHidden ==
    ASSUME NEW v, NEW p, AllAsked(v)
    PROVE  AllAsked(Hidden(v, p))
BY Zenon DEF AllAsked, Hidden

\* Nothing of the host is shown by what the sandbox creates.
LEMMA AskedOwn ==
    ASSUME NEW p, NEW kind, NEW rw
    PROVE  Asked(p, Shown(kind, Empty, rw))
BY DEF Asked, Shown

\* The steps of the walk leave the tree alone.
LEMMA SameTree ==
    ASSUME TreeOK(mtree), mtree' = mtree
    PROVE  /\ TreeOK(mtree)' /\ Todo' = Todo
           /\ AllAsked(view) /\ view' = view => AllAsked(view)'
<1>1. TreeOK(mtree)'
    BY Zenon DEF TreeOK, IsTree, Sourced, Leaves, Below
<1>2. Todo' = Todo
    BY Zenon DEF Todo
<1>3. AllAsked(view) /\ view' = view => AllAsked(view)'
    BY Zenon DEF AllAsked, Asked, AskedFor
<1> QED BY <1>1, <1>2, <1>3, Zenon

\* A node is mounted with the access that was asked for it, and so is all that
\* a directory holds, except what the host has mounted in it.
LEMMA MountedAsAsked ==
    ASSUME TreeOK(mtree), NEW p \in DOMAIN mtree, NEW v, AllAsked(v)
    PROVE  AllAsked(Mounted(v, p, mtree[p]))
<1> DEFINE node == mtree[p]
<1>0. p \in Path
    BY Zenon DEF TreeOK, IsTree, Path
<1>1. AllAsked(Hidden(v, p))
    BY AskedHidden, Zenon
<1>2. CASE node.kind = "tmpfs"
    <2>1. Mounted(v, p, node) = Put(Hidden(v, p), p, Shown("dir", Empty, TRUE))
        BY <1>2 DEF Mounted
    <2>2. AllAsked(Put(Hidden(v, p), p, Shown("dir", Empty, TRUE)))
        BY <1>1, AskedOwn, AskedPut, Zenon
    <2> QED BY <2>1, <2>2, Zenon
<1>3. CASE node.kind \in {"file", "dir"}
    <2> DEFINE below == HostBelow[node.outside]
               shown == Bound(node, HostKind[node.outside], <<>>)
               Holds(q) == Bound(node, below[Rest(p, q)], Rest(p, q))
               contents == [q \in {p \o r : r \in DOMAIN below} |-> Holds(q)]
    <2>1. \A q \in Path : \A kind : IsAbove(p, q) => Asked(q, Bound(node, kind, Rest(p, q)))
        <3> SUFFICES ASSUME NEW q \in Path, NEW kind, IsAbove(p, q)
                     PROVE  Asked(q, Bound(node, kind, Rest(p, q)))
            BY Zenon
        <3> DEFINE b == Bound(node, kind, Rest(p, q))
        <3>1. /\ DOMAIN b = {"kind", "host", "rw"}
              /\ b.host = HostPath(node.outside, Rest(p, q))
              /\ b.rw = BoundWritable(node, Rest(p, q))
            BY DEF Bound, Shown
        <3> HIDE DEF b
        <3>2. b.rw => AskedFor(p, q, b.host)
            BY <1>3, <3>1, Zenon DEF AskedFor, BoundWritable, RemountedWritable
        <3>3. Asked(q, b)
            BY <3>1, <3>2, Zenon DEF Asked
        <3> QED BY <3>3, Zenon DEF b
    <2>2. Asked(p, shown)
        <3>1. Rest(p, p) = <<>>
            BY <1>0 DEF Rest, Path
        <3> QED BY <1>0, <2>1, <3>1, AboveOrder, Zenon
    <2>3. AllAsked(contents)
        <3>1. DOMAIN below \subseteq Path
            BY <1>3, MountAssumption, Zenon DEF TreeOK, Sourced, Path
        <3> HIDE DEF below
        <3>2. ASSUME NEW r \in DOMAIN below
              PROVE  Asked(p \o r, Holds(p \o r))
            <4>1. p \o r \in Path /\ IsAbove(p, p \o r)
                BY <1>0, <3>1, JoinedBelow, Zenon
            <4> QED BY <2>1, <4>1, Zenon
        <3> HIDE DEF Holds
        <3> QED BY <3>2, Zenon DEF AllAsked
    <2>4. Mounted(v, p, node) = Put(Over(contents, Hidden(v, p)), p, shown)
        BY <1>3 DEF Mounted
    <2> HIDE DEF contents, shown
    <2>5. AllAsked(Put(Over(contents, Hidden(v, p)), p, shown))
        BY <1>1, <2>2, <2>3, AskedOver, AskedPut, Zenon
    <2> QED BY <2>4, <2>5
<1>4. CASE node.kind \notin {"file", "dir", "tmpfs"}
    <2>1. Mounted(v, p, node) = v
        BY <1>4, Zenon DEF Mounted
    <2> QED BY <2>1
<1> QED BY <1>2, <1>3, <1>4, Zenon

\* A node is visited: its entries come next, before those of its neighbours.
LEMMA VisitKeeps ==
    ASSUME MountInv, VisitNode
    PROVE  MountInv'
<1> DEFINE p == Head(todo).path
           node == mtree[p]
           v == Backed(view, p, node, Head(todo).create)
           below == CreateBelow(node, Head(todo).create)
<1>1. Head(todo) \in Todo /\ Tail(todo) \in Seq(Todo)
    BY HeadTailProperties, Zenon DEF MountInv, VisitNode
<1>2. p \in DOMAIN mtree /\ Head(todo).create \in BOOLEAN
    BY <1>1, Zenon DEF Todo
<1>3. below \in BOOLEAN
    BY <1>2, Zenon DEF CreateBelow
<1>4. AllAsked(v)
    BY AskedOwn, AskedPut, Zenon DEF Backed, MountInv
<1>5. AllAsked(Mounted(v, p, node))
    BY <1>2, <1>4, MountedAsAsked, Zenon DEF MountInv
<1>6. mtree' = mtree /\ mphase = "walk" /\ mphase' \in {"walk", "fatal"}
    BY Zenon DEF VisitNode
<1>7. view' = v \/ view' = Mounted(v, p, node)
    BY Zenon DEF VisitNode
<1>8. todo' \in Seq(Todo)
    <2>1. CASE UNCHANGED todo
        BY <2>1, Zenon DEF MountInv
    <2>2. CASE \E order \in Orders(Entries(mtree, p)) :
                  todo' = NextTodo(Tail(todo), [i \in 1 .. Len(order) |->
                                                 [path |-> order[i], create |-> below]])
        <3>1. PICK order \in Orders(Entries(mtree, p)) :
                  todo' = NextTodo(Tail(todo), [i \in 1 .. Len(order) |->
                                                 [path |-> order[i], create |-> below]])
            BY <2>2, Zenon
        <3> DEFINE entries == Entries(mtree, p)
                   n == Cardinality(entries)
                   new == [i \in 1 .. Len(order) |-> [path |-> order[i], create |-> below]]
        <3>2. entries \subseteq DOMAIN mtree
            BY Zenon DEF Entries
        <3>3. n \in Nat
            BY <3>2, FS_Subset, FS_CardinalityType, Zenon DEF MountInv, TreeOK, IsTree
        <3>4. order \in [1 .. n -> entries]
            BY Zenon DEF Orders, Bijection, Injection
        <3> HIDE DEF n, entries
        <3>5. order \in Seq(entries) /\ Len(order) = n
            BY <3>3, <3>4
        <3>6. ASSUME NEW i \in 1 .. Len(order)
              PROVE  [path |-> order[i], create |-> below] \in Todo
            <4>1. order[i] \in DOMAIN mtree
                BY <3>2, <3>4, <3>5, Zenon
            <4> HIDE DEF below
            <4> QED BY <1>3, <4>1, Zenon DEF Todo
        <3>7. new \in [1 .. Len(order) -> Todo]
            BY <3>6, Zenon
        <3>8. new \in Seq(Todo)
            BY <3>3, <3>5, <3>7
        <3> HIDE DEF new
        <3>9. new \o Tail(todo) \in Seq(Todo)
            BY <1>1, <3>8, ConcatProperties, Zenon
        <3> QED BY <3>1, <3>9, Zenon DEF NextTodo, new
    <2> QED BY <2>1, <2>2, Zenon DEF VisitNode
<1> HIDE DEF p, node, v, below
<1>9. AllAsked(view)'
    <2>1. AllAsked(view')
        BY <1>4, <1>5, <1>7
    <2> QED BY <1>6, <2>1, Zenon DEF AllAsked, Asked, AskedFor
<1>10. TreeOK(mtree)' /\ Todo' = Todo
    BY <1>6, SameTree, Zenon DEF MountInv
<1>11. todo' \in Seq(Todo')
    BY <1>8, <1>10
<1> QED BY <1>6, <1>9, <1>10, <1>11, Zenon DEF MountInv

\* The last remount only takes write access away.
LEMMA FinishKeeps ==
    ASSUME MountInv, FinishMounts
    PROVE  MountInv'
<1>1. mtree' = mtree /\ todo' = todo /\ mphase' = "done"
    BY Zenon DEF FinishMounts
<1>2. /\ DOMAIN view' = DOMAIN view
      /\ \A p \in DOMAIN view : view'[p] = view[p] \/ view'[p] = [view[p] EXCEPT !.rw = FALSE]
    BY Zenon DEF FinishMounts
<1>3. AllAsked(view)'
    <2> SUFFICES ASSUME NEW p \in DOMAIN view PROVE Asked(p, view'[p])
        BY <1>1, <1>2, Zenon DEF AllAsked, Asked, AskedFor
    <2>1. Asked(p, view[p])
        BY Zenon DEF MountInv, AllAsked
    <2>2. CASE view'[p] = view[p]
        BY <2>1, <2>2
    <2>3. CASE view'[p] = [view[p] EXCEPT !.rw = FALSE]
        <3>1. DOMAIN view'[p] = {"kind", "host", "rw"} /\ view'[p].rw = FALSE
            BY <2>1, <2>3, Zenon DEF Asked
        <3> QED BY <3>1, Zenon DEF Asked
    <2> QED BY <1>2, <2>2, <2>3, Zenon
<1>4. TreeOK(mtree)' /\ Todo' = Todo
    BY <1>1, SameTree, Zenon DEF MountInv
<1>5. todo' \in Seq(Todo')
    BY <1>1, <1>4 DEF MountInv
<1> QED BY <1>1, <1>3, <1>4, <1>5, Zenon DEF MountInv

\* Every step keeps the invariant.
LEMMA MountNextKeeps ==
    ASSUME MountInv, [MountNext]_mountVars
    PROVE  MountInv'
<1>1. CASE MountFile \/ MountDirectory \/ MountTmpfs \/ Unmount \/ MakeRootWritable
    <2>1. PICK result : /\ MountCall(result) /\ TreeOK(result.tree)
                        /\ ~result.ok => result.tree = mtree
        BY <1>1, CallsAre, Zenon
    <2> QED BY <2>1, CallKeeps, Zenon
<1>2. CASE StartCreateMounts
    <2>1. mtree' = mtree /\ view' = view /\ mphase' = "walk" /\ todo' = <<[path |-> <<>>, create |-> TRUE]>>
        BY <1>2, Zenon DEF StartCreateMounts
    <2>2. [path |-> <<>>, create |-> TRUE] \in Todo
        BY Zenon DEF Todo, MountInv, TreeOK, IsTree
    <2>3. todo' \in Seq(Todo)
        BY <2>1, <2>2
    <2>4. TreeOK(mtree)' /\ Todo' = Todo /\ AllAsked(view)'
        BY <2>1, SameTree, Zenon DEF MountInv
    <2>5. todo' \in Seq(Todo')
        BY <2>3, <2>4
    <2> QED BY <2>1, <2>4, <2>5, Zenon DEF MountInv
<1>3. CASE VisitNode
    BY <1>3, VisitKeeps, Zenon
<1>4. CASE FinishMounts
    BY <1>4, FinishKeeps, Zenon
<1>5. CASE UNCHANGED mountVars
    <2>1. mtree' = mtree /\ view' = view /\ mphase' = mphase /\ todo' = todo
        BY <1>5, Zenon DEF mountVars
    <2>2. TreeOK(mtree)' /\ Todo' = Todo /\ AllAsked(view)'
        BY <2>1, SameTree, Zenon DEF MountInv
    <2>3. todo' \in Seq(Todo')
        BY <2>1, <2>2, Zenon DEF MountInv
    <2> QED BY <2>1, <2>2, <2>3, Zenon DEF MountInv
<1> QED BY <1>1, <1>2, <1>3, <1>4, <1>5, Zenon DEF MountNext

\* Whatever is inserted and removed (mounts.cc: Insert, Remove), the tree stays
\* closed under prefixes with nothing below a file; and CreateMounts has only
\* nodes of the tree before it, and shows the host as writable only through a
\* mount that was asked for as writable, or where the host has mounted something
\* writable.
THEOREM MountInvariance == MountSpec => []MountInv
<1>1. MountInit => MountInv
    <2> SUFFICES ASSUME MountInit PROVE MountInv
        OBVIOUS
    <2>1. mtree = [p \in {<<>>} |-> RootNode(FALSE)] /\ todo = <<>>
          /\ view = [p \in {<<>>} |-> Shown("dir", Empty, TRUE)]
        BY Zenon DEF MountInit, NewTree
    <2>2. DOMAIN mtree = {<<>>} /\ mtree[<<>>].kind = "root"
        BY <2>1 DEF RootNode
    <2>3. IsTree(mtree)
        <3>1. mtree = [q \in DOMAIN mtree |-> mtree[q]]
            BY <2>1, <2>2, Zenon
        <3>2. IsFiniteSet(DOMAIN mtree)
            BY <2>2, FS_Singleton, Zenon
        <3>3. \A n \in 0 .. Len(<<>>) : SubSeq(<<>>, 1, n) = <<>>
            OBVIOUS
        <3>4. <<>> \in Seq(STRING)
            OBVIOUS
        <3> QED BY <2>2, <3>1, <3>2, <3>3, <3>4, Zenon DEF IsTree
    <2>4. Sourced(mtree) /\ Leaves(mtree)
        BY <2>2 DEF Sourced, Leaves
    <2>5. AllAsked(view)
        BY <2>1, AskedOwn, Zenon DEF AllAsked
    <2>6. todo \in Seq(Todo)
        BY <2>1
    <2> QED BY <2>1, <2>3, <2>4, <2>5, <2>6, Zenon DEF MountInv, TreeOK
<1>2. MountInv /\ [MountNext]_mountVars => MountInv'
    BY MountNextKeeps, Zenon
<1> QED BY <1>1, <1>2, PTL DEF MountSpec

\* The mounts of a policy are what was asked for: nothing is ever below a file,
\* a call that Insert or Remove refuses leaves the tree as it was, and a file of
\* the host is writable only through a mount of it that was asked for as writable,
\* or because the host has mounted it so below a directory of the policy.
THEOREM MountsAsAsked == MountSpec => MountsAreAsAsked
<1>1. MountInv => FilesAreLeaves /\ WritableAsAsked
    BY Zenon DEF MountInv, TreeOK, Leaves, FilesAreLeaves, AllAsked, Asked, WritableAsAsked
<1>2. MountInv /\ [MountNext]_mountVars => [RefusedLeavesTree]_mountVars
    <2> SUFFICES ASSUME MountInv, MountNext PROVE RefusedLeavesTree
        BY Zenon
    <2>1. CASE MountFile \/ MountDirectory \/ MountTmpfs \/ Unmount \/ MakeRootWritable
        <3>1. PICK result : /\ MountCall(result) /\ TreeOK(result.tree)
                            /\ ~result.ok => result.tree = mtree
            BY <2>1, CallsAre, Zenon
        <3> QED BY <3>1, Zenon DEF MountCall, RefusedLeavesTree
    <2>2. CASE StartCreateMounts \/ VisitNode \/ FinishMounts
        BY <2>2, Zenon DEF StartCreateMounts, VisitNode, FinishMounts, RefusedLeavesTree
    <2> QED BY <2>1, <2>2, Zenon DEF MountNext
<1>3. MountSpec => []MountInv
    BY MountInvariance, Zenon
<1> QED BY <1>1, <1>2, <1>3, PTL DEF MountSpec, MountsAreAsAsked
-----------------------------------------------------------------------------
(* The libraries of a binary.                                              *)

\* The files of a graph of dependencies, and those the walk has found.
Files == {Binary} \cup Libraries
Found == {Binary} \cup imported

Entry == [name : LibNames, depth : Nat]

LibType ==
    /\ needs \in [Files -> NeedLists \cup {NotElf}]
    /\ interpreter \in {"none", "allowed", "other"}
    /\ toResolve \in Seq(Entry)
    /\ imported \in SUBSET Libraries
    /\ resolved \in Nat /\ loaded \in Nat

\* The least of a set of natural numbers is one of them and no more than any.
LEMMA MinIsLeast ==
    ASSUME NEW S \in SUBSET Nat, S # {}
    PROVE  Min(S) \in S /\ \A n \in S : Min(S) <= n
<1> DEFINE Less == {ss \in Nat \X Nat : ss[1] < ss[2]}
<1>1. Less = OpToRel(<, Nat)
    BY Zenon DEF OpToRel
<1>2. IsWellFoundedOn(Less, Nat)
    BY <1>1, NatLessThanWellFounded, Zenon
<1>3. ASSUME NEW m \in Nat, NEW n \in Nat, m < n
      PROVE  <<m, n>> \in Less
    <2>1. <<m, n>> \in Nat \X Nat /\ <<m, n>>[1] < <<m, n>>[2]
        BY <1>3, Zenon
    <2> QED BY <2>1, Zenon
<1> HIDE DEF Less
<1>4. PICK n \in S : \A m \in S : ~(<<m, n>> \in Less)
    BY <1>2, WFMin, Zenon
<1>5. \A m \in S : ~(m < n)
    BY <1>3, <1>4, Zenon
<1>6. \A m \in S : n <= m
    BY <1>5
<1> QED BY <1>6, Zenon DEF Min

\* A number within the lesser of two is within both.
LEMMA WithinBoth ==
    ASSUME NEW a \in Nat, NEW b \in Nat, NEW n \in Nat, n <= Min({a, b})
    PROVE  n <= a /\ n <= b
<1>1. {a, b} \in SUBSET Nat /\ {a, b} # {} /\ a \in {a, b} /\ b \in {a, b}
    BY Zenon
<1>2. Min({a, b}) \in Nat /\ Min({a, b}) <= a /\ Min({a, b}) <= b
    BY <1>1, MinIsLeast, Zenon
<1> HIDE DEF Min
<1> QED BY <1>2

\* What ResolveLibraryPath finds exists and lies in one of the directories it
\* was told to search.
LEMMA LibraryIsInSearchPath ==
    ASSUME NEW lib \in Libraries
    PROVE  lib # Binary /\ \E i \in FullSearchPaths : StripBasename(lib) = SearchPath(i)
<1>1. PICK n \in LibNames : lib = ResolveLibraryPath(n) /\ lib # Empty
    BY Zenon DEF Libraries, LibraryPath
<1> DEFINE hits == {i \in FullSearchPaths : ExistingPathInsideDir(SearchPath(i), n) # Empty}
<1>2. hits # {} /\ lib = ExistingPathInsideDir(SearchPath(Min(hits)), n)
    BY <1>1, Zenon DEF ResolveLibraryPath
<1>3. SearchDirs \in Seq(Seq(STRING))
    BY LibAssumption DEF SearchDirs
<1>4. 4 * Len(SearchDirs) \in Nat
    BY <1>3
<1>5. FullSearchPaths \subseteq 1 .. 4 * Len(SearchDirs)
    BY Zenon DEF FullSearchPaths
<1>6. hits \in SUBSET Nat
    <2>1. 1 .. 4 * Len(SearchDirs) \subseteq Nat
        BY <1>4
    <2> QED BY <1>5, <2>1, Zenon
<1>7. Min(hits) \in hits
    BY <1>2, <1>6, MinIsLeast, Zenon
<1>8. lib \in HostFiles /\ InsideDir(SearchPath(Min(hits)), lib)
    BY <1>1, <1>2, Zenon DEF ExistingPathInsideDir
<1> QED BY <1>7, <1>8, LibAssumption, Zenon DEF InsideDir, Binary

\* There are finitely many libraries.
LEMMA LibrariesFinite == IsFiniteSet(Libraries) /\ Cardinality(Libraries) \in Nat
<1> DEFINE paths == {LibraryPath[n] : n \in LibNames}
<1>1. LibraryPath \in Surjection(LibNames, paths)
    <2>1. LibraryPath = [n \in LibNames |-> ResolveLibraryPath(n)]
        BY Zenon DEF LibraryPath
    <2> HIDE DEF LibraryPath
    <2>2. LibraryPath \in [LibNames -> paths]
        BY <2>1
    <2> QED BY <2>2, Zenon DEF Surjection
<1>2. IsFiniteSet(paths)
    BY <1>1, FS_Surjection, LibAssumption, Zenon
<1>3. Libraries \in SUBSET paths
    BY Zenon DEF Libraries
<1>4. IsFiniteSet(Libraries)
    BY <1>2, <1>3, FS_Subset, Zenon
<1> QED BY <1>4, FS_CardinalityType, Zenon

\* The list of a file is a sequence.
LEMMA NeedsAreLists ==
    ASSUME LibType, NEW f \in Files
    PROVE  /\ Len(needs[f]) \in Nat
           /\ needs[f] \in NeedLists => needs[f] \in Seq(LibNames)
<1>1. needs[f] \in NeedLists \cup {NotElf}
    BY DEF LibType
<1>2. needs[f] \in NeedLists => needs[f] \in Seq(LibNames)
    BY LibAssumption, Zenon
<1>3. needs[f] = NotElf => Len(needs[f]) \in Nat
    BY DEF NotElf
<1>4. needs[f] \in NeedLists => Len(needs[f]) \in Nat
    BY <1>2
<1> QED BY <1>1, <1>2, <1>3, <1>4, Zenon

\* The entries of one file.
ListOf(f) == {f} \X (1 .. Len(needs[f]))

\* There are as many as the file's list is long.
LEMMA ListCounts ==
    ASSUME LibType, NEW f \in Files
    PROVE  IsFiniteSet(ListOf(f)) /\ Cardinality(ListOf(f)) = Len(needs[f])
<1>0. Len(needs[f]) \in Nat
    BY NeedsAreLists, Zenon
<1> DEFINE n == Len(needs[f])
<1> HIDE DEF n
<1>n. n \in Nat /\ n = Len(needs[f])
    BY <1>0 DEF n
<1>1. 1 \in Int /\ n \in Int
    BY <1>n
<1>2. IsFiniteSet(1 .. n) /\ Cardinality(1 .. n) = IF 1 > n THEN 0 ELSE n - 1 + 1
    BY <1>1, FS_Interval, Zenon
<1>3. Cardinality(1 .. n) = n
    BY <1>n, <1>2
<1>4. IsFiniteSet({f}) /\ Cardinality({f}) = 1
    BY FS_Singleton, Zenon
<1>5. /\ IsFiniteSet({f} \X (1 .. n))
      /\ Cardinality({f} \X (1 .. n)) = Cardinality({f}) * Cardinality(1 .. n)
    BY <1>2, <1>4, FS_Product, Zenon
<1>6. 1 * n = n
    BY <1>n
<1> QED BY <1>3, <1>4, <1>5, <1>6, <1>n, Zenon DEF ListOf

\* A set of files asks for finitely many entries, and for no more than all do.
LEMMA EdgesFinite ==
    ASSUME LibType, NEW files \in SUBSET Files
    PROVE  /\ IsFiniteSet(EdgesOf(files)) /\ Cardinality(EdgesOf(files)) \in Nat
           /\ Edges \in Nat /\ Cardinality(EdgesOf(files)) <= Edges
<1>1. IsFiniteSet(Files)
    BY LibrariesFinite, FS_Singleton, FS_Union, Zenon DEF Files
<1> DEFINE lists == {ListOf(f) : f \in Files}
           table == [f \in Files |-> ListOf(f)]
<1>2. table \in Surjection(Files, lists)
    <2>1. table \in [Files -> lists]
        BY Zenon
    <2> QED BY <2>1, Zenon DEF Surjection
<1>3. IsFiniteSet(lists)
    BY <1>1, <1>2, FS_Surjection, Zenon
<1>4. \A l \in lists : IsFiniteSet(l)
    BY ListCounts, Zenon
<1>5. IsFiniteSet(UNION lists)
    BY <1>3, <1>4, FS_UNION, Zenon
<1>6. UNION lists = EdgesOf({Binary} \cup Libraries)
    BY Zenon DEF ListOf, EdgesOf, Files
<1>7. EdgesOf(files) \subseteq UNION lists
    BY Zenon DEF ListOf, EdgesOf
<1> HIDE DEF lists
<1> QED BY <1>5, <1>6, <1>7, FS_Subset, FS_CardinalityType, Zenon DEF Edges

\* One more file asks for the entries of its list, which no other file has.
LEMMA EdgesAdd ==
    ASSUME LibType, NEW files \in SUBSET Files, NEW f \in Files \ files
    PROVE  Cardinality(EdgesOf(files \cup {f})) = Cardinality(EdgesOf(files)) + Len(needs[f])
<1>1. EdgesOf(files \cup {f}) = EdgesOf(files) \cup ListOf(f)
    BY Zenon DEF EdgesOf, ListOf
<1>2. EdgesOf(files) \cap ListOf(f) = {}
    <2> SUFFICES ASSUME NEW e \in EdgesOf(files), e \in ListOf(f) PROVE FALSE
        BY Zenon
    <2>1. PICK g \in files : e \in {g} \X (1 .. Len(needs[g]))
        BY Zenon DEF EdgesOf
    <2>2. e[1] \in {g} /\ e[1] \in {f}
        BY <2>1, Zenon DEF ListOf
    <2> QED BY <2>2, Zenon
<1>3. IsFiniteSet(EdgesOf(files)) /\ Cardinality(EdgesOf(files)) \in Nat
    BY EdgesFinite, Zenon
<1>4. IsFiniteSet(ListOf(f)) /\ Cardinality(ListOf(f)) = Len(needs[f])
    BY ListCounts, Zenon
<1>5. Cardinality(EdgesOf(files) \cup ListOf(f)) =
        Cardinality(EdgesOf(files)) + Cardinality(ListOf(f))
            - Cardinality(EdgesOf(files) \cap ListOf(f))
    BY <1>3, <1>4, FS_Union, Zenon
<1>6. Len(needs[f]) \in Nat
    BY NeedsAreLists, Zenon
<1> DEFINE a == Cardinality(EdgesOf(files))
           b == Len(needs[f])
           c == Cardinality(EdgesOf(files \cup {f}))
<1>7. a \in Nat /\ b \in Nat /\ c = a + b - 0
    BY <1>1, <1>2, <1>3, <1>4, <1>5, <1>6, FS_EmptySet, Zenon
<1> HIDE DEF a, b, c
<1>8. c = a + b
    BY <1>7
<1> QED BY <1>8, Zenon DEF a, b, c

\* The top of the stack and what is below it.
LEMMA PoppedEntries ==
    ASSUME NEW S, NEW s \in Seq(S), s # <<>>
    PROVE  /\ Back(s) \in S /\ PopBack(s) \in Seq(S) /\ Len(s) = Len(PopBack(s)) + 1
           /\ Range(s) = Range(PopBack(s)) \cup {Back(s)}
<1>1. Len(s) \in Nat /\ Len(s) # 0
    OBVIOUS
<1>2. Back(s) = s[Len(s)] /\ Back(s) \in S
    BY <1>1 DEF Back
<1>3. /\ PopBack(s) \in Seq(S) /\ Len(PopBack(s)) = Len(s) - 1
      /\ \A i \in 1 .. Len(s) - 1 : PopBack(s)[i] = s[i]
    <2> DEFINE m == Len(s) - 1
    <2>1. m \in 0 .. Len(s) /\ 1 \in 1 .. Len(s) /\ m \in Int
        BY <1>1
    <2>2. SubSeq(s, 1, m) = [i \in 1 .. m |-> s[i]]
        BY <1>1
    <2>3. PopBack(s) = [i \in 1 .. m |-> s[i]]
        BY <2>2 DEF PopBack
    <2> QED BY <1>1, <2>1, <2>3
<1>4. DOMAIN s = 1 .. Len(s) /\ DOMAIN PopBack(s) = 1 .. Len(s) - 1
    BY <1>3
<1>5. 1 .. Len(s) = (1 .. Len(s) - 1) \cup {Len(s)}
    BY <1>1
<1> HIDE DEF Back, PopBack
<1>6. Range(s) = Range(PopBack(s)) \cup {Back(s)}
    BY <1>2, <1>3, <1>4, <1>5, ZenonT(30) DEF Range
<1> QED BY <1>1, <1>2, <1>3, <1>6

\* A list put on the stack: its names, all at the given depth.
LEMMA PushedEntries ==
    ASSUME NEW rest \in Seq(Entry), NEW list \in Seq(LibNames), NEW d \in Nat
    PROVE  /\ rest \o WithDepth(list, d) \in Seq(Entry)
           /\ Len(rest \o WithDepth(list, d)) = Len(rest) + Len(list)
           /\ Range(rest \o WithDepth(list, d))
                = Range(rest) \cup {[name |-> n, depth |-> d] : n \in Range(list)}
<1> DEFINE w == WithDepth(list, d)
<1>1. /\ w \in Seq(Entry) /\ Len(w) = Len(list) /\ DOMAIN w = DOMAIN list
      /\ \A i \in DOMAIN list : w[i] = [name |-> list[i], depth |-> d]
    BY DEF WithDepth, Entry
<1>2. Range(w) = {[name |-> n, depth |-> d] : n \in Range(list)}
    BY <1>1, Zenon DEF Range
<1> HIDE DEF w
<1>s. w \in Seq(Entry)
    BY <1>1
<1>3. rest \o w \in Seq(Entry) /\ Len(rest \o w) = Len(rest) + Len(w)
    BY <1>s, ConcatProperties, Zenon
<1>4. Range(rest \o w) = Range(rest) \cup Range(w)
    BY <1>s, RangeConcatenation, ZenonT(30)
<1> QED BY <1>1, <1>2, <1>3, <1>4, Zenon DEF w
-----------------------------------------------------------------------------
\* What holds while the walk is under way.  Every file found was parsed; each of
\* their entries was resolved or is on the stack, once; an entry is no deeper
\* than the chain of libraries that led to it.
Parsed == \A f \in Found : needs[f] # NotElf
Accounted == resolved + Len(toResolve) = Cardinality(EdgesOf(Found))
Shallow == \A e \in Range(toResolve) : e.depth <= Cardinality(imported) + 1

\* No library is forgotten: what a file that was found needs is found, or its
\* name is on the stack.
Remembered(n) ==
    LibraryPath[n] \in imported \cup {Empty} \/ \E e \in Range(toResolve) : e.name = n
Pending == \A f \in Found : \A n \in Range(needs[f]) : Remembered(n)

\* Nothing else is found: it is in every set of libraries that has all the
\* binary needs and all its members need.
Closed(libs) == NeededBy({Binary} \cup libs) \subseteq libs
Parseable == {f \in Libraries : needs[f] # NotElf}
Wanted ==
    \A libs \in SUBSET Parseable : Closed(libs) =>
        /\ imported \subseteq libs
        /\ \A e \in Range(toResolve) : LibraryPath[e.name] \in libs \cup {Empty}

WalkInv ==
    /\ interpreter = "allowed" /\ loaded = Cardinality(imported)
    /\ Parsed /\ Accounted /\ Shallow /\ Pending /\ Wanted

\* The graph of dependencies is larger than a limit.
Exhausted ==
    \/ Edges > MaxResolvedEntries \/ Edges > MaxWorkQueueSize
    \/ Cardinality(Libraries) >= MaxResolvingDepth
    \/ Cardinality(Libraries) > MaxLoadedEntries
    \/ Cardinality(Libraries) > MaxImportedLibraries

LibInv ==
    /\ LibType
    /\ libState = "parse" => toResolve = <<>> /\ imported = {} /\ resolved = 0 /\ loaded = 0
    /\ libState = "walk" => WalkInv
    /\ libState = "ok" /\ interpreter = "allowed" => WalkInv /\ toResolve = <<>>
    /\ libState = "error" /\ interpreter # "other" => NotElf \in Range(needs) \/ Exhausted

\* What the walk reads of the dependencies does not change.
LEMMA GraphUnchanged ==
    ASSUME needs' = needs
    PROVE  /\ Edges' = Edges /\ Parseable' = Parseable /\ Exhausted' = Exhausted
           /\ \A files : EdgesOf(files)' = EdgesOf(files)
           /\ \A libs : Closed(libs)' = Closed(libs)
<1>1. \A files : EdgesOf(files)' = EdgesOf(files)
    BY Zenon DEF EdgesOf
<1>2. \A libs : Closed(libs)' = Closed(libs)
    BY Zenon DEF Closed, NeededBy
<1>3. Edges' = Edges /\ Parseable' = Parseable
    BY Zenon DEF Edges, EdgesOf, Parseable
<1> QED BY <1>1, <1>2, <1>3, Zenon DEF Exhausted

\* Whatever a member of a closed set needs is in the set.
LEMMA ClosedHasNeeds ==
    ASSUME NEW libs, Closed(libs), NEW f \in {Binary} \cup libs, NEW n \in Range(needs[f])
    PROVE  LibraryPath[n] \in libs \cup {Empty}
BY Zenon DEF Closed, NeededBy

\* The numbers of the walk.
LEMMA WalkCounts ==
    ASSUME LibType
    PROVE  /\ IsFiniteSet(imported) /\ Cardinality(imported) \in Nat
           /\ Cardinality(imported) <= Cardinality(Libraries)
           /\ Cardinality(Libraries) \in Nat
           /\ Found \in SUBSET Files
           /\ Cardinality(EdgesOf(Found)) \in Nat /\ Edges \in Nat
           /\ Cardinality(EdgesOf(Found)) <= Edges
           /\ resolved \in Nat /\ Len(toResolve) \in Nat
<1>1. imported \in SUBSET Libraries /\ Found \in SUBSET Files
    BY Zenon DEF LibType, Found, Files
<1>2. Len(toResolve) \in Nat
    BY LenProperties, Zenon DEF LibType
<1>3. resolved \in Nat
    BY Zenon DEF LibType
<1>4. IsFiniteSet(imported) /\ Cardinality(imported) <= Cardinality(Libraries)
    BY <1>1, LibrariesFinite, FS_Subset, Zenon
<1> QED BY <1>1, <1>2, <1>3, <1>4, LibrariesFinite, EdgesFinite, FS_CardinalityType, Zenon

\* The walk starts with the list of the binary.
LEMMA ParseStep ==
    ASSUME LibInv, ParseBinary
    PROVE  LibInv'
<1>0. LibType /\ libState = "parse" /\ UNCHANGED <<needs, interpreter>>
    BY Zenon DEF LibInv, ParseBinary
<1>g. /\ Edges' = Edges /\ Parseable' = Parseable /\ Exhausted' = Exhausted
      /\ \A files : EdgesOf(files)' = EdgesOf(files)
      /\ \A libs : Closed(libs)' = Closed(libs)
    BY <1>0, GraphUnchanged, Zenon
<1>i. interpreter \in {"none", "allowed", "other"}
    BY <1>0, Zenon DEF LibType
<1>b. Binary \in Files /\ {Binary} \in SUBSET Files /\ needs[Binary] \in NeedLists \cup {NotElf}
    BY <1>0, Zenon DEF Files, LibType
<1>1. CASE LibError /\ needs[Binary] = NotElf
    <2>1. NotElf \in Range(needs)
        BY <1>0, <1>b, <1>1, Zenon DEF LibType, Range
    <2>2. LibType' /\ NotElf \in Range(needs)'
        BY <1>0, <1>1, <2>1, Zenon DEF LibType, LibError, Range
    <2> QED BY <1>1, <2>2, Zenon DEF LibInv, LibError
<1>2. CASE LibError /\ interpreter = "other"
    BY <1>0, <1>2, Zenon DEF LibType, LibInv, LibError
<1>3. CASE LibError /\ Len(needs[Binary]) > MaxWorkQueueSize
    <2>1. Cardinality(EdgesOf({Binary})) = Len(needs[Binary])
        BY <1>0, <1>b, ListCounts, Zenon DEF EdgesOf, ListOf
    <2>2. Edges \in Nat /\ Cardinality(EdgesOf({Binary})) <= Edges
        BY <1>0, <1>b, EdgesFinite, Zenon
    <2>3. Len(needs[Binary]) \in Nat
        BY <1>0, <1>b, NeedsAreLists, Zenon
    <2>4. Edges > MaxWorkQueueSize
        BY <1>3, <2>1, <2>2, <2>3, LibAssumption
    <2>5. LibType' /\ Exhausted'
        BY <1>0, <1>3, <1>g, <2>4, Zenon DEF LibType, LibError, Exhausted
    <2> QED BY <1>3, <2>5, Zenon DEF LibInv, LibError
<1>4. CASE libState' = "ok" /\ interpreter = "none"
           /\ UNCHANGED <<toResolve, imported, resolved, loaded>>
    BY <1>0, <1>4, Zenon DEF LibType, LibInv
<1>5. CASE /\ toResolve' = WithDepth(needs[Binary], 1) /\ libState' = "walk"
           /\ needs[Binary] # NotElf /\ interpreter = "allowed"
           /\ UNCHANGED <<imported, resolved, loaded>>
    <2> DEFINE list == needs[Binary]
    <2>1. list \in NeedLists /\ list \in Seq(LibNames) /\ imported = {} /\ resolved = 0 /\ loaded = 0
        BY <1>0, <1>b, <1>5, NeedsAreLists, Zenon DEF LibInv
    <2>2. <<>> \in Seq(Entry) /\ 1 \in Nat /\ Range(<<>>) = {} /\ Len(<<>>) = 0
        BY DEF Range
    <2>3. <<>> \o WithDepth(list, 1) = WithDepth(list, 1)
        BY DEF WithDepth
    <2> HIDE DEF list
    <2>p. /\ <<>> \o WithDepth(list, 1) \in Seq(Entry)
          /\ Len(<<>> \o WithDepth(list, 1)) = Len(<<>>) + Len(list)
          /\ Range(<<>> \o WithDepth(list, 1))
                = Range(<<>>) \cup {[name |-> n, depth |-> 1] : n \in Range(list)}
        <3>1. <<>> \in Seq(Entry) /\ list \in Seq(LibNames) /\ 1 \in Nat
            BY <2>1, <2>2, Zenon
        <3> QED BY <3>1, PushedEntries, ZenonT(30)
    <2>t. toResolve' = WithDepth(list, 1)
        BY <1>5, Zenon DEF list
    <2>4. /\ toResolve' \in Seq(Entry) /\ Len(toResolve') = 0 + Len(list)
          /\ Range(toResolve') = {[name |-> n, depth |-> 1] : n \in Range(list)}
        BY <2>p, <2>2, <2>3, <2>t, Zenon
    <2>5. Found' = {Binary} /\ imported' = {} /\ resolved' = 0 /\ loaded' = 0
        BY <1>5, <2>1, Zenon DEF Found
    <2>6. LibType'
        BY <1>0, <1>5, <2>1, <2>4, Zenon DEF LibType
    <2>7. Accounted'
        <3>1. Cardinality(EdgesOf({Binary})) = Len(list)
            BY <1>0, <1>b, ListCounts, Zenon DEF EdgesOf, ListOf, list
        <3>2. Len(list) \in Nat
            BY <2>1
        <3>3. resolved' + Len(toResolve') = Len(list)
            BY <2>4, <2>5, <3>2
        <3> QED BY <1>g, <2>5, <3>1, <3>3, Zenon DEF Accounted
    <2>8. Shallow'
        <3>1. Cardinality(imported') = 0 /\ 1 <= 0 + 1
            BY <2>5, FS_EmptySet
        <3>2. \A e \in Range(toResolve') : e.depth = 1
            BY <2>4
        <3> QED BY <3>1, <3>2, Zenon DEF Shallow
    <2>9. Parsed' /\ loaded' = Cardinality(imported')
        BY <1>0, <1>5, <2>5, FS_EmptySet, Zenon DEF Parsed
    <2>10. Pending'
        <3>1. ASSUME NEW n \in Range(list) PROVE \E e \in Range(toResolve') : e.name = n
            <4>1. [name |-> n, depth |-> 1].name = n
                OBVIOUS
            <4> QED BY <2>4, <4>1, Zenon
        <3> QED BY <1>0, <2>5, <3>1, Zenon DEF Pending, Remembered, list
    <2>11. Wanted'
        <3> SUFFICES ASSUME NEW libs \in SUBSET Parseable, Closed(libs),
                            NEW e \in Range(toResolve')
                     PROVE  LibraryPath[e.name] \in libs \cup {Empty}
            BY <1>g, <2>5, Zenon DEF Wanted
        <3>1. e.name \in Range(list)
            BY <2>4
        <3> QED BY <3>1, ClosedHasNeeds, Zenon DEF list
    <2> QED BY <1>0, <1>5, <2>6, <2>7, <2>8, <2>9, <2>10, <2>11, Zenon DEF LibInv, WalkInv
<1> QED BY <1>i, <1>1, <1>2, <1>3, <1>4, <1>5, Zenon DEF ParseBinary

\* Some limit stops the walk only if the graph is larger than the limit.
LEMMA LimitsReached ==
    ASSUME LibType, WalkInv, toResolve # <<>>
    PROVE  /\ resolved + 1 > MaxResolvedEntries => Exhausted
           /\ Back(toResolve).depth > MaxResolvingDepth => Exhausted
           /\ \A lib \in Libraries \ imported :
                /\ Cardinality(imported \cup {lib}) = Cardinality(imported) + 1
                /\ Cardinality(imported) + 1 > MaxImportedLibraries => Exhausted
                /\ Cardinality(imported) + 1 > MaxLoadedEntries => Exhausted
                /\ Len(needs[lib]) > MaxWorkQueueSize - Len(PopBack(toResolve)) => Exhausted
<1>m. /\ MaxResolvingDepth \in Nat /\ MaxResolvedEntries \in Nat /\ MaxLoadedEntries \in Nat
      /\ MaxImportedLibraries \in Nat /\ MaxWorkQueueSize \in Nat
    BY LibAssumption, Zenon
<1>p. /\ Back(toResolve) \in Entry /\ PopBack(toResolve) \in Seq(Entry)
      /\ Len(toResolve) = Len(PopBack(toResolve)) + 1
      /\ Range(toResolve) = Range(PopBack(toResolve)) \cup {Back(toResolve)}
    BY PoppedEntries, Zenon DEF LibType
<1> DEFINE k == Cardinality(imported)
           all == Cardinality(Libraries)
           edges == Cardinality(EdgesOf(Found))
           below == Len(PopBack(toResolve))
<1>1. /\ IsFiniteSet(imported) /\ k \in Nat /\ k <= all /\ all \in Nat /\ Found \in SUBSET Files
      /\ edges \in Nat /\ Edges \in Nat /\ edges <= Edges /\ resolved \in Nat
    BY WalkCounts, Zenon
<1>2. below \in Nat
    BY <1>p, LenProperties, Zenon
<1>3. resolved + (below + 1) = edges
    BY <1>p, Zenon DEF WalkInv, Accounted
<1>4. Back(toResolve).depth <= k + 1 /\ Back(toResolve).depth \in Nat
    <2>1. Back(toResolve).depth \in Nat
        BY <1>p DEF Entry
    <2> QED BY <1>p, <2>1, Zenon DEF WalkInv, Shallow
<1>5. ASSUME NEW lib \in Libraries \ imported
      PROVE  /\ Cardinality(imported \cup {lib}) = k + 1 /\ k + 1 <= all
             /\ Len(needs[lib]) \in Nat /\ edges + Len(needs[lib]) <= Edges
    <2>1. Cardinality(imported \cup {lib}) = k + 1
        BY <1>1, FS_AddElement, Zenon
    <2>2. imported \cup {lib} \in SUBSET Libraries
        BY Zenon DEF LibType
    <2>3. Cardinality(imported \cup {lib}) <= all
        BY <2>2, LibrariesFinite, FS_Subset, Zenon
    <2>4. lib \in Files \ Found /\ Found \cup {lib} \in SUBSET Files
        BY <1>1, LibraryIsInSearchPath, Zenon DEF Found, Files
    <2>5. Cardinality(EdgesOf(Found \cup {lib})) = edges + Len(needs[lib])
        BY <1>1, <2>4, EdgesAdd, Zenon
    <2>6. Cardinality(EdgesOf(Found \cup {lib})) <= Edges
        BY <2>4, EdgesFinite, Zenon
    <2> QED BY <2>1, <2>3, <2>4, <2>5, <2>6, NeedsAreLists, Zenon
<1> HIDE DEF k, all, edges, below
<1>6. resolved + 1 > MaxResolvedEntries => Edges > MaxResolvedEntries
    BY <1>m, <1>1, <1>2, <1>3
<1>7. Back(toResolve).depth > MaxResolvingDepth => all >= MaxResolvingDepth
    <2> DEFINE d == Back(toResolve).depth
    <2>1. d \in Nat /\ d <= k + 1
        BY <1>4
    <2> HIDE DEF d
    <2>2. d > MaxResolvingDepth => all >= MaxResolvingDepth
        BY <2>1, <1>m, <1>1
    <2> QED BY <2>2 DEF d
<1>8. ASSUME NEW lib \in Libraries \ imported
      PROVE  /\ k + 1 > MaxImportedLibraries => all > MaxImportedLibraries
             /\ k + 1 > MaxLoadedEntries => all > MaxLoadedEntries
             /\ Len(needs[lib]) > MaxWorkQueueSize - below => Edges > MaxWorkQueueSize
    <2> DEFINE n == Len(needs[lib])
    <2>1. n \in Nat /\ edges + n <= Edges /\ k + 1 <= all
        BY <1>5, Zenon
    <2> HIDE DEF n
    <2>2. /\ k + 1 > MaxImportedLibraries => all > MaxImportedLibraries
          /\ k + 1 > MaxLoadedEntries => all > MaxLoadedEntries
          /\ n > MaxWorkQueueSize - below => Edges > MaxWorkQueueSize
        BY <2>1, <1>m, <1>1, <1>2, <1>3
    <2> QED BY <2>2, Zenon DEF n
<1> QED BY <1>5, <1>6, <1>7, <1>8, Zenon DEF Exhausted, k, all, below

\* An entry that names nothing new is dropped.
LEMMA DroppedEntry ==
    ASSUME LibInv, libState = "walk", toResolve # <<>>,
           LibraryPath[Back(toResolve).name] \in imported \cup {Empty},
           toResolve' = PopBack(toResolve), resolved' = resolved + 1,
           UNCHANGED <<needs, interpreter, imported, loaded, libState>>
    PROVE  LibInv'
<1>0. LibType /\ WalkInv
    BY Zenon DEF LibInv
<1>g. /\ Parseable' = Parseable
      /\ \A files : EdgesOf(files)' = EdgesOf(files)
      /\ \A libs : Closed(libs)' = Closed(libs)
    BY GraphUnchanged, Zenon
<1>p. /\ Back(toResolve) \in Entry /\ toResolve' \in Seq(Entry)
      /\ Len(toResolve) = Len(toResolve') + 1
      /\ Range(toResolve) = Range(toResolve') \cup {Back(toResolve)}
    BY <1>0, PoppedEntries, Zenon DEF LibType
<1>f. Found' = Found
    BY Zenon DEF Found
<1>1. LibType'
    BY <1>0, <1>p DEF LibType
<1>2. Accounted'
    <2> DEFINE n == Len(toResolve')
    <2>1. n \in Nat /\ resolved \in Nat
        BY <1>0, <1>p, LenProperties, Zenon DEF LibType
    <2> HIDE DEF n
    <2>2. resolved' + n = resolved + (n + 1)
        BY <2>1
    <2> QED BY <1>0, <1>f, <1>g, <1>p, <2>2, Zenon DEF WalkInv, Accounted, n
<1>3. Shallow' /\ Parsed' /\ loaded' = Cardinality(imported')
    BY <1>0, <1>f, <1>p, Zenon DEF WalkInv, Shallow, Parsed
<1>4. Pending'
    <2>1. ASSUME NEW n, Remembered(n) PROVE Remembered(n)'
        BY <2>1, <1>p, Zenon DEF Remembered
    <2> QED BY <1>0, <1>f, <2>1, Zenon DEF WalkInv, Pending
<1>5. Wanted'
    BY <1>0, <1>g, <1>p, Zenon DEF WalkInv, Wanted
<1> QED BY <1>0, <1>1, <1>2, <1>3, <1>4, <1>5, Zenon DEF LibInv, WalkInv

\* A library found for the first time: its list takes the place of its entry.
LEMMA NewLibrary ==
    ASSUME LibInv, libState = "walk", toResolve # <<>>,
           NEW lib, lib = LibraryPath[Back(toResolve).name],
           lib \notin imported, lib # Empty, needs[lib] # NotElf,
           imported' = imported \cup {lib}, loaded' = loaded + 1,
           toResolve' = Pushed(PopBack(toResolve), lib, Back(toResolve).depth),
           resolved' = resolved + 1, UNCHANGED <<needs, interpreter, libState>>
    PROVE  LibInv'
<1> DEFINE top == Back(toResolve)
           rest == PopBack(toResolve)
           list == needs[lib]
           d == top.depth + 1
<1>0. LibType /\ WalkInv
    BY Zenon DEF LibInv
<1>g. /\ Parseable' = Parseable
      /\ \A files : EdgesOf(files)' = EdgesOf(files)
      /\ \A libs : Closed(libs)' = Closed(libs)
    BY GraphUnchanged, Zenon
<1>p. /\ top \in Entry /\ rest \in Seq(Entry) /\ Len(toResolve) = Len(rest) + 1
      /\ Range(toResolve) = Range(rest) \cup {top}
    BY <1>0, PoppedEntries, Zenon DEF LibType
<1>t. top.name \in LibNames /\ top.depth \in Nat /\ d \in Nat
    BY <1>p DEF Entry
<1>l. lib \in Libraries /\ lib # Binary /\ lib \in Files /\ lib \notin Found
    <2>1. lib \in Libraries
        BY <1>t, Zenon DEF Libraries
    <2> QED BY <2>1, LibraryIsInSearchPath, Zenon DEF Files, Found
<1>n. list \in NeedLists /\ list \in Seq(LibNames)
    BY <1>0, <1>l, NeedsAreLists, Zenon DEF LibType
<1>f. Found' = Found \cup {lib}
    BY Zenon DEF Found
<1>s. toResolve' = rest \o WithDepth(list, d)
    BY Zenon DEF Pushed
<1> HIDE DEF top, rest, list, d
<1>q. /\ toResolve' \in Seq(Entry) /\ Len(toResolve') = Len(rest) + Len(list)
      /\ Range(toResolve') = Range(rest) \cup {[name |-> n, depth |-> d] : n \in Range(list)}
    <2>1. rest \in Seq(Entry) /\ list \in Seq(LibNames) /\ d \in Nat
        BY <1>n, <1>p, <1>t, Zenon
    <2> QED BY <1>s, <2>1, PushedEntries, ZenonT(30)
<1>c. /\ IsFiniteSet(imported) /\ Cardinality(imported) \in Nat
      /\ Cardinality(imported') = Cardinality(imported) + 1 /\ Found \in SUBSET Files
    BY <1>0, WalkCounts, FS_AddElement, Zenon
<1>1. LibType'
    <2>1. loaded' \in Nat /\ resolved' \in Nat
        BY <1>0 DEF LibType
    <2>2. imported' \in SUBSET Libraries
        BY <1>0, <1>l, Zenon DEF LibType
    <2> QED BY <1>0, <1>q, <2>1, <2>2, Zenon DEF LibType
<1>2. Accounted'
    <2> DEFINE a == Len(rest)
               b == Len(list)
               c == Cardinality(EdgesOf(Found))
    <2>1. a \in Nat /\ b \in Nat /\ resolved \in Nat
        BY <1>0, <1>n, <1>p, LenProperties, Zenon DEF LibType
    <2>2. resolved + (a + 1) = c
        BY <1>0, <1>p, Zenon DEF WalkInv, Accounted
    <2>3. Cardinality(EdgesOf(Found \cup {lib})) = c + b
        BY <1>0, <1>c, <1>l, EdgesAdd, Zenon DEF list
    <2>4. Len(toResolve') = a + b
        BY <1>q, Zenon
    <2> HIDE DEF a, b, c
    <2>5. resolved' + (a + b) = c + b
        BY <2>1, <2>2
    <2> QED BY <1>f, <1>g, <2>3, <2>4, <2>5, Zenon DEF Accounted
<1>3. Shallow'
    <2> DEFINE k == Cardinality(imported)
    <2>1. ASSUME NEW e \in Range(rest) PROVE e.depth <= (k + 1) + 1
        <3>1. e \in Entry /\ e.depth <= k + 1
            BY <1>0, <1>p, RangeOfSeq, Zenon DEF WalkInv, Shallow
        <3>2. e.depth \in Nat
            BY <3>1 DEF Entry
        <3>3. k \in Nat
            BY <1>c, Zenon
        <3> HIDE DEF k
        <3> QED BY <3>1, <3>2, <3>3
    <2>2. top.depth <= k + 1
        BY <1>0, <1>p, Zenon DEF WalkInv, Shallow
    <2>3. d <= (k + 1) + 1
        <3>1. k \in Nat
            BY <1>c, Zenon
        <3>2. d = top.depth + 1
            BY Zenon DEF d
        <3>3. top.depth \in Nat
            BY <1>t, Zenon
        <3> HIDE DEF k
        <3> QED BY <2>2, <3>1, <3>2, <3>3
    <2>4. ASSUME NEW n PROVE [name |-> n, depth |-> d].depth = d
        OBVIOUS
    <2> QED BY <1>q, <1>c, <2>1, <2>3, <2>4, Zenon DEF Shallow
<1>4. Parsed' /\ loaded' = Cardinality(imported')
    BY <1>0, <1>c, <1>f, <1>n, Zenon DEF WalkInv, Parsed, list
<1>5. Pending'
    <2>1. ASSUME NEW n, Remembered(n) PROVE Remembered(n)'
        BY <2>1, <1>p, <1>q, Zenon DEF Remembered, top
    <2>2. ASSUME NEW n \in Range(list) PROVE Remembered(n)'
        <3>1. [name |-> n, depth |-> d].name = n
            OBVIOUS
        <3> QED BY <1>q, <3>1, Zenon DEF Remembered
    <2> QED BY <1>0, <1>f, <2>1, <2>2, Zenon DEF WalkInv, Pending, list
<1>6. Wanted'
    <2> SUFFICES ASSUME NEW libs \in SUBSET Parseable, Closed(libs)
                 PROVE  /\ imported' \subseteq libs
                        /\ \A e \in Range(toResolve') :
                              LibraryPath[e.name] \in libs \cup {Empty}
        BY <1>g, Zenon DEF Wanted
    <2>1. /\ imported \subseteq libs
          /\ \A e \in Range(toResolve) : LibraryPath[e.name] \in libs \cup {Empty}
        BY <1>0, Zenon DEF WalkInv, Wanted
    <2>2. lib \in libs
        BY <1>p, <2>1, Zenon DEF top
    <2>3. ASSUME NEW n \in Range(list)
          PROVE  LibraryPath[[name |-> n, depth |-> d].name] \in libs \cup {Empty}
        <3>1. [name |-> n, depth |-> d].name = n
            OBVIOUS
        <3>2. LibraryPath[n] \in libs \cup {Empty}
            BY <2>2, ClosedHasNeeds, Zenon DEF list
        <3> QED BY <3>1, <3>2, Zenon
    <2> QED BY <1>p, <1>q, <2>1, <2>2, <2>3, Zenon
<1> QED BY <1>0, <1>1, <1>2, <1>3, <1>4, <1>5, <1>6, Zenon DEF LibInv, WalkInv

\* One turn of the loop.
LEMMA ResolveStep ==
    ASSUME LibInv, ResolveNext
    PROVE  LibInv'
<1> DEFINE top == Back(toResolve)
           lib == LibraryPath[top.name]
<1>0. LibType /\ WalkInv /\ libState = "walk" /\ toResolve # <<>>
    BY Zenon DEF LibInv, ResolveNext
<1>s. resolved' = resolved + 1 /\ UNCHANGED <<needs, interpreter>>
    BY Zenon DEF ResolveNext
<1>p. top \in Entry /\ PopBack(toResolve) \in Seq(Entry)
    BY <1>0, PoppedEntries, Zenon DEF LibType
<1>t. top.name \in LibNames
    BY <1>p DEF Entry
<1>l. lib # Empty => lib \in Libraries
    BY <1>t, Zenon DEF Libraries
<1>g. Exhausted' = Exhausted
    BY <1>s, GraphUnchanged, Zenon
<1>k. loaded = Cardinality(imported)
    BY <1>0, Zenon DEF WalkInv
<1> HIDE DEF top
<1>1. ASSUME libState' = "error", toResolve' = PopBack(toResolve),
             NotElf \in Range(needs) \/ Exhausted,
             imported' = imported \/ (lib # Empty /\ imported' = imported \cup {lib}),
             loaded' \in {loaded, loaded + 1}
      PROVE  LibInv'
    <2>1. resolved' \in Nat /\ loaded' \in Nat
        BY <1>0, <1>s, <1>1 DEF LibType
    <2>2. imported' \in SUBSET Libraries
        BY <1>0, <1>1, <1>l, Zenon DEF LibType
    <2>3. LibType'
        BY <1>0, <1>p, <1>s, <1>1, <2>1, <2>2, Zenon DEF LibType
    <2> QED BY <1>1, <1>g, <1>s, <2>3, Zenon DEF LibInv, Range
<1>2. CASE resolved' > MaxResolvedEntries \/ top.depth > MaxResolvingDepth
    <2>1. Exhausted
        BY <1>0, <1>2, <1>s, LimitsReached, Zenon DEF top
    <2>2. libState' = "error" /\ toResolve' = PopBack(toResolve) /\ UNCHANGED <<imported, loaded>>
        BY <1>2, Zenon DEF ResolveNext, top
    <2> QED BY <1>1, <2>1, <2>2, Zenon
<1>3. CASE /\ lib = Empty \/ AlreadyImported(lib)
           /\ toResolve' = PopBack(toResolve) /\ UNCHANGED <<imported, loaded, libState>>
    <2>1. lib \in imported \cup {Empty}
        BY <1>3, Zenon DEF AlreadyImported
    <2> QED BY <1>0, <1>3, <1>s, <2>1, DroppedEntry, Zenon DEF top
<1>4. CASE /\ lib # Empty /\ ~AlreadyImported(lib) /\ imported' = imported \cup {lib}
           /\ IF Cardinality(imported') > MaxImportedLibraries
              THEN libState' = "error" /\ toResolve' = PopBack(toResolve) /\ UNCHANGED loaded
              ELSE /\ loaded' = loaded + 1
                   /\ IF \/ loaded' > MaxLoadedEntries
                         \/ needs[lib] = NotElf
                         \/ Len(needs[lib]) > MaxWorkQueueSize - Len(PopBack(toResolve))
                      THEN libState' = "error" /\ toResolve' = PopBack(toResolve)
                      ELSE /\ toResolve' = Pushed(PopBack(toResolve), lib, top.depth)
                           /\ UNCHANGED libState
    <2>1. lib \in Libraries \ imported
        BY <1>4, <1>l, Zenon DEF AlreadyImported
    <2>2. needs[lib] = NotElf => NotElf \in Range(needs)
        BY <1>0, <2>1, Zenon DEF LibType, Range, Files
    <2>3. /\ Cardinality(imported') = Cardinality(imported) + 1
          /\ Cardinality(imported') > MaxImportedLibraries => Exhausted
          /\ loaded + 1 > MaxLoadedEntries => Exhausted
          /\ Len(needs[lib]) > MaxWorkQueueSize - Len(PopBack(toResolve)) => Exhausted
        BY <1>0, <1>4, <1>k, <2>1, LimitsReached, Zenon
    <2>4. CASE libState' = "error"
        BY <1>1, <1>4, <2>2, <2>3, <2>4, <1>0, Zenon
    <2>5. CASE libState' # "error"
        <3>1. /\ loaded' = loaded + 1 /\ needs[lib] # NotElf /\ UNCHANGED libState
              /\ toResolve' = Pushed(PopBack(toResolve), lib, top.depth)
            BY <1>4, <2>5, Zenon
        <3> HIDE DEF lib
        <3> QED BY <1>0, <1>4, <1>s, <2>1, <3>1, NewLibrary, Zenon DEF lib, top
    <2> QED BY <2>4, <2>5, Zenon
<1> QED BY <1>2, <1>3, <1>4, Zenon DEF ResolveNext, top

\* A graph that the walk was done with is found complete: the libraries found
\* need no other, and no smaller set has all that is needed.
LEMMA FoundIsClosure ==
    ASSUME LibType, WalkInv, toResolve = <<>>
    PROVE  /\ NeededBy({Binary} \cup imported) = imported
           /\ \A sub \in SUBSET imported : Closed(sub) => sub = imported
<1>1. Range(toResolve) = {}
    BY DEF Range
<1>2. NeededBy({Binary} \cup imported) \subseteq imported
    BY <1>1, ZenonT(30) DEF WalkInv, Pending, Remembered, Found, NeededBy
<1>3. imported \in SUBSET Parseable
    BY Zenon DEF LibType, WalkInv, Parsed, Found, Parseable
<1>4. ASSUME NEW sub \in SUBSET imported, Closed(sub) PROVE sub = imported
    BY <1>3, <1>4, Zenon DEF WalkInv, Wanted
<1> DEFINE sub == NeededBy({Binary} \cup imported)
<1>5. Closed(sub)
    BY <1>2, Zenon DEF Closed, NeededBy
<1> QED BY <1>2, <1>4, <1>5, Zenon

\* The invariant holds at all times, for any dependencies and any limits.
THEOREM LibInvariance == LibSpec => []LibInv
<1>1. LibInit => LibInv
    <2> SUFFICES ASSUME LibInit PROVE LibInv
        OBVIOUS
    <2>1. <<>> \in Seq(Entry) /\ 0 \in Nat
        OBVIOUS
    <2>2. Libraries \cup {Binary} = Files
        BY Zenon DEF Files
    <2>3. LibType
        BY <2>1, <2>2, Zenon DEF LibInit, LibType
    <2> QED BY <2>3, Zenon DEF LibInit, LibInv
<1>2. LibInv /\ [LibNext]_libVars => LibInv'
    <2> SUFFICES ASSUME LibInv, [LibNext]_libVars PROVE LibInv'
        OBVIOUS
    <2>1. CASE ParseBinary
        BY <2>1, ParseStep, Zenon
    <2>2. CASE ResolveNext
        BY <2>2, ResolveStep, Zenon
    <2>3. ASSUME UNCHANGED <<needs, interpreter, toResolve, imported, resolved, loaded>>
          PROVE  LibType' = LibType /\ WalkInv' = WalkInv /\ Exhausted' = Exhausted
        <3>1. /\ Parseable' = Parseable /\ Exhausted' = Exhausted
              /\ \A files : EdgesOf(files)' = EdgesOf(files)
              /\ \A libs : Closed(libs)' = Closed(libs)
            BY <2>3, GraphUnchanged, Zenon
        <3>2. LibType' = LibType /\ Found' = Found
            BY <2>3, Zenon DEF LibType, Found
        <3>3. Accounted' = Accounted /\ Shallow' = Shallow /\ Parsed' = Parsed
            BY <2>3, <3>1, <3>2, Zenon DEF Accounted, Shallow, Parsed
        <3>4. Pending' = Pending
            BY <2>3, <3>2, Zenon DEF Pending, Remembered
        <3>5. Wanted' = Wanted
            BY <2>3, <3>1, Zenon DEF Wanted
        <3> QED BY <2>3, <3>1, <3>2, <3>3, <3>4, <3>5, Zenon DEF WalkInv
    <2>4. CASE AddLibraries
        BY <2>3, <2>4, Zenon DEF AddLibraries, LibInv
    <2>5. CASE UNCHANGED libVars
        BY <2>3, <2>5, Zenon DEF libVars, LibInv, Range
    <2> QED BY <2>1, <2>2, <2>4, <2>5, Zenon DEF LibNext
<1> QED BY <1>1, <1>2, PTL DEF LibSpec

\* AddMappingsForBinary finds exactly the libraries a binary needs, all in the
\* directories it searches, and gives up only for a file that cannot be parsed or
\* a graph beyond the limits: for any dependencies, any files and any limits.
THEOREM LibrariesAreFound == LibSpec => []LibrariesAreComplete
<1>1. LibInv => LibrariesAreComplete
    <2> SUFFICES ASSUME LibInv PROVE LibrariesAreComplete
        OBVIOUS
    <2>0. LibType
        BY Zenon DEF LibInv
    <2>1. ASSUME libState = "ok", interpreter = "allowed"
          PROVE  /\ NeededBy({Binary} \cup imported) = imported
                 /\ \A sub \in SUBSET imported : Closed(sub) => sub = imported
        BY <2>0, <2>1, FoundIsClosure, Zenon DEF LibInv
    <2>2. \A lib \in imported : \E i \in FullSearchPaths : StripBasename(lib) = SearchPath(i)
        BY <2>0, LibraryIsInSearchPath, Zenon DEF LibType
    <2>3. ASSUME libState = "error", interpreter # "other",
                 Edges <= Min({MaxResolvedEntries, MaxWorkQueueSize}),
                 Cardinality(Libraries) < MaxResolvingDepth,
                 Cardinality(Libraries) <= Min({MaxLoadedEntries, MaxImportedLibraries})
          PROVE  NotElf \in Range(needs)
        <3> DEFINE all == Cardinality(Libraries)
        <3>1. Edges \in Nat /\ all \in Nat
            BY <2>0, WalkCounts, Zenon
        <3>2. /\ MaxResolvingDepth \in Nat /\ MaxResolvedEntries \in Nat
              /\ MaxLoadedEntries \in Nat /\ MaxImportedLibraries \in Nat
              /\ MaxWorkQueueSize \in Nat
            BY LibAssumption, Zenon
        <3>3. /\ Edges <= MaxResolvedEntries /\ Edges <= MaxWorkQueueSize
              /\ all <= MaxLoadedEntries /\ all <= MaxImportedLibraries
              /\ all < MaxResolvingDepth
            BY <2>3, <3>1, <3>2, WithinBoth, Zenon
        <3> HIDE DEF all
        <3>4. /\ ~(Edges > MaxResolvedEntries) /\ ~(Edges > MaxWorkQueueSize)
              /\ ~(all > MaxLoadedEntries) /\ ~(all > MaxImportedLibraries)
              /\ ~(all >= MaxResolvingDepth)
            BY <3>1, <3>2, <3>3
        <3> QED BY <2>3, <3>4, Zenon DEF LibInv, Exhausted, all
    <2> QED BY <2>1, <2>2, <2>3, Zenon DEF LibrariesAreComplete, Closed
<1> QED BY <1>1, LibInvariance, PTL
=============================================================================
