----------------------------- MODULE CommsProofs -----------------------------
(***************************************************************************)
(* MessagesArriveWhole for any number of threads at either end of a Comms  *)
(* channel and any socket, however its reads and writes are cut.  What a   *)
(* receiver has read, what is in the socket and what a sender still has to *)
(* write are, taken together, the messages begun and not yet consumed.     *)
(* Where each of them ends in the stream is a function of its place in the *)
(* log.                                                                    *)
(***************************************************************************)
EXTENDS CommsChannel, SequenceTheorems, TLAPS

Messages == [from : Senders, n : Nat, len : Nat]
Units == {<<m, k>> : m \in Messages, k \in {"tag", "len", "value"}}

\* The units of a message.
Size(m) == HeaderUnits + m.len

\* The first size units of f are the messages g + 1 to n of log, one after the
\* other; message i ends at end[i].
FramedAt(end, f, size, log, g, n) ==
    /\ g <= n /\ end \in [g .. n -> Nat] /\ end[g] = 0 /\ end[n] = size
    /\ \A i, j \in g .. n : i <= j => end[i] <= end[j]
    /\ \A i \in (g + 1) .. n : end[i] = end[i - 1] + Size(log[i])
    /\ \A i \in (g + 1) .. n : \A j \in 1 .. Size(log[i]) :
         f[end[i - 1] + j] = UnitsOf(log[i])[j]

\* Stream s consists of the messages of log after the first g.
Framed(s, log, g) == \E end : FramedAt(end, s, Len(s), log, g, Len(log))

\* Message g + 1 comes first.
Begins(end, f, size, log, g, n) ==
    /\ g + 1 \in 1 .. n /\ Size(log[g + 1]) <= size
    /\ end[g + 1] = 0 + Size(log[g + 1])
    /\ \A j \in 1 .. Size(log[g + 1]) : f[j] = UnitsOf(log[g + 1])[j]

\* One more message, of k units.
Appended(f2, log2, k, f, size, log, n) ==
    /\ Size(log2[n + 1]) = k
    /\ \A i \in 1 .. n : log2[i] = log[i] /\ Size(log[i]) \in Nat
    /\ \A i \in 1 .. size : f2[i] = f[i]
    /\ \A j \in 1 .. k : f2[size + j] = UnitsOf(log2[n + 1])[j]

\* The first k of size units are taken away.
Dropped(f2, size2, k, f, size) ==
    size = k + size2 /\ \A j \in 1 .. size2 : f2[j] = f[k + j]

\* A message that is begun comes last.
LEMMA FramedAtAppend ==
    ASSUME NEW end, NEW f, NEW size, NEW log, NEW g, NEW n, FramedAt(end, f, size, log, g, n),
           size \in Nat, g \in Nat, n \in Nat,
           NEW f2, NEW log2, NEW k, Appended(f2, log2, k, f, size, log, n), k \in Nat
    PROVE  \E e : FramedAt(e, f2, size + k, log2, g, n + 1)
<1> DEFINE end2 == [i \in g .. n + 1 |-> IF i = n + 1 THEN size + k ELSE end[i]]
<1>1. /\ g <= n /\ end \in [g .. n -> Nat] /\ end[g] = 0 /\ end[n] = size
      /\ \A i, j \in g .. n : i <= j => end[i] <= end[j]
      /\ \A i \in (g + 1) .. n : end[i] = end[i - 1] + Size(log[i])
      /\ \A i \in (g + 1) .. n : \A j \in 1 .. Size(log[i]) :
           f[end[i - 1] + j] = UnitsOf(log[i])[j]
    BY Zenon DEF FramedAt
<1>2. \A i \in g .. n : end[i] \in Nat /\ end[i] <= size
    BY <1>1
<1>a. /\ Size(log2[n + 1]) = k
      /\ \A i \in 1 .. n : log2[i] = log[i] /\ Size(log[i]) \in Nat
      /\ \A i \in 1 .. size : f2[i] = f[i]
      /\ \A j \in 1 .. k : f2[size + j] = UnitsOf(log2[n + 1])[j]
    BY Zenon DEF Appended
<1>3. /\ end2 \in [g .. n + 1 -> Nat] /\ end2[n + 1] = size + k
      /\ \A i \in g .. n : end2[i] = end[i]
    BY <1>1, <1>2
<1> HIDE DEF end2
<1>4. g <= n + 1 /\ end2[g] = 0
    BY <1>1, <1>3
<1>5. \A i, j \in g .. n + 1 : i <= j => end2[i] <= end2[j]
    <2> SUFFICES ASSUME NEW i \in g .. n + 1, NEW j \in g .. n + 1, i <= j
                 PROVE  end2[i] <= end2[j]
        OBVIOUS
    <2>1. CASE j # n + 1
        BY <1>1, <1>3, <2>1
    <2>2. CASE j = n + 1
        BY <1>2, <1>3, <2>2
    <2> QED BY <2>1, <2>2, Zenon
<1>6. ASSUME NEW i \in (g + 1) .. n + 1
      PROVE  /\ end2[i] = end2[i - 1] + Size(log2[i])
             /\ \A j \in 1 .. Size(log2[i]) : f2[end2[i - 1] + j] = UnitsOf(log2[i])[j]
    <2>1. i - 1 \in g .. n /\ end2[i - 1] = end[i - 1] /\ end[i - 1] \in Nat
        BY <1>1, <1>2, <1>3
    <2>2. CASE i # n + 1
        <3>1. i \in (g + 1) .. n /\ i \in 1 .. n /\ i \in g .. n
            BY <2>2
        <3>2. /\ log2[i] = log[i] /\ Size(log[i]) \in Nat /\ end2[i] = end[i]
              /\ end[i] = end[i - 1] + Size(log[i]) /\ end[i] <= size
            BY <1>1, <1>2, <1>3, <1>a, <3>1, Zenon
        <3>3. ASSUME NEW j \in 1 .. Size(log[i])
              PROVE  f2[end[i - 1] + j] = UnitsOf(log[i])[j]
            <4>1. end[i - 1] + j \in 1 .. size
                BY <2>1, <3>2
            <4>2. f2[end[i - 1] + j] = f[end[i - 1] + j]
                BY <1>a, <4>1, Zenon
            <4>3. f[end[i - 1] + j] = UnitsOf(log[i])[j]
                BY <1>1, <3>1, Zenon
            <4> QED BY <4>2, <4>3, Zenon
        <3> QED BY <2>1, <3>2, <3>3, Zenon
    <2>3. CASE i = n + 1
        <3>1. i - 1 = n
            BY <2>3
        <3>2. end2[i - 1] = size /\ end2[i] = size + k
            BY <1>1, <1>3, <2>1, <2>3, <3>1, Zenon
        <3>3. /\ Size(log2[i]) = k
              /\ \A j \in 1 .. k : f2[size + j] = UnitsOf(log2[i])[j]
            BY <1>a, <2>3, Zenon
        <3> QED BY <3>2, <3>3, Zenon
    <2> QED BY <2>2, <2>3, Zenon
<1>7. FramedAt(end2, f2, size + k, log2, g, n + 1)
    BY <1>3, <1>4, <1>5, <1>6, Zenon DEF FramedAt
<1> QED BY <1>7, Zenon

\* A stream that is not empty begins with the first message.
LEMMA FramedAtHead ==
    ASSUME NEW end, NEW f, NEW size, NEW log, NEW g, NEW n, FramedAt(end, f, size, log, g, n),
           size \in Nat, size # 0, g \in Nat, n \in Nat, \A i \in 1 .. n : Size(log[i]) \in Nat
    PROVE  Begins(end, f, size, log, g, n)
<1>1. /\ g <= n /\ end \in [g .. n -> Nat] /\ end[g] = 0 /\ end[n] = size
      /\ \A i, j \in g .. n : i <= j => end[i] <= end[j]
      /\ \A i \in (g + 1) .. n : end[i] = end[i - 1] + Size(log[i])
      /\ \A i \in (g + 1) .. n : \A j \in 1 .. Size(log[i]) :
           f[end[i - 1] + j] = UnitsOf(log[i])[j]
    BY Zenon DEF FramedAt
<1>2. g # n
    BY <1>1, Zenon
<1>3. /\ g + 1 \in 1 .. n /\ g + 1 \in (g + 1) .. n /\ (g + 1) - 1 = g
      /\ g + 1 \in g .. n /\ n \in g .. n /\ g + 1 <= n
    BY <1>1, <1>2
<1>4. /\ end[g + 1] = end[(g + 1) - 1] + Size(log[g + 1]) /\ end[g + 1] <= end[n]
      /\ \A j \in 1 .. Size(log[g + 1]) : f[end[(g + 1) - 1] + j] = UnitsOf(log[g + 1])[j]
    BY <1>1, <1>3, Zenon
<1>5. end[(g + 1) - 1] = 0
    BY <1>1, <1>3, Zenon
<1>6. end[g + 1] = 0 + Size(log[g + 1]) /\ end[g + 1] \in Nat
    BY <1>1, <1>3, <1>4, <1>5, Zenon
<1>7. ASSUME NEW j \in 1 .. Size(log[g + 1]) PROVE f[j] = UnitsOf(log[g + 1])[j]
    <2>1. f[0 + j] = UnitsOf(log[g + 1])[j]
        BY <1>4, <1>5, Zenon
    <2>2. 0 + j = j
        OBVIOUS
    <2> QED BY <2>1, <2>2, Zenon
<1>8. Size(log[g + 1]) <= size
    <2>1. Size(log[g + 1]) \in Nat
        BY <1>3, Zenon
    <2> QED BY <1>1, <1>4, <1>6, <2>1
<1> QED BY <1>3, <1>6, <1>7, <1>8, Zenon DEF Begins

\* The first message is consumed.
LEMMA FramedAtTail ==
    ASSUME NEW end, NEW f, NEW size, NEW log, NEW g, NEW n, FramedAt(end, f, size, log, g, n),
           size \in Nat, g \in Nat, n \in Nat, \A i \in 1 .. n : Size(log[i]) \in Nat,
           NEW f2, NEW size2, NEW k, Dropped(f2, size2, k, f, size), k \in Nat, size2 \in Nat,
           g + 1 \in 1 .. n, end[g + 1] = k
    PROVE  \E e : FramedAt(e, f2, size2, log, g + 1, n)
<1> DEFINE end2 == [i \in g + 1 .. n |-> end[i] - k]
<1>1. /\ g <= n /\ end \in [g .. n -> Nat] /\ end[g] = 0 /\ end[n] = size
      /\ \A i, j \in g .. n : i <= j => end[i] <= end[j]
      /\ \A i \in (g + 1) .. n : end[i] = end[i - 1] + Size(log[i])
      /\ \A i \in (g + 1) .. n : \A j \in 1 .. Size(log[i]) :
           f[end[i - 1] + j] = UnitsOf(log[i])[j]
    BY Zenon DEF FramedAt
<1>2. g + 1 \in 1 .. n
    OBVIOUS
<1>a. size = k + size2 /\ \A j \in 1 .. size2 : f2[j] = f[k + j]
    BY Zenon DEF Dropped
<1>3. end[g + 1] = k
    OBVIOUS
<1>4. \A i \in g + 1 .. n : end[i] \in Nat /\ k <= end[i] /\ end[i] <= size
    BY <1>1, <1>2, <1>3
<1>5. /\ end2 \in [g + 1 .. n -> Nat]
      /\ \A i \in g + 1 .. n : end2[i] = end[i] - k
    BY <1>4
<1> HIDE DEF end2
<1>6. g + 1 <= n /\ end2[g + 1] = 0 /\ end2[n] = size2
    BY <1>1, <1>2, <1>3, <1>5, <1>a
<1>7. \A i, j \in g + 1 .. n : i <= j => end2[i] <= end2[j]
    <2> SUFFICES ASSUME NEW i \in g + 1 .. n, NEW j \in g + 1 .. n, i <= j
                 PROVE  end2[i] <= end2[j]
        OBVIOUS
    <2>1. end[i] <= end[j]
        BY <1>1
    <2>2. end2[i] = end[i] - k /\ end2[j] = end[j] - k /\ end[i] \in Nat /\ end[j] \in Nat
        BY <1>4, <1>5, Zenon
    <2> QED BY <2>1, <2>2
<1>8. ASSUME NEW i \in ((g + 1) + 1) .. n
      PROVE  /\ end2[i] = end2[i - 1] + Size(log[i])
             /\ \A j \in 1 .. Size(log[i]) : f2[end2[i - 1] + j] = UnitsOf(log[i])[j]
    <2>1. i \in (g + 1) .. n /\ i - 1 \in (g + 1) .. n /\ i \in 1 .. n
        OBVIOUS
    <2>2. /\ end[i] = end[i - 1] + Size(log[i]) /\ Size(log[i]) \in Nat
          /\ end2[i] = end[i] - k /\ end2[i - 1] = end[i - 1] - k
          /\ end[i] \in Nat /\ end[i - 1] \in Nat /\ k <= end[i - 1] /\ end[i] <= size
        BY <1>1, <1>4, <1>5, <2>1, Zenon
    <2>3. end2[i] = end2[i - 1] + Size(log[i])
        BY <2>2
    <2>4. ASSUME NEW j \in 1 .. Size(log[i])
          PROVE  f2[end2[i - 1] + j] = UnitsOf(log[i])[j]
        <3>1. end2[i - 1] + j \in 1 .. size2 /\ k + (end2[i - 1] + j) = end[i - 1] + j
            BY <1>a, <2>2
        <3>2. f[end[i - 1] + j] = UnitsOf(log[i])[j]
            BY <1>1, <2>1, Zenon
        <3>3. f2[end2[i - 1] + j] = f[k + (end2[i - 1] + j)]
            BY <1>a, <3>1, Zenon
        <3> QED BY <3>1, <3>2, <3>3, Zenon
    <2> QED BY <2>3, <2>4, Zenon
<1>9. FramedAt(end2, f2, size2, log, g + 1, n)
    BY <1>5, <1>6, <1>7, <1>8, Zenon DEF FramedAt
<1> QED BY <1>9, Zenon

\* A function on 1..n is a sequence of n elements.
LEMMA SeqOfLength ==
    ASSUME NEW n \in Nat, NEW S, NEW f \in [1 .. n -> S]
    PROVE  f \in Seq(S) /\ Len(f) = n
<1>1. f \in Seq(S)
    BY SeqDef, Zenon
<1>2. Len(f) \in Nat /\ DOMAIN f = 1 .. Len(f) /\ DOMAIN f = 1 .. n
    BY <1>1, LenProperties, Zenon
<1> DEFINE l == Len(f)
<1>3. l \in Nat /\ \A i \in Nat : i \in 1 .. l <=> i \in 1 .. n
    BY <1>2, Zenon
<1> HIDE DEF l
<1>4. l = n
    <2>1. CASE l < n
        BY <1>3, <2>1
    <2>2. CASE n < l
        BY <1>3, <2>2
    <2> QED BY <1>3, <2>1, <2>2
<1> QED BY <1>1, <1>4, Zenon DEF l

\* UnitsOf(m) is a sequence of Size(m) units that begins with the tag.
LEMMA UnitsOfMessage ==
    ASSUME NEW m \in Messages
    PROVE  /\ UnitsOf(m) \in Seq(Units) /\ Len(UnitsOf(m)) = Size(m)
           /\ m.len \in Nat /\ Size(m) \in Nat \ {0} /\ UnitsOf(m)[1] = <<m, "tag">>
<1> DEFINE header == <<<<m, "tag">>, <<m, "len">>, <<m, "len">>>>
           value == [i \in 1 .. m.len |-> <<m, "value">>]
<1>1. m.len \in Nat /\ <<m, "tag">> \in Units /\ <<m, "len">> \in Units /\ <<m, "value">> \in Units
    BY DEF Messages, Units
<1>2. header \in Seq(Units) /\ Len(header) = 3 /\ header[1] = <<m, "tag">>
    BY <1>1
<1>3. value \in Seq(Units) /\ Len(value) = m.len
    <2>1. value \in [1 .. m.len -> Units]
        BY <1>1, Zenon
    <2> QED BY <1>1, <2>1, SeqOfLength, Zenon
<1>4. UnitsOf(m) = header \o value
    BY Zenon DEF UnitsOf
<1> HIDE DEF header, value
<1>5. /\ header \o value \in Seq(Units) /\ Len(header \o value) = Len(header) + Len(value)
      /\ \A i \in 1 .. Len(header) + Len(value) :
           (header \o value)[i] = IF i <= Len(header) THEN header[i] ELSE value[i - Len(header)]
    BY <1>2, <1>3, ConcatProperties, Zenon
<1>6. 1 \in 1 .. Len(header) + Len(value) /\ 1 <= Len(header)
    BY <1>1, <1>2, <1>3
<1>7. (header \o value)[1] = header[1]
    BY <1>5, <1>6, Zenon
<1>8. Len(header) + Len(value) = Size(m) /\ Size(m) \in Nat \ {0}
    BY <1>1, <1>2, <1>3 DEF Size, HeaderUnits
<1> QED BY <1>1, <1>2, <1>4, <1>5, <1>7, <1>8, Zenon

\* The messages of a log have a size.
LEMMA SizesOfLog ==
    ASSUME NEW log \in Seq(Messages)
    PROVE  /\ Len(log) \in Nat
           /\ \A i \in 1 .. Len(log) : log[i] \in Messages /\ Size(log[i]) \in Nat
<1>1. Len(log) \in Nat /\ \A i \in 1 .. Len(log) : log[i] \in Messages
    BY LenProperties, ElementOfSeq, Zenon
<1>2. \A m \in Messages : Size(m) \in Nat
    BY UnitsOfMessage, Zenon
<1> QED BY <1>1, <1>2, Zenon

\* Two streams, one after the other.
LEMMA ConcatUnits ==
    ASSUME NEW S, NEW a \in Seq(S), NEW b \in Seq(S)
    PROVE  /\ a \o b \in Seq(S) /\ Len(a \o b) = Len(a) + Len(b)
           /\ Len(a) \in Nat /\ Len(b) \in Nat
           /\ \A i \in 1 .. Len(a) : (a \o b)[i] = a[i]
           /\ \A j \in 1 .. Len(b) : (a \o b)[Len(a) + j] = b[j]
<1> DEFINE c == a \o b
           k == Len(a)
           l == Len(b)
<1>1. k \in Nat /\ l \in Nat
    BY LenProperties, Zenon
<1>2. /\ c \in Seq(S) /\ Len(c) = k + l
      /\ \A i \in 1 .. k + l : c[i] = IF i <= k THEN a[i] ELSE b[i - k]
    BY ConcatProperties, Zenon
<1> HIDE DEF c, k, l
<1>3. ASSUME NEW i \in 1 .. k PROVE c[i] = a[i]
    <2>1. i \in 1 .. k + l /\ i <= k
        BY <1>1
    <2> QED BY <1>2, <2>1, Zenon
<1>4. ASSUME NEW j \in 1 .. l PROVE c[k + j] = b[j]
    <2>1. k + j \in 1 .. k + l /\ ~(k + j <= k) /\ (k + j) - k = j
        BY <1>1
    <2>2. c[k + j] = b[(k + j) - k]
        BY <1>2, <2>1, Zenon
    <2> QED BY <2>1, <2>2, Zenon
<1> QED BY <1>1, <1>2, <1>3, <1>4, Zenon DEF c, k, l

\* A message that is begun comes last in the stream.
LEMMA FramedAppend ==
    ASSUME NEW s \in Seq(Units), NEW log \in Seq(Messages), NEW g \in Nat, Framed(s, log, g),
           NEW m \in Messages
    PROVE  Framed(s \o UnitsOf(m), Append(log, m), g)
<1> DEFINE u == UnitsOf(m)
           s2 == s \o u
           log2 == Append(log, m)
           n == Len(log)
           size == Len(s)
           k == Size(m)
<1>1. Len(u) = k /\ k \in Nat
    BY UnitsOfMessage, Zenon
<1>0. u \in Seq(Units)
    BY UnitsOfMessage, Zenon
<1>2. n \in Nat /\ \A i \in 1 .. n : Size(log[i]) \in Nat
    BY SizesOfLog, Zenon
<1>3. /\ Len(log2) = n + 1 /\ log2[n + 1] = m
      /\ \A i \in 1 .. n : log2[i] = log[i]
    BY AppendProperties
<1>4. /\ s2 \in Seq(Units) /\ Len(s2) = size + Len(u)
      /\ size \in Nat /\ Len(u) \in Nat
      /\ \A i \in 1 .. size : s2[i] = s[i]
      /\ \A j \in 1 .. Len(u) : s2[size + j] = u[j]
    <2> HIDE DEF u
    <2>1. /\ s2 \in Seq(Units) /\ Len(s2) = size + Len(u) /\ size \in Nat /\ Len(u) \in Nat
          /\ \A i \in 1 .. size : s2[i] = s[i]
        BY <1>0, ConcatUnits, Zenon
    <2>2. \A j \in 1 .. Len(u) : s2[size + j] = u[j]
        BY <1>0, ConcatUnits
    <2> QED BY <2>1, <2>2, Zenon
<1>5. PICK end : FramedAt(end, s, size, log, g, n)
    BY Zenon DEF Framed
<1>6. Appended(s2, log2, k, s, size, log, n)
    BY <1>1, <1>2, <1>3, <1>4, Zenon DEF Appended
<1> HIDE DEF u, s2, log2, n, size, k
<1>7. \E e : FramedAt(e, s2, size + k, log2, g, n + 1)
    BY <1>1, <1>2, <1>4, <1>5, <1>6, FramedAtAppend, Zenon
<1>8. \E e : FramedAt(e, s2, Len(s2), log2, g, Len(log2))
    BY <1>1, <1>3, <1>4, <1>7, Zenon
<1>9. Framed(s2, log2, g)
    BY <1>8, Zenon DEF Framed
<1> QED BY <1>9, Zenon DEF s2, log2, u

\* A stream that is not empty begins with the first message after those consumed.
LEMMA FramedHead ==
    ASSUME NEW s \in Seq(Units), NEW log \in Seq(Messages), NEW g \in Nat, Framed(s, log, g),
           s # <<>>
    PROVE  /\ g + 1 \in 1 .. Len(log) /\ log[g + 1] \in Messages
           /\ Size(log[g + 1]) \in Nat /\ Size(log[g + 1]) <= Len(s)
           /\ \A j \in 1 .. Size(log[g + 1]) : s[j] = UnitsOf(log[g + 1])[j]
<1> DEFINE n == Len(log)
           size == Len(s)
<1>1. size \in Nat /\ size # 0
    BY EmptySeq, LenProperties, Zenon
<1>2. n \in Nat /\ \A i \in 1 .. n : log[i] \in Messages
    BY SizesOfLog, Zenon
<1>a. \A i \in 1 .. n : Size(log[i]) \in Nat
    BY SizesOfLog, Zenon
<1>3. PICK end : FramedAt(end, s, size, log, g, n)
    BY Zenon DEF Framed
<1> HIDE DEF n, size
<1>4. Begins(end, s, size, log, g, n)
    BY <1>1, <1>2, <1>3, <1>a, FramedAtHead, Zenon
<1>5. /\ g + 1 \in 1 .. n /\ Size(log[g + 1]) <= size
      /\ \A j \in 1 .. Size(log[g + 1]) : s[j] = UnitsOf(log[g + 1])[j]
    BY <1>4, Zenon DEF Begins
<1> QED BY <1>2, <1>5, <1>a, Zenon DEF n, size

\* The first message is consumed.
LEMMA FramedTail ==
    ASSUME NEW u \in Seq(Units), NEW s \in Seq(Units), NEW log \in Seq(Messages), NEW g \in Nat,
           Framed(u \o s, log, g)
    PROVE  u \o s # <<>> /\ Len(u) = Size(log[g + 1]) => Framed(s, log, g + 1)
<1> DEFINE s0 == u \o s
           n == Len(log)
           size == Len(s0)
           k == Len(u)
           size2 == Len(s)
<1>1. /\ s0 \in Seq(Units) /\ size = k + size2
      /\ k \in Nat /\ size2 \in Nat
      /\ \A i \in 1 .. k : s0[i] = u[i]
      /\ \A j \in 1 .. size2 : s0[k + j] = s[j]
    <2>1. /\ s0 \in Seq(Units) /\ size = k + size2 /\ k \in Nat /\ size2 \in Nat
          /\ \A i \in 1 .. k : s0[i] = u[i]
        BY ConcatUnits, Zenon
    <2>2. \A j \in 1 .. size2 : s0[k + j] = s[j]
        BY ConcatUnits
    <2> QED BY <2>1, <2>2, Zenon
<1>0. SUFFICES ASSUME s0 # <<>>, k = Size(log[g + 1]) PROVE Framed(s, log, g + 1)
    OBVIOUS
<1>2. size \in Nat /\ size # 0
    BY <1>0, <1>1, EmptySeq, LenProperties, Zenon
<1>3. n \in Nat /\ \A i \in 1 .. n : Size(log[i]) \in Nat
    BY SizesOfLog, Zenon
<1>4. PICK end : FramedAt(end, s0, size, log, g, n)
    BY Zenon DEF Framed
<1>5. Dropped(s, size2, k, s0, size)
    BY <1>1, Zenon DEF Dropped
<1> HIDE DEF s0, n, size, k, size2
<1>6. g + 1 \in 1 .. n /\ end[g + 1] = 0 + Size(log[g + 1])
    <2>1. Begins(end, s0, size, log, g, n)
        BY <1>2, <1>3, <1>4, FramedAtHead, Zenon
    <2> QED BY <2>1, Zenon DEF Begins
<1>7. end[g + 1] = k
    BY <1>0, <1>1, <1>6
<1>9. \E e : FramedAt(e, s, size2, log, g + 1, n)
    BY <1>1, <1>2, <1>3, <1>4, <1>5, <1>6, <1>7, FramedAtTail, Zenon
<1> QED BY <1>9, Zenon DEF Framed, n, size2

\* A stream in which nothing is left: everything begun was consumed.
LEMMA FramedNothing ==
    ASSUME NEW log \in Seq(Messages) PROVE Framed(<<>>, log, Len(log))
<1> DEFINE n == Len(log)
           s == <<>>
           end == [i \in n .. n |-> 0]
<1>1. n \in Nat /\ Len(s) = 0
    BY LenProperties, Zenon
<1> HIDE DEF n, s
<1>2. /\ n <= n /\ end \in [n .. n -> Nat] /\ end[n] = 0
      /\ \A i, j \in n .. n : i <= j => end[i] <= end[j]
      /\ (n + 1) .. n = {}
    BY <1>1
<1> HIDE DEF end
<1>3. FramedAt(end, s, Len(s), log, n, n)
    BY <1>1, <1>2, Zenon DEF FramedAt
<1>4. Framed(s, log, n)
    BY <1>3, Zenon DEF Framed, n
<1> QED BY <1>4, Zenon DEF n, s

Regroups(a, b, c) == (a \o b) \o c = a \o (b \o c)

\* Concatenation is associative, with the equation behind a name.
LEMMA Regrouped ==
    ASSUME NEW S, NEW a \in Seq(S), NEW b \in Seq(S), NEW c \in Seq(S)
    PROVE  Regroups(a, b, c)
BY ConcatAssociative DEF Regroups

\* A sequence is its head and then its tail.
LEMMA HeadThenTail ==
    ASSUME NEW S, NEW s \in Seq(S), s # <<>>
    PROVE  <<Head(s)>> \o Tail(s) = s
<1> DEFINE one == <<Head(s)>>
           t == Tail(s)
           r == one \o t
           n == Len(s)
           l == Len(t)
<1>0. t \in Seq(S) /\ one \in Seq(S)
    BY HeadTailProperties
<1>1. l = n - 1 /\ \A i \in 1 .. l : t[i] = s[i + 1]
    BY HeadTailProperties, Zenon
<1>2. Len(one) = 1 /\ one[1] = s[1]
    BY HeadTailProperties
<1>3. n \in Nat /\ n # 0
    BY EmptySeq, LenProperties, Zenon
<1> HIDE DEF one, t, n, l
<1>4. /\ r \in Seq(S) /\ Len(r) = Len(one) + l
      /\ \A i \in 1 .. Len(one) : r[i] = one[i]
    BY <1>0, ConcatUnits, Zenon DEF l
<1>5. \A j \in 1 .. l : r[Len(one) + j] = t[j]
    BY <1>0, ConcatUnits DEF l
<1> HIDE DEF r
<1>6. Len(r) = n /\ l \in Nat /\ l = n - 1
    BY <1>1, <1>2, <1>3, <1>4
<1>7. ASSUME NEW i \in 1 .. n PROVE r[i] = s[i]
    <2>1. CASE i = 1
        <3>1. 1 \in 1 .. 1
            OBVIOUS
        <3> QED BY <1>2, <1>4, <2>1, <3>1, Zenon
    <2>2. CASE i # 1
        <3>1. i - 1 \in 1 .. l /\ 1 + (i - 1) = i /\ (i - 1) + 1 = i
            BY <1>3, <1>6, <2>2
        <3>2. r[1 + (i - 1)] = t[i - 1] /\ t[i - 1] = s[(i - 1) + 1]
            BY <1>1, <1>2, <1>5, <3>1, Zenon
        <3> QED BY <3>1, <3>2, Zenon
    <2> QED BY <2>1, <2>2, Zenon
<1>8. r = s
    <2>1. Len(r) = Len(s) /\ \A i \in 1 .. Len(r) : r[i] = s[i]
        BY <1>6, <1>7, Zenon DEF n
    <2> QED BY <1>4, <2>1, SeqEqual, Zenon
<1> QED BY <1>8, Zenon DEF r, one, t

\* A unit goes into the socket: the stream stays as it is.
SentOne(got, w, rest, S) ==
    /\ Append(w, Head(rest)) \in Seq(S) /\ Tail(rest) \in Seq(S)
    /\ got \o (Append(w, Head(rest)) \o Tail(rest)) = got \o (w \o rest)

\* Send(): a unit that moves from the sender to the socket leaves the stream as it was.
LEMMA UnitSent ==
    ASSUME NEW S, NEW got \in Seq(S), NEW w \in Seq(S), NEW rest \in Seq(S), rest # <<>>
    PROVE  SentOne(got, w, rest, S)
<1> DEFINE h == Head(rest)
           one == <<Head(rest)>>
           t == Tail(rest)
<1>1. h \in S /\ t \in Seq(S)
    BY HeadTailProperties, Zenon
<1>2. one \in Seq(S)
    BY <1>1
<1>3. one \o t = rest
    BY HeadThenTail, Zenon
<1> HIDE DEF one, t, h
<1>4. Append(w, h) \in Seq(S) /\ Append(w, h) = w \o one
    BY <1>1, AppendProperties, AppendIsConcat, Zenon DEF one, h
<1>5. Append(w, h) \o t = w \o rest
    <2>1. Regroups(w, one, t)
        BY <1>1, <1>2, Regrouped, Zenon
    <2> QED BY <1>3, <1>4, <2>1, Zenon DEF Regroups
<1> QED BY <1>1, <1>4, <1>5, Zenon DEF h, t, SentOne

\* Some units are read from the socket: the stream stays as it is.
ReadSome(got, w, rest, k, S) ==
    /\ SubSeq(w, k + 1, Len(w)) \in Seq(S)
    /\ got \o SubSeq(w, 1, k) \in Seq(S)
    /\ Len(got \o SubSeq(w, 1, k)) = Len(got) + k
    /\ (got \o SubSeq(w, 1, k)) \o (SubSeq(w, k + 1, Len(w)) \o rest) = got \o (w \o rest)

\* Recv(): units that move from the socket to the receiver leave the stream as it was.
LEMMA UnitsRead ==
    ASSUME NEW S, NEW got \in Seq(S), NEW w \in Seq(S), NEW rest \in Seq(S),
           NEW k \in 1 .. Len(w)
    PROVE  ReadSome(got, w, rest, k, S)
<1> DEFINE a == SubSeq(w, 1, k)
           b == SubSeq(w, k + 1, Len(w))
<1>1. /\ Len(w) \in Nat /\ k \in Nat /\ k <= Len(w) /\ 1 \in 1 .. Len(w) + 1
      /\ k \in 1 - 1 .. Len(w)
      /\ Len(w) \in k .. Len(w) /\ 1 \in Int /\ k \in Int /\ k + 1 \in Int /\ Len(w) \in Int
      /\ \A i \in 1 .. k : w[i] \in S
      /\ \A i \in k + 1 .. Len(w) : w[i] \in S
    <2> DEFINE n == Len(w)
    <2>1. n \in Nat /\ \A i \in 1 .. n : w[i] \in S
        BY LenProperties, ElementOfSeq, Zenon
    <2>2. k \in 1 .. n
        OBVIOUS
    <2> HIDE DEF n
    <2>3. /\ n \in Nat /\ k \in Nat /\ k <= n /\ 1 \in 1 .. n + 1 /\ k \in 1 - 1 .. n
          /\ n \in k .. n /\ 1 \in Int /\ k \in Int /\ k + 1 \in Int /\ n \in Int
        BY <2>1, <2>2
    <2>4. \A i \in 1 .. k : i \in 1 .. n
        BY <2>1, <2>2
    <2>5. \A i \in k + 1 .. n : i \in 1 .. n
        BY <2>1, <2>2
    <2> QED BY <2>1, <2>3, <2>4, <2>5, Zenon DEF n
<1>a. 1 \in Int /\ k \in Int /\ \A i \in 1 .. k : w[i] \in S
    BY <1>1, Zenon
<1>2. a \in Seq(S) /\ Len(a) = IF 1 <= k THEN k - 1 + 1 ELSE 0
    BY <1>a, SubSeqProperties
<1>3. b \in Seq(S)
    BY <1>1, SubSeqProperties, Zenon
<1>4. a \o b = w
    <2>1. a \o b = SubSeq(w, 1, Len(w))
        BY <1>1, ConcatAdjacentSubSeq, Zenon
    <2> QED BY <2>1, SubSeqFull, Zenon
<1>5. Len(a) = k
    BY <1>1, <1>2
<1> HIDE DEF a, b
<1>6. got \o a \in Seq(S) /\ Len(got \o a) = Len(got) + Len(a)
    BY <1>2, ConcatProperties, Zenon
<1>7. (got \o a) \o (b \o rest) = got \o (w \o rest)
    <2>1. b \o rest \in Seq(S)
        BY <1>3, ConcatProperties, Zenon
    <2>2. Regroups(got, a, b \o rest)
        BY <1>2, <2>1, Regrouped, Zenon
    <2>3. a \o (b \o rest) = w \o rest
        <3>1. Regroups(a, b, rest)
            BY <1>2, <1>3, Regrouped, Zenon
        <3> QED BY <1>4, <3>1, Zenon DEF Regroups
    <2> QED BY <2>2, <2>3, Zenon DEF Regroups
<1> QED BY <1>3, <1>5, <1>6, <1>7, Zenon DEF a, b, ReadSome

\* What was read of a framed stream, a header at least, is the beginning of the
\* first message.
InPlace(got, log, g) ==
    /\ g + 1 \in 1 .. Len(log) /\ log[g + 1] \in Messages
    /\ got[1][1] = log[g + 1]
    /\ got = SubSeq(UnitsOf(log[g + 1]), 1, Len(got))

\* What has been read at the front of a framed stream is the beginning of the next
\* message: Decode() finds no unit out of its place.
LEMMA ReadInPlace ==
    ASSUME NEW got \in Seq(Units), NEW s \in Seq(Units), NEW log \in Seq(Messages), NEW g \in Nat,
           Framed(got \o s, log, g), HeaderUnits <= Len(got),
           Len(got) = HeaderUnits \/ Len(got) <= Size(log[g + 1])
    PROVE  InPlace(got, log, g)
<1> DEFINE all == got \o s
           m == log[g + 1]
           u == UnitsOf(m)
           k == Len(got)
           l == Size(m)
<1>1. all \in Seq(Units) /\ Len(all) = k + Len(s) /\ k \in Nat /\ Len(s) \in Nat
    BY ConcatUnits, Zenon
<1>2. \A i \in 1 .. k : all[i] = got[i]
    BY ConcatUnits, Zenon
<1>3. all # <<>>
    <2>1. Len(all) # 0
        <3> HIDE DEF all, k
        <3>1. 3 <= k
            BY Zenon DEF k, HeaderUnits
        <3> QED BY <1>1, <3>1
    <2> QED BY <1>1, <2>1, EmptySeq, Zenon
<1> HIDE DEF all
<1>4. /\ g + 1 \in 1 .. Len(log) /\ m \in Messages /\ l \in Nat
      /\ \A j \in 1 .. l : all[j] = UnitsOf(m)[j]
    BY <1>1, <1>3, FramedHead, Zenon DEF all
<1>5. u \in Seq(Units) /\ Len(u) = l /\ u[1] = <<m, "tag">>
    BY <1>4, UnitsOfMessage, Zenon
<1>6. k <= l /\ 1 <= k
    <2>1. 3 <= l
        <3>1. m.len \in Nat
            BY <1>4, UnitsOfMessage, Zenon
        <3> HIDE DEF m
        <3> QED BY <3>1 DEF Size, HeaderUnits
    <2>2. 3 <= k /\ (k = 3 \/ k <= l)
        BY Zenon DEF HeaderUnits
    <2> HIDE DEF k, l
    <2> QED BY <1>1, <1>4, <2>1, <2>2
<1>7. /\ g + 1 \in 1 .. Len(log) /\ m \in Messages
      /\ \A j \in 1 .. l : all[j] = u[j]
    BY <1>4, Zenon
<1> HIDE DEF m, u, k, l
<1>8. \A j \in 1 .. k : got[j] = u[j]
    <2> TAKE j \in 1 .. k
    <2>1. j \in 1 .. l
        BY <1>1, <1>4, <1>6
    <2> QED BY <1>2, <1>7, <2>1, Zenon
<1>9. got[1][1] = m
    <2>1. 1 \in 1 .. k
        BY <1>1, <1>6
    <2>2. got[1] = <<m, "tag">>
        BY <1>5, <1>8, <2>1, Zenon
    <2> QED BY <2>2
<1> DEFINE v == SubSeq(u, 1, k)
<1>10. /\ v \in Seq(Units) /\ Len(v) = IF 1 <= k THEN k - 1 + 1 ELSE 0
       /\ \A i \in 1 .. k - 1 + 1 : v[i] = u[1 + i - 1]
    <2>1. 1 \in Int /\ k \in Int /\ \A i \in 1 .. k : i \in 1 .. l
        BY <1>1, <1>4, <1>6
    <2>2. \A i \in 1 .. l : u[i] \in Units
        BY <1>5, ElementOfSeq, Zenon
    <2>3. \A i \in 1 .. k : u[i] \in Units
        BY <2>1, <2>2, Zenon
    <2>4. 1 \in Int /\ k \in Int
        BY <2>1, Zenon
    <2> QED BY <2>3, <2>4, SubSeqProperties
<1> HIDE DEF v
<1>11. k - 1 + 1 = k /\ \A i \in 1 .. k : 1 + i - 1 = i
    BY <1>1
<1>12. Len(v) = k /\ \A i \in 1 .. k : v[i] = u[i]
    BY <1>6, <1>10, <1>11, Zenon
<1>13. got = v
    BY <1>8, <1>10, <1>12, SeqEqual, Zenon DEF k
<1> QED BY <1>7, <1>9, <1>13, Zenon DEF m, u, v, k, InPlace


\* What the thread in the critical section has, if there is one.
Held(f, mutex) == IF mutex = {} THEN <<>> ELSE f[CHOOSE p \in mutex : TRUE]
InFlight == Held(recvGot, recvMutex) \o (wire \o Held(sendRest, sendMutex))

CommsType ==
    /\ sendMutex \subseteq Senders /\ recvMutex \subseteq Receivers
    /\ sendCount \in [Senders -> Nat] /\ recvWant \in [Receivers -> Nat]
    /\ sendRest \in [Senders -> Seq(Units)] /\ recvGot \in [Receivers -> Seq(Units)]
    /\ wire \in Seq(Units) /\ sentLog \in Seq(Messages) /\ gotLog \in Seq(Messages)

\* One thread at either end is past the mutex, the others have nothing.
CommsMutex ==
    /\ \A t, u \in sendMutex : t = u
    /\ \A r, u \in recvMutex : r = u
    /\ \A t \in Senders \ sendMutex : sendRest[t] = <<>>
    /\ \A r \in Receivers \ recvMutex : recvGot[r] = <<>>

LogsInv ==
    /\ ~garbled /\ Len(gotLog) <= Len(sentLog)
    /\ \A i \in 1 .. Len(gotLog) : gotLog[i] = sentLog[i]

\* A receiver reads a header, then the rest of the first message.
WantInv ==
    \A r \in recvMutex :
      /\ HeaderUnits <= recvWant[r] /\ Len(recvGot[r]) <= recvWant[r]
      /\ recvWant[r] # HeaderUnits => /\ HeaderUnits <= Len(recvGot[r])
                                      /\ Len(gotLog) < Len(sentLog)
                            /\ recvWant[r] = Size(sentLog[Len(gotLog) + 1])

\* The sender is gone and nothing is left of what it sent.
Drained == ~senderUp /\ wire = <<>> /\ \A r \in Receivers : recvGot[r] = <<>>

StreamInv == receiverUp => Drained \/ Framed(InFlight, sentLog, Len(gotLog))

CommsCore == CommsType /\ CommsMutex /\ LogsInv /\ WantInv /\ StreamInv
TlvInv == ~tooLong => CommsCore

\* What the one thread in a critical section holds, and what nobody holds.
LEMMA HeldBy ==
    ASSUME NEW f, NEW p
    PROVE  Held(f, {p}) = f[p] /\ Held(f, {}) = <<>>
<1>1. (CHOOSE x \in {p} : TRUE) = p
    OBVIOUS
<1>2. {p} # {} /\ {} = {}
    OBVIOUS
<1> QED BY <1>1, <1>2, Zenon DEF Held

\* What is held in a critical section is a sequence of units.
LEMMA HeldType ==
    ASSUME NEW P, NEW f \in [P -> Seq(Units)], NEW mutex \in SUBSET P
    PROVE  Held(f, mutex) \in Seq(Units)
<1>1. CASE mutex = {}
    BY <1>1, EmptySeq, Zenon DEF Held
<1>2. CASE mutex # {}
    <2>1. (CHOOSE p \in mutex : TRUE) \in mutex
        BY <1>2, Zenon
    <2> QED BY <1>2, <2>1, Zenon DEF Held
<1> QED BY <1>1, <1>2, Zenon

\* The invariant holds before anything is sent.
LEMMA TlvInvInit == CommsInit => TlvInv
<1> SUFFICES ASSUME CommsInit PROVE CommsCore
    BY Zenon DEF TlvInv
<1>0. /\ wire = <<>> /\ sendMutex = {} /\ recvMutex = {} /\ sentLog = <<>> /\ gotLog = <<>>
      /\ sendRest = [t \in Senders |-> <<>>] /\ sendCount = [t \in Senders |-> 0]
      /\ recvGot = [r \in Receivers |-> <<>>] /\ recvWant = [r \in Receivers |-> 0]
      /\ garbled = FALSE
    BY Zenon DEF CommsInit
<1>1. <<>> \in Seq(Units) /\ <<>> \in Seq(Messages) /\ Len(<<>>) = 0 /\ 0 \in Nat
    BY EmptySeq, Zenon
<1>2. CommsType
    BY <1>0, <1>1, Zenon DEF CommsType
<1>3. CommsMutex /\ LogsInv /\ WantInv
    BY <1>0, <1>1 DEF CommsMutex, LogsInv, WantInv
<1>4. InFlight = <<>>
    <2>1. Held(recvGot, recvMutex) = <<>> /\ Held(sendRest, sendMutex) = <<>>
        BY <1>0, Zenon DEF Held
    <2>2. <<>> \o <<>> = <<>>
        BY <1>1, ConcatEmptySeq, Zenon
    <2> QED BY <1>0, <2>1, <2>2, Zenon DEF InFlight
<1>5. Framed(<<>>, <<>>, 0)
    BY <1>1, FramedNothing, Zenon
<1>6. StreamInv
    BY <1>0, <1>1, <1>4, <1>5, Zenon DEF StreamInv
<1> QED BY <1>2, <1>3, <1>6, Zenon DEF CommsCore

\* SendTLV takes the mutex.
LEMMA SendTLVInv ==
    ASSUME CommsCore, NEW t \in Senders, NEW len \in 0 .. 2, SendTLV(t, len)
    PROVE  CommsCore'
<1> DEFINE m == [from |-> t, n |-> sendCount[t] + 1, len |-> len]
           got == Held(recvGot, recvMutex)
<1>0. /\ CommsType /\ CommsMutex /\ LogsInv /\ WantInv /\ StreamInv
      /\ sendMutex = {} /\ senderUp
    BY Zenon DEF CommsCore, SendTLV, MaySend
<1>1. /\ sendRest' = [sendRest EXCEPT ![t] = UnitsOf(m)] /\ sentLog' = Append(sentLog, m)
      /\ sendMutex' = sendMutex \cup {t} /\ sendCount' = [sendCount EXCEPT ![t] = @ + 1]
      /\ UNCHANGED <<wire, recvMutex, recvGot, recvWant, gotLog, garbled, senderUp, receiverUp>>
    BY Zenon DEF SendTLV, recvVars
<1>2. m \in Messages
    BY <1>0 DEF Messages, CommsType
<1>3. UnitsOf(m) \in Seq(Units)
    BY <1>2, UnitsOfMessage, Zenon
<1> HIDE DEF m
<1>4. /\ sentLog' \in Seq(Messages) /\ Len(sentLog') = Len(sentLog) + 1 /\ Len(sentLog) \in Nat
      /\ \A i \in 1 .. Len(sentLog) : sentLog'[i] = sentLog[i]
    BY <1>0, <1>1, <1>2, AppendProperties, LenProperties DEF CommsType
<1>5. CommsType'
    BY <1>0, <1>1, <1>3, <1>4 DEF CommsType
<1>6. sendMutex' = {t}
    BY <1>0, <1>1, Zenon
<1>7. CommsMutex'
    <2>1. \A x \in Senders \ sendMutex' : sendRest'[x] = <<>>
        BY <1>0, <1>1, <1>6, Zenon DEF CommsMutex, CommsType
    <2> QED BY <1>0, <1>1, <1>6, <2>1, Zenon DEF CommsMutex
<1>8. Len(gotLog) \in Nat
    BY <1>0, LenProperties, Zenon DEF CommsType
<1>9. LogsInv'
    BY <1>0, <1>1, <1>4, <1>8 DEF LogsInv
<1>10. WantInv'
    <2> SUFFICES ASSUME NEW r \in recvMutex
                 PROVE  /\ HeaderUnits <= recvWant[r] /\ Len(recvGot[r]) <= recvWant[r]
                        /\ recvWant[r] # HeaderUnits =>
                             /\ HeaderUnits <= Len(recvGot[r]) /\ Len(gotLog) < Len(sentLog')
                             /\ recvWant[r] = Size(sentLog'[Len(gotLog) + 1])
        BY <1>1, Zenon DEF WantInv
    <2>1. /\ HeaderUnits <= recvWant[r] /\ Len(recvGot[r]) <= recvWant[r]
          /\ recvWant[r] # HeaderUnits => /\ HeaderUnits <= Len(recvGot[r])
                                          /\ Len(gotLog) < Len(sentLog)
                                /\ recvWant[r] = Size(sentLog[Len(gotLog) + 1])
        BY <1>0, Zenon DEF WantInv
    <2>2. Len(gotLog) < Len(sentLog) =>
             Len(gotLog) < Len(sentLog') /\ Len(gotLog) + 1 \in 1 .. Len(sentLog)
        BY <1>4, <1>8
    <2> QED BY <1>4, <2>1, <2>2, Zenon
<1>11. StreamInv'
    <2> SUFFICES ASSUME receiverUp PROVE Framed(InFlight', sentLog', Len(gotLog'))
        BY <1>1, Zenon DEF StreamInv
    <2>1. Framed(InFlight, sentLog, Len(gotLog))
        BY <1>0, Zenon DEF StreamInv, Drained
    <2>2. got \in Seq(Units) /\ wire \in Seq(Units)
        BY <1>0, HeldType, Zenon DEF CommsType
    <2>3. Held(sendRest, sendMutex) = <<>>
        BY <1>0, Zenon DEF Held
    <2>4. Held(sendRest', sendMutex') = UnitsOf(m)
        <3>1. sendRest'[t] = UnitsOf(m)
            BY <1>0, <1>1, Zenon DEF CommsType
        <3> QED BY <1>6, <3>1, HeldBy, Zenon
    <2>5. InFlight = got \o wire
        <3>1. wire \o <<>> = wire
            BY <2>2, ConcatEmptySeq, Zenon
        <3> QED BY <2>3, <3>1, Zenon DEF InFlight
    <2>6. InFlight' = got \o (wire \o UnitsOf(m))
        BY <1>1, <2>4, Zenon DEF InFlight
    <2>a. Regroups(got, wire, UnitsOf(m)) /\ got \o wire \in Seq(Units)
        BY <1>3, <2>2, Regrouped, ConcatProperties, Zenon
    <2>7. InFlight' = (got \o wire) \o UnitsOf(m)
        BY <2>6, <2>a, Zenon DEF Regroups
    <2>8. Framed((got \o wire) \o UnitsOf(m), Append(sentLog, m), Len(gotLog))
        BY <1>0, <1>2, <1>8, <2>1, <2>5, <2>a, FramedAppend, Zenon DEF CommsType
    <2> QED BY <1>1, <2>7, <2>8, Zenon
<1> QED BY <1>5, <1>7, <1>9, <1>10, <1>11, Zenon DEF CommsCore

\* A unit is written, or the sender is done.
LEMMA SendInv ==
    ASSUME CommsCore, NEW t \in Senders, Send(t) \/ SendReturns(t)
    PROVE  CommsCore'
<1> DEFINE got == Held(recvGot, recvMutex)
<1>0. CommsType /\ CommsMutex /\ LogsInv /\ WantInv /\ StreamInv /\ senderUp
    BY Zenon DEF CommsCore, Send, SendReturns
<1>1. UNCHANGED <<sendCount, sentLog, recvMutex, recvGot, recvWant, gotLog, garbled, senderUp,
                  receiverUp>>
    BY Zenon DEF Send, SendReturns, recvVars
<1>2. t \in sendMutex
    BY <1>0, Zenon DEF Send, SendReturns, CommsMutex
<1>3. sendMutex = {t}
    BY <1>0, <1>2, Zenon DEF CommsMutex
<1>4. /\ got \in Seq(Units) /\ wire \in Seq(Units) /\ sendRest[t] \in Seq(Units)
      /\ Held(sendRest, sendMutex) = sendRest[t]
    BY <1>0, <1>3, HeldType, HeldBy, Zenon DEF CommsType
<1>5. LogsInv' /\ WantInv'
    BY <1>0, <1>1, Zenon DEF LogsInv, WantInv
<1>6. CASE Send(t)
    <2>1. /\ sendRest[t] # <<>> /\ wire' = Append(wire, Head(sendRest[t]))
          /\ sendRest' = [sendRest EXCEPT ![t] = Tail(sendRest[t])] /\ UNCHANGED sendMutex
        BY <1>6, Zenon DEF Send
    <2>2. /\ wire' \in Seq(Units) /\ Tail(sendRest[t]) \in Seq(Units)
          /\ got \o (wire' \o Tail(sendRest[t])) = got \o (wire \o sendRest[t])
        <3>1. SentOne(got, wire, sendRest[t], Units)
            BY <1>4, <2>1, UnitSent, Zenon
        <3> QED BY <2>1, <3>1, Zenon DEF SentOne
    <2>3. CommsType'
        BY <1>0, <1>1, <2>1, <2>2, Zenon DEF CommsType
    <2>4. CommsMutex'
        <3>1. \A x \in Senders \ sendMutex : sendRest'[x] = <<>>
            BY <1>0, <1>3, <2>1, Zenon DEF CommsMutex, CommsType
        <3> QED BY <1>0, <1>1, <2>1, <3>1, Zenon DEF CommsMutex
    <2>5. InFlight' = InFlight
        <3>1. sendRest'[t] = Tail(sendRest[t])
            BY <1>0, <2>1, Zenon DEF CommsType
        <3>2. Held(sendRest', sendMutex') = Tail(sendRest[t])
            BY <1>3, <2>1, <3>1, HeldBy, Zenon
        <3> QED BY <1>1, <1>4, <2>2, <3>2, Zenon DEF InFlight
    <2>6. StreamInv'
        BY <1>0, <1>1, <2>5, Zenon DEF StreamInv, Drained
    <2> QED BY <1>5, <2>3, <2>4, <2>6, Zenon DEF CommsCore
<1>7. CASE SendReturns(t)
    <2>1. /\ sendRest[t] = <<>> \/ ~receiverUp
          /\ sendMutex' = sendMutex \ {t} /\ sendRest' = [sendRest EXCEPT ![t] = <<>>]
          /\ UNCHANGED wire
        BY <1>7, Zenon DEF SendReturns
    <2>2. sendMutex' = {}
        BY <1>3, <2>1, Zenon
    <2>3. CommsType'
        BY <1>0, <1>1, <2>1, <2>2, EmptySeq, Zenon DEF CommsType
    <2>4. CommsMutex'
        <3>1. \A x \in Senders : sendRest'[x] = <<>>
            BY <1>0, <1>3, <2>1, Zenon DEF CommsMutex, CommsType
        <3> QED BY <1>0, <1>1, <2>2, <3>1, Zenon DEF CommsMutex
    <2>5. receiverUp => InFlight' = InFlight
        <3>1. Held(sendRest', sendMutex') = <<>>
            BY <2>2, HeldBy, Zenon
        <3> QED BY <1>1, <1>4, <2>1, <3>1, Zenon DEF InFlight
    <2>6. StreamInv'
        BY <1>0, <1>1, <2>5, Zenon DEF StreamInv, Drained
    <2> QED BY <1>5, <2>3, <2>4, <2>6, Zenon DEF CommsCore
<1> QED BY <1>6, <1>7, Zenon

\* A receiver takes the mutex.
LEMMA RecvTLInv ==
    ASSUME CommsCore, NEW r \in Receivers, RecvTL(r)
    PROVE  CommsCore'
<1>0. CommsType /\ CommsMutex /\ LogsInv /\ WantInv /\ StreamInv /\ recvMutex = {}
    BY Zenon DEF CommsCore, RecvTL, MayReceive
<1>1. /\ recvMutex' = recvMutex \cup {r} /\ recvWant' = [recvWant EXCEPT ![r] = HeaderUnits]
      /\ UNCHANGED <<wire, sendMutex, sendRest, sendCount, sentLog, recvGot, gotLog, garbled,
                     senderUp, receiverUp>>
    BY Zenon DEF RecvTL, HeaderUnits, sendVars
<1>2. recvMutex' = {r}
    BY <1>0, <1>1, Zenon
<1>3. recvGot[r] = <<>> /\ Len(<<>>) = 0
    BY <1>0, EmptySeq, Zenon DEF CommsMutex
<1>4. CommsType' /\ recvWant'[r] = HeaderUnits
    BY <1>0, <1>1, <1>2, Zenon DEF CommsType, HeaderUnits
<1>5. CommsMutex'
    BY <1>0, <1>1, <1>2, Zenon DEF CommsMutex
<1>6. LogsInv'
    BY <1>0, <1>1, Zenon DEF LogsInv
<1>7. WantInv'
    <2>1. HeaderUnits <= recvWant'[r] /\ Len(recvGot'[r]) <= recvWant'[r]
        BY <1>1, <1>3, <1>4 DEF HeaderUnits
    <2> QED BY <1>2, <1>4, <2>1, Zenon DEF WantInv
<1>8. InFlight' = InFlight
    <2>1. Held(recvGot, recvMutex) = <<>> /\ Held(recvGot', recvMutex') = <<>>
        BY <1>0, <1>1, <1>2, <1>3, HeldBy, Zenon
    <2> QED BY <1>1, <2>1, Zenon DEF InFlight
<1>9. StreamInv'
    BY <1>0, <1>1, <1>8, Zenon DEF StreamInv, Drained
<1> QED BY <1>4, <1>5, <1>6, <1>7, <1>9, Zenon DEF CommsCore

\* One read().
LEMMA RecvInv ==
    ASSUME CommsCore, NEW r \in Receivers, Recv(r)
    PROVE  CommsCore'
<1> DEFINE rest == Held(sendRest, sendMutex)
<1>0. /\ CommsType /\ CommsMutex /\ LogsInv /\ WantInv /\ StreamInv /\ r \in recvMutex
      /\ wire # <<>>
    BY Zenon DEF CommsCore, Recv
<1>1. UNCHANGED <<sendMutex, sendRest, sendCount, sentLog, recvMutex, recvWant, gotLog, garbled,
                  senderUp, receiverUp>>
    BY Zenon DEF Recv, sendVars
<1>2. /\ recvMutex = {r} /\ recvGot[r] \in Seq(Units) /\ Len(recvGot[r]) \in Nat
      /\ recvWant[r] \in Nat /\ Len(wire) \in Nat
    <2>1. recvMutex = {r}
        BY <1>0, Zenon DEF CommsMutex
    <2> QED BY <1>0, <2>1, LenProperties, Zenon DEF CommsType
<1>3. PICK k \in 1 .. (recvWant[r] - Len(recvGot[r])) :
         /\ k <= Len(wire) /\ wire' = SubSeq(wire, k + 1, Len(wire))
         /\ recvGot' = [recvGot EXCEPT ![r] = recvGot[r] \o SubSeq(wire, 1, k)]
    BY Zenon DEF Recv, ShortOf
<1>4. k \in 1 .. Len(wire) /\ k \in Nat /\ k <= recvWant[r] - Len(recvGot[r])
    BY <1>2, <1>3
<1>5. rest \in Seq(Units) /\ wire \in Seq(Units)
    BY <1>0, HeldType, Zenon DEF CommsType
<1>6. /\ wire' \in Seq(Units) /\ recvGot[r] \o SubSeq(wire, 1, k) \in Seq(Units)
      /\ Len(recvGot[r] \o SubSeq(wire, 1, k)) = Len(recvGot[r]) + k
      /\ (recvGot[r] \o SubSeq(wire, 1, k)) \o (wire' \o rest) = recvGot[r] \o (wire \o rest)
    <2>1. ReadSome(recvGot[r], wire, rest, k, Units)
        BY <1>2, <1>4, <1>5, UnitsRead, Zenon
    <2> QED BY <1>3, <2>1, Zenon DEF ReadSome
<1> DEFINE read == recvGot[r] \o SubSeq(wire, 1, k)
<1> HIDE DEF read
<1>7. recvGot' \in [Receivers -> Seq(Units)] /\ recvGot'[r] = read
    BY <1>0, <1>3, <1>6, Zenon DEF CommsType, read
<1>8. CommsType'
    BY <1>0, <1>1, <1>6, <1>7, Zenon DEF CommsType
<1>9. CommsMutex'
    <2>1. \A x \in Receivers \ recvMutex : recvGot'[x] = <<>>
        BY <1>0, <1>2, <1>3, Zenon DEF CommsMutex, CommsType
    <2> QED BY <1>0, <1>1, <2>1, Zenon DEF CommsMutex
<1>10. LogsInv'
    BY <1>0, <1>1, Zenon DEF LogsInv
<1>11. WantInv'
    <2>1. Len(recvGot'[r]) = Len(recvGot[r]) + k
        BY <1>6, <1>7, Zenon DEF read
    <2>2. /\ Len(recvGot'[r]) <= recvWant[r]
          /\ HeaderUnits <= Len(recvGot[r]) => HeaderUnits <= Len(recvGot'[r])
        BY <1>2, <1>4, <2>1 DEF HeaderUnits
    <2> QED BY <1>0, <1>1, <1>2, <2>2, Zenon DEF WantInv
<1>12. InFlight' = InFlight
    <2>1. Held(recvGot, recvMutex) = recvGot[r] /\ Held(recvGot', recvMutex') = read
        BY <1>1, <1>2, <1>7, HeldBy, Zenon
    <2> QED BY <1>1, <1>6, <2>1, Zenon DEF InFlight, read
<1>13. StreamInv'
    BY <1>0, <1>1, <1>12, Zenon DEF StreamInv, Drained
<1> QED BY <1>8, <1>9, <1>10, <1>11, <1>13, Zenon DEF CommsCore

\* A receiver leaves the critical section with what it has read.
LEMMA RecvDoneInv ==
    ASSUME CommsType, CommsMutex, NEW r \in Receivers, r \in recvMutex, RecvDone(r),
           UNCHANGED <<wire, sendMutex, sendRest, sendCount, sentLog>>,
           gotLog' \in Seq(Messages)
    PROVE  /\ CommsType' /\ CommsMutex' /\ WantInv' /\ recvMutex' = {}
           /\ \A x \in Receivers : recvGot'[x] = <<>>
           /\ InFlight' = wire \o Held(sendRest, sendMutex)
<1>1. recvMutex = {r}
    BY Zenon DEF CommsMutex
<1>2. /\ recvMutex' = {} /\ recvGot' = [recvGot EXCEPT ![r] = <<>>]
      /\ recvWant' = [recvWant EXCEPT ![r] = 0]
    BY <1>1, Zenon DEF RecvDone
<1>3. \A x \in Receivers : recvGot'[x] = <<>>
    BY <1>1, <1>2, Zenon DEF CommsMutex, CommsType
<1>4. CommsType'
    BY <1>2, EmptySeq, Zenon DEF CommsType
<1>5. CommsMutex' /\ WantInv'
    BY <1>2, <1>3, Zenon DEF CommsMutex, WantInv
<1>6. InFlight' = wire \o Held(sendRest, sendMutex)
    <2> DEFINE s == wire \o Held(sendRest, sendMutex)
    <2>1. s \in Seq(Units)
        <3>1. wire \in Seq(Units) /\ Held(sendRest, sendMutex) \in Seq(Units)
            BY HeldType, Zenon DEF CommsType
        <3> QED BY <3>1, ConcatProperties, Zenon
    <2>2. InFlight' = <<>> \o s
        BY <1>2, HeldBy, Zenon DEF InFlight
    <2> HIDE DEF s
    <2>3. <<>> \o s = s
        BY <2>1, ConcatEmptySeq, Zenon
    <2> QED BY <2>2, <2>3, Zenon DEF s
<1> QED BY <1>2, <1>3, <1>4, <1>5, <1>6, Zenon

\* What was read is always in its place.
LEMMA DecodeInv ==
    ASSUME CommsCore, NEW r \in Receivers, Decode(r), ~tooLong'
    PROVE  CommsCore'
<1> DEFINE g == Len(gotLog)
           m == sentLog[g + 1]
           got == recvGot[r]
           rest == wire \o Held(sendRest, sendMutex)
<1>0. /\ CommsType /\ CommsMutex /\ LogsInv /\ WantInv /\ StreamInv /\ r \in recvMutex
      /\ receiverUp /\ recvWant[r] - Len(got) = 0
    BY Zenon DEF CommsCore, Decode, ShortOf
<1>1. UNCHANGED <<wire, sendMutex, sendRest, sendCount, sentLog, senderUp, receiverUp>>
    BY Zenon DEF Decode, sendVars
<1>2. /\ recvMutex = {r} /\ got \in Seq(Units) /\ Len(got) \in Nat /\ g \in Nat /\ g <= Len(sentLog)
      /\ recvWant[r] \in Nat /\ Len(sentLog) \in Nat /\ sentLog \in Seq(Messages)
      /\ gotLog \in Seq(Messages)
    <2>1. recvMutex = {r}
        BY <1>0, Zenon DEF CommsMutex
    <2> QED BY <1>0, <2>1, LenProperties, Zenon DEF CommsType, LogsInv
<1>3. /\ Len(got) = recvWant[r] /\ HeaderUnits <= Len(got)
      /\ Len(got) = HeaderUnits \/ Len(got) = Size(m)
    <2>1. HeaderUnits <= recvWant[r] /\ (recvWant[r] # HeaderUnits => recvWant[r] = Size(m))
        BY <1>0, Zenon DEF WantInv
    <2> QED BY <1>0, <1>2, <2>1
<1>4. rest \in Seq(Units)
    <2>1. wire \in Seq(Units) /\ Held(sendRest, sendMutex) \in Seq(Units)
        BY <1>0, HeldType, Zenon DEF CommsType
    <2> QED BY <2>1, ConcatProperties, Zenon
<1>5. Framed(got \o rest, sentLog, g)
    <2>1. ~Drained
        <3>1. Len(<<>>) = 0
            BY EmptySeq, Zenon
        <3>2. got # <<>>
            BY <1>3, <3>1 DEF HeaderUnits
        <3> QED BY <3>2, Zenon DEF Drained
    <2>2. Held(recvGot, recvMutex) = got
        BY <1>2, HeldBy, Zenon
    <2> QED BY <1>0, <2>1, <2>2, Zenon DEF StreamInv, InFlight
<1>6. /\ g + 1 \in 1 .. Len(sentLog) /\ m \in Messages /\ got[1][1] = m
      /\ got = SubSeq(UnitsOf(m), 1, recvWant[r])
    <2>1. m.len \in Nat \/ Len(got) = HeaderUnits
        <3>1. Len(got) # HeaderUnits => g + 1 \in 1 .. Len(sentLog)
            BY <1>0, <1>2, <1>3 DEF WantInv
        <3>2. g + 1 \in 1 .. Len(sentLog) => m \in Messages
            BY <1>2, ElementOfSeq, Zenon
        <3> QED BY <3>1, <3>2, Zenon DEF Messages
    <2>2. Len(got) = HeaderUnits \/ Len(got) <= Size(m)
        BY <1>3, <2>1
    <2>3. InPlace(got, sentLog, g)
        BY <1>2, <1>3, <1>4, <1>5, <2>2, ReadInPlace, Zenon
    <2> QED BY <1>3, <2>3, Zenon DEF InPlace
<1>7. m.len \in Nat /\ Size(m) \in Nat
    BY <1>6, UnitsOfMessage, Zenon
<1>8. \/ /\ recvWant[r] = HeaderUnits /\ recvWant' = [recvWant EXCEPT ![r] = Size(m)]
         /\ UNCHANGED <<recvMutex, recvGot, gotLog, garbled>>
      \/ /\ recvWant[r] = Size(m) /\ gotLog' = Append(gotLog, m) /\ RecvDone(r)
         /\ UNCHANGED garbled
    <2> DEFINE d == got[1][1]
    <2>1. \/ got # SubSeq(UnitsOf(d), 1, recvWant[r])
          \/ /\ recvWant[r] = HeaderUnits
             /\ recvWant' = [recvWant EXCEPT ![r] = HeaderUnits + d.len]
             /\ UNCHANGED <<recvMutex, recvGot, gotLog, garbled>>
          \/ /\ recvWant[r] = HeaderUnits + d.len /\ gotLog' = Append(gotLog, d) /\ RecvDone(r)
             /\ UNCHANGED garbled
        BY Zenon DEF Decode
    <2>2. d = m /\ got = SubSeq(UnitsOf(m), 1, recvWant[r])
        BY <1>6, Zenon
    <2> HIDE DEF d, m, got
    <2> QED BY <2>1, <2>2, Zenon DEF Size
<1> HIDE DEF m, got, rest
<1>9. CASE /\ recvWant[r] = HeaderUnits /\ recvWant' = [recvWant EXCEPT ![r] = Size(m)]
           /\ UNCHANGED <<recvMutex, recvGot, gotLog, garbled>>
    <2>1. recvWant' \in [Receivers -> Nat] /\ recvWant'[r] = Size(m)
        BY <1>0, <1>7, <1>9, Zenon DEF CommsType
    <2>2. CommsType' /\ CommsMutex' /\ LogsInv'
        BY <1>0, <1>1, <1>9, <2>1, Zenon DEF CommsType, CommsMutex, LogsInv
    <2>3. /\ HeaderUnits <= Size(m) /\ Len(got) <= Size(m) /\ HeaderUnits <= Len(got)
          /\ Len(gotLog) < Len(sentLog)
        BY <1>2, <1>3, <1>6, <1>7, <1>9 DEF Size, HeaderUnits
    <2>4. WantInv'
        BY <1>1, <1>2, <1>9, <2>1, <2>3, Zenon DEF WantInv, got, m
    <2>5. StreamInv'
        <3>1. InFlight' = InFlight
            BY <1>1, <1>9, Zenon DEF InFlight
        <3> QED BY <1>0, <1>1, <1>9, <3>1, Zenon DEF StreamInv, Drained
    <2> QED BY <2>2, <2>4, <2>5, Zenon DEF CommsCore
<1>10. CASE /\ recvWant[r] = Size(m) /\ gotLog' = Append(gotLog, m) /\ RecvDone(r)
            /\ UNCHANGED garbled
    <2>1. /\ gotLog' \in Seq(Messages) /\ Len(gotLog') = g + 1 /\ gotLog'[g + 1] = m
          /\ \A i \in 1 .. g : gotLog'[i] = gotLog[i]
        BY <1>2, <1>6, <1>10, AppendProperties
    <2>2. CommsType' /\ CommsMutex' /\ WantInv' /\ InFlight' = rest
        BY <1>0, <1>1, <1>10, <2>1, RecvDoneInv, Zenon DEF rest
    <2>3. LogsInv'
        <3>1. Len(gotLog') <= Len(sentLog)
            BY <1>2, <1>6, <2>1
        <3>2. ASSUME NEW i \in 1 .. Len(gotLog') PROVE gotLog'[i] = sentLog[i]
            <4>1. i \in 1 .. g \/ i = g + 1
                BY <1>2, <2>1
            <4>2. CASE i \in 1 .. g
                BY <1>0, <2>1, <4>2, Zenon DEF LogsInv
            <4>3. CASE i = g + 1
                BY <2>1, <4>3, Zenon DEF m
            <4> QED BY <4>1, <4>2, <4>3, Zenon
        <3> QED BY <1>0, <1>1, <1>10, <3>1, <3>2, Zenon DEF LogsInv
    <2>4. Framed(rest, sentLog, g + 1)
        <3>1. got \o rest # <<>>
            <4> DEFINE all == got \o rest
            <4>1. Len(all) = Len(got) + Len(rest) /\ Len(rest) \in Nat
                BY <1>2, <1>4, ConcatProperties, LenProperties, Zenon
            <4> HIDE DEF all
            <4>2. Len(all) # 0 /\ Len(<<>>) = 0
                BY <1>2, <1>3, <4>1, EmptySeq DEF HeaderUnits
            <4>3. all # <<>>
                BY <4>2, Zenon
            <4> QED BY <4>3, Zenon DEF all
        <3>2. Len(got) = Size(sentLog[g + 1])
            BY <1>3, <1>10, Zenon DEF m
        <3> QED BY <1>2, <1>4, <1>5, <3>1, <3>2, FramedTail, Zenon DEF got
    <2>5. StreamInv'
        BY <1>1, <2>1, <2>2, <2>4, Zenon DEF StreamInv
    <2> QED BY <2>2, <2>3, <2>5, Zenon DEF CommsCore
<1> QED BY <1>8, <1>9, <1>10, Zenon

\* RecvEof: the receiver drops what it has read once the sender is gone.
LEMMA RecvEofInv ==
    ASSUME CommsCore, NEW r \in Receivers, RecvEof(r)
    PROVE  CommsCore'
<1>0. /\ CommsType /\ CommsMutex /\ LogsInv /\ r \in recvMutex /\ wire = <<>> /\ ~senderUp
    BY Zenon DEF CommsCore, RecvEof
<1>1. /\ RecvDone(r)
      /\ UNCHANGED <<wire, sendMutex, sendRest, sendCount, sentLog, gotLog, garbled, senderUp>>
    BY Zenon DEF RecvEof, sendVars
<1>2. gotLog' \in Seq(Messages)
    BY <1>0, <1>1, Zenon DEF CommsType
<1>3. CommsType' /\ CommsMutex' /\ WantInv' /\ \A x \in Receivers : recvGot'[x] = <<>>
    BY <1>0, <1>1, <1>2, RecvDoneInv, Zenon
<1>4. LogsInv'
    BY <1>0, <1>1, Zenon DEF LogsInv
<1>5. StreamInv'
    BY <1>0, <1>1, <1>3, Zenon DEF StreamInv, Drained
<1> QED BY <1>3, <1>4, <1>5, Zenon DEF CommsCore

\* Every step of the channel keeps the invariant.
LEMMA TlvInvStep ==
    ASSUME TlvInv, [CommsNext]_commsVars
    PROVE  TlvInv'
<1> SUFFICES ASSUME ~tooLong' PROVE CommsCore'
    BY Zenon DEF TlvInv
<1>1. CASE \/ UNCHANGED commsVars \/ SenderGone \/ ReceiverGone
           \/ \E r \in Receivers : \E op \in {"int", "bytes"} : RecvTLV(r, op)
    <2>1. UNCHANGED <<wire, sendMutex, sendRest, sendCount, sentLog, recvMutex, recvGot, recvWant,
                      gotLog, garbled, tooLong>>
        BY <1>1, Zenon DEF commsVars, sendVars, recvVars, SenderGone, ReceiverGone, RecvTLV
    <2>2. CommsCore
        BY <2>1, Zenon DEF TlvInv
    <2>3. CommsType' /\ CommsMutex' /\ LogsInv' /\ WantInv'
        BY <2>1, <2>2, Zenon DEF CommsCore, CommsType, CommsMutex, LogsInv, WantInv
    <2>4. InFlight' = InFlight
        BY <2>1, Zenon DEF InFlight
    <2>5. (receiverUp' => receiverUp) /\ (~senderUp => ~senderUp')
        BY <1>1 DEF commsVars, SenderGone, ReceiverGone, RecvTLV
    <2>6. StreamInv'
        BY <2>1, <2>2, <2>4, <2>5, Zenon DEF CommsCore, StreamInv, Drained
    <2> QED BY <2>3, <2>6, Zenon DEF CommsCore
<1>2. ASSUME NEW t \in Senders, (\E len \in 0 .. 2 : SendTLV(t, len)) \/ SenderStep(t)
      PROVE  CommsCore'
    <2>1. CommsCore
        BY <1>2, Zenon DEF TlvInv, SendTLV, SenderStep, Send, SendReturns, recvVars
    <2> QED BY <1>2, <2>1, SendTLVInv, SendInv, Zenon DEF SenderStep
<1>3. ASSUME NEW r \in Receivers, ReceiverStep(r)
      PROVE  CommsCore'
    <2>1. CommsCore
        BY <1>3, Zenon DEF TlvInv, ReceiverStep, RecvTL, Recv, RecvEof, Decode
    <2> QED BY <1>3, <2>1, RecvTLInv, RecvInv, DecodeInv, RecvEofInv, Zenon DEF ReceiverStep
<1> QED BY <1>1, <1>2, <1>3, Zenon DEF CommsNext

\* For any number of threads at either end, any socket and however reads and
\* writes are cut: messages arrive whole, in the order in which they were begun,
\* until a value does not fit its receiver's buffer.
THEOREM MessagesAreWhole == CommsSpec => []MessagesArriveWhole
<1>1. TlvInv => MessagesArriveWhole
    <2> SUFFICES ASSUME CommsCore PROVE ~garbled /\ gotLog = SubSeq(sentLog, 1, Len(gotLog))
        BY Zenon DEF TlvInv, MessagesArriveWhole
    <2> DEFINE n == Len(gotLog)
               s == SubSeq(sentLog, 1, n)
    <2>1. /\ gotLog \in Seq(Messages) /\ sentLog \in Seq(Messages)
          /\ n \in Nat /\ Len(sentLog) \in Nat
          /\ n <= Len(sentLog) /\ ~garbled /\ \A i \in 1 .. n : gotLog[i] = sentLog[i]
        BY LenProperties, Zenon DEF CommsCore, CommsType, LogsInv
    <2>2. 1 \in Int /\ n \in Int /\ \A i \in 1 .. n : sentLog[i] \in Messages
        BY <2>1, ElementOfSeq
    <2>3. /\ s \in Seq(Messages) /\ Len(s) = IF 1 <= n THEN n - 1 + 1 ELSE 0
          /\ \A i \in 1 .. n - 1 + 1 : s[i] = sentLog[1 + i - 1]
        BY <2>2, SubSeqProperties
    <2> HIDE DEF s
    <2>4. Len(s) = n /\ \A i \in 1 .. n : gotLog[i] = s[i]
        BY <2>1, <2>3
    <2>5. gotLog = s
        BY <2>1, <2>3, <2>4, SeqEqual, Zenon
    <2> QED BY <2>1, <2>5, Zenon DEF s
<1> QED BY <1>1, TlvInvInit, TlvInvStep, PTL DEF CommsSpec
=============================================================================
