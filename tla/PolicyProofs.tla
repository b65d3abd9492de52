---------------------------- MODULE PolicyProofs ----------------------------
(***************************************************************************)
(* sandbox2/policybuilder.cc, for every list of system calls and every     *)
(* sequence of method calls.                                               *)
(*                                                                         *)
(* That the methods compose is about two builders, the program's and a new *)
(* one on which nothing but the next method is called, so a lemma on a     *)
(* method is about both: Fine says that the first allows what was granted  *)
(* before and what the second allows.  It needs that what is handled is    *)
(* decided whatever the arguments, since AllowSyscall skips it.  That      *)
(* ptrace stays blocked needs that its rules come with its being handled:  *)
(* the flag that turns the default policy off is set by blocking it.       *)
(***************************************************************************)
EXTENDS PolicyBuilder, TLAPS

\* The members of a builder.
Members ==
    {"user", "overridable", "allowAll", "handled", "length", "handlesBpf", "handlesPtrace",
     "mounts", "useNs", "requiresNs", "net", "propagation", "hostname", "collect", "hosts",
     "ok", "built", "dead"}

IsBuilder(b) == DOMAIN b = Members

\* The rules of r are those of b; a call on the way may have failed.
SameRules(r, b) ==
    /\ IsBuilder(r) /\ r.user = b.user /\ r.handled = b.handled
    /\ r.handlesPtrace = b.handlesPtrace /\ r.built = b.built
    /\ r.ok => b.ok
    /\ ~r.dead => ~b.dead

\* All but the rules of r is as in b.
SameSettings(r, b) ==
    /\ IsBuilder(r) /\ r.mounts = b.mounts /\ r.useNs = b.useNs /\ r.requiresNs = b.requiresNs
    /\ r.net = b.net /\ r.hostname = b.hostname /\ r.hosts = b.hosts
    /\ r.ok = b.ok /\ r.built = b.built /\ r.dead = b.dead

\* The calls of a rule on which no rule on all calls of that name decides.
Undecided(b, calls) == {c \in calls : <<c[1]>> \notin DOMAIN b.user}

\* The rules of r are those of b and one on these calls.
Adds(r, b, calls, action) ==
    /\ DOMAIN r.user = DOMAIN b.user \cup Undecided(b, calls)
    /\ \A c \in DOMAIN b.user : r.user[c] = b.user[c]
    /\ \A c \in Undecided(b, calls) \ DOMAIN b.user : r.user[c] = action

RuleAdded(r, b, calls, action) ==
    /\ SameSettings(r, b) /\ r.handled = b.handled /\ r.handlesPtrace = b.handlesPtrace
    /\ Adds(r, b, calls, action)

\* What AddPolicyOnSyscalls changes.
LEMMA RuleEffect ==
    ASSUME NEW b, NEW calls, NEW action, IsBuilder(b), ~b.dead
    PROVE  RuleAdded(Rule(b, calls, action), b, calls, action)
<1> DEFINE r == Rule(b, calls, action)
           rest == [c \in Undecided(b, calls) |-> action]
<1>1. /\ SameSettings(r, b) /\ r.handled = b.handled /\ r.handlesPtrace = b.handlesPtrace
      /\ r.user = Over(b.user, rest)
    BY Zenon DEF Rule, IsBuilder, Members, SameSettings, Undecided
<1> HIDE DEF r
<1>2. Adds(r, b, calls, action)
    BY <1>1, Zenon DEF Adds, Over
<1> QED BY <1>1, <1>2, Zenon DEF RuleAdded, r

\* What AllowSyscalls changes.
LEMMA AllowEffect ==
    ASSUME NEW b, NEW nrs, IsBuilder(b), ~b.dead
    PROVE  /\ SameSettings(AllowSyscalls(b, nrs), b)
           /\ AllowSyscalls(b, nrs).handled = b.handled \cup nrs
           /\ AllowSyscalls(b, nrs).handlesPtrace = b.handlesPtrace
           /\ Adds(AllowSyscalls(b, nrs), b, CallsOf(nrs \ b.handled), "ALLOW")
<1> DEFINE r == Rule(b, CallsOf(nrs \ b.handled), "ALLOW")
<1>1. RuleAdded(r, b, CallsOf(nrs \ b.handled), "ALLOW")
    BY RuleEffect, Zenon
<1>2. AllowSyscalls(b, nrs) =
        [r EXCEPT !.handled = @ \cup nrs, !.length = b.length + Cardinality(nrs \ b.handled)]
    BY Zenon DEF AllowSyscalls
<1> DEFINE q == AllowSyscalls(b, nrs)
<1> HIDE DEF r
<1>3. q.user = r.user /\ q.handled = r.handled \cup nrs /\ q.handlesPtrace = r.handlesPtrace
    BY <1>1, <1>2, Zenon DEF RuleAdded, SameSettings, IsBuilder, Members
<1>4. SameSettings(q, r)
    BY <1>1, <1>2, Zenon DEF RuleAdded, SameSettings, IsBuilder, Members
<1> HIDE DEF q
<1>5. Adds(q, b, CallsOf(nrs \ b.handled), "ALLOW")
    BY <1>1, <1>3, Zenon DEF RuleAdded, Adds
<1>6. SameSettings(q, b)
    BY <1>1, <1>4, Zenon DEF RuleAdded, SameSettings
<1> QED BY <1>1, <1>3, <1>5, <1>6, Zenon DEF RuleAdded, q

\* What BlockSyscallsWithErrno changes.
LEMMA BlockEffect ==
    ASSUME NEW b, NEW nrs, IsBuilder(b), ~b.dead
    PROVE  /\ SameSettings(BlockSyscallsWithErrno(b, nrs), b)
           /\ BlockSyscallsWithErrno(b, nrs).handled = b.handled \cup nrs
           /\ BlockSyscallsWithErrno(b, nrs).handlesPtrace =>
                b.handlesPtrace \/ "ptrace" \in nrs \ b.handled
           /\ Adds(BlockSyscallsWithErrno(b, nrs), b, CallsOf(nrs \ b.handled), "ERRNO")
<1> DEFINE new == nrs \ b.handled
           r == Rule(b, CallsOf(new), "ERRNO")
<1>1. RuleAdded(r, b, CallsOf(new), "ERRNO")
    BY RuleEffect, Zenon
<1>2. BlockSyscallsWithErrno(b, nrs) =
        [r EXCEPT !.handled = @ \cup nrs, !.length = b.length + Cardinality(new),
                  !.handlesBpf = @ \/ HandlesNow("bpf", new, nrs),
                  !.handlesPtrace = @ \/ HandlesNow("ptrace", new, nrs)]
    BY Zenon DEF BlockSyscallsWithErrno
<1> HIDE DEF r, new
<1>3. BlockSyscallsWithErrno(b, nrs).handlesPtrace = (r.handlesPtrace \/ "ptrace" \in new)
    BY <1>1, <1>2, Zenon DEF RuleAdded, SameSettings, IsBuilder, Members, HandlesNow
<1> DEFINE q == BlockSyscallsWithErrno(b, nrs)
<1>4. q.user = r.user /\ q.handled = r.handled \cup nrs
    BY <1>1, <1>2, Zenon DEF RuleAdded, SameSettings, IsBuilder, Members
<1>5. SameSettings(q, r)
    BY <1>1, <1>2, Zenon DEF RuleAdded, SameSettings, IsBuilder, Members
<1> HIDE DEF q
<1>6. Adds(q, b, CallsOf(new), "ERRNO")
    BY <1>1, <1>4, Zenon DEF RuleAdded, Adds
<1>7. SameSettings(q, b) /\ q.handled = b.handled \cup nrs
    BY <1>1, <1>4, <1>5, Zenon DEF RuleAdded, SameSettings
<1> QED BY <1>1, <1>3, <1>6, <1>7, Zenon DEF RuleAdded, new, q
-----------------------------------------------------------------------------
\* Every rule allows, and what is handled is allowed whatever the arguments.
Permits(b) ==
    /\ \A c \in DOMAIN b.user : b.user[c] = "ALLOW"
    /\ \A nr \in b.handled : <<nr>> \in DOMAIN b.user

\* The calls that rules for these calls decide on.
Covered(rules) == {c \in Calls : c \in rules \/ <<c[1]>> \in rules}

\* A builder that only allows allows what its rules decide on.
LEMMA AllowedIsCovered ==
    ASSUME NEW b, Permits(b)
    PROVE  Allowed(b) = Covered(DOMAIN b.user)
<1>1. ASSUME NEW c \in Calls
      PROVE  Decision(b.user, c) = "ALLOW" <=> c \in DOMAIN b.user \/ <<c[1]>> \in DOMAIN b.user
    <2>1. CASE c \in DOMAIN b.user
        BY <2>1, Zenon DEF Decision, Permits
    <2>2. CASE c \notin DOMAIN b.user /\ <<c[1]>> \in DOMAIN b.user
        BY <2>2, Zenon DEF Decision, Permits
    <2>3. CASE c \notin DOMAIN b.user /\ <<c[1]>> \notin DOMAIN b.user
        <3>1. Decision(b.user, c) = "none"
            BY <2>3, Zenon DEF Decision
        <3> QED BY <2>3, <3>1
    <2> QED BY <2>1, <2>2, <2>3, Zenon
<1> QED BY <1>1, Zenon DEF Allowed, Covered

\* A rule more allows its calls and takes nothing away, whichever of them were
\* decided on before.
LEMMA RuleCovers ==
    ASSUME NEW b, NEW r, NEW calls, Permits(b), RuleAdded(r, b, calls, "ALLOW")
    PROVE  Permits(r) /\ Allowed(r) = Allowed(b) \cup Covered(calls)
<1> DEFINE new == Undecided(b, calls)
<1>1. /\ DOMAIN r.user = DOMAIN b.user \cup new
      /\ \A c \in DOMAIN b.user : r.user[c] = b.user[c]
      /\ \A c \in new \ DOMAIN b.user : r.user[c] = "ALLOW"
    BY Zenon DEF RuleAdded, Adds
<1>2. Permits(r)
    BY <1>1, Zenon DEF Permits, RuleAdded
<1>3. \A nr : <<nr>>[1] = nr
    OBVIOUS
<1>4. Covered(DOMAIN b.user \cup new) = Covered(DOMAIN b.user) \cup Covered(calls)
    BY <1>3, Zenon DEF Covered, Undecided
<1> QED BY <1>1, <1>2, <1>4, AllowedIsCovered, Zenon

\* AllowSyscalls allows what it names, handled before or not.
LEMMA AllowCovers ==
    ASSUME NEW b, NEW nrs, IsBuilder(b), ~b.dead, Permits(b)
    PROVE  LET r == AllowSyscalls(b, nrs)
           IN Permits(r) /\ Allowed(r) = Allowed(b) \cup Covered(CallsOf(nrs))
<1> DEFINE r == AllowSyscalls(b, nrs)
           calls == CallsOf(nrs \ b.handled)
           new == Undecided(b, calls)
<1>0. r.handled = b.handled \cup nrs /\ Adds(r, b, calls, "ALLOW")
    BY AllowEffect, Zenon
<1> HIDE DEF r
<1>1. /\ DOMAIN r.user = DOMAIN b.user \cup new
      /\ \A c \in DOMAIN b.user : r.user[c] = b.user[c]
      /\ \A c \in new \ DOMAIN b.user : r.user[c] = "ALLOW"
    BY <1>0, Zenon DEF Adds
<1>2. \A nr : <<nr>>[1] = nr
    OBVIOUS
<1>3. \A nr \in nrs : <<nr>> \in DOMAIN b.user \cup new
    BY <1>2, Zenon DEF Permits, Undecided, CallsOf
<1>4. Permits(r)
    BY <1>0, <1>1, <1>3, Zenon DEF Permits
<1>5. Covered(DOMAIN b.user \cup new) = Covered(DOMAIN b.user) \cup Covered(CallsOf(nrs))
    <2>1. ASSUME NEW c \in CallsOf(nrs) PROVE c \in DOMAIN b.user \cup new
        BY <1>3, <2>1, Zenon DEF CallsOf
    <2>2. new \subseteq CallsOf(nrs)
        BY Zenon DEF Undecided, CallsOf
    <2> QED BY <2>1, <2>2, Zenon DEF Covered
<1> QED BY <1>1, <1>4, <1>5, AllowedIsCovered, Zenon DEF r
-----------------------------------------------------------------------------
(* The invariant.  A method is a sequence of the operations above, so each *)
(* is followed on two builders at once: b, the program's, and n, on which  *)
(* nothing but the method is called.                                       *)

Live(b) == b.ok /\ ~b.dead /\ ~b.built

\* ptrace is decided on only together with being handled, and what makes the
\* default policy leave it alone has blocked it.
Guarded(b, own) ==
    ~b.built /\ "ptrace" \notin own =>
        /\ <<"ptrace">> \in DOMAIN b.user => "ptrace" \in b.handled
        /\ b.handlesPtrace => <<"ptrace">> \in DOMAIN b.user /\ b.user[<<"ptrace">>] = "ERRNO"

\* What needs namespaces has asked for them.
Kept(b) ==
    ~b.dead =>
        /\ b.requiresNs => b.useNs
        /\ ~b.requiresNs => b.mounts = NewTree /\ ~b.net /\ b.hostname = "sandbox2"

Steady(b) == IsBuilder(b) /\ Guarded(b, custom) /\ (policy # NoPolicy => b.built) /\ Kept(b)

Fresh(n) == IsBuilder(n) /\ Permits(n) /\ ~n.dead /\ n.useNs

\* The program's builder allows what was granted before and what n allows.
Together(b, n) ==
    Live(b) /\ ~limits => Permits(b) /\ Allowed(b) = granted \cup Allowed(n)

Fine(b, n) == Steady(b) /\ Fresh(n) /\ Together(b, n)

PolicyGuarded ==
    policy # NoPolicy /\ "ptrace" \notin custom /\ policy.handlesPtrace =>
        <<"ptrace">> \in DOMAIN policy.user /\ policy.user[<<"ptrace">>] = "ERRNO"

BuilderInv == Fine(builder, NewBuilder) /\ PolicyGuarded
-----------------------------------------------------------------------------
(* The operations keep it.                                                 *)

\* A rule more on any calls, with any action, but not on every call of ptrace.
LEMMA RuleSteady ==
    ASSUME NEW b, NEW calls, NEW action, Steady(b), "ptrace" \notin custom => <<"ptrace">> \notin calls
    PROVE  Steady(Rule(b, calls, action))
<1>1. CASE b.dead
    BY <1>1, Zenon DEF Rule
<1>2. CASE ~b.dead
    <2> DEFINE r == Rule(b, calls, action)
    <2>1. RuleAdded(r, b, calls, action)
        BY <1>2, RuleEffect, Zenon DEF Steady
    <2> HIDE DEF r
    <2>2. /\ DOMAIN r.user = DOMAIN b.user \cup Undecided(b, calls)
          /\ \A c \in DOMAIN b.user : r.user[c] = b.user[c]
        BY <2>1, Zenon DEF RuleAdded, Adds
    <2>3. Guarded(r, custom)
        BY <2>1, <2>2, Zenon DEF Guarded, Steady, Undecided, SameSettings, RuleAdded
    <2>4. Kept(r)
        BY <2>1, Zenon DEF Kept, Steady, SameSettings, RuleAdded
    <2> QED BY <2>1, <2>3, <2>4, Zenon DEF Steady, SameSettings, RuleAdded, r
<1> QED BY <1>1, <1>2, Zenon

\* AllowSyscalls, on ptrace too.
LEMMA AllowSteady ==
    ASSUME NEW b, NEW nrs, Steady(b)
    PROVE  Steady(AllowSyscalls(b, nrs))
<1>1. CASE b.dead
    BY <1>1, Zenon DEF AllowSyscalls
<1>2. CASE ~b.dead
    <2> DEFINE r == AllowSyscalls(b, nrs)
               new == Undecided(b, CallsOf(nrs \ b.handled))
    <2>1. /\ SameSettings(r, b) /\ r.handled = b.handled \cup nrs
          /\ r.handlesPtrace = b.handlesPtrace
          /\ Adds(r, b, CallsOf(nrs \ b.handled), "ALLOW")
        BY <1>2, AllowEffect, Zenon DEF Steady
    <2> HIDE DEF r
    <2>2. /\ DOMAIN r.user = DOMAIN b.user \cup new
          /\ \A c \in DOMAIN b.user : r.user[c] = b.user[c]
        BY <2>1, Zenon DEF Adds
    <2>3. \A nr : <<nr>> = <<"ptrace">> => nr = "ptrace"
        OBVIOUS
    <2>4. <<"ptrace">> \in new => "ptrace" \in nrs
        BY <2>3, Zenon DEF Undecided, CallsOf
    <2>5. Guarded(r, custom)
        BY <2>1, <2>2, <2>4, Zenon DEF Guarded, Steady, SameSettings
    <2>6. Kept(r)
        BY <2>1, Zenon DEF Kept, Steady, SameSettings
    <2> QED BY <2>1, <2>5, <2>6, Zenon DEF Steady, SameSettings, r
<1> QED BY <1>1, <1>2, Zenon

\* BlockSyscallsWithErrno: ptrace counts as handled by the user policy only
\* when the rule that blocks it is the first to decide.
LEMMA BlockSteady ==
    ASSUME NEW b, NEW nrs, Steady(b)
    PROVE  Steady(BlockSyscallsWithErrno(b, nrs))
<1>1. CASE b.dead
    BY <1>1, Zenon DEF BlockSyscallsWithErrno
<1>2. CASE ~b.dead
    <2> DEFINE r == BlockSyscallsWithErrno(b, nrs)
               new == Undecided(b, CallsOf(nrs \ b.handled))
    <2>1. /\ SameSettings(r, b) /\ r.handled = b.handled \cup nrs
          /\ r.handlesPtrace => b.handlesPtrace \/ "ptrace" \in nrs \ b.handled
          /\ Adds(r, b, CallsOf(nrs \ b.handled), "ERRNO")
        BY <1>2, BlockEffect, Zenon DEF Steady
    <2> HIDE DEF r
    <2>2. /\ DOMAIN r.user = DOMAIN b.user \cup new
          /\ \A c \in DOMAIN b.user : r.user[c] = b.user[c]
          /\ \A c \in new \ DOMAIN b.user : r.user[c] = "ERRNO"
        BY <2>1, Zenon DEF Adds
    <2>3. (\A nr : <<nr>> = <<"ptrace">> => nr = "ptrace") /\ <<"ptrace">>[1] = "ptrace"
        OBVIOUS
    <2>4. <<"ptrace">> \in new => "ptrace" \in nrs
        BY <2>3, Zenon DEF Undecided, CallsOf
    <2>5. "ptrace" \in nrs \ b.handled /\ <<"ptrace">> \notin DOMAIN b.user => <<"ptrace">> \in new
        BY <2>3, Zenon DEF Undecided, CallsOf
    <2>6. Guarded(r, custom)
        BY <2>1, <2>2, <2>4, <2>5, Zenon DEF Guarded, Steady, SameSettings
    <2>7. Kept(r)
        BY <2>1, Zenon DEF Kept, Steady, SameSettings
    <2> QED BY <2>1, <2>6, <2>7, Zenon DEF Steady, SameSettings, r
<1> QED BY <1>1, <1>2, Zenon

\* AllowSyscalls on both builders.
LEMMA AllowFine ==
    ASSUME NEW b, NEW n, NEW nrs, Fine(b, n)
    PROVE  Fine(AllowSyscalls(b, nrs), AllowSyscalls(n, nrs))
<1> DEFINE r == AllowSyscalls(b, nrs)
           m == AllowSyscalls(n, nrs)
           S == Covered(CallsOf(nrs))
<1>1. Steady(r)
    BY AllowSteady, Zenon DEF Fine
<1>2. SameSettings(m, n) /\ Permits(m) /\ Allowed(m) = Allowed(n) \cup S
    BY AllowEffect, AllowCovers, Zenon DEF Fine, Fresh
<1>3. ASSUME Live(r) /\ ~limits
      PROVE  Permits(r) /\ Allowed(r) = granted \cup Allowed(m)
    <2>1. ~b.dead
        BY <1>3, Zenon DEF Live, AllowSyscalls
    <2>2. SameSettings(r, b)
        BY <2>1, AllowEffect, Zenon DEF Fine, Steady
    <2>3. Live(b)
        BY <1>3, <2>2, Zenon DEF Live, SameSettings
    <2>4. Permits(b) /\ Allowed(b) = granted \cup Allowed(n)
        BY <1>3, <2>3, Zenon DEF Fine, Together
    <2>5. Permits(r) /\ Allowed(r) = Allowed(b) \cup S
        BY <2>1, <2>4, AllowCovers, Zenon DEF Fine, Steady
    <2> QED BY <1>2, <2>4, <2>5, Zenon
<1> QED BY <1>1, <1>2, <1>3, Zenon DEF Fine, Fresh, Together, SameSettings

\* A policy that allows calls, on both builders.
LEMMA RuleFine ==
    ASSUME NEW b, NEW n, NEW calls, Fine(b, n), "ptrace" \notin custom => <<"ptrace">> \notin calls
    PROVE  Fine(AddPolicyOnSyscalls(b, calls, "ALLOW"), AddPolicyOnSyscalls(n, calls, "ALLOW"))
<1> DEFINE r == Rule(b, calls, "ALLOW")
           m == Rule(n, calls, "ALLOW")
           S == Covered(calls)
<1>1. Steady(r)
    BY RuleSteady, Zenon DEF Fine
<1>2. SameSettings(m, n) /\ Permits(m) /\ Allowed(m) = Allowed(n) \cup S
    <2>1. RuleAdded(m, n, calls, "ALLOW")
        BY RuleEffect, Zenon DEF Fine, Fresh
    <2> QED BY <2>1, RuleCovers, Zenon DEF Fine, Fresh, RuleAdded
<1>3. ASSUME Live(r) /\ ~limits
      PROVE  Permits(r) /\ Allowed(r) = granted \cup Allowed(m)
    <2>1. ~b.dead
        BY <1>3, Zenon DEF Live, Rule
    <2>2. RuleAdded(r, b, calls, "ALLOW")
        BY <2>1, RuleEffect, Zenon DEF Fine, Steady
    <2>3. Live(b)
        BY <1>3, <2>2, Zenon DEF Live, SameSettings, RuleAdded
    <2>4. Permits(b) /\ Allowed(b) = granted \cup Allowed(n)
        BY <1>3, <2>3, Zenon DEF Fine, Together
    <2>5. Permits(r) /\ Allowed(r) = Allowed(b) \cup S
        BY <2>2, <2>4, RuleCovers, Zenon
    <2> QED BY <1>2, <2>4, <2>5, Zenon
<1> QED BY <1>1, <1>2, <1>3, Zenon DEF Fine, Fresh, Together, SameSettings, AddPolicyOnSyscalls

\* Policies on one or two arguments.
LEMMA ArgumentFine ==
    ASSUME NEW b, NEW n, NEW nr, NEW args, Fine(b, n)
    PROVE  /\ Fine(AddPolicyOnSyscall(b, nr, args), AddPolicyOnSyscall(n, nr, args))
           /\ Fine(AddPolicyOnMmap(b, args), AddPolicyOnMmap(n, args))
           /\ Fine(AddPolicyOnSyscalls(b, On2(nr, args), "ALLOW"),
                   AddPolicyOnSyscalls(n, On2(nr, args), "ALLOW"))
<1>1. \A k, a : <<k, a>> # <<"ptrace">>
    OBVIOUS
<1>2. \A k, a, c : <<k, a, c>> # <<"ptrace">>
    OBVIOUS
<1>3. <<"ptrace">> \notin On(nr, args)
    BY <1>1, Zenon DEF On
<1>4. \A k : <<"ptrace">> \notin On2(k, args)
    BY <1>2, Zenon DEF On2
<1>5. <<"ptrace">> \notin UNION {On2(k, args) : k \in kMmapSyscalls}
    BY <1>4, Zenon
<1> QED BY <1>3, <1>4, <1>5, RuleFine, Zenon DEF AddPolicyOnSyscall, AddPolicyOnMmap
-----------------------------------------------------------------------------
(* The methods that allow.                                                 *)

\* On files.
LEMMA FilesFine ==
    ASSUME NEW b, NEW n, Fine(b, n)
    PROVE  /\ Fine(AllowOpen(b), AllowOpen(n)) /\ Fine(AllowStat(b), AllowStat(n))
           /\ Fine(AllowAccess(b), AllowAccess(n)) /\ Fine(AllowDup(b), AllowDup(n))
           /\ Fine(AllowPipe(b), AllowPipe(n)) /\ Fine(AllowChmod(b), AllowChmod(n))
           /\ Fine(AllowChown(b), AllowChown(n)) /\ Fine(AllowRead(b), AllowRead(n))
           /\ Fine(AllowWrite(b), AllowWrite(n)) /\ Fine(AllowReaddir(b), AllowReaddir(n))
           /\ Fine(AllowReadlink(b), AllowReadlink(n)) /\ Fine(AllowLink(b), AllowLink(n))
           /\ Fine(AllowSymlink(b), AllowSymlink(n)) /\ Fine(AllowMkdir(b), AllowMkdir(n))
           /\ Fine(AllowUtime(b), AllowUtime(n)) /\ Fine(AllowUnlink(b), AllowUnlink(n))
           /\ Fine(AllowRename(b), AllowRename(n)) /\ Fine(AllowTCGETS(b), AllowTCGETS(n))
           /\ Fine(AllowSafeFcntl(b), AllowSafeFcntl(n))
BY AllowFine, ArgumentFine, Zenon
   DEF AllowOpen, AllowStat, AllowAccess, AllowDup, AllowPipe, AllowChmod, AllowChown,
       AllowRead, AllowWrite, AllowReaddir, AllowReadlink, AllowLink, AllowSymlink, AllowMkdir,
       AllowUtime, AllowUnlink, AllowRename, AllowTCGETS, AllowSafeFcntl

\* On waiting.
LEMMA WaitsFine ==
    ASSUME NEW b, NEW n, Fine(b, n)
    PROVE  /\ Fine(AllowEpoll(b), AllowEpoll(n)) /\ Fine(AllowInotifyInit(b), AllowInotifyInit(n))
           /\ Fine(AllowSelect(b), AllowSelect(n)) /\ Fine(AllowPoll(b), AllowPoll(n))
           /\ Fine(AllowEventFd(b), AllowEventFd(n)) /\ Fine(AllowSleep(b), AllowSleep(n))
           /\ Fine(AllowAlarm(b), AllowAlarm(n)) /\ Fine(AllowTime(b), AllowTime(n))
           /\ Fine(AllowWait(b), AllowWait(n))
BY AllowFine, Zenon
   DEF AllowEpoll, AllowEpollWait, AllowInotifyInit, AllowSelect, AllowPoll, AllowEventFd,
       AllowSleep, AllowAlarm, AllowTime, AllowWait

\* On processes, except those that are put together from others.
LEMMA ProcessFine ==
    ASSUME NEW b, NEW n, Fine(b, n)
    PROVE  /\ Fine(AllowExit(b), AllowExit(n)) /\ Fine(AllowFork(b), AllowFork(n))
           /\ Fine(AllowHandleSignals(b), AllowHandleSignals(n))
           /\ Fine(AllowGetIDs(b), AllowGetIDs(n)) /\ Fine(AllowGetPIDs(b), AllowGetPIDs(n))
           /\ Fine(AllowGetPGIDs(b), AllowGetPGIDs(n))
           /\ Fine(AllowGetRlimit(b), AllowGetRlimit(n))
           /\ Fine(AllowSetRlimit(b), AllowSetRlimit(n))
           /\ Fine(AllowPrctlSetName(b), AllowPrctlSetName(n))
           /\ Fine(AllowGetRandom(b), AllowGetRandom(n))
           /\ Fine(AllowMmap(b), AllowMmap(n)) /\ Fine(AllowWipeOnFork(b), AllowWipeOnFork(n))
           /\ Fine(AllowLimitedMadvise(b), AllowLimitedMadvise(n))
           /\ \A op : Fine(AllowFutexOp(b, op), AllowFutexOp(n, op))
BY AllowFine, ArgumentFine, Zenon
   DEF AllowExit, AllowFork, AllowHandleSignals, AllowGetIDs, AllowGetPIDs, AllowGetPGIDs,
       AllowGetRlimit, AllowSetRlimit, AllowPrctlSetName, AllowGetRandom, AllowMmap,
       AllowWipeOnFork, AllowLimitedMadvise, AllowFutexOp

\* On restartable sequences, with or without slow fences.
LEMMA SequencesFine ==
    ASSUME NEW b, NEW n, NEW slow, Fine(b, n)
    PROVE  Fine(AllowRestartableSequences(b, slow), AllowRestartableSequences(n, slow))
<1> DEFINE F(x) == AddPolicyOnSyscall(AllowFutexOp(AllowFutexOp(AllowSyscalls(
                       AddPolicyOnMmap(AllowSyscalls(x, {"rseq"}), {<<"RW", "AP">>}),
                       {"getcpu", "membarrier"}), "WAIT"), "WAKE"), "rt_sigprocmask", {"SETMASK"})
<1>1. Fine(F(b), F(n))
    BY AllowFine, ArgumentFine, ProcessFine, Zenon
<1> HIDE DEF F
<1>2. Fine(SlowFences(F(b), slow), SlowFences(F(n), slow))
    BY <1>1, AllowFine, Zenon DEF SlowFences
<1> QED BY <1>2, Zenon DEF AllowRestartableSequences, F

\* On the allocators.
LEMMA MallocFine ==
    ASSUME NEW b, NEW n, Fine(b, n)
    PROVE  /\ Fine(AllowScudoMalloc(b), AllowScudoMalloc(n))
           /\ Fine(AllowTcMalloc(b), AllowTcMalloc(n))
           /\ Fine(AllowSystemMalloc(b), AllowSystemMalloc(n))
<1>1. Fine(AllowScudoMalloc(b), AllowScudoMalloc(n))
    BY AllowFine, ArgumentFine, ProcessFine, WaitsFine, Zenon DEF AllowScudoMalloc
<1>2. Fine(AllowTcMalloc(b), AllowTcMalloc(n))
    BY AllowFine, ArgumentFine, ProcessFine, WaitsFine, SequencesFine, Zenon DEF AllowTcMalloc
<1>3. Fine(AllowSystemMalloc(b), AllowSystemMalloc(n))
    BY AllowFine, ArgumentFine, ProcessFine, Zenon DEF AllowSystemMalloc
<1> QED BY <1>1, <1>2, <1>3, Zenon
-----------------------------------------------------------------------------
(* Methods that leave the rules alone.                                     *)

\* Nothing that ComposesAsUnion or NothingDropped is about changes.
Aside(r, b) ==
    /\ SameRules(r, b) /\ r.mounts = b.mounts /\ r.useNs = b.useNs /\ r.dead = b.dead
    /\ r.requiresNs = b.requiresNs /\ r.net = b.net /\ r.hostname = b.hostname

\* Namespaces have been asked for, or the program has died.
Required(r, b) ==
    /\ SameRules(r, b)
    /\ ~r.dead => r.requiresNs /\ r.useNs
    /\ b.useNs /\ ~b.dead => ~r.dead

\* What leaves the rules alone keeps what is said about them.
LEMMA NeutralFine ==
    ASSUME NEW b, NEW n, NEW r, NEW m, Fine(b, n), SameRules(r, b), SameRules(m, n),
           Kept(r), m.useNs, ~m.dead
    PROVE  Fine(r, m)
<1>1. Guarded(r, custom)
    BY Zenon DEF Fine, Steady, Guarded, SameRules
<1>2. Steady(r)
    BY <1>1, Zenon DEF Fine, Steady, SameRules
<1>3. Permits(m) /\ Allowed(m) = Allowed(n)
    BY Zenon DEF Fine, Fresh, Permits, Allowed, SameRules
<1>4. Permits(b) => Permits(r) /\ Allowed(r) = Allowed(b)
    BY Zenon DEF Permits, Allowed, SameRules
<1>5. Live(r) => Live(b)
    BY Zenon DEF Live, SameRules
<1>6. Together(r, m)
    BY <1>3, <1>4, <1>5, Zenon DEF Fine, Together
<1> QED BY <1>2, <1>3, <1>6, Zenon DEF Fine, Fresh, SameRules

\* A setting changes on both builders.
LEMMA AsideFine ==
    ASSUME NEW b, NEW n, NEW r, NEW m, Fine(b, n), Aside(r, b), Aside(m, n)
    PROVE  Fine(r, m)
<1>1. Kept(r)
    BY Zenon DEF Fine, Steady, Kept, Aside
<1> QED BY <1>1, NeutralFine, Zenon DEF Aside, Fine, Fresh

\* Both builders ask for namespaces.
LEMMA RequiredFine ==
    ASSUME NEW b, NEW n, NEW r, NEW m, Fine(b, n), Required(r, b), Required(m, n)
    PROVE  Fine(r, m)
<1>1. Kept(r)
    BY Zenon DEF Required, Kept
<1>2. m.useNs /\ ~m.dead
    BY Zenon DEF Required, Fine, Fresh
<1> QED BY <1>1, <1>2, NeutralFine, Zenon DEF Required

\* The settings that are set aside.
LEMMA SettingsAside ==
    ASSUME NEW b, IsBuilder(b)
    PROVE  /\ \A nr : Aside(OverridableBlockSyscallWithErrno(b, nr), b)
           /\ Aside(DangerAllowMountPropagation(b), b) /\ Aside(DangerDefaultAllowAll(b), b)
           /\ \A when, enable : Aside(CollectStacktraces(b, when, enable), b)
           /\ Aside(SetError(b), b) /\ Aside(b, b)
           /\ \A hosts : Aside([b EXCEPT !.hosts = hosts], b)
           /\ \A host, readable : Aside(AllowIP(b, host, readable), b)
<1>1. \A x : Aside([b EXCEPT !.overridable = x], b)
    BY Zenon DEF Aside, SameRules, IsBuilder, Members
<1>2. \A x : Aside([b EXCEPT !.propagation = x], b)
    BY Zenon DEF Aside, SameRules, IsBuilder, Members
<1>3. \A x : Aside([b EXCEPT !.allowAll = x], b)
    BY Zenon DEF Aside, SameRules, IsBuilder, Members
<1>4. \A x : Aside([b EXCEPT !.collect = x], b)
    BY Zenon DEF Aside, SameRules, IsBuilder, Members
<1>5. \A x : Aside([b EXCEPT !.hosts = x], b)
    BY Zenon DEF Aside, SameRules, IsBuilder, Members
<1>6. Aside(SetError(b), b)
    BY Zenon DEF Aside, SameRules, IsBuilder, Members, SetError
<1>7. Aside(b, b)
    BY Zenon DEF Aside, SameRules, IsBuilder
<1>8. \A host, readable : Aside(AllowIP(b, host, readable), b)
    BY <1>5, <1>6, Zenon DEF AllowIP
<1>9. \A nr : Aside(OverridableBlockSyscallWithErrno(b, nr), b)
    BY <1>1, Zenon DEF OverridableBlockSyscallWithErrno
<1>10. Aside(DangerAllowMountPropagation(b), b) /\ Aside(DangerDefaultAllowAll(b), b)
    BY <1>2, <1>3, Zenon DEF DangerAllowMountPropagation, DangerDefaultAllowAll
<1>11. \A when, enable : Aside(CollectStacktraces(b, when, enable), b)
    BY <1>4, Zenon DEF CollectStacktraces
<1> QED BY <1>5, <1>6, <1>7, <1>8, <1>9, <1>10, <1>11, Zenon
-----------------------------------------------------------------------------
(* Namespaces and mounts.                                                  *)

\* EnableNamespaces after DisableNamespaces ends the program.
LEMMA EnableRequires ==
    ASSUME NEW b, IsBuilder(b)
    PROVE  Required(EnableNamespaces(b), b)
<1>1. CASE b.useNs
    <2>1. EnableNamespaces(b) = [b EXCEPT !.requiresNs = TRUE]
        BY <1>1, Zenon DEF EnableNamespaces
    <2> QED BY <1>1, <2>1, Zenon DEF Required, SameRules, IsBuilder, Members
<1>2. CASE ~b.useNs
    <2>1. EnableNamespaces(b) = [b EXCEPT !.dead = TRUE]
        BY <1>2, Zenon DEF EnableNamespaces, Dead
    <2> QED BY <1>2, <2>1, Zenon DEF Required, SameRules, IsBuilder, Members
<1> QED BY <1>1, <1>2, Zenon

\* What is set once they are asked for.
LEMMA SettingRequires ==
    ASSUME NEW b, NEW e, Required(e, b)
    PROVE  /\ Required(SetError(e), b)
           /\ \A x : /\ Required([e EXCEPT !.mounts = x], b) /\ Required([e EXCEPT !.net = x], b)
                     /\ Required([e EXCEPT !.hostname = x], b)
           /\ \A result : Required(Placed(e, result), b)
<1>1. Required(SetError(e), b)
    BY Zenon DEF Required, SameRules, IsBuilder, Members, SetError
<1>2. \A x : Required([e EXCEPT !.mounts = x], b)
    BY Zenon DEF Required, SameRules, IsBuilder, Members
<1>3. \A x : Required([e EXCEPT !.net = x], b)
    BY Zenon DEF Required, SameRules, IsBuilder, Members
<1>4. \A x : Required([e EXCEPT !.hostname = x], b)
    BY Zenon DEF Required, SameRules, IsBuilder, Members
<1>5. \A x : Required(SetError([e EXCEPT !.mounts = x]), b)
    BY Zenon DEF Required, SameRules, IsBuilder, Members, SetError
<1>6. \A result : Required(Placed(e, result), b)
    BY <1>2, <1>5, Zenon DEF Placed
<1> QED BY <1>1, <1>2, <1>3, <1>4, <1>6, Zenon

\* Every method that mounts, and the network and hostname settings.
LEMMA MountsRequire ==
    ASSUME NEW b, IsBuilder(b)
    PROVE  /\ \A o, i, ro : /\ Required(AddFileAt(b, o, i, ro), b)
                            /\ Required(AddDirectoryAt(b, o, i, ro), b)
           /\ \A i : Required(AddTmpfs(b, i), b)
           /\ \A o, found, files : Required(AddLibrariesForBinary(b, o, found, files), b)
           /\ Required(SetRootWritable(b), b) /\ Required(AllowUnrestrictedNetworking(b), b)
           /\ \A name : Required(SetHostname(b, name), b)
<1> DEFINE e == EnableNamespaces(b)
<1>1. Required(e, b)
    BY EnableRequires, Zenon
<1>2. b.dead => Required(b, b)
    BY Zenon DEF Required, SameRules, IsBuilder
<1>3. /\ Required(SetError(e), b) /\ \A result : Required(Placed(e, result), b)
      /\ \A x : /\ Required([e EXCEPT !.mounts = x], b) /\ Required([e EXCEPT !.net = x], b)
                /\ Required([e EXCEPT !.hostname = x], b)
    BY <1>1, SettingRequires, Zenon
<1>4. \A o, i, ro : Required(AddFileAt(b, o, i, ro), b)
    BY <1>2, <1>3, Zenon DEF AddFileAt
<1>5. \A o, i, ro : Required(AddDirectoryAt(b, o, i, ro), b)
    BY <1>2, <1>3, Zenon DEF AddDirectoryAt
<1>6. \A i : Required(AddTmpfs(b, i), b)
    BY <1>2, <1>3, Zenon DEF AddTmpfs
<1>7. \A o, found, files : Required(AddLibrariesForBinary(b, o, found, files), b)
    BY <1>2, <1>3, Zenon DEF AddLibrariesForBinary
<1>8. Required(SetRootWritable(b), b) /\ Required(AllowUnrestrictedNetworking(b), b)
    BY <1>3, Zenon DEF SetRootWritable, AllowUnrestrictedNetworking
<1>9. \A name : Required(SetHostname(b, name), b)
    BY <1>3, Zenon DEF SetHostname
<1> QED BY <1>4, <1>5, <1>6, <1>7, <1>8, <1>9, Zenon

\* Restartable sequences with the files of /proc and /sys they read.
LEMMA ProcFilesFine ==
    ASSUME NEW b, NEW n, NEW slow, Fine(b, n)
    PROVE  Fine(AllowRestartableSequencesWithProcFiles(b, slow),
                AllowRestartableSequencesWithProcFiles(n, slow))
<1>1. ASSUME NEW r, NEW m, NEW path, Fine(r, m)
      PROVE  Fine(AddFile(r, path), AddFile(m, path)) /\ Fine(AddDirectory(r, path), AddDirectory(m, path))
    <2>1. IsBuilder(r) /\ IsBuilder(m)
        BY <1>1, Zenon DEF Fine, Steady, Fresh
    <2>2. /\ Required(AddFile(r, path), r) /\ Required(AddDirectory(r, path), r)
          /\ Required(AddFile(m, path), m) /\ Required(AddDirectory(m, path), m)
        BY <2>1, MountsRequire, Zenon DEF AddFile, AddDirectory
    <2> QED BY <1>1, <2>2, RequiredFine, Zenon
<1> DEFINE F(x) == AddDirectory(
                       AddFile(AddFile(AllowRestartableSequences(x, slow),
                                       <<"", "proc", "cpuinfo">>), <<"", "proc", "stat">>),
                       <<"", "sys", "devices", "system", "cpu">>)
<1>2. Fine(F(b), F(n))
    BY <1>1, SequencesFine, Zenon
<1> DEFINE G(x) == AddFile(F(x), <<"", "proc", "self", "cpuset">>)
<1>3. Fine(G(b), G(n))
    BY <1>1, <1>2, Zenon
<1>4. CASE slow
    <2>1. \A x : AllowRestartableSequencesWithProcFiles(x, slow) = G(x)
        BY <1>4, Zenon DEF AllowRestartableSequencesWithProcFiles
    <2> HIDE DEF F, G
    <2> QED BY <1>3, <2>1
<1>5. CASE ~slow
    <2>1. \A x : AllowRestartableSequencesWithProcFiles(x, slow) = F(x)
        BY <1>5, Zenon DEF AllowRestartableSequencesWithProcFiles
    <2> HIDE DEF F
    <2> QED BY <1>2, <2>1
<1> QED BY <1>4, <1>5, Zenon

\* What static and dynamic binaries need to start, and to forward their logs.
LEMMA StartupFine ==
    ASSUME NEW b, NEW n, Fine(b, n)
    PROVE  /\ Fine(AllowStaticStartup(b), AllowStaticStartup(n))
           /\ Fine(AllowDynamicStartup(b), AllowDynamicStartup(n))
           /\ Fine(AllowLogForwarding(b), AllowLogForwarding(n))
<1>1. ASSUME NEW r, NEW m, Fine(r, m)
      PROVE  Fine(OverridableBlockSyscallWithErrno(r, "readlink"),
                  OverridableBlockSyscallWithErrno(m, "readlink"))
    BY <1>1, SettingsAside, AsideFine, Zenon DEF Fine, Steady, Fresh
<1>2. ASSUME NEW r, NEW m, Fine(r, m)
      PROVE  Fine(AllowStaticStartup(r), AllowStaticStartup(m))
    BY <1>1, <1>2, AllowFine, ArgumentFine, ProcessFine, Zenon DEF AllowStaticStartup
<1>3. Fine(AllowDynamicStartup(b), AllowDynamicStartup(n))
    BY <1>2, AllowFine, ArgumentFine, FilesFine, Zenon DEF AllowDynamicStartup
<1>4. Fine(AllowLogForwarding(b), AllowLogForwarding(n))
    BY AllowFine, ArgumentFine, FilesFine, ProcessFine, MallocFine, Zenon DEF AllowLogForwarding
<1> QED BY <1>2, <1>3, <1>4, Zenon

\* The network proxy: the second call fails, on a new builder there is no second.
LEMMA ProxyFine ==
    ASSUME NEW b, NEW n, Fine(b, n), n.hosts = NoHosts
    PROVE  Fine(AddNetworkProxyPolicy(b), AddNetworkProxyPolicy(n))
<1> DEFINE F(x) == AddPolicyOnSyscalls(
                       AddPolicyOnSyscall(AllowSyscalls(AllowDup(AllowFutexOp(AllowFutexOp(
                           AllowFutexOp([x EXCEPT !.hosts = {}], "WAKE"), "WAIT"), "WAIT_BITSET")),
                           {"recvmsg", "close", "gettid"}), "socket", {"INET", "INET6"}),
                       On2("getsockopt", {<<"SOCKET", "TYPE">>}), "ALLOW")
<1>1. IsBuilder(b) /\ IsBuilder(n)
    BY Zenon DEF Fine, Steady, Fresh
<1>2. Fine([b EXCEPT !.hosts = {}], [n EXCEPT !.hosts = {}])
    <2>1. Aside([b EXCEPT !.hosts = {}], b) /\ Aside([n EXCEPT !.hosts = {}], n)
        BY <1>1, Zenon DEF Aside, SameRules, IsBuilder, Members
    <2> QED BY <2>1, AsideFine, Zenon
<1>3. Fine(F(b), F(n))
    BY <1>2, AllowFine, ArgumentFine, FilesFine, ProcessFine, Zenon
<1>4. \A x : AddNetworkProxyPolicy(x) = IF x.hosts # NoHosts THEN SetError(x) ELSE F(x)
    BY Zenon DEF AddNetworkProxyPolicy
<1> HIDE DEF F
<1>5. Steady(SetError(b)) /\ ~Live(SetError(b))
    <2>1. Aside(SetError(b), b)
        BY <1>1, SettingsAside, Zenon
    <2>2. Fine(SetError(b), n)
        BY <1>1, <2>1, SettingsAside, AsideFine, Zenon
    <2>3. ~SetError(b).ok
        BY <1>1, Zenon DEF SetError, IsBuilder, Members
    <2> QED BY <2>2, <2>3, Zenon DEF Fine, Live
<1> QED BY <1>3, <1>4, <1>5, Zenon DEF Fine, Together
-----------------------------------------------------------------------------
(* One lemma per action.                                                   *)

\* A new builder, and what it allows.
LEMMA NewIsFresh == Fresh(NewBuilder) /\ NewBuilder.hosts = NoHosts /\ Allowed(NewBuilder) = {}
<1>1. IsBuilder(NewBuilder) /\ NewBuilder.hosts = NoHosts /\ ~NewBuilder.dead /\ NewBuilder.useNs
    BY Zenon DEF IsBuilder, Members, NewBuilder
<1>2. NewBuilder.user = <<>> /\ NewBuilder.handled = {}
    BY Zenon DEF NewBuilder
<1>3. DOMAIN NewBuilder.user = {}
    BY <1>2
<1>4. Permits(NewBuilder)
    BY <1>2, <1>3, Zenon DEF Permits
<1>5. Covered({}) = {}
    BY Zenon DEF Covered
<1> QED BY <1>1, <1>3, <1>4, <1>5, AllowedIsCovered, Zenon DEF Fresh

\* A method called on the program's builder and on a new one.
LEMMA MethodKeeps ==
    ASSUME NEW r, NEW m, BuilderInv, Call(r, m), UNCHANGED <<limits, custom>>,
           Steady(r), Together(r, m)
    PROVE  BuilderInv'
<1>1. /\ builder' = r /\ granted' = granted \cup Allowed(m) /\ policy' = policy
      /\ limits' = limits /\ custom' = custom
    BY Zenon DEF Call
<1>2. Steady(builder)'
    BY <1>1, Zenon DEF Steady, Guarded, Kept, IsBuilder
<1>3. Fresh(NewBuilder)'
    BY NewIsFresh
<1>4. Together(builder, NewBuilder)'
    <2>1. Live(builder)' <=> Live(r)
        BY <1>1, Zenon DEF Live
    <2>2. Permits(builder)' <=> Permits(r)
        BY <1>1, Zenon DEF Permits
    <2>3. Allowed(builder)' = Allowed(r)
        BY <1>1, Zenon DEF Allowed
    <2>4. Allowed(NewBuilder)' = {}
        BY NewIsFresh
    <2>5. Live(r) /\ ~limits => Permits(r) /\ Allowed(r) = granted'
        BY <1>1, Zenon DEF Together
    <2>6. granted' \cup {} = granted'
        BY Zenon
    <2>7. (granted \cup Allowed(NewBuilder))' = granted'
        BY <2>4, <2>6
    <2> QED BY <1>1, <2>1, <2>2, <2>3, <2>5, <2>7 DEF Together
<1>5. PolicyGuarded'
    BY <1>1, Zenon DEF BuilderInv, PolicyGuarded
<1> QED BY <1>2, <1>3, <1>4, <1>5, Zenon DEF BuilderInv, Fine

\* A method that forbids something: only Steady has to be kept.
LEMMA LimitKeeps ==
    ASSUME NEW r, NEW m, BuilderInv, Call(r, m), limits' = TRUE, custom' = custom, Steady(r)
    PROVE  BuilderInv'
<1>1. /\ builder' = r /\ policy' = policy /\ limits' /\ custom' = custom
    BY Zenon DEF Call
<1>2. Steady(builder)'
    BY <1>1, Zenon DEF Steady, Guarded, Kept, IsBuilder
<1>3. Fresh(NewBuilder)'
    BY NewIsFresh
<1>4. Together(builder, NewBuilder)'
    BY <1>1, Zenon DEF Together
<1>5. PolicyGuarded'
    BY <1>1, Zenon DEF BuilderInv, PolicyGuarded
<1> QED BY <1>2, <1>3, <1>4, <1>5, Zenon DEF BuilderInv, Fine

\* The form the actions are written in.
LEMMA FineKeeps ==
    ASSUME NEW r, NEW m, BuilderInv, Call(r, m) /\ UNCHANGED <<limits, custom>>, Fine(r, m)
    PROVE  BuilderInv'
BY MethodKeeps, Zenon DEF Fine

\* The calls with lists of names and with policies of the program's own.
LEMMA ListsKeep ==
    ASSUME BuilderInv, CallAllowSyscalls \/ CallBlockSyscalls
    PROVE  BuilderInv'
<1>1. Fine(builder, NewBuilder)
    BY Zenon DEF BuilderInv
<1>2. CASE CallAllowSyscalls
    <2>1. PICK nrs \in Listed : Call(AllowSyscalls(builder, nrs), AllowSyscalls(NewBuilder, nrs))
                                /\ UNCHANGED <<limits, custom>>
        BY <1>2, Zenon DEF CallAllowSyscalls, Method
    <2> QED BY <1>1, <2>1, AllowFine, FineKeeps, Zenon
<1>3. CASE CallBlockSyscalls
    <2>1. PICK nrs \in Listed : /\ Call(BlockSyscallsWithErrno(builder, nrs),
                                       BlockSyscallsWithErrno(NewBuilder, nrs))
                                /\ limits' = TRUE /\ UNCHANGED custom
        BY <1>3, Zenon DEF CallBlockSyscalls, Limit
    <2>2. Steady(BlockSyscallsWithErrno(builder, nrs))
        BY <1>1, BlockSteady, Zenon DEF Fine
    <2> QED BY <2>1, <2>2, LimitKeeps, Zenon
<1> QED BY <1>2, <1>3, Zenon

\* A policy of the program's own, which may be on ptrace: then it is its own.
LEMMA CustomKeeps ==
    ASSUME BuilderInv, CallAddPolicy
    PROVE  BuilderInv'
<1> PICK p \in CustomRules :
        /\ Call([AddPolicyOnSyscalls(builder, p.calls, p.action) EXCEPT !.length = @ + p.size],
                AddPolicyOnSyscalls(NewBuilder, p.calls, p.action))
        /\ custom' = custom \cup {c[1] : c \in p.calls}
        /\ limits' = (limits \/ p.action # "ALLOW")
    BY Zenon DEF CallAddPolicy
<1> DEFINE q == Rule(builder, p.calls, p.action)
           r == [q EXCEPT !.length = @ + p.size]
           m == Rule(NewBuilder, p.calls, p.action)
<1>1. Fine(builder, NewBuilder) /\ IsBuilder(builder) /\ ~builder.dead
    BY Zenon DEF BuilderInv, Fine, Steady, Call
<1>2. RuleAdded(q, builder, p.calls, p.action)
    BY <1>1, RuleEffect, Zenon
<1>3. /\ builder' = r /\ granted' = granted \cup Allowed(m) /\ policy' = policy
    BY Zenon DEF Call, AddPolicyOnSyscalls
<1> HIDE DEF q, m
<1>4. SameSettings(r, q) /\ r.user = q.user /\ r.handled = q.handled /\ r.handlesPtrace = q.handlesPtrace
    BY <1>2, Zenon DEF RuleAdded, SameSettings, IsBuilder, Members
<1> HIDE DEF r
<1>5. RuleAdded(r, builder, p.calls, p.action)
    BY <1>2, <1>4, Zenon DEF RuleAdded, Adds, SameSettings
<1>6. Guarded(r, custom')
    <2> SUFFICES ASSUME ~r.built, "ptrace" \notin custom'
                 PROVE  /\ <<"ptrace">> \in DOMAIN r.user => "ptrace" \in r.handled
                        /\ r.handlesPtrace => /\ <<"ptrace">> \in DOMAIN r.user
                                              /\ r.user[<<"ptrace">>] = "ERRNO"
        BY Zenon DEF Guarded
    <2>1. <<"ptrace">>[1] = "ptrace"
        OBVIOUS
    <2>2. <<"ptrace">> \notin p.calls /\ "ptrace" \notin custom
        BY <2>1, Zenon
    <2> QED BY <1>1, <1>5, <2>2, Zenon DEF RuleAdded, Adds, SameSettings, Fine, Steady, Guarded, Undecided
<1>7. Kept(r) /\ IsBuilder(r) /\ (policy # NoPolicy => r.built)
    BY <1>1, <1>5, Zenon DEF RuleAdded, SameSettings, Fine, Steady, Kept
<1>8. Steady(builder)'
    BY <1>3, <1>6, <1>7, Zenon DEF Steady, Guarded, Kept, IsBuilder
<1>9. Fresh(NewBuilder)'
    BY NewIsFresh
<1>10. Together(builder, NewBuilder)'
    <2> SUFFICES ASSUME Live(r), ~limits' PROVE Permits(r) /\ Allowed(r) = granted'
        <3>1. (granted \cup Allowed(NewBuilder))' = granted'
            BY NewIsFresh
        <3>2. (Live(builder)' <=> Live(r)) /\ (Permits(builder)' <=> Permits(r))
            BY <1>3, Zenon DEF Live, Permits
        <3>3. Allowed(builder)' = Allowed(r)
            BY <1>3, Zenon DEF Allowed
        <3> QED BY <3>1, <3>2, <3>3 DEF Together
    <2>1. ~limits /\ p.action = "ALLOW"
        BY Zenon
    <2>2. Live(builder)
        BY <1>5, Zenon DEF Live, RuleAdded, SameSettings
    <2>3. Permits(builder) /\ Allowed(builder) = granted \cup {}
        BY <1>1, <2>1, <2>2, NewIsFresh, Zenon DEF Fine, Together
    <2>4. Permits(r) /\ Allowed(r) = Allowed(builder) \cup Covered(p.calls)
        <3>1. RuleAdded(r, builder, p.calls, "ALLOW")
            BY <1>5, <2>1
        <3> QED BY <2>3, <3>1, RuleCovers, Zenon
    <2>5. RuleAdded(m, NewBuilder, p.calls, "ALLOW")
        <3>1. RuleAdded(m, NewBuilder, p.calls, p.action)
            BY NewIsFresh, RuleEffect, Zenon DEF Fresh, m
        <3> QED BY <2>1, <3>1
    <2>6. Allowed(m) = {} \cup Covered(p.calls)
        <3>1. Allowed(m) = Allowed(NewBuilder) \cup Covered(p.calls)
            BY <2>5, NewIsFresh, RuleCovers, Zenon DEF Fresh
        <3> QED BY <3>1, NewIsFresh
    <2> QED BY <1>3, <2>3, <2>4, <2>6, Zenon
<1>11. PolicyGuarded'
    BY <1>3, Zenon DEF BuilderInv, PolicyGuarded
<1> QED BY <1>8, <1>9, <1>10, <1>11, Zenon DEF BuilderInv, Fine

\* The methods that allow groups of calls.
LEMMA GroupsKeep ==
    ASSUME BuilderInv, CallAllowFiles \/ CallAllowWaits \/ CallAllowProcess \/ CallAllowMemory
    PROVE  BuilderInv'
<1>1. Fine(builder, NewBuilder)
    BY Zenon DEF BuilderInv
<1>2. CASE CallAllowFiles
    BY <1>1, <1>2, FilesFine, FineKeeps, Zenon DEF CallAllowFiles, Method
<1>3. CASE CallAllowWaits
    BY <1>1, <1>3, WaitsFine, FineKeeps, Zenon DEF CallAllowWaits, Method
<1>4. CASE CallAllowProcess
    BY <1>1, <1>4, ProcessFine, StartupFine, FineKeeps, Zenon DEF CallAllowProcess, Method
<1>5. CASE CallAllowMemory
    BY <1>1, <1>5, ProcessFine, MallocFine, SequencesFine, ProcFilesFine, FineKeeps, Zenon
       DEF CallAllowMemory, Method, AllowLlvmSanitizers
<1> QED BY <1>2, <1>3, <1>4, <1>5, Zenon

\* The methods that mount.
LEMMA MountsKeep ==
    ASSUME BuilderInv, CallMounts
    PROVE  BuilderInv'
<1>1. Fine(builder, NewBuilder) /\ IsBuilder(builder) /\ IsBuilder(NewBuilder)
    BY Zenon DEF BuilderInv, Fine, Steady, Fresh
<1>2. ASSUME NEW r, NEW m, Call(r, m) /\ UNCHANGED <<limits, custom>>,
             Required(r, builder), Required(m, NewBuilder)
      PROVE  BuilderInv'
    BY <1>1, <1>2, RequiredFine, FineKeeps, Zenon
<1>3. CASE \E at \in AddedPaths, ro \in BOOLEAN :
              \/ Method(LAMBDA b : AddFileAt(b, at.outside, at.inside, ro))
              \/ Method(LAMBDA b : AddDirectoryAt(b, at.outside, at.inside, ro))
    BY <1>1, <1>2, <1>3, MountsRequire, Zenon DEF Method
<1>4. CASE \E at \in AddedPaths : Method(LAMBDA b : AddTmpfs(b, at.inside))
    BY <1>1, <1>2, <1>4, MountsRequire, Zenon DEF Method
<1>5. CASE \E found \in BOOLEAN, at \in AddedPaths, files \in LibraryLists :
              Method(LAMBDA b : AddLibrariesForBinary(b, at.outside, found, files))
    BY <1>1, <1>2, <1>5, MountsRequire, Zenon DEF Method
<1>6. CASE Method(SetRootWritable)
    BY <1>1, <1>2, <1>6, MountsRequire, Zenon DEF Method
<1> QED BY <1>3, <1>4, <1>5, <1>6, Zenon DEF CallMounts

\* DisableNamespaces: a program that has asked for them dies.
LEMMA DisableKeeps ==
    ASSUME BuilderInv, Method(DisableNamespaces)
    PROVE  BuilderInv'
<1> DEFINE r == DisableNamespaces(builder)
           m == DisableNamespaces(NewBuilder)
<1>1. Call(r, m) /\ UNCHANGED <<limits, custom>>
    BY Zenon DEF Method
<1>2. Fine(builder, NewBuilder) /\ IsBuilder(builder) /\ IsBuilder(NewBuilder)
    BY Zenon DEF BuilderInv, Fine, Steady, Fresh
<1>3. \A b : IsBuilder(b) => SameRules([b EXCEPT !.dead = TRUE], b)
    BY Zenon DEF SameRules, IsBuilder, Members
<1>4. \A b : IsBuilder(b) => SameRules([b EXCEPT !.useNs = FALSE], b)
    BY Zenon DEF SameRules, IsBuilder, Members
<1>5. SameRules(r, builder) /\ SameRules(m, NewBuilder)
    BY <1>2, <1>3, <1>4, Zenon DEF DisableNamespaces, Dead
<1>6. Kept(r)
    <2>1. CASE builder.requiresNs
        <3>1. r = [builder EXCEPT !.dead = TRUE]
            BY <2>1, Zenon DEF DisableNamespaces, Dead
        <3> QED BY <1>2, <3>1, Zenon DEF Kept, IsBuilder, Members
    <2>2. CASE ~builder.requiresNs
        <3>1. r = [builder EXCEPT !.useNs = FALSE]
            BY <2>2, Zenon DEF DisableNamespaces
        <3>2. /\ r.dead = builder.dead /\ r.requiresNs = builder.requiresNs
              /\ r.mounts = builder.mounts /\ r.net = builder.net /\ r.hostname = builder.hostname
            BY <1>2, <3>1, Zenon DEF IsBuilder, Members
        <3> HIDE DEF r
        <3> QED BY <1>2, <2>2, <3>2, Zenon DEF Kept, Fine, Steady
    <2> QED BY <2>1, <2>2, Zenon
<1>7. NewBuilder.useNs /\ ~NewBuilder.dead /\ SameRules(NewBuilder, NewBuilder)
    BY <1>2, NewIsFresh, Zenon DEF Fresh, SameRules
<1>8. Fine(r, NewBuilder)
    BY <1>2, <1>5, <1>6, <1>7, NeutralFine, Zenon
<1>9. Allowed(m) = Allowed(NewBuilder)
    BY <1>5, Zenon DEF SameRules, Allowed
<1> HIDE DEF r, m
<1>10. Together(r, m)
    BY <1>8, <1>9, Zenon DEF Fine, Together
<1> QED BY <1>1, <1>8, <1>10, MethodKeeps, Zenon DEF Fine

\* The other settings.
LEMMA SettingsKeep ==
    ASSUME BuilderInv, CallSettings
    PROVE  BuilderInv'
<1>1. Fine(builder, NewBuilder) /\ IsBuilder(builder) /\ IsBuilder(NewBuilder)
    BY Zenon DEF BuilderInv, Fine, Steady, Fresh
<1>2. ASSUME NEW r, NEW m, Call(r, m) /\ UNCHANGED <<limits, custom>>,
             Required(r, builder), Required(m, NewBuilder)
      PROVE  BuilderInv'
    BY <1>1, <1>2, RequiredFine, FineKeeps, Zenon
<1>3. ASSUME NEW r, NEW m, Call(r, m) /\ UNCHANGED <<limits, custom>>,
             Aside(r, builder), Aside(m, NewBuilder)
      PROVE  BuilderInv'
    BY <1>1, <1>3, AsideFine, FineKeeps, Zenon
<1>4. CASE Method(EnableNamespaces) \/ Method(AllowUnrestrictedNetworking)
           \/ Method(LAMBDA b : SetHostname(b, "other"))
    BY <1>1, <1>2, <1>4, EnableRequires, MountsRequire, Zenon DEF Method
<1>5. CASE Method(DangerAllowMountPropagation)
           \/ \E when \in {"signal", "exit"}, enable \in BOOLEAN :
                 Method(LAMBDA b : CollectStacktraces(b, when, enable))
    BY <1>1, <1>3, <1>5, SettingsAside, Zenon DEF Method
<1>6. CASE Limit(DangerDefaultAllowAll)
    <2>1. Fine(DangerDefaultAllowAll(builder), NewBuilder)
        BY <1>1, SettingsAside, AsideFine, Zenon
    <2> QED BY <1>6, <2>1, LimitKeeps, Zenon DEF Limit, Fine
<1> QED BY <1>4, <1>5, <1>6, DisableKeeps, Zenon DEF CallSettings

\* The network proxy.
LEMMA ProxyKeeps ==
    ASSUME BuilderInv, CallProxy
    PROVE  BuilderInv'
<1>1. Fine(builder, NewBuilder) /\ IsBuilder(builder) /\ IsBuilder(NewBuilder)
    BY Zenon DEF BuilderInv, Fine, Steady, Fresh
<1>2. Fine(AddNetworkProxyPolicy(builder), AddNetworkProxyPolicy(NewBuilder))
    BY <1>1, NewIsFresh, ProxyFine, Zenon
<1>3. CASE Method(AddNetworkProxyPolicy)
    BY <1>2, <1>3, FineKeeps, Zenon DEF Method
<1>4. CASE Limit(AddNetworkProxyHandlerPolicy)
    <2> DEFINE F(x) == AddPolicyOnSyscall(AddPolicyOnSyscall(AllowSyscalls(AddNetworkProxyPolicy(x),
                           {"rt_sigreturn"}), "rt_sigaction", {"SIGSYS"}), "rt_sigprocmask", {"UNBLOCK"})
    <2>1. Fine(F(builder), F(NewBuilder))
        BY <1>2, AllowFine, ArgumentFine, Zenon
    <2>2. AddNetworkProxyHandlerPolicy(builder) = Rule(F(builder), CallsOf({"connect"}), "TRAP")
        BY Zenon DEF AddNetworkProxyHandlerPolicy, AddPolicyOnSyscalls
    <2> HIDE DEF F
    <2>3. <<"ptrace">> # <<"connect">>
        OBVIOUS
    <2>4. <<"ptrace">> \notin CallsOf({"connect"})
        BY <2>3, Zenon DEF CallsOf
    <2>5. Steady(Rule(F(builder), CallsOf({"connect"}), "TRAP"))
        BY <2>1, <2>4, RuleSteady, Zenon DEF Fine
    <2>6. Steady(AddNetworkProxyHandlerPolicy(builder))
        BY <2>2, <2>5
    <2> QED BY <1>4, <2>6, LimitKeeps, Zenon DEF Limit
<1>5. CASE \E readable \in BOOLEAN : Method(LAMBDA b : AllowIP(b, "host", readable))
    <2>1. PICK readable \in BOOLEAN : Call(AllowIP(builder, "host", readable),
                                          AllowIP(NewBuilder, "host", readable))
                                     /\ UNCHANGED <<limits, custom>>
        BY <1>5, Zenon DEF Method
    <2>2. /\ Aside(AllowIP(builder, "host", readable), builder)
          /\ Aside(AllowIP(NewBuilder, "host", readable), NewBuilder)
        BY <1>1, SettingsAside, Zenon
    <2> QED BY <1>1, <2>1, <2>2, AsideFine, FineKeeps, Zenon
<1> QED BY <1>3, <1>4, <1>5, Zenon DEF CallProxy

\* TryBuild: the rules move into the policy with what guards ptrace.
LEMMA BuildKeeps ==
    ASSUME BuilderInv, TryBuild
    PROVE  BuilderInv'
<1>1. CASE BuildRefused(builder)
    <2>1. UNCHANGED builderVars
        BY <1>1, Zenon DEF TryBuild, builderVars
    <2> QED BY <2>1 DEF builderVars, BuilderInv, Fine, Steady, Guarded, Kept, IsBuilder, Together,
                        Live, Permits, Allowed, Decision, Fresh, PolicyGuarded
<1>2. CASE ~BuildRefused(builder)
    <2>1. /\ policy' = Built(builder) /\ builder' = AfterBuild(builder) /\ custom' = custom
        BY <1>2, Zenon DEF TryBuild
    <2>2. IsBuilder(builder) /\ Steady(builder) /\ ~builder.built
        BY <1>2, Zenon DEF BuilderInv, Fine, Steady, BuildRefused
    <2>3. /\ DOMAIN builder' = Members /\ builder'.built
          /\ builder'.dead = builder.dead /\ builder'.useNs = builder.useNs
          /\ builder'.requiresNs = builder.requiresNs /\ builder'.net = builder.net
          /\ builder'.hostname = builder.hostname
          /\ builder'.mounts = IF builder.useNs THEN NewTree ELSE builder.mounts
        BY <2>1, <2>2, Zenon DEF AfterBuild, IsBuilder, Members
    <2>4. Steady(builder)'
        <3>1. Kept(builder)'
            BY <2>2, <2>3, Zenon DEF Kept, Steady
        <3>2. Guarded(builder, custom)'
            BY <2>3, Zenon DEF Guarded
        <3> QED BY <2>3, <3>1, <3>2, Zenon DEF Steady, IsBuilder
    <2>5. Fresh(NewBuilder)'
        BY NewIsFresh
    <2>6. Together(builder, NewBuilder)'
        BY <2>3, Zenon DEF Together, Live
    <2>7. policy'.user = builder.user /\ policy'.handlesPtrace = builder.handlesPtrace
        BY <2>1, Zenon DEF Built
    <2>8. PolicyGuarded'
        BY <2>1, <2>2, <2>7, Zenon DEF PolicyGuarded, Steady, Guarded
    <2> QED BY <2>4, <2>5, <2>6, <2>8, Zenon DEF BuilderInv, Fine
<1> QED BY <1>1, <1>2, Zenon
-----------------------------------------------------------------------------
\* The invariant holds in every state of a program that calls the methods in
\* any order.
THEOREM BuilderInvariance == BuilderSpec => []BuilderInv
<1>1. BuilderInit => BuilderInv
    <2> SUFFICES ASSUME BuilderInit PROVE BuilderInv
        BY Zenon
    <2>1. /\ ~NewBuilder.built /\ ~NewBuilder.handlesPtrace /\ ~NewBuilder.requiresNs
          /\ NewBuilder.mounts = NewTree /\ ~NewBuilder.net /\ NewBuilder.hostname = "sandbox2"
          /\ NewBuilder.user = <<>>
        BY Zenon DEF NewBuilder
    <2>2. <<"ptrace">> \notin DOMAIN NewBuilder.user
        BY <2>1
    <2>3. Steady(NewBuilder)
        BY <2>1, <2>2, NewIsFresh, Zenon DEF Steady, Guarded, Kept, Fresh, BuilderInit
    <2>4. Together(NewBuilder, NewBuilder)
        BY NewIsFresh, Zenon DEF BuilderInit, Together, Fresh
    <2>5. Fine(builder, NewBuilder)
        BY <2>3, <2>4, NewIsFresh, Zenon DEF BuilderInit, Fine
    <2> QED BY <2>5, Zenon DEF BuilderInv, PolicyGuarded, BuilderInit
<1>2. BuilderInv /\ [BuilderNext]_builderVars => BuilderInv'
    <2> SUFFICES ASSUME BuilderInv, [BuilderNext]_builderVars PROVE BuilderInv'
        BY Zenon
    <2>1. CASE UNCHANGED builderVars
        BY <2>1 DEF builderVars, BuilderInv, Fine, Steady, Guarded, Kept, IsBuilder, Together,
                    Live, Permits, Allowed, Decision, Fresh, PolicyGuarded
    <2> QED BY <2>1, ListsKeep, CustomKeeps, GroupsKeep, MountsKeep, SettingsKeep, ProxyKeeps,
               BuildKeeps, Zenon DEF BuilderNext
<1> QED BY <1>1, <1>2, PTL DEF BuilderSpec

\* ComposesAsUnion in every state: what methods that only allow are called in
\* any number and order, the builder allows the union of what each allows.
THEOREM MethodsCompose == BuilderSpec => []ComposesAsUnion
<1>1. BuilderInv => ComposesAsUnion
    <2> SUFFICES ASSUME BuilderInv, Live(builder), ~limits PROVE Allowed(builder) = granted
        BY Zenon DEF ComposesAsUnion, Live
    <2>1. Allowed(builder) = granted \cup Allowed(NewBuilder)
        BY Zenon DEF BuilderInv, Fine, Together
    <2> QED BY <2>1, NewIsFresh
<1> QED BY <1>1, BuilderInvariance, PTL

\* BuildIsSound: ptrace stays blocked unless the program brings its own filter,
\* a policy is built once and without an error, nothing asked for is dropped.
THEOREM BuildingIsSound == BuilderSpec => BuildIsSound
<1>1. BuilderInv => PtraceStaysBlocked
    <2> SUFFICES ASSUME BuilderInv, policy # NoPolicy, "ptrace" \notin custom,
                        NEW notif \in BOOLEAN, NEW arch \in {"host", "x86"}
                 PROVE  GetPolicy(policy, notif, FALSE, arch, <<"ptrace">>) # "ALLOW"
        BY Zenon DEF PtraceStaysBlocked
    <2> DEFINE default == DefaultDecision(policy, notif, arch, <<"ptrace">>)
    <2>1. /\ <<"ptrace">> # <<"execveat", "EMPTY_PATH", "magic">> /\ <<"ptrace">> # <<"bpf">>
          /\ <<"ptrace">> # <<"clone", "UNTRACED">> /\ <<"ptrace">>[1] # "seccomp"
        OBVIOUS
    <2>2. CASE default = "none"
        <3>1. policy.handlesPtrace
            BY <2>1, <2>2, Zenon DEF DefaultDecision
        <3>2. <<"ptrace">> \in DOMAIN policy.user /\ policy.user[<<"ptrace">>] = "ERRNO"
            BY <3>1, Zenon DEF BuilderInv, PolicyGuarded
        <3>3. Decision(policy.user, <<"ptrace">>) = "ERRNO"
            BY <3>2, Zenon DEF Decision
        <3>4. UserPolicy(policy, <<"ptrace">>) = "ERRNO"
            BY <3>3 DEF UserPolicy
        <3> QED BY <2>2, <3>4 DEF GetPolicy
    <2>3. CASE default # "none"
        <3>1. default \in {"KILL", "TRACE"}
            BY <2>1, <2>3, Zenon DEF DefaultDecision
        <3> QED BY <2>3, <3>1, Zenon DEF GetPolicy
    <2> QED BY <2>2, <2>3, Zenon
<1>2. BuilderInv /\ [BuilderNext]_builderVars => [BuiltOnceWithoutError]_builderVars
    <2> SUFFICES ASSUME BuilderInv, [BuilderNext]_builderVars, policy' # policy
                 PROVE  policy = NoPolicy /\ builder.ok
        BY Zenon DEF BuiltOnceWithoutError
    <2>1. TryBuild /\ ~BuildRefused(builder)
        BY Zenon DEF BuilderNext, builderVars, CallAllowSyscalls, CallBlockSyscalls, CallAddPolicy,
                     CallAllowFiles, CallAllowWaits, CallAllowProcess, CallAllowMemory, CallMounts,
                     CallSettings, CallProxy, Method, Limit, Call, TryBuild
    <2> QED BY <2>1, Zenon DEF BuildRefused, BuilderInv, Fine, Steady
<1>3. BuilderInv => NothingDropped
    BY Zenon DEF BuilderInv, Fine, Steady, Kept, NothingDropped
<1> QED BY <1>1, <1>2, <1>3, BuilderInvariance, PTL DEF BuilderSpec, BuildIsSound
=============================================================================
