------------------------------- MODULE BpfCode -------------------------------
(***************************************************************************)
(* The code generator behind PolicyBuilder::AddPolicyOnSyscalls: a policy  *)
(* written as BPF instructions, possibly with symbolic labels, is checked, *)
(* its labels are resolved, and a dispatcher of conditional jumps is put   *)
(* in front of it so that it runs on the listed system calls only.         *)
(*                                                                         *)
(* Instructions are records [op, k, jt, jf].  Only the instructions whose  *)
(* position matters are told apart: loading an argument or the system call *)
(* number, a comparison, an unconditional jump, a return, and the two      *)
(* markers JUMP and LABEL that bpf_helper.h encodes as jumps with jt and   *)
(* jf of 0xff and 0xfe.                                                    *)
(***************************************************************************)
EXTENDS Integers, Sequences, SequencesExt

CONSTANTS
    MaxShortJump,   \* kMaxShortJump: what fits the 8 bits of jt and jf
    Numbers,        \* system call numbers
    Argument,       \* the argument of the call the policy looks at
    Policies,       \* the policies given, as sequences of instructions
    NumLists        \* the lists of system calls given

ASSUME BpfAssumption == MaxShortJump \in Nat

\* SANDBOX2_TRACE, with another architecture in its data and with the host's.
TraceOther == 100
TraceHost == 101

Instr(op, k, jt, jf) == [op |-> op, k |-> k, jt |-> jt, jf |-> jf]
LoadNr == Instr("ld_nr", 0, 0, 0)
LoadArg == Instr("ld_arg", 0, 0, 0)
Jeq(k, jt, jf) == Instr("jeq", k, jt, jf)
Ja(k) == Instr("ja", k, 0, 0)
Ret(k) == Instr("ret", k, 0, 0)
Jump(label) == Instr("jump", label, 0, 0)
Label(label) == Instr("label", label, 0, 0)
-----------------------------------------------------------------------------
(* What the kernel does with the code. *)

\* Running code from instruction pc with a in the accumulator, on system call
\* nr: <<"ret", action>>, or <<"fell", a>> when the last instruction is passed,
\* or <<"outside", a>> when a jump leads further than that.
Run(code, nr) ==
    LET n == Len(code)
        exec[pc \in 1 .. 2 * n + 2, a \in {nr, Argument, -1}] ==
            IF pc > n THEN <<IF pc = n + 1 THEN "fell" ELSE "outside", a>>
            ELSE LET i == code[pc] IN
                 CASE i.op = "ld_nr" -> exec[pc + 1, nr]
                   [] i.op = "ld_arg" -> exec[pc + 1, Argument]
                   [] i.op = "jeq" -> exec[pc + 1 + (IF a = i.k THEN i.jt ELSE i.jf), a]
                   [] i.op = "ja" -> exec[pc + 1 + i.k, a]
                   [] i.op = "ret" -> <<"ret", i.k>>
    IN exec[1, nr]
-----------------------------------------------------------------------------
(* bpf_resolve_jumps: one walk from the last instruction to the first. *)

\* The label table after the walk has passed the instructions after `at'.
LabelsAfter(policy, at) ==
    {i \in at + 1 .. Len(policy) : policy[i].op = "label"}

\* A jump whose label has not been met yet is an error, so is a second label of
\* the same name; an empty program is one too.
Resolvable(policy) ==
    /\ policy # <<>>
    /\ \A i \in 1 .. Len(policy) :
          LET later == {l \in LabelsAfter(policy, i) : policy[l].k = policy[i].k}
          IN /\ policy[i].op = "jump" => later # {}
             /\ policy[i].op = "label" => later = {}

\* The distance put into a resolved jump.
JumpDistance(location, offset) == location - (offset + 1)

ResolveInstr(policy, i) ==
    CASE policy[i].op = "jump" ->
            LET l == CHOOSE l \in LabelsAfter(policy, i) : policy[l].k = policy[i].k
            IN Ja(JumpDistance(l, i))
      [] policy[i].op = "label" -> Ja(0)
      [] OTHER -> policy[i]

bpf_resolve_jumps(policy) == [i \in 1 .. Len(policy) |-> ResolveInstr(policy, i)]
-----------------------------------------------------------------------------
(* AddPolicyOnSyscalls. *)

\* Mutant: one instruction too many is in bounds.
MaxJumpOffByOne(policy, i) == Len(policy) - i + 2

MaxJump(policy, i) == Len(policy) - i

CheckBpfBounds(policy, i) ==
    CASE policy[i].op = "ja" -> policy[i].k <= MaxJump(policy, i)
      [] policy[i].op = "jeq" -> /\ policy[i].jt <= MaxJump(policy, i)
                                 /\ policy[i].jf <= MaxJump(policy, i)
      [] OTHER -> TRUE

\* A TRACE with another value than the host architecture becomes SANDBOX2_TRACE.
Normalized(policy) ==
    [i \in 1 .. Len(policy) |->
        IF policy[i].op = "ret" /\ policy[i].k = TraceOther THEN Ret(TraceHost)
        ELSE policy[i]]

\* jt and jf are uint8_t.
Byte(n) == n % (MaxShortJump + 1)

\* One iteration of the loop over the system calls, from the last to the first:
\* `out' is the code so far and `loc' its size where the short jumps lead.  The
\* helper jump put in front when they reach no further skips one instruction
\* more than the code between it and the policy.
HelperDistance(out, policy) == Len(out) - Len(policy)

JeqBefore(out, loc, jf, num) ==
    [out |-> <<Jeq(num, Byte(Len(out) - loc), Byte(jf))>> \o out, loc |-> loc, last |-> FALSE]

JumpBefore(policy, out, loc, jf, num) ==
    IF Len(out) - loc > MaxShortJump
    THEN JeqBefore(<<Ja(HelperDistance(out, policy))>> \o out, Len(out) + 1, jf + 1, num)
    ELSE JeqBefore(out, loc, jf, num)

PrependJump(policy, acc, num) ==
    IF acc.last /\ Len(acc.out) > MaxShortJump
    THEN JumpBefore(policy, <<Ja(Len(acc.out))>> \o acc.out, acc.loc, 0, num)
    ELSE JumpBefore(policy, acc.out, acc.loc, IF acc.last THEN Len(acc.out) ELSE 0, num)

Dispatcher(nums, policy) ==
    LET body == Append(policy, LoadNr)
        Step(num, acc) == PrependJump(policy, acc, num)
    IN FoldRight(Step, nums, [out |-> body, loc |-> Len(body), last |-> TRUE]).out
-----------------------------------------------------------------------------
VARIABLES bpfPolicy, bpfNums, bpfCode, bpfState

bpfVars == <<bpfPolicy, bpfNums, bpfCode, bpfState>>

BpfInit ==
    /\ bpfPolicy \in Policies /\ bpfNums \in NumLists
    /\ bpfCode = <<>> /\ bpfState = "given"

IsSymbolic(policy) == \E i \in 1 .. Len(policy) : policy[i].op \in {"jump", "label"}

\* The BpfFunc overloads: ResolveBpfFunc.  The policy is passed on even when an
\* error has been recorded; the error keeps it from ever being built.
ResolveBpfFunc ==
    /\ bpfState = "given"
    /\ bpfState' = IF Resolvable(bpfPolicy) THEN "resolved" ELSE "error"
    /\ bpfCode' = IF Resolvable(bpfPolicy) THEN bpf_resolve_jumps(bpfPolicy) ELSE bpfPolicy
    /\ UNCHANGED <<bpfPolicy, bpfNums>>

\* The overloads that take instructions: "must be written without labels".
TakePolicy ==
    /\ bpfState = "given" /\ ~IsSymbolic(bpfPolicy)
    /\ bpfState' = "resolved" /\ bpfCode' = bpfPolicy
    /\ UNCHANGED <<bpfPolicy, bpfNums>>

AddPolicyCode ==
    /\ bpfState = "resolved"
    /\ IF \A i \in 1 .. Len(bpfCode) : CheckBpfBounds(bpfCode, i)
       THEN bpfState' = "added" /\ bpfCode' = Dispatcher(bpfNums, Normalized(bpfCode))
       ELSE bpfState' = "error" /\ UNCHANGED bpfCode
    /\ UNCHANGED <<bpfPolicy, bpfNums>>

BpfNext == ResolveBpfFunc \/ TakePolicy \/ AddPolicyCode
-----------------------------------------------------------------------------
(* The reference meaning of a policy, with labels as places to go to. *)

Meaning(policy, nr) ==
    LET n == Len(policy)
        exec[pc \in 1 .. 2 * n + 2, a \in {nr, Argument}] ==
            IF pc > n THEN <<"fell", nr>>
            ELSE LET i == policy[pc] IN
                 CASE i.op \in {"ld_nr", "label"} -> exec[pc + 1, IF i.op = "label" THEN a ELSE nr]
                   [] i.op = "ld_arg" -> exec[pc + 1, Argument]
                   [] i.op = "jeq" -> exec[pc + 1 + (IF a = i.k THEN i.jt ELSE i.jf), a]
                   [] i.op = "ja" -> exec[pc + 1 + i.k, a]
                   [] i.op = "jump" ->
                         exec[CHOOSE l \in pc .. n : policy[l].op = "label" /\ policy[l].k = i.k, a]
                   [] i.op = "ret" -> <<"ret", IF i.k = TraceOther THEN TraceHost ELSE i.k>>
    IN exec[1, nr]

Exact(nr) ==
    Run(bpfCode, nr) =
        IF nr \in Range(bpfNums) THEN Meaning(bpfPolicy, nr) ELSE <<"fell", nr>>

\* The code appended for a list of system calls no longer than a short jump
\* reaches decides what the policy means on the listed calls, leaves every
\* other call to the rules that follow, and hands them the number of the call
\* in the accumulator.  And however long the list, no jump of an accepted
\* policy leads outside the code appended for it, so that it is never continued
\* in the middle of another rule.
ShortListsAreExact ==
    bpfState = "added" =>
        /\ bpfNums # <<>> /\ Len(bpfNums) <= MaxShortJump => \A nr \in Numbers : Exact(nr)
        /\ \A nr \in Numbers : Run(bpfCode, nr)[1] # "outside"

\* "Appends a policy, which will be run on the specified syscalls"
\* (policybuilder.h): the same for a list of any length.  The helper jumps of
\* the longer lists enter the policy at its second instruction.
PolicyRunsOnListedCalls ==
    bpfState = "added" /\ bpfNums # <<>> => \A nr \in Numbers : Exact(nr)
=============================================================================
