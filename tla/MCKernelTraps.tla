--------------------------- MODULE MCKernelTraps ---------------------------
(***************************************************************************)
(* User programs for KernelTraps: the repository's own, and all short ones *)
(* over the instructions that behave differently.                          *)
(***************************************************************************)
EXTENDS KernelTrapsInv, SequencesExt

touch(p)      == [op |-> "touch", page |-> p]
syscall(n, p) == [op |-> "syscall", n |-> n, page |-> p]
setsp(s)      == [op |-> "setsp", sp |-> s]

\* user_start: TLS array, message 1, value, the fault, message 2.
UserC == <<touch("tls"), syscall(0, "app"), syscall(1, "app"),
           touch("extra"), syscall(0, "app")>>

\* A page is mapped, mapped on demand, never mapped, or (a general
\* protection fault) not an address; a call prints a string, prints a
\* number, or is unknown.
Instructions ==
    {touch(p) : p \in {"tls", "extra", "hole", "noncanonical"}}
    \cup {syscall(0, p) : p \in {"app", "extra", "hole", "noncanonical"}}
    \cup {syscall(1, "app"), syscall(2, "app"), setsp("u1"), setsp("u0")}

Sane == {touch("extra"), touch("hole"), syscall(0, "extra"),
         syscall(0, "hole"), syscall(2, "app"), setsp("u1")}

UserPrograms == {UserC}
SanePrograms == {UserC} \cup BoundedSeq(Sane, 2)

\* All programs of two instructions, and of three that end in no general
\* protection fault.
AllPrograms ==
    {UserC} \cup BoundedSeq(Instructions, 2) \cup BoundedSeq(Sane, 3) \cup
    {<<touch("extra"), setsp("u1"), touch("noncanonical")>>}
=============================================================================
