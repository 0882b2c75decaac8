----------------------------- MODULE UserView ------------------------------
(***************************************************************************)
(* What the kernel promises the user program: a machine of its own.  The   *)
(* program's instructions take effect one after the other, each once.      *)
(* Memory is there when it is touched, a system call is one step that      *)
(* changes nothing but its result, and no trap is visible.  An access the  *)
(* kernel cannot satisfy never completes.                                  *)
(***************************************************************************)
EXTENDS Naturals, Sequences

CONSTANTS Programs, InitUserSp

VARIABLES
    prog,     \* the program
    at,       \* index of the next instruction, 0 before the jump to it
    sp,       \* stack pointer
    rax       \* the return-value register

vars == <<prog, at, sp, rax>>

\* The pages of user memory, the one mapped on demand included.
UserPages == {"stack", "app", "tls", "extra"}

Init == prog \in Programs /\ at = 0 /\ sp = InitUserSp /\ rax = "boot"

Begin == at = 0 /\ at' = 1 /\ UNCHANGED <<prog, sp, rax>>

Executes(kind) == /\ at \in 1..Len(prog) /\ prog[at].op = kind
                  /\ at' = at + 1
                  /\ UNCHANGED prog

Touch == /\ Executes("touch") /\ prog[at].page \in UserPages
         /\ rax' = "user" /\ UNCHANGED sp

SetSp == Executes("setsp") /\ rax' = "user" /\ sp' = prog[at].sp

\* 0 prints the string at a pointer, 1 prints a value, others are errors.
Call == /\ Executes("syscall")
        /\ prog[at].n = 0 => prog[at].page \in UserPages
        /\ rax' = IF prog[at].n \in {0, 1} THEN "0" ELSE "-1"
        /\ UNCHANGED sp

Next == Begin \/ Touch \/ SetSp \/ Call

Spec == Init /\ [][Next]_vars

\* Nothing the kernel does keeps the program from its next instruction.
FairSpec == Spec /\ WF_vars(Next)
=============================================================================
