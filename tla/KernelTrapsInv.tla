--------------------------- MODULE KernelTrapsInv --------------------------
(***************************************************************************)
(* The inductive invariant of KernelTraps.  The contexts that can be on    *)
(* the CPU and suspended on the stacks at the same time have eleven        *)
(* shapes; in each, every stack is known entry by entry, and what it holds *)
(* of the user program is what the user program had when it left ring 3.   *)
(***************************************************************************)
EXTENDS KernelTraps

----------------------------------------------------------------------------
(* What is on the stacks.                                                  *)

\* The frame and registers of the user program, as it left ring 3.
UserFrame == [t |-> "iret", pc |-> "user", uip |-> left.uip, cpl |-> 3,
              intf |-> TRUE, rsp |-> left.rsp]

\* A kernel context interrupted or faulting at label l, on stack sp.
KernelFrame(l, if, sp) == [t |-> "iret", pc |-> l, uip |-> 0, cpl |-> 0,
                           intf |-> if, rsp |-> sp]

RegsEntry(g, x, r) == [t |-> "regs", gp |-> g, rax |-> x, ret |-> r]

\* Where a system call returns to, and what syscall_entry pushes.
CallRet   == [uip |-> left.uip + 1, intf |-> TRUE]
CallEntry == [t |-> "sc", gp |-> left.gp, ret |-> CallRet]
StartRet  == [uip |-> 1, intf |-> TRUE]

RegsAre(g, x, r) == regs.gp = g /\ regs.rax = x /\ regs.ret = r
Stacks(k, t, u)  == stack["K"] = k /\ stack["T"] = t /\ stack["U"] = u

----------------------------------------------------------------------------
(* Facts that hold in every shape.                                         *)

Essential == {"cr3", "syscall", "tss", "tls", "idt"}

Plain ==
    /\ intf \in BOOLEAN /\ regs \in Registers
    /\ mapped \subseteq MappedBy(TRUE) /\ cr2 \in Pages
    /\ irr \subseteq Vectors /\ isr \subseteq {Timer} \cap Vectors
    /\ isr # {} => pc \in {"tm_save", "tm_body"}
    /\ irr # {} => "lapic" \in ready
    /\ prog \in Programs
    /\ left \in Lefts
    /\ ready \subseteq Essential \cup {"lapic"}
    /\ "lapic" \in ready => Essential \subseteq ready

\* What kernel_start has done when it reaches each of its labels.
Done(l) == CASE l \in {"user_stack", "cr3"} -> {}
             [] l = "syscall" -> {"cr3"}
             [] l = "tss" -> {"cr3", "syscall"}
             [] l = "tls" -> {"cr3", "syscall", "tss"}
             [] l = "idt" -> {"cr3", "syscall", "tss", "tls"}
             [] OTHER -> Essential

Open == {"lapic", "banner", "jump"}   \* labels of kernel_start with IF set

InBoot ==
    /\ pc \in BootStages
    /\ uip = 0 /\ cpl = 0 /\ rsp = "K"
    /\ intf <=> pc \in Open
    /\ left = Never
    /\ Stacks(<<>>, <<>>, <<>>)
    /\ RegsAre("boot", "boot", JunkRet)
    /\ user_stack = IF pc = "user_stack" THEN "NULL" ELSE InitUserSp
    /\ Done(pc) \subseteq ready
    /\ pc \in {"syscall", "tss", "tls"} => "tls" \in mapped
    /\ pc \notin {"banner", "jump"} => "lapic" \notin ready

\* Between the load of %rsp in user_jump and its sysretq.
InJump ==
    /\ pc = "jump_sysret"
    /\ uip = 0 /\ cpl = 0 /\ rsp = InitUserSp /\ intf
    /\ left = Never
    /\ Stacks(<<>>, <<>>, <<>>)
    /\ RegsAre("boot", "boot", StartRet)
    /\ user_stack = InitUserSp

InUser ==
    /\ pc = "user"
    /\ uip \in Nat \ {0} /\ cpl = 3 /\ rsp \in UserSps /\ intf
    /\ Stacks(<<>>, <<>>, <<>>)
    /\ user_stack \in UserSps

----------------------------------------------------------------------------
(* System calls.                                                           *)

\* The user program is at a system call.
Calling ==
    /\ left.via = "syscall" /\ left.gp = "user" /\ left.rsp \in UserSps
    /\ left.uip \in 1..Len(prog) /\ prog[left.uip].op = "syscall"
    /\ left.uip \in Nat \ {0}

\* The string a system call prints has been read.
ArgumentRead == Serving.n = 0 => Serving.page \in MappedBy(TRUE)

InSyscall ==
    /\ pc \in {"sc_entry", "sc_body", "sc_print", "sc_pop", "sc_sysret"}
    /\ uip = 0 /\ cpl = 0 /\ ~intf
    /\ Calling
    /\ rsp = IF pc \in {"sc_entry", "sc_sysret"} THEN left.rsp ELSE "K"
    /\ IF pc \in {"sc_entry", "sc_sysret"}
       THEN Stacks(<<>>, <<>>, <<>>) ELSE Stacks(<<CallEntry>>, <<>>, <<>>)
    /\ pc = "sc_entry" => RegsAre("user", "user", CallRet)
    /\ pc = "sc_body"  => RegsAre("sc", "sc", JunkRet)
    /\ pc \in {"sc_print", "sc_pop"} => RegsAre("sc", Result(Serving.n), JunkRet)
    /\ pc = "sc_sysret" => RegsAre("user", Result(Serving.n), CallRet)
    /\ pc \in {"sc_print", "sc_pop", "sc_sysret"} => ArgumentRead
    /\ user_stack \in UserSps
    /\ pc # "sc_entry" => user_stack = left.rsp

\* A system call suspended by a page fault on its argument.
CallSuspended == Calling /\ user_stack = left.rsp
CallFrame == KernelFrame("sc_body", FALSE, "K")

----------------------------------------------------------------------------
(* The trap routines, over the context they suspend.                       *)

Kernel(sp) == uip = 0 /\ cpl = 0 /\ rsp = sp

\* The user program suspended by a trap.
UserSuspended ==
    /\ left.via = "trap" /\ left.uip \in Nat \ {0} /\ left.rsp \in UserSps
    /\ user_stack \in UserSps

PageFaultOverUser ==
    /\ Kernel("T") /\ UserSuspended
    /\ \/ /\ pc = "pf_save" /\ ~intf
          /\ Stacks(<<>>, <<ErrorCode, UserFrame>>, <<>>)
          /\ RegsAre(left.gp, left.rax, left.ret)
       \/ /\ pc \in {"pf_body", "pf_restore"} /\ ~intf
          /\ Stacks(<<>>, <<RegsEntry(left.gp, left.rax, left.ret), ErrorCode,
                            UserFrame>>, <<>>)
          /\ RegsAre("pf", "pf", JunkRet)
       \/ /\ pc = "pf_iret" /\ intf
          /\ Stacks(<<>>, <<UserFrame>>, <<>>)
          /\ RegsAre(left.gp, left.rax, left.ret)

PageFaultOverCall ==
    /\ Kernel("K") /\ CallSuspended
    /\ \/ /\ pc = "pf_save" /\ ~intf
          /\ Stacks(<<ErrorCode, CallFrame, CallEntry>>, <<>>, <<>>)
          /\ RegsAre("sc", "sc", JunkRet)
       \/ /\ pc \in {"pf_body", "pf_restore"} /\ ~intf
          /\ Stacks(<<RegsEntry("sc", "sc", JunkRet), ErrorCode, CallFrame,
                      CallEntry>>, <<>>, <<>>)
          /\ RegsAre("pf", "pf", JunkRet)
       \/ /\ pc = "pf_iret" /\ intf
          /\ Stacks(<<CallFrame, CallEntry>>, <<>>, <<>>)
          /\ RegsAre("sc", "sc", JunkRet)

\* The timer routine over a context with registers g, x, r.  s0 is the stack
\* in use without the saved registers, s1 with them.
InTimer(sp, g, x, r, s0, s1) ==
    /\ Kernel(sp) /\ ~intf
    /\ \/ /\ pc \in {"tm_save", "tm_iret"}
          /\ stack[StackOf(sp)] = s0
          /\ RegsAre(g, x, r)
       \/ /\ pc \in {"tm_body", "tm_restore"}
          /\ stack[StackOf(sp)] = s1
          /\ RegsAre("tm", "tm", JunkRet)

TimerOverUser ==
    /\ UserSuspended
    /\ stack["K"] = <<>> /\ stack["U"] = <<>>
    /\ InTimer("T", left.gp, left.rax, left.ret, <<UserFrame>>,
               <<RegsEntry(left.gp, left.rax, left.ret), UserFrame>>)

\* In the window before the iretq of the page-fault routine.
WindowFrame(sp) == KernelFrame("pf_iret", TRUE, sp)

TimerOverUserFault ==
    /\ UserSuspended
    /\ stack["K"] = <<>> /\ stack["U"] = <<>>
    /\ InTimer("T", left.gp, left.rax, left.ret,
               <<WindowFrame("T"), UserFrame>>,
               <<RegsEntry(left.gp, left.rax, left.ret), WindowFrame("T"),
                 UserFrame>>)

TimerOverCallFault ==
    /\ CallSuspended
    /\ stack["T"] = <<>> /\ stack["U"] = <<>>
    /\ InTimer("K", "sc", "sc", JunkRet,
               <<WindowFrame("K"), CallFrame, CallEntry>>,
               <<RegsEntry("sc", "sc", JunkRet), WindowFrame("K"), CallFrame,
                 CallEntry>>)

TimerOverBoot ==
    /\ left = Never /\ user_stack = InitUserSp
    /\ stack["T"] = <<>> /\ stack["U"] = <<>>
    /\ \E l \in {"banner", "jump"} :
          InTimer("K", "boot", "boot", JunkRet, <<KernelFrame(l, TRUE, "K")>>,
                  <<RegsEntry("boot", "boot", JunkRet), KernelFrame(l, TRUE, "K")>>)

\* The frame is below the user's stack pointer, before the program starts.
TimerOverJump ==
    /\ left = Never /\ user_stack = InitUserSp
    /\ stack["K"] = <<>> /\ stack["T"] = <<>>
    /\ LET f == KernelFrame("jump_sysret", TRUE, InitUserSp)
       IN  InTimer(InitUserSp, "boot", "boot", StartRet, <<f>>,
                   <<RegsEntry("boot", "boot", StartRet), f>>)

\* A trap nothing returns from: the default routine, or a null gate.
Dead ==
    /\ pc \in {"df_save", "df_body", "halted", "null"}
    /\ uip = 0 /\ cpl = 0 /\ ~intf /\ rsp \in Sps
    /\ pc # "null" => rsp \in {"K", "T"}
    /\ user_stack \in UserSps
    /\ stack \in [{"K", "T", "U"} -> Seq(Items)]
    /\ \A s \in {"K", "T", "U"} :
          /\ Len(stack[s]) <= IF pc = "df_body" /\ s = StackOf(rsp) THEN 4 ELSE 3
          /\ pc # "null" => \A i \in 1..Len(stack[s]) :
                stack[s][i].t = "iret" => stack[s][i].pc \notin Printing
    /\ stack["U"] # <<>> => left.via = "boot"

\* kernel_start is past the last step that sets anything up.
Set == Essential \subseteq ready

Shape ==
    \/ InBoot
    \/ /\ Set
       /\ \/ InJump \/ InUser \/ InSyscall
          \/ PageFaultOverUser \/ PageFaultOverCall
          \/ TimerOverUser \/ TimerOverUserFault \/ TimerOverCallFault
          \/ TimerOverBoot \/ TimerOverJump
          \/ Dead

IInv == Plain /\ stack \in [{"K", "T", "U"} -> Seq(Items)] /\ Shape
=============================================================================
