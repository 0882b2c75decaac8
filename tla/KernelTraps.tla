---------------------------- MODULE KernelTraps ----------------------------
(***************************************************************************)
(* The trap core of the Assignment 2 kernel: boot up to user_jump, the     *)
(* SYSCALL entry, the page-fault, timer and default trap routines of       *)
(* kernel_asm.S, the C handlers they call, and the one user program, on    *)
(* the one CPU.                                                            *)
(*                                                                         *)
(* A step is the longest run of instructions no interrupt or fault can     *)
(* split.  An interrupt is taken between two steps when IF is set, so      *)
(* every label below with IF = 1 is a window the code leaves open.         *)
(***************************************************************************)
EXTENDS Integers, Sequences, FiniteSets

CONSTANTS
    Programs,     \* the user programs that may be loaded, see Op
    UserSps,      \* values the user program gives its stack pointer
    InitUserSp,   \* user_stack_virt_addr
    Vectors,      \* vectors the local APIC delivers
    XmmUsers      \* trap routines whose C code uses xmm registers

Timer    == 32    \* APIC_INTERRUPT_ENTRY
Spurious == 255   \* the vector x86_lapic_enable writes to SVR
PageFault == 14   \* PAGE_FAULT_IDT_INDEX
GeneralProtection == 13

Pages == {"stack", "app", "tls", "extra", "hole", "noncanonical"}

\* An instruction of the user program that matters here: a memory access,
\* a system call (n, and the page its pointer argument is in), or a move of
\* the stack pointer.
Op == [op : {"touch"}, page : Pages]
      \cup [op : {"syscall"}, n : 0..2, page : Pages]
      \cup [op : {"setsp"}, sp : UserSps]

ASSUME ProgramsAssumption == Programs \subseteq Seq(Op)
ASSUME UserSpAssumption   == InitUserSp \in UserSps /\ UserSps \cap {"K", "T", "NULL"} = {}
ASSUME VectorsAssumption  == Vectors \subseteq {Timer, Spurious}

VARIABLES
    pc,          \* label of the next kernel instruction, "user" in ring 3
    uip,         \* index of the next user instruction (0 in ring 0)
    cpl,         \* privilege ring
    intf,        \* RFLAGS.IF
    rsp,         \* "K": kernel_stack, "T": TSS rsp0, else a user address
    regs,        \* who wrote the registers last, see Registers
    stack,       \* the three stacks, top first
    user_stack,  \* the global that syscall_entry saves %rsp to
    ready,       \* what kernel_start has set up so far
    mapped,      \* user pages the live page table maps
    cr2,         \* address of the last page fault
    irr, isr,    \* the local APIC's requested and in-service vectors
    prog,        \* the loaded user program
    left         \* history: the user context when the CPU last left ring 3

cpuVars  == <<pc, uip, cpl, intf, rsp, regs>>
apicVars == <<irr, isr>>
vars == <<pc, uip, cpl, intf, rsp, regs, stack, user_stack, ready, mapped,
          cr2, irr, isr, prog, left>>

----------------------------------------------------------------------------
(* Registers and stacks.                                                   *)

\* rcx:r11 as SYSRET reads them: where to resume, and IF.
Ret == [uip : Nat, intf : BOOLEAN]
JunkRet == [uip |-> 0, intf |-> FALSE]

Results == {"0", "-1"}
Contexts == {"boot", "user", "sc", "pf", "tm", "df"}

\* gp: rdi, rsi, rdx, r8, r9, r10.  A field names the context that wrote it.
Registers == [gp : Contexts, rax : Contexts \cup Results, ret : Ret,
              xmm : Contexts]

\* What compiled C code of context c leaves in the volatile registers.
Clobber(r, c) == [gp |-> c, rax |-> c, ret |-> JunkRet,
                  xmm |-> IF c \in XmmUsers THEN c ELSE r.xmm]

\* SAVE_REGS and RESTORE_REGS push and pop rax, rcx, rdx, rdi, rsi, r8-r11.
SaveRegs(r) == [t |-> "regs", gp |-> r.gp, rax |-> r.rax, ret |-> r.ret]
RestoreRegs_NoRax(r, s) == [r EXCEPT !.gp = s.gp, !.ret = s.ret]  \* mutant
RestoreRegs(r, s) == [r EXCEPT !.gp = s.gp, !.rax = s.rax, !.ret = s.ret]

Push(s, x) == <<x>> \o s
Top(s)     == Head(s)
Pop(s)     == Tail(s)

StackOf(sp) == IF sp \in {"K", "T"} THEN sp ELSE "U"
Here        == stack[StackOf(rsp)]
OnTop(t)    == Here # <<>> /\ Top(Here).t = t
PushHere(x) == stack' = [stack EXCEPT ![StackOf(rsp)] = Push(Here, x)]
PopHere     == stack' = [stack EXCEPT ![StackOf(rsp)] = Pop(Here)]

ErrorCode == [t |-> "err"]
IretFrame == [t |-> "iret", pc |-> pc, uip |-> uip, cpl |-> cpl,
              intf |-> intf, rsp |-> rsp]

\* The history of the user context, recorded when a step leaves ring 3.
Leaving(via) == [via |-> via, uip |-> uip, rsp |-> rsp, gp |-> regs.gp,
                 rax |-> regs.rax, ret |-> regs.ret, xmm |-> regs.xmm]

----------------------------------------------------------------------------
(* Interrupt and fault delivery.                                           *)

\* The routine idt_init installs at a vector.
Gate(v) == CASE v = PageFault -> "pf_save"
             [] v = Timer     -> "tm_save"
             [] v < 32 /\ v # PageFault -> "df_save"
             [] OTHER         -> "null"

HasErrorCode(v) == v \in {PageFault, GeneralProtection}

\* Before lidt the firmware's IDT is in force, whose routines never return,
\* and without a TSS there is no rsp0: both are "lost".
CanTrap == "idt" \in ready /\ (cpl = 3 => "tss" \in ready)

\* From ring 3 the CPU switches to rsp0, which is empty then; from ring 0
\* it pushes on the stack in use.
Raise(v) ==
    /\ LET sp     == IF cpl = 3 THEN "T" ELSE rsp
           framed == Push(IF cpl = 3 THEN <<>> ELSE Here, IretFrame)
       IN  /\ rsp' = sp
           /\ stack' = [stack EXCEPT ![StackOf(sp)] =
                           IF HasErrorCode(v) THEN Push(framed, ErrorCode)
                                              ELSE framed]
    /\ left' = IF cpl = 3 THEN Leaving("trap") ELSE left
    /\ pc' = IF CanTrap THEN Gate(v) ELSE "lost"
    /\ uip' = 0 /\ cpl' = 0 /\ intf' = FALSE
    /\ UNCHANGED <<regs, user_stack, ready, mapped, prog>>

\* An access to a page that is not mapped.
FaultOn(page) ==
    /\ IF page = "noncanonical"
       THEN Raise(GeneralProtection) /\ UNCHANGED cr2
       ELSE Raise(PageFault) /\ cr2' = page
    /\ UNCHANGED <<irr, isr>>

\* The APIC timer fires, or the APIC reports a spurious interrupt.
Tick(v) ==
    /\ "lapic" \in ready
    /\ irr' = irr \cup {v}
    /\ UNCHANGED <<cpuVars, stack, user_stack, ready, mapped, cr2, isr, prog,
                   left>>

\* The CPU takes a requested interrupt between two instructions.
Deliver(v) ==
    /\ intf
    /\ v \in irr
    /\ \A w \in isr : w \div 16 < v \div 16
    /\ Raise(v)
    /\ irr' = irr \ {v}
    /\ isr' = IF v = Spurious THEN isr ELSE isr \cup {v}
    /\ UNCHANGED cr2

----------------------------------------------------------------------------
(* kernel_start.                                                           *)

\* Mutant: the IDT is loaded before the TSS.
NextStage_IdtFirst ==
    [user_stack |-> "cr3", cr3 |-> "syscall", syscall |-> "idt",
     idt |-> "tss", tss |-> "tls", tls |-> "lapic", lapic |-> "banner",
     banner |-> "jump"]

\* The order of the calls kernel_start makes.
NextStage ==
    [user_stack |-> "cr3", cr3 |-> "syscall", syscall |-> "tss",
     tss |-> "tls", tls |-> "idt", idt |-> "lapic", lapic |-> "banner",
     banner |-> "jump"]
BootStages == {"user_stack", "cr3", "syscall", "tss", "tls", "idt", "lapic",
               "banner", "jump"}

BootStage(stage) == pc = stage /\ pc' = NextStage[stage]
bootFrame == <<uip, cpl, rsp, regs, stack, cr2, irr, isr, prog, left>>

\* Mutant: user_stack is left as it is.
SetUserStack_Forgotten ==
    /\ BootStage("user_stack")
    /\ UNCHANGED <<bootFrame, user_stack, intf, ready, mapped>>

SetUserStack ==
    /\ BootStage("user_stack")
    /\ user_stack' = InitUserSp
    /\ UNCHANGED <<bootFrame, intf, ready, mapped>>

\* The user pages page_table_init_user maps, the extra one only on a fault.
MappedBy_NoExtra(redef) == {"stack", "app", "tls"}  \* mutant
MappedBy(redef) ==
    {"stack", "app", "tls"} \cup (IF redef THEN {"extra"} ELSE {})

LoadPageTable ==
    /\ BootStage("cr3")
    /\ mapped' = MappedBy(FALSE)
    /\ ready' = ready \cup {"cr3"}
    /\ UNCHANGED <<bootFrame, intf, user_stack>>

SyscallInit ==
    /\ BootStage("syscall")
    /\ ready' = ready \cup {"syscall"}
    /\ UNCHANGED <<bootFrame, intf, user_stack, mapped>>

TssSegmentInit ==
    /\ BootStage("tss")
    /\ ready' = ready \cup {"tss"}
    /\ UNCHANGED <<bootFrame, intf, user_stack, mapped>>

\* The TLS block is written through its user mapping; a fault here would
\* still go to the firmware.
TlsInit ==
    /\ pc = "tls"
    /\ pc' = IF "tls" \in mapped THEN NextStage["tls"] ELSE "lost"
    /\ ready' = ready \cup {"tls"}
    /\ UNCHANGED <<bootFrame, intf, user_stack, mapped>>

\* load_idt is "lidt; sti".
IdtInit ==
    /\ BootStage("idt")
    /\ ready' = ready \cup {"idt"}
    /\ intf' = TRUE
    /\ UNCHANGED <<bootFrame, user_stack, mapped>>

\* Returns early on a CPU without an APIC.
LapicEnable ==
    /\ BootStage("lapic")
    /\ ready' \in {ready, ready \cup {"lapic"}}
    /\ UNCHANGED <<bootFrame, intf, user_stack, mapped>>

\* The last printf of kernel_start, the only one with IF set and the timer
\* armed.  The label stands for being inside fb_output.
PrintBanner ==
    /\ BootStage("banner")
    /\ UNCHANGED <<bootFrame, intf, user_stack, ready, mapped>>

\* user_jump up to its last instruction: r11 := RFLAGS, rcx := entry point.
UserJump ==
    /\ pc = "jump" /\ pc' = "jump_sysret"
    /\ regs' = [regs EXCEPT !.ret = [uip |-> 1, intf |-> intf]]
    /\ rsp' = user_stack
    /\ UNCHANGED <<uip, cpl, intf, stack, user_stack, ready, mapped, cr2,
                   irr, isr, prog, left>>

Sysret ==
    /\ pc' = "user" /\ cpl' = 3
    /\ uip' = regs.ret.uip /\ intf' = regs.ret.intf
    /\ UNCHANGED <<rsp, regs, stack, user_stack, ready, mapped, cr2, irr, isr,
                   prog, left>>

UserJumpSysret == pc = "jump_sysret" /\ Sysret

----------------------------------------------------------------------------
(* The user program.                                                       *)

UserAt(kind) == pc = "user" /\ uip \in 1..Len(prog) /\ prog[uip].op = kind

\* The user program's own code fills the registers it uses.
UserRegs == [regs EXCEPT !.gp = "user", !.rax = "user", !.xmm = "user"]

UserTouch ==
    /\ UserAt("touch")
    /\ IF prog[uip].page \in mapped
       THEN /\ uip' = uip + 1 /\ regs' = UserRegs
            /\ UNCHANGED <<pc, cpl, intf, rsp, stack, user_stack, ready,
                           mapped, cr2, irr, isr, prog, left>>
       ELSE FaultOn(prog[uip].page)

UserSetSp ==
    /\ UserAt("setsp")
    /\ uip' = uip + 1 /\ regs' = UserRegs /\ rsp' = prog[uip].sp
    /\ UNCHANGED <<pc, cpl, intf, stack, user_stack, ready, mapped, cr2, irr,
                   isr, prog, left>>

\* IF during a system call: the SYSCALL instruction clears the RFLAGS bits
\* in SFMASK, which syscall_init sets to 1 << 9.
MaskedIF_NoSfmask(if) == if  \* mutant
MaskedIF(if) == IF "syscall" \in ready THEN FALSE ELSE if

UserSyscall ==
    /\ UserAt("syscall")
    /\ pc' = "sc_entry" /\ uip' = 0 /\ cpl' = 0 /\ intf' = MaskedIF(intf)
    /\ regs' = [UserRegs EXCEPT !.ret = [uip |-> uip + 1, intf |-> intf]]
    /\ left' = [Leaving("syscall") EXCEPT !.gp = "user"]
    /\ UNCHANGED <<rsp, stack, user_stack, ready, mapped, cr2, irr, isr, prog>>

\* while (1) at the end of user_start.
UserSpin == pc = "user" /\ uip = Len(prog) + 1 /\ UNCHANGED vars

----------------------------------------------------------------------------
(* syscall_entry and do_syscall_entry.                                     *)

kernelFrame == <<uip, cpl, ready, cr2, irr, prog, left>>

\* Mutant: %rsp is not saved to user_stack.
SyscallSave_NoUserStack ==
    /\ pc = "sc_entry" /\ pc' = "sc_body"
    /\ rsp' = "K"
    /\ stack' = [stack EXCEPT !["K"] =
                   <<[t |-> "sc", gp |-> regs.gp, ret |-> regs.ret]>>]
    /\ regs' = Clobber(regs, "sc")
    /\ UNCHANGED <<kernelFrame, user_stack, intf, mapped, isr>>

\* Switch to kernel_stack and push rcx, r11 and the other registers.
SyscallSave ==
    /\ pc = "sc_entry" /\ pc' = "sc_body"
    /\ user_stack' = rsp
    /\ rsp' = "K"
    /\ stack' = [stack EXCEPT !["K"] =
                   <<[t |-> "sc", gp |-> regs.gp, ret |-> regs.ret]>>]
    /\ regs' = Clobber(regs, "sc")
    /\ UNCHANGED <<kernelFrame, intf, mapped, isr>>

\* The system call being served.  Its arguments are on no stack of the
\* model: they are the user instruction the CPU left ring 3 at.
Serving == prog[left.uip]
Result(n) == IF n \in {0, 1} THEN "0" ELSE "-1"

\* n = 0 reads the format string at the user's pointer, which may fault and
\* is then read again; n = 1 prints a number; any other n only returns.
SyscallBody ==
    /\ pc = "sc_body"
    /\ IF Serving.n = 0 /\ Serving.page \notin mapped
       THEN FaultOn(Serving.page)
       ELSE /\ pc' = IF Serving.n \in {0, 1} THEN "sc_print" ELSE "sc_pop"
            /\ regs' = [Clobber(regs, "sc") EXCEPT !.rax = Result(Serving.n)]
            /\ UNCHANGED <<kernelFrame, intf, rsp, stack, user_stack, mapped,
                           isr>>

\* The label "sc_print" stands for being inside fb_output.
SyscallPrint ==
    /\ pc = "sc_print" /\ pc' = "sc_pop"
    /\ UNCHANGED <<kernelFrame, intf, rsp, regs, stack, user_stack, mapped,
                   isr>>

\* Mutant: the saved registers are read but not popped.
SyscallPop_NoPop ==
    /\ pc = "sc_pop" /\ pc' = "sc_sysret"
    /\ OnTop("sc")
    /\ regs' = [regs EXCEPT !.gp = Top(Here).gp, !.ret = Top(Here).ret]
    /\ rsp' = user_stack
    /\ UNCHANGED <<kernelFrame, stack, intf, user_stack, mapped, isr>>

\* Pop the registers and go back to the user's stack.
SyscallPop ==
    /\ pc = "sc_pop" /\ pc' = "sc_sysret"
    /\ OnTop("sc")
    /\ regs' = [regs EXCEPT !.gp = Top(Here).gp, !.ret = Top(Here).ret]
    /\ PopHere
    /\ rsp' = user_stack
    /\ UNCHANGED <<kernelFrame, intf, user_stack, mapped, isr>>

SyscallSysret == pc = "sc_sysret" /\ Sysret

----------------------------------------------------------------------------
(* pagefault_trap, timer_apic and default_trap.                            *)

TrapSave(from, to, c) ==
    /\ pc = from /\ pc' = to
    /\ PushHere(SaveRegs(regs))
    /\ regs' = Clobber(regs, c)
    /\ intf' = FALSE
    /\ UNCHANGED <<kernelFrame, rsp, user_stack, mapped, isr>>

PageFaultSave == TrapSave("pf_save", "pf_body", "pf")
TimerSave     == TrapSave("tm_save", "tm_body", "tm")
DefaultSave   == TrapSave("df_save", "df_body", "df")

\* page_fault_handler prints, rebuilds the page table and reloads CR3.
PageFaultBody ==
    /\ pc = "pf_body" /\ pc' = "pf_restore"
    /\ mapped' = MappedBy(TRUE)
    /\ UNCHANGED <<kernelFrame, intf, rsp, regs, stack, user_stack, isr>>

\* Mutant: the error code stays on the stack.
PageFaultRestore_NoAddq ==
    /\ pc = "pf_restore" /\ pc' = "pf_iret"
    /\ OnTop("regs")
    /\ regs' = RestoreRegs(regs, Top(Here))
    /\ PopHere
    /\ intf' = TRUE
    /\ UNCHANGED <<kernelFrame, rsp, user_stack, mapped, isr>>

\* RESTORE_REGS, sti, and the addq that drops the error code.  The addq is
\* in the shadow of sti; the iretq after it is not.
PageFaultRestore ==
    /\ pc = "pf_restore" /\ pc' = "pf_iret"
    /\ OnTop("regs")
    /\ regs' = RestoreRegs(regs, Top(Here))
    /\ stack' = [stack EXCEPT ![StackOf(rsp)] = Pop(Pop(Here))]
    /\ intf' = TRUE
    /\ UNCHANGED <<kernelFrame, rsp, user_stack, mapped, isr>>

Iret ==
    /\ OnTop("iret")
    /\ LET f == Top(Here)
       IN  /\ pc' = f.pc /\ uip' = f.uip /\ cpl' = f.cpl
           /\ intf' = f.intf /\ rsp' = f.rsp
    /\ PopHere
    /\ UNCHANGED <<regs, user_stack, ready, mapped, cr2, irr, isr, prog, left>>

PageFaultIret == pc = "pf_iret" /\ Iret

\* The vector an EOI retires: the highest one in service.
Eoi_None(set) == set  \* mutant
Eoi(set) == {w \in set : \E v \in set : v > w}

\* apic_handler prints and then writes EOI.
TimerBody ==
    /\ pc = "tm_body" /\ pc' = "tm_restore"
    /\ isr' = Eoi(isr)
    /\ UNCHANGED <<kernelFrame, intf, rsp, regs, stack, user_stack, mapped>>

\* Mutant: an instruction between sti and iretq.
TimerRestore_Window ==
    /\ pc = "tm_restore" /\ pc' = "tm_iret"
    /\ OnTop("regs")
    /\ regs' = RestoreRegs(regs, Top(Here))
    /\ PopHere
    /\ intf' = TRUE
    /\ UNCHANGED <<kernelFrame, rsp, user_stack, mapped, isr>>

\* RESTORE_REGS, then "sti; iretq": iretq is in the shadow of sti, so IF
\* cannot be seen set before it.
TimerRestore ==
    /\ pc = "tm_restore" /\ pc' = "tm_iret"
    /\ OnTop("regs")
    /\ regs' = RestoreRegs(regs, Top(Here))
    /\ PopHere
    /\ UNCHANGED <<kernelFrame, intf, rsp, user_stack, mapped, isr>>

TimerIret == pc = "tm_iret" /\ Iret

\* default_interrupt_handler prints; then RESTORE_REGS and hlt.
DefaultBody ==
    /\ pc = "df_body" /\ pc' = "halted"
    /\ OnTop("regs")
    /\ regs' = RestoreRegs(regs, Top(Here))
    /\ PopHere
    /\ UNCHANGED <<kernelFrame, intf, rsp, user_stack, mapped, isr>>

\* hlt with IF clear never returns.
Halt == pc = "halted" /\ UNCHANGED vars

----------------------------------------------------------------------------
Never == [via |-> "boot", uip |-> 1, rsp |-> InitUserSp, gp |-> "boot",
          rax |-> "boot", ret |-> JunkRet, xmm |-> "boot"]

Init ==
    /\ pc = "user_stack" /\ uip = 0 /\ cpl = 0 /\ intf = FALSE /\ rsp = "K"
    /\ regs = [gp |-> "boot", rax |-> "boot", ret |-> JunkRet, xmm |-> "boot"]
    /\ stack = [s \in {"K", "T", "U"} |-> <<>>]
    /\ user_stack = "NULL"
    /\ ready = {} /\ mapped = {} /\ cr2 = "stack"
    /\ irr = {} /\ isr = {}
    /\ prog \in Programs
    /\ left = Never

Boot == \/ SetUserStack \/ LoadPageTable \/ SyscallInit \/ TssSegmentInit
        \/ TlsInit \/ IdtInit \/ LapicEnable \/ PrintBanner
        \/ UserJump \/ UserJumpSysret
User == UserTouch \/ UserSetSp \/ UserSyscall \/ UserSpin
Syscall == \/ SyscallSave \/ SyscallBody \/ SyscallPrint \/ SyscallPop
           \/ SyscallSysret
Traps == \/ PageFaultSave \/ PageFaultBody \/ PageFaultRestore \/ PageFaultIret
         \/ TimerSave \/ TimerBody \/ TimerRestore \/ TimerIret
         \/ DefaultSave \/ DefaultBody \/ Halt

Next == \/ Boot \/ User \/ Syscall \/ Traps
        \/ \E v \in Vectors : Tick(v) \/ Deliver(v)

Spec == Init /\ [][Next]_vars

\* The CPU keeps executing; it takes a pending interrupt as soon as IF
\* allows; and the timer's period is longer than its handler, so an
\* instruction it may interrupt is executed in the end.
Fairness ==
    /\ WF_vars(Boot \/ Syscall \/ Traps)
    /\ SF_vars(User) /\ SF_vars(PageFaultIret)
    /\ SF_vars(PrintBanner) /\ SF_vars(UserJump) /\ SF_vars(UserJumpSysret)
    /\ \A v \in Vectors : SF_vars(Deliver(v))

FairSpec == Spec /\ Fairness

----------------------------------------------------------------------------
(* What the kernel promises the user program.                              *)

\* Where the user program is: in the CPU, or in the context it left behind.
ViewAt  == IF cpl = 3 THEN uip ELSE IF left.via = "boot" THEN 0 ELSE left.uip
ViewSp  == IF cpl = 3 THEN rsp ELSE left.rsp
ViewRax == IF cpl = 3 THEN regs.rax ELSE left.rax

UV == INSTANCE UserView WITH at <- ViewAt, sp <- ViewSp, rax <- ViewRax

\* Traps, ticks and page faults are invisible: the user program executes as
\* the abstract machine of UserView.
UserViewSpec == UV!Spec

\* ... and it does get to its next instruction, however the timer ticks.
UserViewFairSpec == UV!FairSpec

----------------------------------------------------------------------------
(* Properties.                                                             *)

\* The type invariant.
Pcs == BootStages \cup
       {"jump_sysret", "user", "sc_entry", "sc_body", "sc_print", "sc_pop",
        "sc_sysret", "pf_save", "pf_body", "pf_restore", "pf_iret", "tm_save",
        "tm_body", "tm_restore", "tm_iret", "df_save", "df_body", "halted",
        "null", "lost"}
Sps == UserSps \cup {"K", "T"}
Frames == [t : {"iret"}, pc : Pcs, uip : Nat, cpl : {0, 3}, intf : BOOLEAN,
           rsp : Sps]
Items == Frames \cup {ErrorCode}
         \cup [t : {"regs"}, gp : Contexts, rax : Contexts \cup Results, ret : Ret]
         \cup [t : {"sc"}, gp : Contexts, ret : Ret]
Lefts == [via : {"boot", "trap", "syscall"}, uip : Nat, rsp : Sps,
          gp : Contexts, rax : Contexts \cup Results, ret : Ret, xmm : Contexts]

TypeOK ==
    /\ pc \in Pcs /\ uip \in Nat /\ cpl \in {0, 3} /\ intf \in BOOLEAN
    /\ rsp \in Sps
    /\ regs \in Registers
    /\ stack \in [{"K", "T", "U"} -> Seq(Items)]
    /\ user_stack \in Sps \cup {"NULL"}
    /\ ready \subseteq {"cr3", "syscall", "tss", "tls", "idt", "lapic"}
    /\ mapped \subseteq Pages /\ cr2 \in Pages
    /\ irr \subseteq Vectors /\ isr \subseteq Vectors
    /\ prog \in Programs
    /\ left \in Lefts

\* kernel_start sets things up in an order that leaves no gap: no interrupt
\* can be taken before the IDT, the TSS and the page table are in place, the
\* user program starts after all of them, and no trap goes astray.
NoTrapBeforeItsGate ==
    /\ pc # "lost"
    /\ intf => {"cr3", "tss", "idt"} \subseteq ready
    /\ cpl = 3 => {"cr3", "syscall", "tss", "tls", "idt"} \subseteq ready

\* The push and pop sequences of the trap routines match, error code
\* included: an iretq finds the frame the CPU pushed on top of the stack.
IretFrameOnTop == pc \in {"pf_iret", "tm_iret"} => OnTop("iret")

\* Whatever nested on the way, all the stacks are empty again in ring 3.
NothingLeftBehind == cpl = 3 => \A s \in {"K", "T", "U"} : stack[s] = <<>>

\* syscall_entry and its exit run in ring 0 on the user's stack for an
\* instruction or two.  No trap is taken there once the program has started,
\* so the kernel never writes below the user's stack pointer.
KernelKeepsOffUserStack == stack["U"] # <<>> => left.via = "boot"

\* Interrupt routines nest to a fixed depth: no stack ever holds more than
\* four entries (the deepest is a tick between the sti and the iretq of a
\* page fault in a system call), so one page of stack is enough.
NestingBounded == \A s \in {"K", "T", "U"} : Len(stack[s]) <= 4

\* fb_output keeps its cursor in statics and takes no lock.  The only printf
\* another context can cut into is the banner kernel_start prints with the
\* timer running.
Printing == {"sc_print", "pf_body", "tm_body", "df_body"}
FbOutputExclusive ==
    pc \in Printing =>
        \A s \in {"K", "T", "U"} : \A i \in 1..Len(stack[s]) :
            stack[s][i].t = "iret" => stack[s][i].pc \notin Printing

\* IF is set again only after the EOI: ticks are not lost to a vector left
\* in service.
EoiBeforeUnmask == intf => isr = {}

\* The user program is resumed where and as it left ring 3: after a trap at
\* the same instruction with every saved register; after a system call at
\* the next instruction, with only the result and rcx:r11 changed; and
\* always on its own stack pointer with interrupts enabled.
ResumesAsLeft ==
    /\ uip' = IF left.via = "syscall" THEN left.uip + 1 ELSE left.uip
    /\ rsp' = left.rsp /\ intf'
    /\ regs'.gp = left.gp
    /\ regs'.rax = IF left.via = "syscall" THEN Result(Serving.n) ELSE left.rax
    /\ left.via = "trap" => regs'.ret = left.ret
UserResumes ==
    [][cpl = 0 /\ cpl' = 3 /\ left.via # "boot" => ResumesAsLeft]_vars

\* A requested tick is delivered in the end, wherever it arrives and
\* whatever was in service then, unless the machine has stopped.
TickServiced == (Timer \in irr) ~> (Timer \in isr \ irr \/ pc = "halted")

----------------------------------------------------------------------------
(* What the repository says and the code does not do.                      *)

\* kernel_syscall.c:39, "Disable interrupts (IF) while in a syscall".
InterruptsOffInSyscall ==
    (left.via = "syscall" /\ cpl = 0) => ~intf

\* README.md:32, "The page fault handler then maps a page to the memory
\* location accessed."
FaultMapsAccessedPage == pc = "pf_restore" => cr2 \in mapped

\* kernel_asm.S:56-60, "These macros save and restore volatile registers":
\* the xmm registers are volatile in the C calling convention too.
VolatileRegistersRestored ==
    [][cpl = 0 /\ cpl' = 3 /\ left.via = "trap" => regs'.xmm = left.xmm]_vars

\* README.md:31, "IDT has a default handler to handle all the 256
\* exceptions."
EveryVectorHandled == pc # "null"
=============================================================================
