------------------------- MODULE KernelTrapsProofs -------------------------
(***************************************************************************)
(* The invariants and the refinement of KernelTraps, for every set of user *)
(* programs, stack pointers and vectors.                                   *)
(***************************************************************************)
EXTENDS KernelTrapsInv, SequenceTheorems, TLAPS

(***************************************************************************)
(* Stacks of known entries: pushing, reading and popping them.             *)
(***************************************************************************)
LEMMA Push0 == ASSUME NEW x PROVE Push(<<>>, x) = <<x>>
  BY <<x>> \in Seq({x}), ConcatEmptySeq, Zenon DEF Push

LEMMA Push1 == ASSUME NEW x, NEW a PROVE Push(<<a>>, x) = <<x, a>>
  <1> DEFINE S == {x, a}
  <1>1. <<x>> \in Seq(S) /\ <<a>> \in Seq(S) /\ <<x, a>> \in Seq(S)
    OBVIOUS
  <1>2. /\ <<x>> \o <<a>> \in Seq(S)
        /\ Len(<<x>> \o <<a>>) = 2
        /\ \A i \in 1..2 : (<<x>> \o <<a>>)[i] = <<x, a>>[i]
    BY <1>1, ConcatProperties
  <1> QED BY <1>1, <1>2, SeqEqual DEF Push

LEMMA Push2 == ASSUME NEW x, NEW a, NEW b PROVE Push(<<a, b>>, x) = <<x, a, b>>
  <1> DEFINE S == {x, a, b}
  <1>1. <<x>> \in Seq(S) /\ <<a, b>> \in Seq(S) /\ <<x, a, b>> \in Seq(S)
    OBVIOUS
  <1>2. /\ <<x>> \o <<a, b>> \in Seq(S)
        /\ Len(<<x>> \o <<a, b>>) = 3
        /\ \A i \in 1..3 : (<<x>> \o <<a, b>>)[i] = <<x, a, b>>[i]
    BY <1>1, ConcatProperties
  <1> QED BY <1>1, <1>2, SeqEqual DEF Push

LEMMA Push3 ==
    ASSUME NEW x, NEW a, NEW b, NEW c
    PROVE  Push(<<a, b, c>>, x) = <<x, a, b, c>>
  <1> DEFINE S == {x, a, b, c}
  <1>1. /\ <<x>> \in Seq(S) /\ <<a, b, c>> \in Seq(S)
        /\ <<x, a, b, c>> \in Seq(S)
    OBVIOUS
  <1>2. /\ <<x>> \o <<a, b, c>> \in Seq(S)
        /\ Len(<<x>> \o <<a, b, c>>) = 4
        /\ \A i \in 1..4 : (<<x>> \o <<a, b, c>>)[i] = <<x, a, b, c>>[i]
    BY <1>1, ConcatProperties
  <1> QED BY <1>1, <1>2, SeqEqual DEF Push

LEMMA TopPop1 ==
    ASSUME NEW x
    PROVE  Top(<<x>>) = x /\ Pop(<<x>>) = <<>>
  BY DEF Top, Pop

LEMMA TopPop2 ==
    ASSUME NEW x, NEW a
    PROVE  Top(<<x, a>>) = x /\ Pop(<<x, a>>) = <<a>>
  BY DEF Top, Pop

LEMMA TopPop3 ==
    ASSUME NEW x, NEW a, NEW b
    PROVE  Top(<<x, a, b>>) = x /\ Pop(<<x, a, b>>) = <<a, b>>
  BY DEF Top, Pop

LEMMA TopPop4 ==
    ASSUME NEW x, NEW a, NEW b, NEW c
    PROVE  Top(<<x, a, b, c>>) = x /\ Pop(<<x, a, b, c>>) = <<a, b, c>>
  BY DEF Top, Pop

LEMMA PushType ==
    ASSUME NEW S, NEW s \in Seq(S), NEW x \in S
    PROVE  Push(s, x) \in Seq(S) /\ Len(Push(s, x)) = Len(s) + 1
           /\ \A i \in 1..Len(Push(s, x)) :
                Push(s, x)[i] = IF i = 1 THEN x ELSE s[i-1]
  BY <<x>> \in Seq(S), ConcatProperties DEF Push

LEMMA PopType ==
    ASSUME NEW S, NEW s \in Seq(S), s # <<>>
    PROVE  /\ Pop(s) \in Seq(S) /\ Top(s) \in S
           /\ Len(s) \in Nat \ {0} /\ Len(Pop(s)) = Len(s) - 1
           /\ \A i \in 1..Len(Pop(s)) : Pop(s)[i] = s[i+1]
  BY HeadTailProperties, ElementOfSeq DEF Pop, Top

(***************************************************************************)
(* The label tells the shape.                                              *)
(***************************************************************************)
CallLabels  == {"sc_entry", "sc_body", "sc_print", "sc_pop", "sc_sysret"}
FaultLabels == {"pf_save", "pf_body", "pf_restore", "pf_iret"}
TimerLabels == {"tm_save", "tm_body", "tm_restore", "tm_iret"}
DeadLabels  == {"df_save", "df_body", "halted", "null"}

InFault == PageFaultOverUser \/ PageFaultOverCall
InTick  == \/ TimerOverUser \/ TimerOverUserFault \/ TimerOverCallFault
           \/ TimerOverBoot \/ TimerOverJump

LEMMA LabelShape ==
    ASSUME Shape
    PROVE  /\ pc \in BootStages => InBoot
           /\ pc = "jump_sysret" => Set /\ InJump
           /\ pc = "user" => Set /\ InUser
           /\ pc \in CallLabels => Set /\ InSyscall
           /\ pc \in FaultLabels => Set /\ InFault
           /\ pc \in TimerLabels => Set /\ InTick
           /\ pc \in DeadLabels => Set /\ Dead
           /\ pc \in BootStages \cup CallLabels \cup FaultLabels
                    \cup TimerLabels \cup DeadLabels \cup {"jump_sysret", "user"}
  <1>1. CASE InBoot
    BY <1>1 DEF InBoot, BootStages, CallLabels, FaultLabels, TimerLabels, DeadLabels
  <1>2. CASE Set /\ InJump
    BY <1>2 DEF InJump, BootStages, CallLabels, FaultLabels, TimerLabels, DeadLabels
  <1>3. CASE Set /\ InUser
    BY <1>3 DEF InUser, BootStages, CallLabels, FaultLabels, TimerLabels, DeadLabels
  <1>4. CASE Set /\ InSyscall
    BY <1>4 DEF InSyscall, BootStages, CallLabels, FaultLabels, TimerLabels, DeadLabels
  <1>5. CASE Set /\ InFault
    BY <1>5 DEF InFault, PageFaultOverUser, PageFaultOverCall, BootStages,
                CallLabels, FaultLabels, TimerLabels, DeadLabels
  <1>6. CASE Set /\ InTick
    <2>1. pc \in TimerLabels
      BY <1>6 DEF InTick, TimerOverUser, TimerOverUserFault,
                  TimerOverCallFault, TimerOverBoot, TimerOverJump, InTimer,
                  TimerLabels
    <2> QED
      BY <1>6, <2>1 DEF BootStages, CallLabels, FaultLabels, TimerLabels, DeadLabels
  <1>7. CASE Set /\ Dead
    BY <1>7 DEF Dead, BootStages, CallLabels, FaultLabels, TimerLabels, DeadLabels
  <1> QED
    BY <1>1, <1>2, <1>3, <1>4, <1>5, <1>6, <1>7 DEF Shape, InFault, InTick

(***************************************************************************)
(* kernel_start.                                                           *)
(***************************************************************************)
LEMMA InitIInv == Init => IInv
  <1> SUFFICES ASSUME Init PROVE IInv
    OBVIOUS
  <1>1. Plain
    BY UserSpAssumption DEF Init, Plain, Contexts, Pages, Never, Lefts, Sps,
       Ret, JunkRet, Registers
  <1>2. stack \in [{"K", "T", "U"} -> Seq(Items)]
    BY DEF Init
  <1>3. InBoot
    <2>1. Stacks(<<>>, <<>>, <<>>)
      BY DEF Init, Stacks
    <2>2. Done(pc) = {}
      BY DEF Init, Done
    <2>3. RegsAre("boot", "boot", JunkRet)
      BY DEF Init, RegsAre
    <2>4. pc \in BootStages /\ intf = FALSE /\ pc \notin Open
      BY DEF Init, BootStages, Open
    <2>5. pc = "user_stack" /\ user_stack = "NULL" /\ ready = {}
      BY DEF Init
    <2>6. uip = 0 /\ cpl = 0 /\ rsp = "K" /\ left = Never
      BY DEF Init
    <2> QED
      BY <2>1, <2>2, <2>3, <2>4, <2>5, <2>6 DEF InBoot
  <1> QED
    BY <1>1, <1>2, <1>3 DEF IInv, Shape

LEMMA BootStep ==
    ASSUME IInv,
           \/ SetUserStack \/ LoadPageTable \/ SyscallInit \/ TssSegmentInit
           \/ TlsInit \/ IdtInit \/ LapicEnable \/ PrintBanner
    PROVE  IInv'
  <1>1. InBoot /\ Plain /\ stack' = stack
    BY LabelShape DEF IInv, SetUserStack, LoadPageTable, SyscallInit, TssSegmentInit,
       TlsInit, IdtInit, LapicEnable, PrintBanner, BootStage, BootStages, bootFrame
  <1>2. Plain'
    <2> USE <1>1 DEF InBoot, Plain, BootStage, NextStage, BootStages, bootFrame,
        Essential, Done, Pages, MappedBy
    <2>1. CASE SetUserStack BY <2>1 DEF SetUserStack
    <2>2. CASE LoadPageTable BY <2>2 DEF LoadPageTable
    <2>3. CASE SyscallInit BY <2>3 DEF SyscallInit
    <2>4. CASE TssSegmentInit BY <2>4 DEF TssSegmentInit
    <2>5. CASE TlsInit BY <2>5 DEF TlsInit
    <2>6. CASE IdtInit BY <2>6 DEF IdtInit
    <2>7. CASE LapicEnable BY <2>7 DEF LapicEnable
    <2>8. CASE PrintBanner BY <2>8 DEF PrintBanner
    <2> QED BY <2>1, <2>2, <2>3, <2>4, <2>5, <2>6, <2>7, <2>8
  <1>3. InBoot'
    <2> USE <1>1 DEF InBoot, BootStage, NextStage, BootStages, bootFrame,
        Essential, Done, Open, MappedBy, Stacks, RegsAre
    <2>1. CASE SetUserStack BY <2>1 DEF SetUserStack
    <2>2. CASE LoadPageTable BY <2>2 DEF LoadPageTable
    <2>3. CASE SyscallInit BY <2>3 DEF SyscallInit
    <2>4. CASE TssSegmentInit
      <3>1. pc = "tss" /\ pc' = "tls"
        BY <2>4 DEF TssSegmentInit
      <3>2. "tls" \in mapped'
        BY <2>4, <3>1 DEF TssSegmentInit
      <3> QED BY <2>4, <3>1, <3>2 DEF TssSegmentInit
    <2>5. CASE TlsInit BY <2>5 DEF TlsInit
    <2>6. CASE IdtInit BY <2>6 DEF IdtInit
    <2>7. CASE LapicEnable
      <3>1. pc = "lapic" /\ pc' = "banner"
        BY <2>7 DEF LapicEnable
      <3>2. Essential \subseteq ready /\ ready \subseteq ready'
        BY <2>7, <3>1 DEF LapicEnable
      <3> QED BY <2>7, <3>1, <3>2 DEF LapicEnable
    <2>8. CASE PrintBanner BY <2>8 DEF PrintBanner
    <2> QED BY <2>1, <2>2, <2>3, <2>4, <2>5, <2>6, <2>7, <2>8
  <1> QED
    BY <1>1, <1>2, <1>3 DEF IInv, Shape


LEMMA UserJumpStep ==
    ASSUME IInv, UserJump
    PROVE  IInv'
  <1>1. InBoot /\ pc = "jump" /\ Plain /\ stack' = stack
    BY LabelShape DEF IInv, UserJump, BootStages
  <1>2. Plain'
    <2>1. [uip |-> 1, intf |-> intf] \in Ret
      BY <1>1 DEF Plain, Ret
    <2>2. regs' \in Registers
      BY <1>1, <2>1 DEF UserJump, Plain, Registers
    <2> QED
      BY <1>1, <2>2 DEF UserJump, Plain, InBoot
  <1>3. Set' /\ InJump'
    BY <1>1 DEF UserJump, InBoot, InJump, Set, Done, Open, Stacks, RegsAre, StartRet
  <1> QED
    BY <1>1, <1>2, <1>3 DEF IInv, Shape

\* A SYSRET to a good return address gives the CPU to the user program.
LEMMA SysretStep ==
    ASSUME IInv, Set, Sysret, Stacks(<<>>, <<>>, <<>>),
           regs.ret.uip \in Nat \ {0}, regs.ret.intf = TRUE, rsp \in UserSps,
           user_stack \in UserSps, isr = {}
    PROVE  IInv'
  <1>1. Plain'
    BY DEF IInv, Sysret, Plain
  <1>2. Set' /\ InUser'
    BY DEF Sysret, InUser, Set, Stacks
  <1> QED
    BY <1>1, <1>2 DEF IInv, Shape, Sysret

LEMMA UserJumpSysretStep ==
    ASSUME IInv, UserJumpSysret
    PROVE  IInv'
  <1>1. InJump /\ Set /\ Plain
    BY LabelShape DEF IInv, UserJumpSysret
  <1> QED
    BY <1>1, SysretStep, UserSpAssumption
       DEF InJump, StartRet, Plain, RegsAre, UserJumpSysret

(***************************************************************************)
(* The user program, and the traps that stop it.                           *)
(***************************************************************************)
LEMMA Gates ==
    /\ Gate(PageFault) = "pf_save" /\ Gate(GeneralProtection) = "df_save"
    /\ Gate(Timer) = "tm_save" /\ Gate(Spurious) = "null"
    /\ HasErrorCode(PageFault) /\ HasErrorCode(GeneralProtection)
    /\ ~HasErrorCode(Timer) /\ ~HasErrorCode(Spurious)
  BY DEF Gate, HasErrorCode, PageFault, GeneralProtection, Timer, Spurious

LEMMA RaiseFromUser ==
    ASSUME IInv, pc = "user", NEW v, Raise(v)
    PROVE  /\ Set' /\ Kernel("T")' /\ UserSuspended' /\ intf' = FALSE
           /\ pc' = Gate(v)
           /\ Stacks(<<>>, IF HasErrorCode(v) THEN <<ErrorCode, UserFrame>>
                                              ELSE <<UserFrame>>, <<>>)'
           /\ stack' \in [{"K", "T", "U"} -> Seq(Items)]
           /\ RegsAre(left.gp, left.rax, left.ret)'
           /\ left' \in Lefts /\ left'.via = "trap"
           /\ regs' \in Registers
           /\ UNCHANGED <<regs, ready, mapped, prog, user_stack>>
  <1>1. InUser /\ Set /\ Plain
    BY LabelShape DEF IInv
  <1>2. left' = Leaving("trap") /\ left' \in Lefts
    <2>1. left' = Leaving("trap")
      BY <1>1 DEF Raise, InUser
    <2>2. Leaving("trap") \in Lefts
      BY <1>1 DEF InUser, Leaving, Lefts, Registers, Sps, Plain
    <2> QED
      BY <2>1, <2>2
  <1>3. IretFrame = UserFrame' /\ IretFrame \in Items
    <2>1. IretFrame = UserFrame'
      BY <1>1, <1>2 DEF IretFrame, UserFrame, InUser, Leaving, Plain
    <2>2. IretFrame \in Frames
      BY <1>1 DEF IretFrame, Frames, InUser, Pcs, Sps, Plain
    <2> QED
      BY <2>1, <2>2 DEF Items
  <1>4. /\ Push(<<>>, IretFrame) = <<IretFrame>>
        /\ Push(<<IretFrame>>, ErrorCode) = <<ErrorCode, IretFrame>>
    BY Push0, Push1
  <1>5. /\ stack' = [stack EXCEPT !["T"] =
                     IF HasErrorCode(v) THEN <<ErrorCode, IretFrame>>
                                        ELSE <<IretFrame>>]
        /\ rsp' = "T"
    BY <1>1, <1>4 DEF Raise, InUser, StackOf
  <1>6. <<IretFrame>> \in Seq(Items) /\ <<ErrorCode, IretFrame>> \in Seq(Items)
    BY <1>3 DEF Items
  <1>7. stack' \in [{"K", "T", "U"} -> Seq(Items)]
    BY <1>5, <1>6 DEF IInv
  <1>8. Stacks(<<>>, IF HasErrorCode(v) THEN <<ErrorCode, UserFrame>>
                                       ELSE <<UserFrame>>, <<>>)'
    BY <1>1, <1>3, <1>5 DEF IInv, Stacks, InUser
  <1>9. Kernel("T")' /\ intf' = FALSE /\ pc' = Gate(v)
    BY <1>1, <1>5 DEF Raise, Kernel, CanTrap, Set, Essential
  <1>10. UserSuspended' /\ RegsAre(left.gp, left.rax, left.ret)'
    BY <1>1, <1>2 DEF Raise, UserSuspended, InUser, Leaving, RegsAre
  <1> QED
    <2>1. left'.via = "trap"
      BY <1>2 DEF Leaving
    <2>2. UNCHANGED <<regs, ready, mapped, prog, user_stack>>
      BY DEF Raise
    <2>3. Set' /\ regs' \in Registers
      BY <1>1, <2>2 DEF Set, Plain
    <2> QED
      BY <1>2, <1>7, <1>8, <1>9, <1>10, <2>1, <2>2, <2>3

\* A trap whose routine never returns, from the user program.
LEMMA UserTouchStep ==
    ASSUME IInv, UserTouch
    PROVE  IInv'
  <1>1. InUser /\ Set /\ Plain /\ pc = "user"
    BY LabelShape DEF IInv, UserTouch, UserAt
  <1>2. prog \in Seq(Op) /\ uip \in 1..Len(prog) /\ prog[uip] \in Op
    BY <1>1, ProgramsAssumption DEF Plain, UserTouch, UserAt
  <1>3. prog[uip].page \in Pages
    BY <1>2 DEF UserTouch, UserAt, Op
  <1>4. CASE prog[uip].page \in mapped
    <2>1. Plain'
      BY <1>1, <1>4 DEF UserTouch, UserRegs, Plain, Contexts, InUser, Registers
    <2>2. InUser' /\ Set' /\ stack' = stack
      BY <1>1, <1>2, <1>4 DEF UserTouch, UserRegs, InUser, Set, Stacks, Registers,
         Contexts
    <2> QED
      BY <2>1, <2>2 DEF IInv, Shape
  <1>5. CASE prog[uip].page \notin mapped /\ prog[uip].page = "noncanonical"
    <2>1. Raise(GeneralProtection) /\ UNCHANGED <<cr2, irr, isr>>
      BY <1>5 DEF UserTouch, FaultOn
    <2>2. pc' = "df_save" /\ HasErrorCode(GeneralProtection)
      BY <1>1, <2>1, RaiseFromUser, Gates
    <2>3. Plain'
      BY <1>1, <2>1, RaiseFromUser DEF Plain, InUser
    <2>4. Stacks(<<>>, <<ErrorCode, UserFrame>>, <<>>)'
      BY <1>1, <2>1, <2>2, RaiseFromUser
    <2>5. Dead'
      <3>1. \A s \in {"K", "T", "U"} : /\ Len(stack'[s]) <= 3
               /\ \A i \in 1..Len(stack'[s]) :
                     stack'[s][i].t = "iret" => stack'[s][i].pc \notin Printing
        <4> DEFINE two == <<ErrorCode, UserFrame'>>
        <4>1. /\ Len(two) = 2 /\ two[1].t = "err" /\ two[2].pc = "user"
          BY DEF ErrorCode, UserFrame
        <4>2. /\ stack'["K"] = <<>> /\ stack'["T"] = two /\ stack'["U"] = <<>>
          BY <2>4 DEF Stacks
        <4>3. \A i \in 1..Len(two) : two[i].t = "iret" => two[i].pc \notin Printing
          <5> HIDE DEF two
          <5> QED BY <4>1 DEF Printing
        <4>4. Len(<<>>) = 0
          OBVIOUS
        <4> TAKE s \in {"K", "T", "U"}
        <4>5. CASE s = "T"
          <5>1. stack'[s] = two
            BY <4>2, <4>5
          <5> HIDE DEF two
          <5>2. Len(two) = 2
            BY <4>1
          <5>3. \A i \in 1..Len(stack'[s]) :
                  stack'[s][i].t = "iret" => stack'[s][i].pc \notin Printing
            BY <4>3, <5>1
          <5> QED BY <5>1, <5>2, <5>3
        <4>6. CASE s # "T"
          <5>1. stack'[s] = <<>>
            BY <4>2, <4>6
          <5> QED BY <4>4, <5>1
        <4> QED
          BY <4>5, <4>6
      <3>2. user_stack' \in UserSps /\ rsp' \in Sps /\ stack'["U"] = <<>>
        BY <1>1, <2>1, <2>4, RaiseFromUser DEF UserSuspended, Kernel, Sps, Stacks
      <3>3. Kernel("T")' /\ regs' \in Registers /\ intf' = FALSE
            /\ stack' \in [{"K", "T", "U"} -> Seq(Items)]
        BY <1>1, <2>1, RaiseFromUser
      <3> QED
        BY <2>2, <3>1, <3>2, <3>3 DEF Dead, Kernel
    <2> QED
      BY <1>1, <2>1, <2>3, <2>5, RaiseFromUser DEF IInv, Shape
  <1>6. CASE prog[uip].page \notin mapped /\ prog[uip].page # "noncanonical"
    <2>1. Raise(PageFault) /\ cr2' = prog[uip].page /\ UNCHANGED <<irr, isr>>
      BY <1>6 DEF UserTouch, FaultOn
    <2>2. pc' = "pf_save" /\ HasErrorCode(PageFault)
      BY <1>1, <2>1, RaiseFromUser, Gates
    <2>3. Plain'
      BY <1>1, <1>3, <2>1, RaiseFromUser DEF Plain, InUser
    <2>4. PageFaultOverUser'
      BY <1>1, <2>1, <2>2, RaiseFromUser DEF PageFaultOverUser
    <2> QED
      BY <1>1, <2>1, <2>3, <2>4, RaiseFromUser DEF IInv, Shape
  <1> QED
    BY <1>4, <1>5, <1>6


LEMMA UserSetSpStep ==
    ASSUME IInv, UserSetSp
    PROVE  IInv'
  <1>1. InUser /\ Set /\ Plain /\ pc = "user"
    BY LabelShape DEF IInv, UserSetSp, UserAt
  <1>2. prog \in Seq(Op) /\ uip \in 1..Len(prog) /\ prog[uip] \in Op
    BY <1>1, ProgramsAssumption DEF Plain, UserSetSp, UserAt
  <1>3. prog[uip].sp \in UserSps
    BY <1>2 DEF UserSetSp, UserAt, Op
  <1>4. Plain'
    BY <1>1 DEF UserSetSp, UserRegs, Plain, Contexts, InUser, Registers
  <1>5. InUser' /\ Set' /\ stack' = stack
    BY <1>1, <1>2, <1>3 DEF UserSetSp, InUser, Set, Stacks
  <1> QED
    BY <1>4, <1>5 DEF IInv, Shape

LEMMA UserSyscallStep ==
    ASSUME IInv, UserSyscall
    PROVE  IInv'
  <1>1. InUser /\ Set /\ Plain /\ pc = "user"
    BY LabelShape DEF IInv, UserSyscall, UserAt
  <1>2. uip \in 1..Len(prog) /\ prog[uip].op = "syscall"
    BY DEF UserSyscall, UserAt
  <1>3. /\ left'.via = "syscall" /\ left'.uip = uip /\ left'.rsp = rsp
        /\ left'.gp = "user" /\ left' \in Lefts
    BY <1>1 DEF UserSyscall, Leaving, Lefts, InUser, Plain, Registers, Contexts,
       Sps
  <1>4. Plain'
    <2>1. [uip |-> uip + 1, intf |-> intf] \in Ret
      BY <1>1 DEF Plain, Ret, InUser
    <2>2. regs' \in Registers
      BY <1>1, <2>1 DEF UserSyscall, UserRegs, Plain, Registers, Contexts
    <2>3. intf' = FALSE
      BY <1>1 DEF UserSyscall, MaskedIF, Set, Essential
    <2> QED
      BY <1>1, <1>3, <2>2, <2>3 DEF UserSyscall, Plain, InUser
  <1>5. InSyscall'
    <2>1. RegsAre("user", "user", CallRet)'
      BY <1>1, <1>3 DEF UserSyscall, UserRegs, RegsAre, CallRet, InUser, Plain,
         Registers
    <2>2. Calling'
      BY <1>1, <1>2, <1>3 DEF Calling, UserSyscall, InUser
    <2>3. Stacks(<<>>, <<>>, <<>>)'
      BY <1>1 DEF UserSyscall, InUser, Stacks
    <2>4. /\ pc' = "sc_entry" /\ uip' = 0 /\ cpl' = 0 /\ intf' = FALSE
          /\ rsp' = left'.rsp /\ user_stack' \in UserSps
      BY <1>1, <1>3 DEF UserSyscall, MaskedIF, Set, Essential, InUser
    <2> QED
      BY <2>1, <2>2, <2>3, <2>4 DEF InSyscall
  <1>6. Set' /\ stack' = stack
    BY <1>1 DEF UserSyscall, Set
  <1> QED
    BY <1>4, <1>5, <1>6 DEF IInv, Shape

(***************************************************************************)
(* System calls.                                                           *)
(***************************************************************************)
LEMMA ClobberType ==
    ASSUME regs \in Registers, NEW c \in Contexts
    PROVE  /\ Clobber(regs, c) \in Registers
           /\ Clobber(regs, c).gp = c /\ Clobber(regs, c).rax = c
           /\ Clobber(regs, c).ret = JunkRet
  BY DEF Clobber, Registers, JunkRet, Ret

LEMMA SyscallSaveStep ==
    ASSUME IInv, SyscallSave
    PROVE  IInv'
  <1>1. InSyscall /\ Set /\ Plain /\ pc = "sc_entry"
    BY LabelShape DEF IInv, SyscallSave, CallLabels
  <1>2. /\ rsp = left.rsp /\ rsp \in UserSps /\ Calling
        /\ Stacks(<<>>, <<>>, <<>>) /\ RegsAre("user", "user", CallRet)
    BY <1>1 DEF InSyscall, Calling
  <1>3. [t |-> "sc", gp |-> regs.gp, ret |-> regs.ret] = CallEntry
    BY <1>2 DEF RegsAre, CallEntry, Calling
  <1>4. CallEntry \in Items
    <2>1. CallEntry \in [t : {"sc"}, gp : Contexts, ret : Ret]
      BY <1>1 DEF CallEntry, CallRet, Ret, Plain, Lefts
    <2> QED
      BY <2>1 DEF Items
  <1>5. stack' = [stack EXCEPT !["K"] = <<CallEntry>>]
    BY <1>3 DEF SyscallSave
  <1>6. Stacks(<<CallEntry>>, <<>>, <<>>)' /\ stack' \in [{"K", "T", "U"} -> Seq(Items)]
    <2>1. <<CallEntry>> \in Seq(Items)
      BY <1>4
    <2>2. left' = left
      BY DEF SyscallSave, kernelFrame
    <2> QED
      BY <1>2, <1>5, <2>1, <2>2 DEF IInv, Stacks, CallEntry, CallRet
  <1>7. Plain'
    BY <1>1, ClobberType DEF SyscallSave, kernelFrame, Plain, Contexts
  <1>8. RegsAre("sc", "sc", JunkRet)'
    BY <1>1, ClobberType DEF SyscallSave, RegsAre, Plain, Contexts
  <1>9. InSyscall' /\ Set'
    BY <1>1, <1>2, <1>6, <1>8
       DEF SyscallSave, kernelFrame, InSyscall, Set, Calling
  <1> QED
    BY <1>6, <1>7, <1>9 DEF IInv, Shape

LEMMA SyscallPrintStep ==
    ASSUME IInv, SyscallPrint
    PROVE  IInv'
  <1>1. InSyscall /\ Set /\ Plain /\ pc = "sc_print"
    BY LabelShape DEF IInv, SyscallPrint, CallLabels
  <1>2. Plain'
    BY <1>1 DEF SyscallPrint, kernelFrame, Plain
  <1>3. InSyscall' /\ Set' /\ stack' = stack
    BY <1>1 DEF SyscallPrint, kernelFrame, InSyscall, Set, Calling, Stacks,
       RegsAre, CallEntry, CallRet, Serving, ArgumentRead
  <1> QED
    BY <1>2, <1>3 DEF IInv, Shape

LEMMA SyscallPopStep ==
    ASSUME IInv, SyscallPop
    PROVE  IInv'
  <1>1. InSyscall /\ Set /\ Plain /\ pc = "sc_pop"
    BY LabelShape DEF IInv, SyscallPop, CallLabels
  <1>2. /\ rsp = "K" /\ Calling /\ Stacks(<<CallEntry>>, <<>>, <<>>)
        /\ RegsAre("sc", Result(Serving.n), JunkRet) /\ user_stack = left.rsp
    BY <1>1 DEF InSyscall
  <1>3. Here = <<CallEntry>> /\ Top(Here) = CallEntry /\ Pop(Here) = <<>>
    BY <1>2, TopPop1 DEF Here, StackOf, Stacks
  <1>4. stack' = [stack EXCEPT !["K"] = <<>>]
    BY <1>2, <1>3 DEF SyscallPop, PopHere, StackOf
  <1>5. Stacks(<<>>, <<>>, <<>>)' /\ stack' \in [{"K", "T", "U"} -> Seq(Items)]
    BY <1>2, <1>4 DEF IInv, Stacks
  <1>6. regs' = [regs EXCEPT !.gp = "user", !.ret = CallRet]
    <2>1. CallEntry.gp = "user" /\ CallEntry.ret = CallRet
      BY <1>2 DEF CallEntry, Calling
    <2> QED
      BY <1>3, <2>1 DEF SyscallPop
  <1>7. CallRet \in Ret
    BY <1>2 DEF CallRet, Ret, Calling
  <1>8. regs' \in Registers /\ RegsAre("user", Result(Serving.n), CallRet)'
    BY <1>1, <1>2, <1>6, <1>7 DEF Registers, RegsAre, Plain, Contexts,
       SyscallPop, kernelFrame, Serving, CallRet
  <1>9. Plain'
    BY <1>1, <1>8 DEF SyscallPop, kernelFrame, Plain
  <1>10. ArgumentRead'
    BY <1>1 DEF SyscallPop, kernelFrame, InSyscall, ArgumentRead, Serving
  <1>11. InSyscall' /\ Set'
    BY <1>1, <1>2, <1>5, <1>8, <1>10
       DEF SyscallPop, kernelFrame, InSyscall, Set, Calling
  <1> QED
    BY <1>5, <1>9, <1>11 DEF IInv, Shape

LEMMA SyscallSysretStep ==
    ASSUME IInv, SyscallSysret
    PROVE  IInv'
  <1>1. InSyscall /\ Set /\ Plain /\ pc = "sc_sysret"
    BY LabelShape DEF IInv, SyscallSysret, CallLabels
  <1>2. /\ rsp = left.rsp /\ rsp \in UserSps /\ user_stack \in UserSps
        /\ Stacks(<<>>, <<>>, <<>>) /\ regs.ret = CallRet /\ left.uip \in Nat
    BY <1>1 DEF InSyscall, Calling, RegsAre
  <1> QED
    BY <1>1, <1>2, SysretStep DEF SyscallSysret, CallRet, Plain


LEMMA SavedType ==
    ASSUME regs \in Registers
    PROVE  SaveRegs(regs) \in Items
  <1>1. SaveRegs(regs) \in [t : {"regs"}, gp : Contexts,
                            rax : Contexts \cup Results, ret : Ret]
    BY DEF SaveRegs, Registers
  <1> QED
    BY <1>1 DEF Items

\* A kernel context on stack "K" with known contents takes a trap.
LEMMA RaiseFromCall ==
    ASSUME IInv, pc = "sc_body", NEW v \in {PageFault, GeneralProtection}, Raise(v)
    PROVE  /\ Set' /\ Kernel("K")' /\ CallSuspended' /\ intf' = FALSE
           /\ pc' = Gate(v)
           /\ Stacks(<<ErrorCode, CallFrame, CallEntry>>, <<>>, <<>>)'
           /\ stack' \in [{"K", "T", "U"} -> Seq(Items)]
           /\ RegsAre("sc", "sc", JunkRet)'
           /\ UNCHANGED <<regs, ready, mapped, prog, user_stack, left>>
  <1>1. InSyscall /\ Set /\ Plain
    BY LabelShape DEF IInv, CallLabels
  <1>2. /\ uip = 0 /\ cpl = 0 /\ intf = FALSE /\ rsp = "K" /\ Calling
        /\ Stacks(<<CallEntry>>, <<>>, <<>>) /\ RegsAre("sc", "sc", JunkRet)
        /\ user_stack = left.rsp
    BY <1>1 DEF InSyscall, Plain
  <1>3. IretFrame = CallFrame
    BY <1>2 DEF IretFrame, CallFrame, KernelFrame
  <1>4. Here = <<CallEntry>> /\ StackOf(rsp) = "K" /\ HasErrorCode(v)
    BY <1>2, Gates DEF Here, StackOf, Stacks
  <1>5. Push(Push(Here, IretFrame), ErrorCode) = <<ErrorCode, CallFrame, CallEntry>>
    BY <1>3, <1>4, Push1, Push2
  <1>6. /\ stack' = [stack EXCEPT !["K"] = <<ErrorCode, CallFrame, CallEntry>>]
        /\ rsp' = "K" /\ left' = left
    <2>1. cpl # 3 /\ Push(IF cpl = 3 THEN <<>> ELSE Here, IretFrame) = Push(Here, IretFrame)
      BY <1>2
    <2> QED
      BY <1>2, <1>4, <1>5, <2>1 DEF Raise
  <1>7. stack' \in [{"K", "T", "U"} -> Seq(Items)]
    <2>1. CallFrame \in Frames /\ CallFrame \in Items /\ ErrorCode \in Items
      BY DEF CallFrame, KernelFrame, Frames, Pcs, Sps, Items
    <2>2. CallEntry \in Items
      <3>1. CallEntry \in [t : {"sc"}, gp : Contexts, ret : Ret]
        BY <1>1 DEF CallEntry, CallRet, Ret, Plain, Lefts
      <3> QED BY <3>1 DEF Items
    <2> QED
      BY <1>6, <2>1, <2>2 DEF IInv
  <1>8. Stacks(<<ErrorCode, CallFrame, CallEntry>>, <<>>, <<>>)'
    BY <1>2, <1>6 DEF IInv, Stacks, CallEntry, CallFrame, CallRet, KernelFrame
  <1>9. pc' = Gate(v) /\ uip' = 0 /\ cpl' = 0 /\ intf' = FALSE
        /\ UNCHANGED <<regs, ready, mapped, prog, user_stack>>
    BY <1>1, <1>2 DEF Raise, CanTrap, Set, Essential
  <1>10. Set' /\ RegsAre("sc", "sc", JunkRet)' /\ CallSuspended'
    BY <1>1, <1>2, <1>6, <1>9 DEF Set, RegsAre, CallSuspended, Calling
  <1> QED
    BY <1>6, <1>7, <1>8, <1>9, <1>10 DEF Kernel

LEMMA SyscallBodyStep ==
    ASSUME IInv, SyscallBody
    PROVE  IInv'
  <1>1. InSyscall /\ Set /\ Plain /\ pc = "sc_body"
    BY LabelShape DEF IInv, SyscallBody, CallLabels
  <1>2. Calling /\ Serving \in Op /\ Serving.n \in 0..2 /\ Serving.page \in Pages
    <2>1. Calling
      BY <1>1 DEF InSyscall
    <2>2. prog \in Seq(Op) /\ Serving \in Op /\ Serving.op = "syscall"
      BY <1>1, <2>1, ProgramsAssumption DEF Plain, Calling, Serving
    <2> QED
      BY <2>1, <2>2 DEF Op
  <1>3. CASE Serving.n = 0 /\ Serving.page \notin mapped /\ Serving.page = "noncanonical"
    <2>1. Raise(GeneralProtection) /\ UNCHANGED <<cr2, irr, isr>>
      BY <1>3 DEF SyscallBody, FaultOn
    <2> DEFINE three == <<ErrorCode, CallFrame, CallEntry>>
    <2>2. /\ Set' /\ Kernel("K")' /\ CallSuspended' /\ intf' = FALSE
          /\ pc' = "df_save" /\ Stacks(three, <<>>, <<>>)'
          /\ stack' \in [{"K", "T", "U"} -> Seq(Items)]
          /\ UNCHANGED <<regs, ready, mapped, prog, user_stack, left>>
      BY <1>1, <2>1, RaiseFromCall, Gates
    <2>3. Plain'
      BY <1>1, <2>1, <2>2 DEF Plain
    <2>4. Dead'
      <3>1. /\ Len(three') = 3 /\ three'[1].t = "err" /\ three'[2].pc = "sc_body"
            /\ three'[3].t = "sc"
        BY DEF ErrorCode, CallFrame, CallEntry, KernelFrame
      <3>2. stack'["K"] = three' /\ stack'["T"] = <<>> /\ stack'["U"] = <<>>
        BY <2>2 DEF Stacks
      <3>3. \A s \in {"K", "T", "U"} : /\ Len(stack'[s]) <= 3
               /\ \A i \in 1..Len(stack'[s]) :
                     stack'[s][i].t = "iret" => stack'[s][i].pc \notin Printing
        <4> TAKE s \in {"K", "T", "U"}
        <4>1. CASE s = "K"
          <5> DEFINE kk == three'
          <5>1. stack'[s] = kk
            BY <3>2, <4>1
          <5>2. Len(kk) = 3 /\ kk[1].t = "err" /\ kk[2].pc = "sc_body" /\ kk[3].t = "sc"
            BY <3>1
          <5> HIDE DEF kk
          <5>3. \A i \in 1..Len(kk) : kk[i].t = "iret" => kk[i].pc \notin Printing
            BY <5>2 DEF Printing
          <5> QED BY <5>1, <5>2, <5>3
        <4>2. CASE s # "K"
          <5>1. stack'[s] = <<>> /\ Len(<<>>) = 0
            BY <3>2, <4>2
          <5> QED BY <5>1
        <4> QED
          BY <4>1, <4>2
      <3>4. user_stack' \in UserSps /\ regs' \in Registers
        BY <1>1, <2>2 DEF Plain, InSyscall
      <3> QED
        BY <2>2, <3>2, <3>3, <3>4 DEF Dead, Kernel, Sps
    <2> QED
      BY <2>2, <2>3, <2>4 DEF IInv, Shape
  <1>4. CASE Serving.n = 0 /\ Serving.page \notin mapped /\ Serving.page # "noncanonical"
    <2>1. Raise(PageFault) /\ cr2' = Serving.page /\ UNCHANGED <<irr, isr>>
      BY <1>4 DEF SyscallBody, FaultOn
    <2>2. pc' = "pf_save"
      BY <1>1, <2>1, RaiseFromCall, Gates
    <2>3. Plain'
      BY <1>1, <1>2, <2>1, RaiseFromCall DEF Plain
    <2>4. PageFaultOverCall'
      BY <1>1, <2>1, <2>2, RaiseFromCall DEF PageFaultOverCall
    <2> QED
      BY <1>1, <2>1, <2>3, <2>4, RaiseFromCall DEF IInv, Shape
  <1>5. CASE ~(Serving.n = 0 /\ Serving.page \notin mapped)
    <2>1. /\ pc' = IF Serving.n \in {0, 1} THEN "sc_print" ELSE "sc_pop"
          /\ regs' = [Clobber(regs, "sc") EXCEPT !.rax = Result(Serving.n)]
          /\ UNCHANGED <<kernelFrame, intf, rsp, stack, user_stack, mapped, isr>>
      BY <1>5 DEF SyscallBody
    <2>2. Result(Serving.n) \in Results
      BY DEF Result, Results
    <2>3. regs' \in Registers /\ RegsAre("sc", Result(Serving.n), JunkRet)'
      BY <1>1, <2>1, <2>2, ClobberType
         DEF Registers, RegsAre, Plain, Contexts, kernelFrame, Serving
    <2>4. Plain'
      BY <1>1, <2>1, <2>3 DEF Plain, kernelFrame
    <2>5. ArgumentRead'
      BY <1>1, <1>5, <2>1 DEF ArgumentRead, Serving, Plain, kernelFrame
    <2>6. InSyscall' /\ Set'
      BY <1>1, <2>1, <2>3, <2>5 DEF InSyscall, Set, Calling, Stacks, CallEntry,
         CallRet, kernelFrame
    <2> QED
      BY <2>1, <2>4, <2>6 DEF IInv, Shape
  <1> QED
    BY <1>3, <1>4, <1>5


(***************************************************************************)
(* The trap routines: what each does to a stack of known entries.          *)
(***************************************************************************)
LEMMA HereType ==
    ASSUME IInv
    PROVE  StackOf(rsp) \in {"K", "T", "U"} /\ Here \in Seq(Items)
  BY DEF IInv, StackOf, Here

LEMMA TrapSaveFacts ==
    ASSUME IInv, NEW from, NEW to, NEW c \in Contexts, TrapSave(from, to, c)
    PROVE  /\ pc = from /\ pc' = to /\ intf' = FALSE
           /\ stack' = [stack EXCEPT ![StackOf(rsp)] =
                           Push(Here, RegsEntry(regs.gp, regs.rax, regs.ret))]
           /\ stack' \in [{"K", "T", "U"} -> Seq(Items)]
           /\ regs' \in Registers /\ RegsAre(c, c, JunkRet)'
           /\ UNCHANGED <<uip, cpl, ready, cr2, irr, prog, left, rsp,
                          user_stack, mapped, isr>>
  <1>1. regs \in Registers
    BY DEF IInv, Plain
  <1>2. SaveRegs(regs) = RegsEntry(regs.gp, regs.rax, regs.ret)
    BY DEF SaveRegs, RegsEntry
  <1>3. Push(Here, SaveRegs(regs)) \in Seq(Items)
    BY <1>1, HereType, SavedType, PushType
  <1>4. stack' = [stack EXCEPT ![StackOf(rsp)] = Push(Here, SaveRegs(regs))]
    BY DEF TrapSave, PushHere
  <1>5. stack' \in [{"K", "T", "U"} -> Seq(Items)]
    BY <1>3, <1>4 DEF IInv
  <1>6. regs' \in Registers /\ RegsAre(c, c, JunkRet)'
    BY <1>1, ClobberType DEF TrapSave, RegsAre
  <1> QED
    BY <1>2, <1>4, <1>5, <1>6 DEF TrapSave, kernelFrame

LEMMA PageFaultSaveStep ==
    ASSUME IInv, PageFaultSave
    PROVE  IInv'
  <1>1. InFault /\ Set /\ Plain /\ pc = "pf_save"
    BY LabelShape DEF IInv, PageFaultSave, TrapSave, FaultLabels
  <1>2. /\ pc' = "pf_body" /\ intf' = FALSE
        /\ stack' = [stack EXCEPT ![StackOf(rsp)] =
                           Push(Here, RegsEntry(regs.gp, regs.rax, regs.ret))]
        /\ stack' \in [{"K", "T", "U"} -> Seq(Items)]
        /\ regs' \in Registers /\ RegsAre("pf", "pf", JunkRet)'
        /\ UNCHANGED <<uip, cpl, ready, cr2, irr, prog, left, rsp,
                       user_stack, mapped, isr>>
    BY TrapSaveFacts DEF PageFaultSave, Contexts
  <1>3. Plain' /\ Set'
    BY <1>1, <1>2 DEF Plain, Set
  <1>4. CASE PageFaultOverUser
    <2>1. /\ Kernel("T") /\ UserSuspended
          /\ Stacks(<<>>, <<ErrorCode, UserFrame>>, <<>>)
          /\ RegsAre(left.gp, left.rax, left.ret)
      BY <1>1, <1>4 DEF PageFaultOverUser
    <2>2. Here = <<ErrorCode, UserFrame>> /\ StackOf(rsp) = "T"
      BY <2>1 DEF Here, StackOf, Kernel, Stacks
    <2>3. Push(Here, RegsEntry(regs.gp, regs.rax, regs.ret))
            = <<RegsEntry(left.gp, left.rax, left.ret), ErrorCode, UserFrame>>
      BY <2>1, <2>2, Push2 DEF RegsAre
    <2>4. Stacks(<<>>, <<RegsEntry(left.gp, left.rax, left.ret), ErrorCode,
                         UserFrame>>, <<>>)'
      BY <1>2, <2>1, <2>2, <2>3 DEF Stacks, UserFrame, RegsEntry, IInv
    <2>5. PageFaultOverUser'
      BY <1>2, <2>1, <2>4 DEF PageFaultOverUser, Kernel, UserSuspended
    <2> QED
      BY <1>2, <1>3, <2>5 DEF IInv, Shape
  <1>5. CASE PageFaultOverCall
    <2>1. /\ Kernel("K") /\ CallSuspended
          /\ Stacks(<<ErrorCode, CallFrame, CallEntry>>, <<>>, <<>>)
          /\ RegsAre("sc", "sc", JunkRet)
      BY <1>1, <1>5 DEF PageFaultOverCall
    <2>2. Here = <<ErrorCode, CallFrame, CallEntry>> /\ StackOf(rsp) = "K"
      BY <2>1 DEF Here, StackOf, Kernel, Stacks
    <2>3. Push(Here, RegsEntry(regs.gp, regs.rax, regs.ret))
            = <<RegsEntry("sc", "sc", JunkRet), ErrorCode, CallFrame, CallEntry>>
      BY <2>1, <2>2, Push3 DEF RegsAre
    <2>4. Stacks(<<RegsEntry("sc", "sc", JunkRet), ErrorCode, CallFrame,
                   CallEntry>>, <<>>, <<>>)'
      BY <1>2, <2>1, <2>2, <2>3
         DEF Stacks, CallFrame, CallEntry, CallRet, KernelFrame, IInv
    <2>5. PageFaultOverCall'
      BY <1>2, <2>1, <2>4 DEF PageFaultOverCall, Kernel, CallSuspended, Calling
    <2> QED
      BY <1>2, <1>3, <2>5 DEF IInv, Shape
  <1> QED
    BY <1>1, <1>4, <1>5 DEF InFault

LEMMA PageFaultBodyStep ==
    ASSUME IInv, PageFaultBody
    PROVE  IInv'
  <1>1. InFault /\ Set /\ Plain /\ pc = "pf_body"
    BY LabelShape DEF IInv, PageFaultBody, FaultLabels
  <1>2. Plain' /\ Set' /\ stack' = stack
    BY <1>1 DEF PageFaultBody, kernelFrame, Plain, Set, MappedBy, Pages
  <1>3. InFault'
    BY <1>1 DEF PageFaultBody, kernelFrame, InFault, PageFaultOverUser,
       PageFaultOverCall, Kernel, UserSuspended, CallSuspended, Calling, Stacks,
       RegsAre, UserFrame, CallFrame, CallEntry, CallRet, KernelFrame, RegsEntry
  <1> QED
    BY <1>2, <1>3 DEF IInv, Shape, InFault

LEMMA RestoreRegsIs ==
    ASSUME regs \in Registers, NEW g \in Contexts, NEW x \in Contexts \cup Results,
           NEW r \in Ret, regs' = RestoreRegs(regs, RegsEntry(g, x, r))
    PROVE  regs' \in Registers /\ regs'.gp = g /\ regs'.rax = x /\ regs'.ret = r
  <1>1. /\ RegsEntry(g, x, r).gp = g /\ RegsEntry(g, x, r).rax = x
        /\ RegsEntry(g, x, r).ret = r
    BY DEF RegsEntry
  <1> QED
    BY <1>1 DEF RestoreRegs, Registers

LEMMA PageFaultRestoreStep ==
    ASSUME IInv, PageFaultRestore
    PROVE  IInv'
  <1>1. InFault /\ Set /\ Plain /\ pc = "pf_restore"
    BY LabelShape DEF IInv, PageFaultRestore, FaultLabels
  <1>2. /\ pc' = "pf_iret" /\ intf' = TRUE
        /\ regs' = RestoreRegs(regs, Top(Here))
        /\ stack' = [stack EXCEPT ![StackOf(rsp)] = Pop(Pop(Here))]
        /\ UNCHANGED <<uip, cpl, ready, cr2, irr, prog, left, rsp,
                       user_stack, mapped, isr>>
    BY DEF PageFaultRestore, kernelFrame
  <1>3. stack' \in [{"K", "T", "U"} -> Seq(Items)] /\ Plain' /\ Set' /\ InFault'
    <2>1. CASE PageFaultOverUser
      <3>1. /\ Kernel("T") /\ UserSuspended
            /\ Stacks(<<>>, <<RegsEntry(left.gp, left.rax, left.ret), ErrorCode,
                              UserFrame>>, <<>>)
        BY <1>1, <2>1 DEF PageFaultOverUser
      <3>2. /\ Here = <<RegsEntry(left.gp, left.rax, left.ret), ErrorCode, UserFrame>>
            /\ StackOf(rsp) = "T"
        BY <3>1 DEF Here, StackOf, Kernel, Stacks
      <3>3. /\ Top(Here) = RegsEntry(left.gp, left.rax, left.ret)
            /\ Pop(Pop(Here)) = <<UserFrame>>
        <4> DEFINE rg == RegsEntry(left.gp, left.rax, left.ret)
        <4>1. Top(<<rg, ErrorCode, UserFrame>>) = rg
          BY TopPop3, Zenon
        <4>2. Pop(<<rg, ErrorCode, UserFrame>>) = <<ErrorCode, UserFrame>>
          BY TopPop3, Zenon
        <4>3. Pop(<<ErrorCode, UserFrame>>) = <<UserFrame>> BY TopPop2, Zenon
        <4> QED
          BY <3>2, <4>1, <4>2, <4>3
      <3>4. regs' \in Registers /\ RegsAre(left.gp, left.rax, left.ret)'
        BY <1>1, <1>2, <3>3, RestoreRegsIs DEF Plain, Lefts, RegsAre
      <3>5. <<UserFrame>> \in Seq(Items)
        <4>1. UserFrame \in Frames
          BY <1>1, <3>1 DEF UserFrame, Frames, Pcs, Plain, Lefts
        <4> QED BY <4>1 DEF Items
      <3>6. /\ stack' = [stack EXCEPT !["T"] = <<UserFrame>>]
            /\ stack' \in [{"K", "T", "U"} -> Seq(Items)]
        BY <1>2, <3>2, <3>3, <3>5 DEF IInv
      <3>7. Stacks(<<>>, <<UserFrame>>, <<>>)'
        BY <1>2, <3>1, <3>6 DEF Stacks, UserFrame, IInv
      <3>8. PageFaultOverUser'
        BY <1>2, <3>1, <3>4, <3>7 DEF PageFaultOverUser, Kernel, UserSuspended
      <3> QED
        BY <1>1, <1>2, <3>4, <3>6, <3>8 DEF Plain, Set, InFault
    <2>2. CASE PageFaultOverCall
      <3>1. /\ Kernel("K") /\ CallSuspended
            /\ Stacks(<<RegsEntry("sc", "sc", JunkRet), ErrorCode, CallFrame,
                        CallEntry>>, <<>>, <<>>)
        BY <1>1, <2>2 DEF PageFaultOverCall
      <3>2. /\ Here = <<RegsEntry("sc", "sc", JunkRet), ErrorCode, CallFrame, CallEntry>>
            /\ StackOf(rsp) = "K"
        BY <3>1 DEF Here, StackOf, Kernel, Stacks
      <3>3. /\ Top(Here) = RegsEntry("sc", "sc", JunkRet)
            /\ Pop(Pop(Here)) = <<CallFrame, CallEntry>>
        <4> DEFINE rg == RegsEntry("sc", "sc", JunkRet)
        <4>1. Top(<<rg, ErrorCode, CallFrame, CallEntry>>) = rg
          BY TopPop4
        <4>2. /\ Pop(<<rg, ErrorCode, CallFrame, CallEntry>>)
                   = <<ErrorCode, CallFrame, CallEntry>>
              /\ Pop(<<ErrorCode, CallFrame, CallEntry>>) = <<CallFrame, CallEntry>>
          BY TopPop4, TopPop3
        <4> QED
          BY <3>2, <4>1, <4>2
      <3>4. regs' \in Registers /\ RegsAre("sc", "sc", JunkRet)'
        BY <1>1, <1>2, <3>3, RestoreRegsIs DEF Plain, RegsAre, Contexts, JunkRet, Ret
      <3>5. <<CallFrame, CallEntry>> \in Seq(Items)
        <4>1. CallFrame \in Frames
          BY DEF CallFrame, KernelFrame, Frames, Pcs, Sps
        <4>2. CallEntry \in [t : {"sc"}, gp : Contexts, ret : Ret]
          BY <1>1 DEF CallEntry, CallRet, Ret, Plain, Lefts
        <4> QED BY <4>1, <4>2 DEF Items
      <3>6. /\ stack' = [stack EXCEPT !["K"] = <<CallFrame, CallEntry>>]
            /\ stack' \in [{"K", "T", "U"} -> Seq(Items)]
        BY <1>2, <3>2, <3>3, <3>5 DEF IInv
      <3>7. Stacks(<<CallFrame, CallEntry>>, <<>>, <<>>)'
        BY <1>2, <3>1, <3>6
           DEF Stacks, CallFrame, CallEntry, CallRet, KernelFrame, IInv
      <3>8. PageFaultOverCall'
        BY <1>2, <3>1, <3>4, <3>7 DEF PageFaultOverCall, Kernel, CallSuspended, Calling
      <3> QED
        BY <1>1, <1>2, <3>4, <3>6, <3>8 DEF Plain, Set, InFault
    <2> QED
      BY <1>1, <2>1, <2>2 DEF InFault
  <1> QED
    BY <1>3 DEF IInv, Shape, InFault


\* An IRET to the frame on top leaves the rest of the stack.
LEMMA IretFacts ==
    ASSUME IInv, Iret, NEW f \in Frames, NEW rest \in Seq(Items),
           Top(Here) = f, Pop(Here) = rest
    PROVE  /\ pc' = f.pc /\ uip' = f.uip /\ cpl' = f.cpl /\ intf' = f.intf
           /\ rsp' = f.rsp
           /\ stack' = [stack EXCEPT ![StackOf(rsp)] = rest]
           /\ stack' \in [{"K", "T", "U"} -> Seq(Items)]
           /\ UNCHANGED <<regs, user_stack, ready, mapped, cr2, irr, isr, prog,
                          left>>
  <1>1. stack' = [stack EXCEPT ![StackOf(rsp)] = rest]
    BY DEF Iret, PopHere
  <1>2. stack' \in [{"K", "T", "U"} -> Seq(Items)]
    BY <1>1 DEF IInv
  <1> QED
    BY <1>1, <1>2 DEF Iret

\* Back to the user program from a trap.
LEMMA IretToUser ==
    ASSUME IInv, Set, Iret, Kernel("T"), UserSuspended, isr = {},
           Stacks(<<>>, <<UserFrame>>, <<>>)
    PROVE  IInv'
  <1>1. Here = <<UserFrame>> /\ StackOf(rsp) = "T"
    BY DEF Here, StackOf, Kernel, Stacks
  <1>2. Top(Here) = UserFrame /\ Pop(Here) = <<>>
    BY <1>1, TopPop1
  <1>3. UserFrame \in Frames
    BY DEF UserFrame, Frames, Pcs, IInv, Plain, Lefts
  <1>4. <<>> \in Seq(Items)
    OBVIOUS
  <1>5. /\ pc' = "user" /\ uip' = left.uip /\ cpl' = 3 /\ intf' = TRUE
        /\ rsp' = left.rsp
        /\ stack' = [stack EXCEPT !["T"] = <<>>]
        /\ stack' \in [{"K", "T", "U"} -> Seq(Items)]
        /\ UNCHANGED <<regs, user_stack, ready, mapped, cr2, irr, isr, prog, left>>
    BY <1>1, <1>2, <1>3, <1>4, IretFacts DEF UserFrame
  <1>6. Plain' /\ Set'
    BY <1>5 DEF Plain, Set, IInv
  <1>7. InUser'
    BY <1>5 DEF InUser, Stacks, UserSuspended, IInv
  <1> QED
    BY <1>5, <1>6, <1>7 DEF IInv, Shape

LEMMA PageFaultIretStep ==
    ASSUME IInv, PageFaultIret
    PROVE  IInv'
  <1>1. InFault /\ Set /\ Plain /\ pc = "pf_iret" /\ Iret
    BY LabelShape DEF IInv, PageFaultIret, FaultLabels
  <1>2. CASE PageFaultOverUser
    BY <1>1, <1>2, IretToUser DEF PageFaultOverUser, Plain
  <1>3. CASE PageFaultOverCall
    <2>1. /\ Kernel("K") /\ CallSuspended /\ Calling /\ user_stack = left.rsp
          /\ Stacks(<<CallFrame, CallEntry>>, <<>>, <<>>)
          /\ RegsAre("sc", "sc", JunkRet)
      BY <1>1, <1>3 DEF PageFaultOverCall, CallSuspended
    <2>2. Here = <<CallFrame, CallEntry>> /\ StackOf(rsp) = "K"
      BY <2>1 DEF Here, StackOf, Kernel, Stacks
    <2>3. Top(Here) = CallFrame /\ Pop(Here) = <<CallEntry>>
      BY <2>2, TopPop2
    <2>4. CallFrame \in Frames
      BY DEF CallFrame, KernelFrame, Frames, Pcs, Sps
    <2>5. <<CallEntry>> \in Seq(Items)
      <3>1. CallEntry \in [t : {"sc"}, gp : Contexts, ret : Ret]
        BY <1>1 DEF CallEntry, CallRet, Ret, Plain, Lefts
      <3> QED BY <3>1 DEF Items
    <2>6. /\ pc' = "sc_body" /\ uip' = 0 /\ cpl' = 0 /\ intf' = FALSE /\ rsp' = "K"
          /\ stack' = [stack EXCEPT !["K"] = <<CallEntry>>]
          /\ stack' \in [{"K", "T", "U"} -> Seq(Items)]
          /\ UNCHANGED <<regs, user_stack, ready, mapped, cr2, irr, isr, prog, left>>
      BY <1>1, <2>2, <2>3, <2>4, <2>5, IretFacts DEF CallFrame, KernelFrame
    <2>7. Plain' /\ Set'
      BY <1>1, <2>6 DEF Plain, Set
    <2>8. Stacks(<<CallEntry>>, <<>>, <<>>)'
      BY <2>1, <2>6 DEF Stacks, IInv, CallEntry, CallRet
    <2>9. InSyscall'
      BY <2>1, <2>6, <2>8 DEF InSyscall, Calling, RegsAre
    <2> QED
      BY <2>6, <2>7, <2>9 DEF IInv, Shape
  <1> QED
    BY <1>1, <1>2, <1>3 DEF InFault


(***************************************************************************)
(* The timer routine, over whatever it interrupted.                        *)
(***************************************************************************)
\* s1 is s0 with the saved registers on top.
Saves(s0, s1, g, x, r) ==
    /\ Push(s0, RegsEntry(g, x, r)) = s1
    /\ Top(s1) = RegsEntry(g, x, r) /\ Pop(s1) = s0

\* What a step of the routine before its iretq makes of the machine.
TimerMoved(sp, g, x, r, s0, s1) ==
    /\ Plain' /\ stack' \in [{"K", "T", "U"} -> Seq(Items)]
    /\ UNCHANGED <<ready, left, user_stack, prog>>
    /\ uip' = 0 /\ cpl' = 0 /\ rsp' = sp /\ intf' = FALSE
    /\ \A s \in {"K", "T", "U"} : s # StackOf(sp) => stack'[s] = stack[s]
    /\ \/ /\ pc' \in {"tm_save", "tm_iret"}
          /\ stack'[StackOf(sp)] = s0
          /\ regs'.gp = g /\ regs'.rax = x /\ regs'.ret = r
       \/ /\ pc' \in {"tm_body", "tm_restore"}
          /\ stack'[StackOf(sp)] = s1
          /\ regs'.gp = "tm" /\ regs'.rax = "tm" /\ regs'.ret = JunkRet

LEMMA TimerInside ==
    ASSUME IInv, TimerSave \/ TimerBody \/ TimerRestore,
           NEW sp \in Sps, NEW g \in Contexts, NEW x \in Contexts \cup Results,
           NEW r \in Ret, NEW s0 \in Seq(Items), NEW s1,
           InTimer(sp, g, x, r, s0, s1), Saves(s0, s1, g, x, r)
    PROVE  TimerMoved(sp, g, x, r, s0, s1)
  <1>1. /\ uip = 0 /\ cpl = 0 /\ rsp = sp /\ intf = FALSE
        /\ Here = stack[StackOf(sp)] /\ StackOf(sp) \in {"K", "T", "U"}
    BY HereType DEF InTimer, Kernel, IInv, Plain, Here
  <1>2. CASE TimerSave
    <2>1. /\ pc = "tm_save" /\ pc' = "tm_body" /\ intf' = FALSE
          /\ stack' = [stack EXCEPT ![StackOf(rsp)] =
                           Push(Here, RegsEntry(regs.gp, regs.rax, regs.ret))]
          /\ stack' \in [{"K", "T", "U"} -> Seq(Items)]
          /\ regs' \in Registers /\ RegsAre("tm", "tm", JunkRet)'
          /\ UNCHANGED <<uip, cpl, ready, cr2, irr, prog, left, rsp,
                         user_stack, mapped, isr>>
      BY <1>2, TrapSaveFacts DEF TimerSave, Contexts
    <2>2. Here = s0 /\ RegsAre(g, x, r)
      BY <1>1, <2>1 DEF InTimer
    <2>3. stack' = [stack EXCEPT ![StackOf(sp)] = s1]
      BY <1>1, <2>1, <2>2 DEF Saves, RegsAre
    <2>4. Plain'
      BY <2>1 DEF IInv, Plain
    <2>5. /\ stack'[StackOf(sp)] = s1
          /\ \A s \in {"K", "T", "U"} : s # StackOf(sp) => stack'[s] = stack[s]
      BY <1>1, <2>3 DEF IInv
    <2> QED
      BY <1>1, <2>1, <2>4, <2>5 DEF RegsAre, TimerMoved
  <1>3. CASE TimerBody
    <2>1. isr' = {}
      <3>1. \A w \in isr : w = 32
        BY DEF IInv, Plain, Timer
      <3>2. \A w : w \notin Eoi(isr)
        BY <3>1 DEF Eoi
      <3> QED
        BY <1>3, <3>2 DEF TimerBody
    <2>2. Plain'
      BY <1>3, <2>1 DEF TimerBody, kernelFrame, IInv, Plain
    <2>3. pc = "tm_body" /\ stack[StackOf(sp)] = s1 /\ RegsAre("tm", "tm", JunkRet)
      BY <1>3 DEF TimerBody, InTimer
    <2> QED
      BY <1>1, <1>3, <2>2, <2>3
         DEF TimerBody, kernelFrame, IInv, RegsAre, TimerMoved
  <1>4. CASE TimerRestore
    <2>1. pc = "tm_restore" /\ Here = s1
      BY <1>1, <1>4 DEF TimerRestore, InTimer
    <2>2. regs' = RestoreRegs(regs, RegsEntry(g, x, r)) /\ isr' = isr
      BY <1>4, <2>1 DEF TimerRestore, Saves
    <2>3. regs' \in Registers /\ regs'.gp = g /\ regs'.rax = x /\ regs'.ret = r
      BY <2>2, RestoreRegsIs DEF IInv, Plain
    <2>4. stack' = [stack EXCEPT ![StackOf(sp)] = s0]
      BY <1>1, <1>4, <2>1 DEF TimerRestore, PopHere, Saves
    <2>5. Plain'
      BY <1>4, <2>1, <2>3 DEF TimerRestore, kernelFrame, IInv, Plain
    <2>6. /\ stack'[StackOf(sp)] = s0
          /\ stack' \in [{"K", "T", "U"} -> Seq(Items)]
          /\ \A s \in {"K", "T", "U"} : s # StackOf(sp) => stack'[s] = stack[s]
      BY <1>1, <2>4 DEF IInv
    <2> QED
      BY <1>1, <1>4, <2>3, <2>5, <2>6
         DEF TimerRestore, kernelFrame, TimerMoved
  <1> QED
    BY <1>2, <1>3, <1>4

\* The entries the timer routine can find on the stacks.
LEMMA EntryTypes ==
    ASSUME IInv
    PROVE  /\ UserFrame \in Items
           /\ CallFrame \in Items /\ CallEntry \in Items
           /\ \A l \in Pcs, if \in BOOLEAN, sp \in Sps :
                KernelFrame(l, if, sp) \in Frames /\ KernelFrame(l, if, sp) \in Items
  <1>1. UserFrame \in Frames
    BY DEF UserFrame, Frames, Pcs, IInv, Plain, Lefts
  <1>2. CallFrame \in Frames
    BY DEF CallFrame, KernelFrame, Frames, Pcs, Sps
  <1>3. CallEntry \in [t : {"sc"}, gp : Contexts, ret : Ret]
    BY DEF CallEntry, CallRet, Ret, IInv, Plain, Lefts
  <1>4. \A l \in Pcs, if \in BOOLEAN, sp \in Sps : KernelFrame(l, if, sp) \in Frames
    BY DEF KernelFrame, Frames
  <1> QED
    BY <1>1, <1>2, <1>3, <1>4 DEF Items

\* The frames a tick can leave on a kernel stack.
LEMMA TickFrames ==
    /\ WindowFrame("T") \in Frames /\ WindowFrame("K") \in Frames
    /\ \A l \in {"banner", "jump"} : KernelFrame(l, TRUE, "K") \in Frames
    /\ KernelFrame("jump_sysret", TRUE, InitUserSp) \in Frames
  <1>1. \A l \in {"banner", "jump", "pf_iret", "jump_sysret"}, sp \in {"T", "K", InitUserSp} :
           KernelFrame(l, TRUE, sp) \in Frames
    BY UserSpAssumption DEF KernelFrame, Frames, Pcs, BootStages, Sps
  <1> QED
    BY <1>1 DEF WindowFrame

LEMMA TimerInsideStep ==
    ASSUME IInv, TimerSave \/ TimerBody \/ TimerRestore
    PROVE  IInv'
  <1>1. InTick /\ Set /\ Plain
    BY LabelShape DEF IInv, TimerSave, TrapSave, TimerBody, TimerRestore, TimerLabels
  <1>2. /\ left.gp \in Contexts /\ left.rax \in Contexts \cup Results
        /\ left.ret \in Ret /\ "sc" \in Contexts /\ "boot" \in Contexts
        /\ JunkRet \in Ret /\ StartRet \in Ret
        /\ {"T", "K", InitUserSp} \subseteq Sps
        /\ {"pf_iret", "banner", "jump", "jump_sysret"} \subseteq Pcs
    BY <1>1, UserSpAssumption
       DEF Plain, Lefts, Contexts, JunkRet, StartRet, Ret, Sps, Pcs, BootStages
  <1>8. /\ \A sp \in {"T", "K"} : WindowFrame(sp) \in Items
        /\ \A l \in {"banner", "jump"} : KernelFrame(l, TRUE, "K") \in Items
        /\ KernelFrame("jump_sysret", TRUE, InitUserSp) \in Items
        /\ UserFrame \in Items /\ CallFrame \in Items /\ CallEntry \in Items
    BY TickFrames, EntryTypes DEF Items
  <1>3. CASE TimerOverUser
    <2> DEFINE rg == RegsEntry(left.gp, left.rax, left.ret)
               s0 == <<UserFrame>>
               s1 == <<rg, UserFrame>>
    <2>1. s0 \in Seq(Items)
      BY <1>8
    <2>2. Saves(s0, s1, left.gp, left.rax, left.ret)
      BY Push1, TopPop2 DEF Saves
    <2>3. InTimer("T", left.gp, left.rax, left.ret, s0, s1)
      BY <1>3 DEF TimerOverUser
    <2>4. TimerMoved("T", left.gp, left.rax, left.ret, s0, s1)
      <3> HIDE DEF s0, s1
      <3> QED BY <1>2, <2>1, <2>2, <2>3, TimerInside
    <2>5. s0' = s0 /\ s1' = s1
      BY <2>4 DEF TimerMoved, UserFrame, RegsEntry
    <2>6. InTimer("T", left.gp, left.rax, left.ret, s0, s1)'
      <3> HIDE DEF s0, s1
      <3> QED BY <2>4, <2>5 DEF InTimer, Kernel, RegsAre, TimerMoved
    <2>7. stack'["K"] = <<>> /\ stack'["U"] = <<>>
      <3> HIDE DEF s0, s1
      <3> QED BY <1>3, <2>4 DEF TimerOverUser, TimerMoved, StackOf
    <2>8. TimerOverUser' /\ Set'
      BY <1>1, <1>3, <2>4, <2>6, <2>7 DEF TimerOverUser, TimerMoved, UserSuspended, Set
    <2> QED
      BY <2>4, <2>8 DEF IInv, Shape, TimerMoved
  <1>4. CASE TimerOverUserFault
    <2> DEFINE rg == RegsEntry(left.gp, left.rax, left.ret)
               s0 == <<WindowFrame("T"), UserFrame>>
               s1 == <<rg, WindowFrame("T"), UserFrame>>
    <2>1. s0 \in Seq(Items)
      BY <1>8
    <2>2. Saves(s0, s1, left.gp, left.rax, left.ret)
      BY Push2, TopPop3 DEF Saves
    <2>3. InTimer("T", left.gp, left.rax, left.ret, s0, s1)
      BY <1>4 DEF TimerOverUserFault
    <2>4. TimerMoved("T", left.gp, left.rax, left.ret, s0, s1)
      <3> HIDE DEF s0, s1
      <3> QED BY <1>2, <2>1, <2>2, <2>3, TimerInside
    <2>5. s0' = s0 /\ s1' = s1
      BY <2>4 DEF TimerMoved, UserFrame, RegsEntry, WindowFrame, KernelFrame
    <2>6. InTimer("T", left.gp, left.rax, left.ret, s0, s1)'
      <3> HIDE DEF s0, s1
      <3> QED BY <2>4, <2>5 DEF InTimer, Kernel, RegsAre, TimerMoved
    <2>7. stack'["K"] = <<>> /\ stack'["U"] = <<>>
      <3> HIDE DEF s0, s1
      <3> QED BY <1>4, <2>4 DEF TimerOverUserFault, TimerMoved, StackOf
    <2>8. TimerOverUserFault' /\ Set'
      BY <1>1, <1>4, <2>4, <2>6, <2>7 DEF TimerOverUserFault, TimerMoved, UserSuspended, Set
    <2> QED
      BY <2>4, <2>8 DEF IInv, Shape, TimerMoved
  <1>5. CASE TimerOverCallFault
    <2> DEFINE rg == RegsEntry("sc", "sc", JunkRet)
               s0 == <<WindowFrame("K"), CallFrame, CallEntry>>
               s1 == <<rg, WindowFrame("K"), CallFrame, CallEntry>>
    <2>1. s0 \in Seq(Items)
      BY <1>8
    <2>2. Saves(s0, s1, "sc", "sc", JunkRet)
      BY Push3, TopPop4 DEF Saves
    <2>3. InTimer("K", "sc", "sc", JunkRet, s0, s1)
      BY <1>5 DEF TimerOverCallFault
    <2>4. TimerMoved("K", "sc", "sc", JunkRet, s0, s1)
      <3> HIDE DEF s0, s1
      <3> QED BY <1>2, <2>1, <2>2, <2>3, TimerInside
    <2>5. s0' = s0 /\ s1' = s1
      BY <2>4 DEF TimerMoved, CallFrame, CallEntry, CallRet, RegsEntry, WindowFrame, KernelFrame
    <2>6. InTimer("K", "sc", "sc", JunkRet, s0, s1)'
      <3> HIDE DEF s0, s1
      <3> QED BY <2>4, <2>5 DEF InTimer, Kernel, RegsAre, TimerMoved
    <2>7. stack'["T"] = <<>> /\ stack'["U"] = <<>>
      <3> HIDE DEF s0, s1
      <3> QED BY <1>5, <2>4 DEF TimerOverCallFault, TimerMoved, StackOf
    <2>8. TimerOverCallFault' /\ Set'
      BY <1>1, <1>5, <2>4, <2>6, <2>7 DEF TimerOverCallFault, TimerMoved, CallSuspended, Calling, Set
    <2> QED
      BY <2>4, <2>8 DEF IInv, Shape, TimerMoved
  <1>6. CASE TimerOverBoot
    <2>1. PICK l \in {"banner", "jump"} :
            InTimer("K", "boot", "boot", JunkRet, <<KernelFrame(l, TRUE, "K")>>,
                    <<RegsEntry("boot", "boot", JunkRet), KernelFrame(l, TRUE, "K")>>)
      BY <1>6 DEF TimerOverBoot
    <2> DEFINE f  == KernelFrame(l, TRUE, "K")
               rg == RegsEntry("boot", "boot", JunkRet)
               s0 == <<f>>
               s1 == <<rg, f>>
    <2>2. s0 \in Seq(Items)
      <3>1. f \in Items
        BY <1>8, Zenon
      <3> HIDE DEF f
      <3> QED BY <3>1
    <2>3. Saves(s0, s1, "boot", "boot", JunkRet)
      BY Push1, TopPop2 DEF Saves
    <2>4. TimerMoved("K", "boot", "boot", JunkRet, s0, s1)
      <3> HIDE DEF s0, s1
      <3> QED BY <1>2, <2>1, <2>2, <2>3, TimerInside DEF s0, s1
    <2>5. s0' = s0 /\ s1' = s1
      BY DEF KernelFrame, RegsEntry
    <2>6. InTimer("K", "boot", "boot", JunkRet, s0, s1)'
      <3> HIDE DEF s0, s1
      <3> QED BY <2>4, <2>5 DEF InTimer, Kernel, RegsAre, TimerMoved
    <2>7. stack'["T"] = <<>> /\ stack'["U"] = <<>>
      <3> HIDE DEF s0, s1
      <3> QED BY <1>6, <2>4 DEF TimerOverBoot, TimerMoved, StackOf
    <2>8. TimerOverBoot' /\ Set'
      BY <1>1, <1>6, <2>4, <2>6, <2>7 DEF TimerOverBoot, TimerMoved, Set
    <2> QED
      BY <2>4, <2>8 DEF IInv, Shape, TimerMoved
  <1>7. CASE TimerOverJump
    <2> DEFINE f  == KernelFrame("jump_sysret", TRUE, InitUserSp)
               rg == RegsEntry("boot", "boot", StartRet)
               s0 == <<f>>
               s1 == <<rg, f>>
    <2>1. InTimer(InitUserSp, "boot", "boot", StartRet, s0, s1)
      BY <1>7 DEF TimerOverJump
    <2>2. s0 \in Seq(Items)
      <3>1. f \in Items
        BY <1>8, Zenon
      <3> HIDE DEF f
      <3> QED BY <3>1
    <2>3. Saves(s0, s1, "boot", "boot", StartRet)
      BY Push1, TopPop2 DEF Saves
    <2>4. TimerMoved(InitUserSp, "boot", "boot", StartRet, s0, s1)
      <3> HIDE DEF s0, s1
      <3> QED BY <1>2, <2>1, <2>2, <2>3, TimerInside
    <2>5. s0' = s0 /\ s1' = s1
      BY DEF KernelFrame, RegsEntry
    <2>6. InTimer(InitUserSp, "boot", "boot", StartRet, s0, s1)'
      <3> HIDE DEF s0, s1
      <3> QED BY <2>4, <2>5 DEF InTimer, Kernel, RegsAre, TimerMoved
    <2>7. stack'["K"] = <<>> /\ stack'["T"] = <<>>
      <3> HIDE DEF s0, s1
      <3> QED BY <1>7, <2>4, UserSpAssumption DEF TimerOverJump, TimerMoved, StackOf
    <2>8. TimerOverJump' /\ Set'
      BY <1>1, <1>7, <2>4, <2>6, <2>7 DEF TimerOverJump, TimerMoved, Set
    <2> QED
      BY <2>4, <2>8 DEF IInv, Shape, TimerMoved
  <1> QED
    BY <1>1, <1>3, <1>4, <1>5, <1>6, <1>7 DEF InTick


LEMMA TimerIretStep ==
    ASSUME IInv, TimerIret
    PROVE  IInv'
  <1>1. InTick /\ Set /\ Plain /\ pc = "tm_iret" /\ Iret /\ isr = {}
    BY LabelShape DEF IInv, TimerIret, TimerLabels, Plain
  <1>2. CASE TimerOverUser
    <2>1. Kernel("T") /\ UserSuspended /\ Stacks(<<>>, <<UserFrame>>, <<>>)
      BY <1>1, <1>2 DEF TimerOverUser, InTimer, StackOf, Stacks
    <2> QED
      BY <1>1, <2>1, IretToUser
  <1>3. CASE TimerOverUserFault
    <2>1. /\ Kernel("T") /\ UserSuspended
          /\ Stacks(<<>>, <<WindowFrame("T"), UserFrame>>, <<>>)
          /\ RegsAre(left.gp, left.rax, left.ret)
      BY <1>1, <1>3 DEF TimerOverUserFault, InTimer, StackOf, Stacks
    <2>2. Here = <<WindowFrame("T"), UserFrame>> /\ StackOf(rsp) = "T"
      BY <2>1 DEF Here, StackOf, Kernel, Stacks
    <2>3. Top(Here) = WindowFrame("T") /\ Pop(Here) = <<UserFrame>>
      BY <2>2, TopPop2
    <2>4. WindowFrame("T") \in Frames /\ <<UserFrame>> \in Seq(Items)
      BY TickFrames, EntryTypes
    <2>5. /\ pc' = "pf_iret" /\ uip' = 0 /\ cpl' = 0 /\ intf' = TRUE /\ rsp' = "T"
          /\ stack' = [stack EXCEPT !["T"] = <<UserFrame>>]
          /\ stack' \in [{"K", "T", "U"} -> Seq(Items)]
          /\ UNCHANGED <<regs, user_stack, ready, mapped, cr2, irr, isr, prog, left>>
      BY <1>1, <2>2, <2>3, <2>4, IretFacts DEF WindowFrame, KernelFrame
    <2>6. Plain' /\ Set'
      BY <1>1, <2>5 DEF Plain, Set
    <2>7. Stacks(<<>>, <<UserFrame>>, <<>>)'
      BY <2>1, <2>5 DEF Stacks, IInv, UserFrame
    <2>8. PageFaultOverUser'
      BY <2>1, <2>5, <2>7 DEF PageFaultOverUser, Kernel, UserSuspended, RegsAre
    <2> QED
      BY <2>5, <2>6, <2>8 DEF IInv, Shape
  <1>4. CASE TimerOverCallFault
    <2>1. /\ Kernel("K") /\ CallSuspended /\ RegsAre("sc", "sc", JunkRet)
          /\ Stacks(<<WindowFrame("K"), CallFrame, CallEntry>>, <<>>, <<>>)
      BY <1>1, <1>4 DEF TimerOverCallFault, InTimer, StackOf, Stacks
    <2>2. Here = <<WindowFrame("K"), CallFrame, CallEntry>> /\ StackOf(rsp) = "K"
      BY <2>1 DEF Here, StackOf, Kernel, Stacks
    <2>3. Top(Here) = WindowFrame("K") /\ Pop(Here) = <<CallFrame, CallEntry>>
      BY <2>2, TopPop3
    <2>4. WindowFrame("K") \in Frames /\ <<CallFrame, CallEntry>> \in Seq(Items)
      BY TickFrames, EntryTypes
    <2>5. /\ pc' = "pf_iret" /\ uip' = 0 /\ cpl' = 0 /\ intf' = TRUE /\ rsp' = "K"
          /\ stack' = [stack EXCEPT !["K"] = <<CallFrame, CallEntry>>]
          /\ stack' \in [{"K", "T", "U"} -> Seq(Items)]
          /\ UNCHANGED <<regs, user_stack, ready, mapped, cr2, irr, isr, prog, left>>
      BY <1>1, <2>2, <2>3, <2>4, IretFacts DEF WindowFrame, KernelFrame
    <2>6. Plain' /\ Set'
      BY <1>1, <2>5 DEF Plain, Set
    <2>7. Stacks(<<CallFrame, CallEntry>>, <<>>, <<>>)'
      BY <2>1, <2>5 DEF Stacks, IInv, CallFrame, CallEntry, CallRet, KernelFrame
    <2>8. PageFaultOverCall'
      BY <2>1, <2>5, <2>7
         DEF PageFaultOverCall, Kernel, CallSuspended, Calling, RegsAre
    <2> QED
      BY <2>5, <2>6, <2>8 DEF IInv, Shape
  <1>5. CASE TimerOverBoot
    <2>1. PICK l \in {"banner", "jump"} :
            InTimer("K", "boot", "boot", JunkRet, <<KernelFrame(l, TRUE, "K")>>,
                    <<RegsEntry("boot", "boot", JunkRet), KernelFrame(l, TRUE, "K")>>)
      BY <1>5 DEF TimerOverBoot
    <2> DEFINE f == KernelFrame(l, TRUE, "K")
    <2>2. /\ Kernel("K") /\ RegsAre("boot", "boot", JunkRet)
          /\ Stacks(<<f>>, <<>>, <<>>) /\ left = Never /\ user_stack = InitUserSp
      BY <1>1, <1>5, <2>1 DEF TimerOverBoot, InTimer, StackOf, Stacks
    <2>3. Here = <<f>> /\ StackOf(rsp) = "K"
      BY <2>2 DEF Here, StackOf, Kernel, Stacks
    <2>4. Top(Here) = f /\ Pop(Here) = <<>>
      BY <2>3, TopPop1
    <2>5. f \in Frames /\ <<>> \in Seq(Items)
      <3>1. f \in Frames
        BY TickFrames, Zenon
      <3> HIDE DEF f
      <3> QED BY <3>1
    <2>6. f.pc = l /\ f.uip = 0 /\ f.cpl = 0 /\ f.intf = TRUE /\ f.rsp = "K"
      BY DEF KernelFrame
    <2>7. /\ pc' = l /\ uip' = 0 /\ cpl' = 0 /\ intf' = TRUE /\ rsp' = "K"
          /\ stack' = [stack EXCEPT !["K"] = <<>>]
          /\ stack' \in [{"K", "T", "U"} -> Seq(Items)]
          /\ UNCHANGED <<regs, user_stack, ready, mapped, cr2, irr, isr, prog, left>>
      <3> HIDE DEF f
      <3> QED BY <1>1, <2>3, <2>4, <2>5, <2>6, IretFacts
    <2>8. Plain' /\ Set'
      BY <1>1, <2>7 DEF Plain, Set
    <2>9. Stacks(<<>>, <<>>, <<>>)'
      BY <2>2, <2>7 DEF Stacks, IInv
    <2>10. InBoot'
      BY <1>1, <2>2, <2>7, <2>9 DEF InBoot, Kernel, RegsAre, BootStages, Open, Set, Done
    <2> QED
      BY <2>7, <2>8, <2>10 DEF IInv, Shape
  <1>6. CASE TimerOverJump
    <2> DEFINE f == KernelFrame("jump_sysret", TRUE, InitUserSp)
    <2>1. StackOf(InitUserSp) = "U"
      BY UserSpAssumption DEF StackOf
    <2>2. /\ Kernel(InitUserSp) /\ RegsAre("boot", "boot", StartRet)
          /\ Stacks(<<>>, <<>>, <<f>>) /\ left = Never /\ user_stack = InitUserSp
      BY <1>1, <1>6, <2>1 DEF TimerOverJump, InTimer, Stacks
    <2>3. Here = <<f>> /\ StackOf(rsp) = "U"
      BY <2>1, <2>2 DEF Here, Kernel, Stacks
    <2>4. Top(Here) = f /\ Pop(Here) = <<>>
      BY <2>3, TopPop1
    <2>5. f \in Frames /\ <<>> \in Seq(Items)
      <3>1. f \in Frames
        BY TickFrames, Zenon
      <3> HIDE DEF f
      <3> QED BY <3>1
    <2>6. /\ f.pc = "jump_sysret" /\ f.uip = 0 /\ f.cpl = 0 /\ f.intf = TRUE
          /\ f.rsp = InitUserSp
      BY DEF KernelFrame
    <2>7. /\ pc' = "jump_sysret" /\ uip' = 0 /\ cpl' = 0 /\ intf' = TRUE
          /\ rsp' = InitUserSp
          /\ stack' = [stack EXCEPT !["U"] = <<>>]
          /\ stack' \in [{"K", "T", "U"} -> Seq(Items)]
          /\ UNCHANGED <<regs, user_stack, ready, mapped, cr2, irr, isr, prog, left>>
      <3> HIDE DEF f
      <3> QED BY <1>1, <2>3, <2>4, <2>5, <2>6, IretFacts
    <2>8. Plain' /\ Set'
      BY <1>1, <2>7 DEF Plain, Set
    <2>9. Stacks(<<>>, <<>>, <<>>)'
      BY <2>2, <2>7 DEF Stacks, IInv
    <2>10. InJump'
      BY <2>2, <2>7, <2>9 DEF InJump, Kernel, RegsAre
    <2> QED
      BY <2>7, <2>8, <2>10 DEF IInv, Shape
  <1> QED
    BY <1>1, <1>2, <1>3, <1>4, <1>5, <1>6 DEF InTick


(***************************************************************************)
(* The default routine.                                                    *)
(***************************************************************************)
LEMMA DefaultSaveStep ==
    ASSUME IInv, DefaultSave
    PROVE  IInv'
  <1>1. Dead /\ Set /\ Plain /\ pc = "df_save"
    BY LabelShape DEF IInv, DefaultSave, TrapSave, DeadLabels
  <1>2. /\ pc' = "df_body" /\ intf' = FALSE
        /\ stack' = [stack EXCEPT ![StackOf(rsp)] =
                           Push(Here, RegsEntry(regs.gp, regs.rax, regs.ret))]
        /\ stack' \in [{"K", "T", "U"} -> Seq(Items)]
        /\ regs' \in Registers
        /\ UNCHANGED <<uip, cpl, ready, cr2, irr, prog, left, rsp,
                       user_stack, mapped, isr>>
    BY TrapSaveFacts DEF DefaultSave, Contexts
  <1>3. Plain' /\ Set'
    BY <1>1, <1>2 DEF Plain, Set
  <1> DEFINE new == RegsEntry(regs.gp, regs.rax, regs.ret)
  <1>4. Here \in Seq(Items) /\ StackOf(rsp) \in {"K", "T", "U"} /\ new \in Items
    <2>1. SaveRegs(regs) = new
      BY DEF SaveRegs, RegsEntry
    <2> QED
      BY <1>1, <2>1, HereType, SavedType DEF Plain
  <1>5. /\ Len(Push(Here, new)) = Len(Here) + 1
        /\ \A i \in 1..Len(Push(Here, new)) :
              Push(Here, new)[i] = IF i = 1 THEN new ELSE Here[i-1]
    <2> HIDE DEF new
    <2> QED BY <1>4, PushType
  <1>6. new.t = "regs"
    BY DEF RegsEntry
  <1>7. Dead'
    <2> HIDE DEF new
    <2>1. ASSUME NEW s \in {"K", "T", "U"}
          PROVE  /\ Len(stack'[s]) <= IF s = StackOf(rsp) THEN 4 ELSE 3
                 /\ \A i \in 1..Len(stack'[s]) :
                      stack'[s][i].t = "iret" => stack'[s][i].pc \notin Printing
      <3>1. /\ Len(stack[s]) <= 3 /\ Len(stack[s]) \in Nat
            /\ \A i \in 1..Len(stack[s]) :
                  stack[s][i].t = "iret" => stack[s][i].pc \notin Printing
        BY <1>1 DEF Dead
      <3>2. CASE s # StackOf(rsp)
        <4>1. stack'[s] = stack[s]
          BY <1>2, <3>2 DEF IInv
        <4> QED
          BY <3>1, <4>1
      <3>3. CASE s = StackOf(rsp)
        <4>1. stack'[s] = Push(Here, new) /\ Here = stack[s]
          BY <1>2, <3>3 DEF IInv, new, Here
        <4>2. Len(stack'[s]) <= 4
          BY <1>5, <3>1, <4>1
        <4>3. ASSUME NEW i \in 1..Len(stack'[s]), stack'[s][i].t = "iret"
              PROVE  stack'[s][i].pc \notin Printing
          <5>1. i # 1 /\ stack'[s][i] = stack[s][i-1] /\ i - 1 \in 1..Len(stack[s])
            BY <1>5, <1>6, <3>1, <4>1, <4>3
          <5> QED
            BY <3>1, <4>3, <5>1
        <4> QED
          BY <3>3, <4>2, <4>3
      <3> QED
        BY <3>2, <3>3
    <2>2. stack'["U"] # <<>> => left'.via = "boot"
      <3>1. StackOf(rsp) # "U"
        BY <1>1 DEF Dead, StackOf
      <3> QED
        BY <1>1, <1>2, <3>1 DEF Dead, IInv
    <2> QED
      BY <1>1, <1>2, <2>1, <2>2 DEF Dead
  <1> QED
    BY <1>2, <1>3, <1>7 DEF IInv, Shape

\* A saved-registers entry is recognised by its tag.
LEMMA RegsEntryType ==
    ASSUME NEW e \in Items, e.t = "regs", regs \in Registers
    PROVE  RestoreRegs(regs, e) \in Registers
  <1>1. e \in [t : {"regs"}, gp : Contexts, rax : Contexts \cup Results, ret : Ret]
    BY DEF Items, Frames, ErrorCode
  <1> QED
    BY <1>1 DEF RestoreRegs, Registers

LEMMA DefaultBodyStep ==
    ASSUME IInv, DefaultBody
    PROVE  IInv'
  <1>1. Dead /\ Set /\ Plain /\ pc = "df_body"
    BY LabelShape DEF IInv, DefaultBody, DeadLabels
  <1>2. /\ Here # <<>> /\ Top(Here).t = "regs" /\ Here \in Seq(Items)
        /\ StackOf(rsp) \in {"K", "T", "U"}
    BY HereType DEF DefaultBody, OnTop
  <1>3. /\ Pop(Here) \in Seq(Items) /\ Top(Here) \in Items
        /\ Len(Here) \in Nat \ {0} /\ Len(Pop(Here)) = Len(Here) - 1
        /\ \A i \in 1..Len(Pop(Here)) : Pop(Here)[i] = Here[i+1]
    BY <1>2, PopType
  <1>4. regs' \in Registers
    BY <1>1, <1>2, <1>3, RegsEntryType DEF DefaultBody, Plain
  <1>5. /\ pc' = "halted"
        /\ stack' = [stack EXCEPT ![StackOf(rsp)] = Pop(Here)]
        /\ UNCHANGED <<uip, cpl, intf, ready, cr2, irr, prog, left, rsp,
                       user_stack, mapped, isr>>
    BY DEF DefaultBody, PopHere, kernelFrame
  <1>6. Plain' /\ Set'
    BY <1>1, <1>4, <1>5 DEF Plain, Set
  <1>7. stack' \in [{"K", "T", "U"} -> Seq(Items)]
    BY <1>3, <1>5 DEF IInv
  <1>8. ASSUME NEW s \in {"K", "T", "U"}
        PROVE  /\ Len(stack'[s]) <= 3
               /\ \A i \in 1..Len(stack'[s]) :
                    stack'[s][i].t = "iret" => stack'[s][i].pc \notin Printing
    <2>1. /\ stack[s] \in Seq(Items) /\ Len(stack[s]) <= 4
          /\ \A i \in 1..Len(stack[s]) :
                stack[s][i].t = "iret" => stack[s][i].pc \notin Printing
      BY <1>1 DEF Dead, IInv
    <2>2. CASE s = StackOf(rsp)
      <3>1. stack'[s] = Pop(Here) /\ Here = stack[s]
        BY <1>5, <2>2 DEF IInv, Here
      <3> QED
        BY <1>3, <2>1, <3>1
    <2>3. CASE s # StackOf(rsp)
      <3>1. stack'[s] = stack[s]
        BY <1>5, <2>3 DEF IInv
      <3>2. Len(stack[s]) <= 3
        BY <1>1, <2>3 DEF Dead
      <3> QED
        BY <2>1, <3>1, <3>2
    <2> QED
      BY <2>2, <2>3
  <1>9. stack'["U"] # <<>> => left'.via = "boot"
    <2>1. StackOf(rsp) # "U"
      BY <1>1 DEF Dead, StackOf
    <2> QED
      BY <1>1, <1>5, <2>1 DEF Dead, IInv
  <1>10. Dead'
    BY <1>1, <1>5, <1>7, <1>8, <1>9 DEF Dead
  <1> QED
    BY <1>6, <1>7, <1>10 DEF IInv, Shape


(***************************************************************************)
(* The local APIC.                                                         *)
(***************************************************************************)
LEMMA ShapeFrame ==
    ASSUME Shape,
           UNCHANGED <<pc, uip, cpl, intf, rsp, regs, stack, user_stack, ready,
                       mapped, prog, left>>
    PROVE  Shape'
  <1>1. CASE InBoot
    BY <1>1 DEF Shape, InBoot, Stacks, RegsAre
  <1>2. CASE Set /\ (InJump \/ InUser \/ Dead)
    BY <1>2 DEF Shape, Set, InJump, InUser, Dead, Stacks, RegsAre
  <1>3. CASE Set /\ InSyscall
    BY <1>3 DEF Shape, Set, InSyscall, Calling, Stacks, RegsAre, CallEntry,
       CallRet, Serving, ArgumentRead
  <1>4. CASE Set /\ InFault
    BY <1>4 DEF Shape, Set, InFault, PageFaultOverUser, PageFaultOverCall,
       Kernel, UserSuspended, CallSuspended, Calling, Stacks, RegsAre, CallEntry,
       CallRet, CallFrame, KernelFrame, UserFrame, RegsEntry
  <1>5. CASE Set /\ InTick
    BY <1>5 DEF Shape, Set, InTick, TimerOverUser, TimerOverUserFault,
       TimerOverCallFault, TimerOverBoot, TimerOverJump, InTimer, Kernel,
       UserSuspended, CallSuspended, Calling, RegsAre, CallEntry,
       CallRet, CallFrame, KernelFrame, WindowFrame, UserFrame, RegsEntry
  <1> QED
    BY <1>1, <1>2, <1>3, <1>4, <1>5 DEF Shape, InFault, InTick

LEMMA TickStep ==
    ASSUME IInv, NEW v \in Vectors, Tick(v)
    PROVE  IInv'
  <1>1. Plain'
    BY DEF Tick, cpuVars, IInv, Plain, MappedBy
  <1>2. UNCHANGED <<pc, uip, cpl, intf, rsp, regs, stack, user_stack, ready,
                    mapped, prog, left>>
    BY DEF Tick, cpuVars
  <1> QED
    BY <1>1, <1>2, ShapeFrame DEF IInv

LEMMA StutterStep ==
    ASSUME IInv, UNCHANGED vars
    PROVE  IInv'
  <1>1. Plain'
    BY DEF vars, IInv, Plain, MappedBy
  <1>2. UNCHANGED <<pc, uip, cpl, intf, rsp, regs, stack, user_stack, ready,
                    mapped, prog, left>>
    BY DEF vars
  <1> QED
    BY <1>1, <1>2, ShapeFrame DEF IInv


\* An interrupt of kernel code pushes one frame on the stack in use.
LEMMA InterruptKernel ==
    ASSUME IInv, Set, uip = 0, cpl = 0, intf, rsp \in Sps,
           NEW v \in {Timer, Spurious}, Raise(v)
    PROVE  /\ stack' = [stack EXCEPT ![StackOf(rsp)] =
                           Push(Here, KernelFrame(pc, TRUE, rsp))]
           /\ pc \in Pcs => stack' \in [{"K", "T", "U"} -> Seq(Items)]
           /\ pc' = Gate(v) /\ uip' = 0 /\ cpl' = 0 /\ intf' = FALSE
           /\ UNCHANGED <<rsp, left, regs, user_stack, ready, mapped, prog>>
  <1>1. intf = TRUE
    BY DEF IInv, Plain
  <1>2. IretFrame = KernelFrame(pc, TRUE, rsp)
    BY <1>1 DEF IretFrame, KernelFrame
  <1>3. ~HasErrorCode(v) /\ cpl # 3
    BY Gates
  <1>4. /\ rsp' = rsp /\ left' = left
        /\ stack' = [stack EXCEPT ![StackOf(rsp)] = Push(Here, IretFrame)]
    BY <1>3 DEF Raise
  <1>5. pc \in Pcs => stack' \in [{"K", "T", "U"} -> Seq(Items)]
    <2> SUFFICES ASSUME pc \in Pcs
                 PROVE  stack' \in [{"K", "T", "U"} -> Seq(Items)]
      OBVIOUS
    <2>1. IretFrame \in Frames
      BY <1>1 DEF IretFrame, Frames
    <2>2. IretFrame \in Items
      BY <2>1 DEF Items
    <2>3. Push(Here, IretFrame) \in Seq(Items)
      BY <2>2, HereType, PushType
    <2> QED
      BY <1>4, <2>3 DEF IInv
  <1>6. pc' = Gate(v) /\ uip' = 0 /\ cpl' = 0 /\ intf' = FALSE
        /\ UNCHANGED <<regs, user_stack, ready, mapped, prog>>
    BY DEF Raise, CanTrap, Set, Essential
  <1> QED
    BY <1>2, <1>4, <1>5, <1>6

LEMMA DeliverPlain ==
    ASSUME IInv, NEW v \in {Timer, Spurious} \cap Vectors, Deliver(v), left' \in Lefts,
           UNCHANGED <<regs, ready, mapped, prog>>, pc' = Gate(v), intf' = FALSE
    PROVE  Plain'
  <1>1. isr = {} \/ pc \in {"tm_save", "tm_body"}
    BY DEF IInv, Plain
  <1>2. v = Spurious => isr' = isr /\ v # Timer
    BY DEF Deliver, Spurious, Timer
  <1>3. v # Spurious => isr' = isr \cup {v} /\ pc' = "tm_save" /\ v = Timer
    BY Gates DEF Deliver
  <1>4. isr = {}
    BY LabelShape DEF Deliver, IInv, Plain, InTick, TimerOverUser,
       TimerOverUserFault, TimerOverCallFault, TimerOverBoot, TimerOverJump,
       InTimer, TimerLabels
  <1>5. irr' \subseteq irr /\ UNCHANGED cr2
    BY DEF Deliver
  <1> QED
    BY <1>2, <1>3, <1>4, <1>5 DEF IInv, Plain

\* A vector whose gate is null ends in the shape Dead.
LEMMA NullGate ==
    ASSUME pc' = "null", uip' = 0, cpl' = 0, intf' = FALSE, rsp' \in Sps,
           user_stack' \in UserSps,
           stack' \in [{"K", "T", "U"} -> Seq(Items)],
           \A s \in {"K", "T", "U"} : Len(stack'[s]) <= 3,
           stack'["U"] # <<>> => left'.via = "boot"
    PROVE  Dead'
  BY DEF Dead

LEMMA SmallStacks ==
    ASSUME NEW k, NEW t, NEW u, stack'["K"] = k, stack'["T"] = t, stack'["U"] = u,
           Len(k) <= 3, Len(t) <= 3, Len(u) <= 3
    PROVE  \A s \in {"K", "T", "U"} : Len(stack'[s]) <= 3
  OBVIOUS

LEMMA Lengths ==
    /\ Len(<<>>) <= 3
    /\ \A x : Len(<<x>>) <= 3
    /\ \A x, y : Len(<<x, y>>) <= 3
    /\ \A x, y, z : Len(<<x, y, z>>) <= 3
  OBVIOUS

LEMMA DeliverStep ==
    ASSUME IInv, NEW v \in Vectors, Deliver(v)
    PROVE  IInv'
  <1>1. Raise(v) /\ intf /\ v \in irr /\ Plain /\ v \in {Timer, Spurious}
    BY VectorsAssumption DEF Deliver, IInv
  <1>2. Gate(v) = "tm_save" \/ Gate(v) = "null"
    BY <1>1, Gates
  <1>3. "lapic" \in ready /\ Set
    BY <1>1 DEF Plain, Set
  <1>4. {"K", "T", InitUserSp} \subseteq Sps
    BY UserSpAssumption DEF Sps
  <1>5. CASE pc = "user"
    <2>1. InUser
      BY <1>5, LabelShape DEF IInv
    <2>2. /\ Set' /\ Kernel("T")' /\ UserSuspended' /\ intf' = FALSE
          /\ pc' = Gate(v) /\ Stacks(<<>>, <<UserFrame>>, <<>>)'
          /\ stack' \in [{"K", "T", "U"} -> Seq(Items)]
          /\ RegsAre(left.gp, left.rax, left.ret)'
          /\ left' \in Lefts
          /\ UNCHANGED <<regs, ready, mapped, prog, user_stack>>
      BY <1>1, <1>5, RaiseFromUser, Gates
    <2>3. Plain'
      BY <1>1, <2>2, DeliverPlain
    <2>4. CASE Gate(v) = "tm_save"
      <3>1. TimerOverUser'
        BY <2>2, <2>4 DEF TimerOverUser, InTimer, StackOf, Stacks, Kernel
      <3> QED
        BY <2>2, <2>3, <3>1 DEF IInv, Shape
    <2>5. CASE Gate(v) = "null"
      <3>1. /\ stack'["K"] = <<>> /\ stack'["U"] = <<>>
            /\ stack'["T"] = <<UserFrame'>>
        BY <2>2 DEF Stacks
      <3>2. \A s \in {"K", "T", "U"} : Len(stack'[s]) <= 3
        BY <3>1, Lengths, SmallStacks
      <3>3. Dead'
        BY <1>4, <2>1, <2>2, <2>5, <3>1, <3>2, NullGate DEF Kernel, UserSuspended
      <3> QED
        BY <2>2, <2>3, <3>3 DEF IInv, Shape
    <2> QED
      BY <1>2, <2>4, <2>5
  <1>6. CASE pc # "user"
    <2>1. pc \in {"banner", "jump", "jump_sysret", "pf_iret"}
      BY <1>1, <1>3, <1>6, LabelShape
         DEF IInv, InBoot, InSyscall, InFault, PageFaultOverUser,
             PageFaultOverCall, InTick, TimerOverUser, TimerOverUserFault,
             TimerOverCallFault, TimerOverBoot, TimerOverJump, InTimer, Dead,
             Plain, Open, BootStages, CallLabels, FaultLabels, TimerLabels,
             DeadLabels
    <2>2. uip = 0 /\ cpl = 0 /\ rsp \in Sps /\ pc \in Pcs
      BY <1>4, <2>1, LabelShape
         DEF IInv, InBoot, InJump, InFault, PageFaultOverUser, PageFaultOverCall,
             Kernel, BootStages, FaultLabels, Pcs
    <2> DEFINE f == KernelFrame(pc, TRUE, rsp)
    <2>3. /\ stack' = [stack EXCEPT ![StackOf(rsp)] = Push(Here, f)]
          /\ stack' \in [{"K", "T", "U"} -> Seq(Items)]
          /\ pc' = Gate(v) /\ uip' = 0 /\ cpl' = 0 /\ intf' = FALSE
          /\ UNCHANGED <<rsp, left, regs, user_stack, ready, mapped, prog>>
      BY <1>1, <1>3, <2>2, InterruptKernel
    <2>4. Plain' /\ Set'
      BY <1>1, <1>3, <2>3, DeliverPlain DEF Plain, Set
    <2> DEFINE Small == \A s \in {"K", "T", "U"} : Len(stack'[s]) <= 3
               Goal  == /\ pc' = "tm_save" => InTick'
                        /\ Small
                        /\ rsp' \in Sps /\ user_stack' \in UserSps
                        /\ stack'["U"] # <<>> => left'.via = "boot"
    <2>5. ASSUME pc \in {"banner", "jump"} PROVE Goal
      <3>1. PICK l \in {"banner", "jump"} : pc = l
        BY <2>5
      <3>2. InBoot
        BY <2>5, LabelShape DEF IInv, BootStages
      <3>3. /\ rsp = "K" /\ user_stack = InitUserSp /\ left = Never
            /\ stack["K"] = <<>> /\ stack["T"] = <<>> /\ stack["U"] = <<>>
            /\ regs.gp = "boot" /\ regs.rax = "boot" /\ regs.ret = JunkRet
        BY <2>5, <3>2 DEF InBoot, Stacks, RegsAre
      <3>4. Push(Here, f) = <<KernelFrame(l, TRUE, "K")>>
        BY <3>1, <3>3, Push0 DEF Here, StackOf
      <3>5. /\ stack'["K"] = <<KernelFrame(l, TRUE, "K")>>
            /\ stack'["T"] = <<>> /\ stack'["U"] = <<>>
        BY <2>3, <3>3, <3>4 DEF StackOf, IInv
      <3>6. pc' = "tm_save" => TimerOverBoot'
        BY <2>3, <3>3, <3>5 DEF TimerOverBoot, InTimer, Kernel, RegsAre, StackOf, KernelFrame
      <3>7. Small
        BY <3>5, Lengths, SmallStacks, Zenon
      <3>8. rsp' \in Sps /\ user_stack' \in UserSps
        BY <2>2, <2>3, <3>3, UserSpAssumption
      <3> QED
        BY <3>5, <3>6, <3>7, <3>8 DEF InTick
    <2>6. ASSUME pc = "jump_sysret" PROVE Goal
      <3>1. InJump
        BY <2>6, LabelShape DEF IInv
      <3>2. /\ rsp = InitUserSp /\ user_stack = InitUserSp /\ left = Never
            /\ stack["K"] = <<>> /\ stack["T"] = <<>> /\ stack["U"] = <<>>
            /\ regs.gp = "boot" /\ regs.rax = "boot" /\ regs.ret = StartRet
        BY <3>1 DEF InJump, Stacks, RegsAre
      <3>3. StackOf(InitUserSp) = "U"
        BY UserSpAssumption DEF StackOf
      <3>4. Push(Here, f) = <<KernelFrame("jump_sysret", TRUE, InitUserSp)>>
        BY <2>6, <3>2, <3>3, Push0 DEF Here
      <3>5. /\ stack'["U"] = <<KernelFrame("jump_sysret", TRUE, InitUserSp)>>
            /\ stack'["T"] = <<>> /\ stack'["K"] = <<>>
        BY <2>3, <3>2, <3>3, <3>4 DEF IInv
      <3>6. pc' = "tm_save" => TimerOverJump'
        BY <2>3, <3>2, <3>3, <3>5
           DEF TimerOverJump, InTimer, Kernel, RegsAre, KernelFrame, StartRet
      <3>7. Small
        BY <3>5, Lengths, SmallStacks, Zenon
      <3>8. rsp' \in Sps /\ user_stack' \in UserSps /\ left'.via = "boot"
        BY <2>2, <2>3, <3>2, UserSpAssumption DEF Never
      <3> QED
        BY <3>6, <3>7, <3>8 DEF InTick
    <2>7. ASSUME pc = "pf_iret" /\ PageFaultOverUser PROVE Goal
      <3>1. /\ rsp = "T" /\ UserSuspended
            /\ stack["K"] = <<>> /\ stack["T"] = <<UserFrame>> /\ stack["U"] = <<>>
            /\ regs.gp = left.gp /\ regs.rax = left.rax /\ regs.ret = left.ret
        BY <2>7 DEF PageFaultOverUser, Stacks, RegsAre, Kernel
      <3>2. Push(Here, f) = <<WindowFrame("T"), UserFrame>>
        BY <2>7, <3>1, Push1 DEF Here, StackOf, WindowFrame
      <3>3. UserFrame' = UserFrame /\ UserSuspended'
        BY <2>3, <3>1 DEF UserFrame, UserSuspended
      <3>4. /\ stack'["T"] = <<WindowFrame("T"), UserFrame'>>
            /\ stack'["K"] = <<>> /\ stack'["U"] = <<>>
        BY <2>3, <3>1, <3>2, <3>3 DEF StackOf, IInv
      <3>5. pc' = "tm_save" => TimerOverUserFault'
        BY <2>3, <3>1, <3>3, <3>4
           DEF TimerOverUserFault, InTimer, Kernel, RegsAre, StackOf, WindowFrame,
               KernelFrame
      <3>6. Small
        BY <3>4, Lengths, SmallStacks, Zenon
      <3>7. rsp' \in Sps /\ user_stack' \in UserSps
        BY <2>2, <2>3, <3>1 DEF UserSuspended
      <3> QED
        BY <3>4, <3>5, <3>6, <3>7 DEF InTick
    <2>8. ASSUME pc = "pf_iret" /\ PageFaultOverCall PROVE Goal
      <3>1. /\ rsp = "K" /\ CallSuspended
            /\ stack["K"] = <<CallFrame, CallEntry>>
            /\ stack["T"] = <<>> /\ stack["U"] = <<>>
            /\ regs.gp = "sc" /\ regs.rax = "sc" /\ regs.ret = JunkRet
        BY <2>8 DEF PageFaultOverCall, Stacks, RegsAre, Kernel
      <3>2. Push(Here, f) = <<WindowFrame("K"), CallFrame, CallEntry>>
        BY <2>8, <3>1, Push2 DEF Here, StackOf, WindowFrame
      <3>3. CallEntry' = CallEntry /\ CallFrame' = CallFrame /\ CallSuspended'
        BY <2>3, <3>1 DEF CallEntry, CallRet, CallSuspended, Calling, CallFrame, KernelFrame
      <3>4. /\ stack'["K"] = <<WindowFrame("K"), CallFrame', CallEntry'>>
            /\ stack'["T"] = <<>> /\ stack'["U"] = <<>>
        BY <2>3, <3>1, <3>2, <3>3 DEF StackOf, IInv
      <3>5. pc' = "tm_save" => TimerOverCallFault'
        BY <2>3, <3>1, <3>3, <3>4
           DEF TimerOverCallFault, InTimer, Kernel, RegsAre, StackOf, WindowFrame,
               KernelFrame, JunkRet
      <3>6. Small
        BY <3>4, Lengths, SmallStacks, Zenon
      <3>7. rsp' \in Sps /\ user_stack' \in UserSps
        BY <2>2, <2>3, <3>1 DEF CallSuspended, Calling
      <3> QED
        BY <3>4, <3>5, <3>6, <3>7 DEF InTick
    <2>9. Goal
      <3>1. pc = "pf_iret" => PageFaultOverUser \/ PageFaultOverCall
        BY LabelShape DEF IInv, InFault, FaultLabels
      <3> HIDE DEF Goal
      <3> QED
        BY <2>1, <2>5, <2>6, <2>7, <2>8, <3>1
    <2>10. CASE Gate(v) = "tm_save"
      BY <2>3, <2>4, <2>9, <2>10 DEF IInv, Shape, InTick
    <2>11. CASE Gate(v) = "null"
      <3>1. Dead'
        BY <2>3, <2>9, <2>11, NullGate
      <3> QED
        BY <2>3, <2>4, <3>1 DEF IInv, Shape
    <2> QED
      BY <1>2, <2>10, <2>11
  <1> QED
    BY <1>5, <1>6

(***************************************************************************)
(* IInv is inductive.                                                      *)
(***************************************************************************)
LEMMA NextStep == IInv /\ [Next]_vars => IInv'
  <1> SUFFICES ASSUME IInv, [Next]_vars PROVE IInv'
    OBVIOUS
  <1>1. CASE Boot
    BY <1>1, BootStep, UserJumpStep, UserJumpSysretStep DEF Boot
  <1>2. CASE User
    BY <1>2, UserTouchStep, UserSetSpStep, UserSyscallStep, StutterStep
       DEF User, UserSpin
  <1>3. CASE Syscall
    BY <1>3, SyscallSaveStep, SyscallBodyStep, SyscallPrintStep, SyscallPopStep,
       SyscallSysretStep DEF Syscall
  <1>4. CASE Traps
    BY <1>4, PageFaultSaveStep, PageFaultBodyStep, PageFaultRestoreStep,
       PageFaultIretStep, TimerInsideStep, TimerIretStep, DefaultSaveStep,
       DefaultBodyStep, StutterStep DEF Traps, Halt
  <1>5. CASE \E v \in Vectors : Tick(v) \/ Deliver(v)
    BY <1>5, TickStep, DeliverStep
  <1>6. CASE UNCHANGED vars
    BY <1>6, StutterStep
  <1> QED
    BY <1>1, <1>2, <1>3, <1>4, <1>5, <1>6 DEF Next

\* Every reachable state has one of the shapes of KernelTrapsInv: whatever
\* the user program does, and whenever the timer fires, the contents of the
\* three stacks are known entry by entry.
THEOREM Invariance == Spec => []IInv
  <1> QED
    BY InitIInv, NextStep, PTL DEF Spec

(***************************************************************************)
(* What the invariant says in each shape.                                  *)
(***************************************************************************)
LEMMA InvTypes == IInv => TypeOK
  <1> SUFFICES ASSUME IInv PROVE TypeOK
    OBVIOUS
  <1>1. /\ pc \in Pcs /\ uip \in Nat /\ cpl \in {0, 3} /\ rsp \in Sps
        /\ user_stack \in Sps \cup {"NULL"}
    <2> USE UserSpAssumption DEF Sps, Pcs, BootStages, CallLabels, FaultLabels, TimerLabels, DeadLabels
    <2>1. CASE InBoot
      BY <2>1 DEF InBoot
    <2>2. CASE InJump \/ InUser \/ Dead
      BY <2>2 DEF InJump, InUser, Dead
    <2>3. CASE InSyscall
      BY <2>3 DEF InSyscall, Calling
    <2>4. CASE InFault
      BY <2>4 DEF InFault, PageFaultOverUser, PageFaultOverCall, Kernel,
                  UserSuspended, CallSuspended, Calling
    <2>5. CASE InTick
      <3>1. uip = 0 /\ cpl = 0 /\ pc \in TimerLabels /\ rsp \in {"T", "K", InitUserSp}
        BY <2>5 DEF InTick, TimerOverUser, TimerOverUserFault, TimerOverCallFault,
                    TimerOverBoot, TimerOverJump, InTimer, Kernel
      <3>2. user_stack \in UserSps
        BY <2>5 DEF InTick, TimerOverUser, TimerOverUserFault, TimerOverCallFault,
                    TimerOverBoot, TimerOverJump, UserSuspended, CallSuspended, Calling
      <3> QED
        BY <3>1, <3>2
    <2> QED
      BY <2>1, <2>2, <2>3, <2>4, <2>5 DEF IInv, Shape, InFault, InTick
  <1>2. mapped \subseteq Pages
    BY DEF IInv, Plain, MappedBy, Pages
  <1> QED
    BY <1>1, <1>2 DEF IInv, Plain, TypeOK, Essential

LEMMA InvGates == IInv => NoTrapBeforeItsGate
  <1> SUFFICES ASSUME IInv PROVE NoTrapBeforeItsGate
    OBVIOUS
  <1> USE DEF NoTrapBeforeItsGate, Essential
  <1>1. CASE InBoot
    BY <1>1 DEF InBoot, BootStages, Open, Done
  <1>2. CASE Set /\ ~InBoot
    BY <1>2, LabelShape DEF IInv, Set, BootStages, CallLabels, FaultLabels, TimerLabels,
       DeadLabels
  <1> QED
    BY <1>1, <1>2 DEF IInv, Shape

LEMMA InvIret == IInv => IretFrameOnTop
  <1> SUFFICES ASSUME IInv, pc \in {"pf_iret", "tm_iret"} PROVE OnTop("iret")
    BY DEF IretFrameOnTop
  <1>1. CASE pc = "pf_iret"
    <2>1. InFault
      BY <1>1, LabelShape DEF IInv, FaultLabels
    <2>2. CASE PageFaultOverUser
      <3>1. Here = <<UserFrame>>
        BY <1>1, <2>2 DEF PageFaultOverUser, Kernel, Stacks, Here, StackOf
      <3> QED
        BY <3>1, TopPop1 DEF OnTop, UserFrame
    <2>3. CASE PageFaultOverCall
      <3>1. Here = <<CallFrame, CallEntry>>
        BY <1>1, <2>3 DEF PageFaultOverCall, Kernel, Stacks, Here, StackOf
      <3> QED
        BY <3>1, TopPop2 DEF OnTop, CallFrame, KernelFrame
    <2> QED
      BY <2>1, <2>2, <2>3 DEF InFault
  <1>2. CASE pc = "tm_iret"
    <2>1. InTick
      BY <1>2, LabelShape DEF IInv, TimerLabels
    <2>2. CASE TimerOverUser
      <3>1. Here = <<UserFrame>>
        BY <1>2, <2>2 DEF TimerOverUser, InTimer, Kernel, Here
      <3> QED
        BY <3>1, TopPop1 DEF OnTop, UserFrame
    <2>3. CASE TimerOverUserFault
      <3>1. Here = <<WindowFrame("T"), UserFrame>>
        BY <1>2, <2>3 DEF TimerOverUserFault, InTimer, Kernel, Here
      <3> QED
        BY <3>1, TopPop2 DEF OnTop, WindowFrame, KernelFrame
    <2>4. CASE TimerOverCallFault
      <3>1. Here = <<WindowFrame("K"), CallFrame, CallEntry>>
        BY <1>2, <2>4 DEF TimerOverCallFault, InTimer, Kernel, Here
      <3> QED
        BY <3>1, TopPop3 DEF OnTop, WindowFrame, KernelFrame
    <2>5. CASE TimerOverBoot
      <3>1. PICK l \in {"banner", "jump"} : Here = <<KernelFrame(l, TRUE, "K")>>
        BY <1>2, <2>5 DEF TimerOverBoot, InTimer, Kernel, Here
      <3> QED
        BY <3>1, TopPop1 DEF OnTop, KernelFrame
    <2>6. CASE TimerOverJump
      <3>1. Here = <<KernelFrame("jump_sysret", TRUE, InitUserSp)>>
        BY <1>2, <2>6 DEF TimerOverJump, InTimer, Kernel, Here
      <3> QED
        BY <3>1, TopPop1 DEF OnTop, KernelFrame
    <2> QED
      BY <2>1, <2>2, <2>3, <2>4, <2>5, <2>6 DEF InTick
  <1> QED
    BY <1>1, <1>2

LEMMA InvEmpty == IInv => NothingLeftBehind
  <1> SUFFICES ASSUME IInv, cpl = 3, NEW s \in {"K", "T", "U"} PROVE stack[s] = <<>>
    BY DEF NothingLeftBehind
  <1>1. InUser
    BY LabelShape DEF IInv, InBoot, InJump, InSyscall, InFault, PageFaultOverUser,
       PageFaultOverCall, InTick, TimerOverUser, TimerOverUserFault,
       TimerOverCallFault, TimerOverBoot, TimerOverJump, InTimer, Kernel, Dead
  <1> QED
    BY <1>1 DEF InUser, Stacks

LEMMA InvEoi == IInv => EoiBeforeUnmask
  <1> SUFFICES ASSUME IInv, intf PROVE isr = {}
    BY DEF EoiBeforeUnmask
  <1>1. pc \notin {"tm_save", "tm_body"}
    BY LabelShape DEF IInv, TimerLabels, InTick, TimerOverUser,
       TimerOverUserFault, TimerOverCallFault, TimerOverBoot, TimerOverJump, InTimer
  <1> QED
    BY <1>1 DEF IInv, Plain

\* No frame of a stack resumes inside fb_output.
QuietItem(x) == x.t = "iret" => x.pc \notin Printing
Quiet(q)     == Len(q) <= 4 /\ \A i \in 1..Len(q) : QuietItem(q[i])

LEMMA QuietStacks ==
    /\ Quiet(<<>>)
    /\ \A a : QuietItem(a) => Quiet(<<a>>)
    /\ \A a, b : QuietItem(a) /\ QuietItem(b) => Quiet(<<a, b>>)
    /\ \A a, b, c : QuietItem(a) /\ QuietItem(b) /\ QuietItem(c) => Quiet(<<a, b, c>>)
    /\ \A a, b, c, d : QuietItem(a) /\ QuietItem(b) /\ QuietItem(c) /\ QuietItem(d)
                          => Quiet(<<a, b, c, d>>)
  BY DEF Quiet

LEMMA QuietItems ==
    /\ QuietItem(UserFrame) /\ QuietItem(CallFrame) /\ QuietItem(CallEntry)
    /\ QuietItem(ErrorCode)
    /\ \A g, x, r : QuietItem(RegsEntry(g, x, r))
    /\ \A l, if, sp : l \notin Printing => QuietItem(KernelFrame(l, if, sp))
    /\ \A sp : QuietItem(WindowFrame(sp))
  BY DEF QuietItem, Printing, UserFrame, CallFrame, CallEntry, ErrorCode, RegsEntry,
     KernelFrame, WindowFrame

LEMMA InvStacks ==
    ASSUME IInv
    PROVE  /\ ~Dead => \A s \in {"K", "T", "U"} : Quiet(stack[s])
           /\ stack["U"] # <<>> => left.via = "boot"
  <1> DEFINE Good == (\A s \in {"K", "T", "U"} : Quiet(stack[s]))
                     /\ (stack["U"] # <<>> => left.via = "boot")
  <1>1. CASE InBoot \/ InJump \/ InUser
    <2>1. stack["K"] = <<>> /\ stack["T"] = <<>> /\ stack["U"] = <<>>
      BY <1>1 DEF InBoot, InJump, InUser, Stacks
    <2> QED
      BY <2>1, QuietStacks, Zenon
  <1>2. CASE InSyscall
    <2>1. /\ stack["K"] = <<>> \/ stack["K"] = <<CallEntry>>
          /\ stack["T"] = <<>> /\ stack["U"] = <<>>
      BY <1>2 DEF InSyscall, Stacks
    <2> QED
      BY <2>1, QuietStacks, QuietItems, Zenon
  <1>3. CASE PageFaultOverUser
    <2>1. /\ \/ stack["T"] = <<ErrorCode, UserFrame>>
             \/ stack["T"] = <<RegsEntry(left.gp, left.rax, left.ret), ErrorCode,
                              UserFrame>>
             \/ stack["T"] = <<UserFrame>>
          /\ stack["K"] = <<>> /\ stack["U"] = <<>>
      BY <1>3 DEF PageFaultOverUser, Stacks
    <2> QED
      BY <2>1, QuietStacks, QuietItems, Zenon
  <1>4. CASE PageFaultOverCall
    <2>1. /\ \/ stack["K"] = <<ErrorCode, CallFrame, CallEntry>>
             \/ stack["K"] = <<RegsEntry("sc", "sc", JunkRet), ErrorCode, CallFrame,
                              CallEntry>>
             \/ stack["K"] = <<CallFrame, CallEntry>>
          /\ stack["T"] = <<>> /\ stack["U"] = <<>>
      BY <1>4 DEF PageFaultOverCall, Stacks
    <2> QED
      BY <2>1, QuietStacks, QuietItems, Zenon
  <1>5. CASE TimerOverUser
    <2>1. /\ \/ stack["T"] = <<UserFrame>>
             \/ stack["T"] = <<RegsEntry(left.gp, left.rax, left.ret), UserFrame>>
          /\ stack["K"] = <<>> /\ stack["U"] = <<>>
      BY <1>5 DEF TimerOverUser, InTimer, StackOf
    <2> QED
      BY <2>1, QuietStacks, QuietItems, Zenon
  <1>6. CASE TimerOverUserFault
    <2>1. /\ \/ stack["T"] = <<WindowFrame("T"), UserFrame>>
             \/ stack["T"] = <<RegsEntry(left.gp, left.rax, left.ret),
                              WindowFrame("T"), UserFrame>>
          /\ stack["K"] = <<>> /\ stack["U"] = <<>>
      BY <1>6 DEF TimerOverUserFault, InTimer, StackOf
    <2> QED
      BY <2>1, QuietStacks, QuietItems, Zenon
  <1>7. CASE TimerOverCallFault
    <2>1. /\ \/ stack["K"] = <<WindowFrame("K"), CallFrame, CallEntry>>
             \/ stack["K"] = <<RegsEntry("sc", "sc", JunkRet), WindowFrame("K"),
                              CallFrame, CallEntry>>
          /\ stack["T"] = <<>> /\ stack["U"] = <<>>
      BY <1>7 DEF TimerOverCallFault, InTimer, StackOf
    <2> QED
      BY <2>1, QuietStacks, QuietItems, Zenon
  <1>8. CASE TimerOverBoot
    <2>1. PICK l \in {"banner", "jump"} :
             \/ stack["K"] = <<KernelFrame(l, TRUE, "K")>>
             \/ stack["K"] = <<RegsEntry("boot", "boot", JunkRet),
                              KernelFrame(l, TRUE, "K")>>
      BY <1>8 DEF TimerOverBoot, InTimer, StackOf
    <2>2. stack["T"] = <<>> /\ stack["U"] = <<>> /\ l \notin Printing
      BY <1>8 DEF TimerOverBoot, Printing
    <2> QED
      BY <2>1, <2>2, QuietStacks, QuietItems, Zenon
  <1>9. CASE TimerOverJump
    <2>1. /\ \/ stack["U"] = <<KernelFrame("jump_sysret", TRUE, InitUserSp)>>
             \/ stack["U"] = <<RegsEntry("boot", "boot", StartRet),
                              KernelFrame("jump_sysret", TRUE, InitUserSp)>>
          /\ stack["K"] = <<>> /\ stack["T"] = <<>>
      BY <1>9, UserSpAssumption DEF TimerOverJump, InTimer, StackOf
    <2>2. left.via = "boot" /\ "jump_sysret" \notin Printing
      BY <1>9 DEF TimerOverJump, Never, Printing
    <2> QED
      BY <2>1, <2>2, QuietStacks, QuietItems, Zenon
  <1>10. CASE Dead
    BY <1>10 DEF Dead
  <1> HIDE DEF Good
  <1>11. Good \/ (Dead /\ (stack["U"] # <<>> => left.via = "boot"))
    BY <1>1, <1>2, <1>3, <1>4, <1>5, <1>6, <1>7, <1>8, <1>9, <1>10 DEF IInv, Shape, Good, Dead
  <1> QED
    BY <1>11 DEF Good

LEMMA InvUserStack == IInv => KernelKeepsOffUserStack
  BY InvStacks DEF KernelKeepsOffUserStack

LEMMA InvNesting == IInv => NestingBounded
  <1> SUFFICES ASSUME IInv, NEW s \in {"K", "T", "U"} PROVE Len(stack[s]) <= 4
    BY DEF NestingBounded
  <1>1. Len(stack[s]) \in Nat
    BY DEF IInv
  <1>2. CASE Dead
    BY <1>1, <1>2 DEF Dead
  <1>3. CASE ~Dead
    BY <1>3, InvStacks DEF Quiet
  <1> QED
    BY <1>2, <1>3

LEMMA InvPrinting == IInv => FbOutputExclusive
  <1> SUFFICES ASSUME IInv, pc \in Printing, NEW s \in {"K", "T", "U"},
                      NEW i \in 1..Len(stack[s]), stack[s][i].t = "iret"
               PROVE  stack[s][i].pc \notin Printing
    BY DEF FbOutputExclusive
  <1>1. pc # "null"
    BY DEF Printing
  <1>2. CASE Dead
    BY <1>1, <1>2 DEF Dead
  <1>3. CASE ~Dead
    BY <1>3, InvStacks DEF Quiet, QuietItem
  <1> QED
    BY <1>2, <1>3

(***************************************************************************)
(* Leaving and entering ring 3.                                            *)
(***************************************************************************)
\* An iretq resumes kernel code, or the user program as it was.
LEMMA IretReturns ==
    ASSUME IInv, PageFaultIret \/ TimerIret
    PROVE  /\ cpl = 0 /\ UNCHANGED <<left, prog, regs>>
           /\ \/ cpl' = 0 /\ cpl' # 3
              \/ /\ cpl' = 3 /\ cpl' # 0 /\ UserSuspended /\ intf' = TRUE
                 /\ uip' = left.uip /\ rsp' = left.rsp
                 /\ RegsAre(left.gp, left.rax, left.ret)
  <1>1. Iret /\ UNCHANGED <<left, prog, regs>>
    BY DEF PageFaultIret, TimerIret, Iret
  <1>2. /\ cpl' = Top(Here).cpl /\ uip' = Top(Here).uip /\ rsp' = Top(Here).rsp
        /\ intf' = Top(Here).intf
    BY <1>1 DEF Iret
  <1>3. (pc = "pf_iret" /\ InFault) \/ (pc = "tm_iret" /\ InTick)
    BY LabelShape DEF IInv, PageFaultIret, TimerIret, FaultLabels, TimerLabels
  <1>4. CASE (PageFaultOverUser /\ pc = "pf_iret") \/ (TimerOverUser /\ pc = "tm_iret")
    <2>1. /\ Kernel("T") /\ UserSuspended /\ Here = <<UserFrame>>
          /\ RegsAre(left.gp, left.rax, left.ret)
      BY <1>4 DEF PageFaultOverUser, TimerOverUser, InTimer, Kernel, Stacks, Here, StackOf
    <2>2. Top(Here) = UserFrame
      BY <2>1, TopPop1
    <2>3. /\ UserFrame.cpl = 3 /\ UserFrame.uip = left.uip
          /\ UserFrame.rsp = left.rsp /\ UserFrame.intf = TRUE
      BY DEF UserFrame
    <2> QED
      BY <1>1, <1>2, <2>1, <2>2, <2>3 DEF Kernel
  <1>5. CASE PageFaultOverCall /\ pc = "pf_iret"
    <2>1. Kernel("K") /\ Here = <<CallFrame, CallEntry>>
      BY <1>5 DEF PageFaultOverCall, Kernel, Stacks, Here, StackOf
    <2>2. Top(Here) = CallFrame /\ CallFrame.cpl = 0
      BY <2>1, TopPop2 DEF CallFrame, KernelFrame
    <2> QED
      BY <1>1, <1>2, <2>1, <2>2 DEF Kernel
  <1>6. CASE (TimerOverUserFault \/ TimerOverCallFault) /\ pc = "tm_iret"
    <2>1. /\ cpl = 0
          /\ \/ Here = <<WindowFrame("T"), UserFrame>>
             \/ Here = <<WindowFrame("K"), CallFrame, CallEntry>>
      BY <1>6 DEF TimerOverUserFault, TimerOverCallFault, InTimer, Kernel, Here
    <2>2. Top(Here) \in {WindowFrame("T"), WindowFrame("K")}
      BY <2>1, TopPop2, TopPop3
    <2>3. Top(Here).cpl = 0
      BY <2>2 DEF WindowFrame, KernelFrame
    <2> QED
      BY <1>1, <1>2, <2>1, <2>3
  <1>7. CASE (TimerOverBoot \/ TimerOverJump) /\ pc = "tm_iret"
    <2>1. cpl = 0 /\ \E l, sp : Here = <<KernelFrame(l, TRUE, sp)>>
      BY <1>7 DEF TimerOverBoot, TimerOverJump, InTimer, Kernel, Here
    <2>2. \E l, sp : Top(Here) = KernelFrame(l, TRUE, sp)
      BY <2>1, TopPop1
    <2>3. Top(Here).cpl = 0
      BY <2>2 DEF KernelFrame
    <2> QED
      BY <1>1, <1>2, <2>1, <2>3
  <1> QED
    BY <1>3, <1>4, <1>5, <1>6, <1>7 DEF InFault, InTick

\* Every step of ring 0 that is not a sysretq or an iretq stays there.
LEMMA KernelStays ==
    ASSUME IInv, Next, cpl = 0, ~UserJumpSysret, ~SyscallSysret,
           ~PageFaultIret, ~TimerIret
    PROVE  cpl' = 0 /\ UNCHANGED <<left, prog>>
  <1>1. pc # "user"
    BY LabelShape DEF IInv, InUser
  <1>2. ASSUME NEW v, Raise(v) PROVE cpl' = 0 /\ UNCHANGED <<left, prog>>
    BY <1>2 DEF Raise
  <1>3. CASE Boot
    BY <1>3 DEF Boot, SetUserStack, LoadPageTable, SyscallInit, TssSegmentInit, TlsInit,
       IdtInit, LapicEnable, PrintBanner, UserJump, bootFrame
  <1>4. CASE User
    BY <1>1, <1>4 DEF User, UserTouch, UserSetSp, UserSyscall, UserSpin, UserAt
  <1>5. CASE Syscall
    BY <1>2, <1>5 DEF Syscall, SyscallSave, SyscallBody, SyscallPrint, SyscallPop,
       kernelFrame, FaultOn
  <1>6. CASE Traps
    BY <1>6 DEF Traps, PageFaultSave, PageFaultBody, PageFaultRestore, TimerSave,
       TimerBody, TimerRestore, DefaultSave, DefaultBody, Halt, TrapSave, kernelFrame, vars
  <1>7. ASSUME NEW v \in Vectors, Tick(v) \/ Deliver(v)
        PROVE  cpl' = 0 /\ UNCHANGED <<left, prog>>
    BY <1>2, <1>7 DEF Tick, Deliver, cpuVars
  <1> QED
    BY <1>3, <1>4, <1>5, <1>6, <1>7 DEF Next

\* Back from a system call: the next instruction, the result in rax.
LEMMA CallReturns ==
    ASSUME IInv, SyscallSysret
    PROVE  /\ cpl = 0 /\ cpl' = 3 /\ uip' = left.uip + 1 /\ intf' = TRUE
           /\ rsp' = left.rsp /\ UNCHANGED <<left, prog, regs>>
           /\ RegsAre("user", Result(Serving.n), CallRet) /\ Calling /\ ArgumentRead
  <1>1. InSyscall /\ pc = "sc_sysret"
    BY LabelShape DEF IInv, SyscallSysret, CallLabels
  <1>2. /\ cpl = 0 /\ rsp = left.rsp /\ Calling /\ ArgumentRead
        /\ RegsAre("user", Result(Serving.n), CallRet)
    BY <1>1 DEF InSyscall
  <1>3. regs.ret.uip = left.uip + 1 /\ regs.ret.intf = TRUE
    BY <1>2 DEF RegsAre, CallRet
  <1> QED
    BY <1>2, <1>3 DEF SyscallSysret, Sysret

LEMMA ResumeStep ==
    ASSUME IInv, Next, cpl = 0, cpl' = 3, left.via # "boot"
    PROVE  ResumesAsLeft
  <1>1. CASE UserJumpSysret
    BY <1>1, LabelShape DEF IInv, UserJumpSysret, InJump, Never
  <1>2. CASE SyscallSysret
    <2>1. /\ uip' = left.uip + 1 /\ rsp' = left.rsp /\ intf' = TRUE
          /\ left.via = "syscall" /\ left.gp = "user"
          /\ regs'.gp = "user" /\ regs'.rax = Result(Serving.n)
      BY <1>2, CallReturns DEF RegsAre, Calling
    <2> QED
      BY <2>1 DEF ResumesAsLeft
  <1>3. CASE PageFaultIret \/ TimerIret
    <2>1. /\ uip' = left.uip /\ rsp' = left.rsp /\ intf' = TRUE
          /\ UserSuspended /\ RegsAre(left.gp, left.rax, left.ret) /\ regs' = regs
      BY <1>3, IretReturns, Zenon
    <2> QED
      BY <2>1 DEF ResumesAsLeft, RegsAre, UserSuspended
  <1> QED
    BY <1>1, <1>2, <1>3, KernelStays

(***************************************************************************)
(* The refinement of UserView.                                             *)
(***************************************************************************)
ViewVars == <<prog, ViewAt, ViewSp, ViewRax>>

LEMMA ViewInit == Init => UV!Init
  BY DEF Init, UV!Init, ViewAt, ViewSp, ViewRax, Never

LEMMA ViewJump ==
    ASSUME IInv, UserJumpSysret
    PROVE  UV!Begin
  <1>1. InJump
    BY LabelShape DEF IInv, UserJumpSysret
  <1>2. /\ cpl = 0 /\ rsp = InitUserSp /\ left = Never
        /\ regs.rax = "boot" /\ regs.ret = StartRet
    BY <1>1 DEF InJump, RegsAre
  <1>3. Never.via = "boot" /\ Never.rsp = InitUserSp /\ Never.rax = "boot"
        /\ StartRet.uip = 1
    BY DEF Never, StartRet
  <1>4. ViewAt = 0 /\ ViewSp = InitUserSp /\ ViewRax = "boot"
    BY <1>2, <1>3 DEF ViewAt, ViewSp, ViewRax
  <1>5. ViewAt' = 1 /\ ViewSp' = InitUserSp /\ ViewRax' = "boot" /\ prog' = prog
    BY <1>2, <1>3 DEF UserJumpSysret, Sysret, ViewAt, ViewSp, ViewRax
  <1> QED
    BY <1>4, <1>5 DEF UV!Begin

LEMMA ViewCall ==
    ASSUME IInv, SyscallSysret
    PROVE  UV!Call
  <1>1. /\ cpl = 0 /\ cpl' = 3 /\ uip' = left.uip + 1
        /\ rsp' = left.rsp /\ prog' = prog /\ regs'.rax = Result(Serving.n)
    BY CallReturns DEF RegsAre
  <1>2. /\ left.via = "syscall" /\ left.uip \in 1..Len(prog)
        /\ prog[left.uip].op = "syscall"
        /\ Serving.n = 0 => Serving.page \in MappedBy(TRUE)
    BY CallReturns DEF Calling, ArgumentRead
  <1>3. ViewAt = left.uip /\ ViewSp = left.rsp
    BY <1>1, <1>2 DEF ViewAt, ViewSp
  <1>4. ViewAt' = left.uip + 1 /\ ViewSp' = left.rsp /\ ViewRax' = Result(Serving.n)
    BY <1>1 DEF ViewAt, ViewSp, ViewRax
  <1>5. MappedBy(TRUE) = UV!UserPages
    BY DEF MappedBy, UV!UserPages
  <1> QED
    BY <1>1, <1>2, <1>3, <1>4, <1>5 DEF UV!Call, UV!Executes, Serving, Result

\* The CPU leaves ring 3: the program stays where it is.
LEMMA ViewLeaves ==
    ASSUME IInv, cpl = 3, cpl' = 0, NEW via \in {"trap", "syscall"},
           left'.via = via, left'.uip = uip, left'.rsp = rsp, left'.rax = regs.rax,
           prog' = prog
    PROVE  UNCHANGED ViewVars
  BY DEF ViewVars, ViewAt, ViewSp, ViewRax

LEMMA RaiseLeaves ==
    ASSUME IInv, NEW v, Raise(v)
    PROVE  UNCHANGED ViewVars
  <1>1. CASE cpl = 3
    <2>1. left' = Leaving("trap") /\ cpl' = 0 /\ prog' = prog
      BY <1>1 DEF Raise
    <2>2. /\ left'.via = "trap" /\ left'.uip = uip /\ left'.rsp = rsp
          /\ left'.rax = regs.rax
      BY <2>1 DEF Leaving
    <2> QED
      BY <1>1, <2>1, <2>2, ViewLeaves
  <1>2. CASE cpl # 3
    BY <1>2 DEF Raise, ViewVars, ViewAt, ViewSp, ViewRax
  <1> QED
    BY <1>1, <1>2

LEMMA ViewUser ==
    ASSUME IInv, User
    PROVE  UV!Next \/ UNCHANGED ViewVars
  <1>1. pc = "user"
    BY DEF User, UserTouch, UserSetSp, UserSyscall, UserSpin, UserAt
  <1>2. InUser /\ cpl = 3
    BY <1>1, LabelShape DEF IInv, InUser
  <1>3. ViewAt = uip /\ ViewSp = rsp /\ ViewRax = regs.rax
    BY <1>2 DEF ViewAt, ViewSp, ViewRax
  <1>4. UserRegs.rax = "user"
    BY DEF UserRegs, IInv, Plain, Registers
  <1>5. CASE UserTouch /\ prog[uip].page \in mapped
    <2>1. /\ uip \in 1..Len(prog) /\ prog[uip].op = "touch" /\ uip' = uip + 1
          /\ regs' = UserRegs /\ UNCHANGED <<prog, cpl, rsp>>
      BY <1>5 DEF UserTouch, UserAt
    <2>2. prog[uip].page \in UV!UserPages
      BY <1>5 DEF IInv, Plain, MappedBy, UV!UserPages
    <2>3. ViewAt' = uip + 1 /\ ViewSp' = rsp /\ ViewRax' = "user"
      BY <1>2, <1>4, <2>1 DEF ViewAt, ViewSp, ViewRax
    <2> QED
      BY <1>3, <2>1, <2>2, <2>3 DEF UV!Next, UV!Touch, UV!Executes
  <1>6. CASE UserTouch /\ prog[uip].page \notin mapped
    BY <1>6, RaiseLeaves DEF UserTouch, FaultOn
  <1>7. CASE UserSetSp
    <2>1. /\ uip \in 1..Len(prog) /\ prog[uip].op = "setsp" /\ uip' = uip + 1
          /\ regs' = UserRegs /\ rsp' = prog[uip].sp /\ UNCHANGED <<prog, cpl>>
      BY <1>7 DEF UserSetSp, UserAt
    <2>2. ViewAt' = uip + 1 /\ ViewSp' = prog[uip].sp /\ ViewRax' = "user"
      BY <1>2, <1>4, <2>1 DEF ViewAt, ViewSp, ViewRax
    <2> QED
      BY <1>3, <2>1, <2>2 DEF UV!Next, UV!SetSp, UV!Executes
  <1>8. CASE UserSyscall
    <2>1. /\ left' = [Leaving("syscall") EXCEPT !.gp = "user"]
          /\ cpl' = 0 /\ prog' = prog
      BY <1>8 DEF UserSyscall
    <2>2. /\ left'.via = "syscall" /\ left'.uip = uip /\ left'.rsp = rsp
          /\ left'.rax = regs.rax
      BY <2>1 DEF Leaving
    <2> QED
      BY <1>2, <2>1, <2>2, ViewLeaves
  <1>9. CASE UserSpin
    BY <1>9 DEF UserSpin, vars, ViewVars, ViewAt, ViewSp, ViewRax
  <1> QED
    BY <1>5, <1>6, <1>7, <1>8, <1>9 DEF User

LEMMA ViewStep == IInv /\ [Next]_vars => [UV!Next]_ViewVars
  <1> SUFFICES ASSUME IInv, [Next]_vars PROVE UV!Next \/ UNCHANGED ViewVars
    BY DEF ViewVars
  <1> USE DEF ViewVars
  <1>1. CASE UNCHANGED vars
    BY <1>1 DEF vars, ViewAt, ViewSp, ViewRax
  <1>2. CASE UserJumpSysret
    BY <1>2, ViewJump DEF UV!Next
  <1>3. CASE SyscallSysret
    BY <1>3, ViewCall DEF UV!Next
  <1>4. CASE PageFaultIret \/ TimerIret
    <2>1. CASE cpl' = 0
      BY <1>4, <2>1, IretReturns DEF ViewAt, ViewSp, ViewRax
    <2>2. CASE cpl' = 3
      <3>1. /\ cpl = 0 /\ uip' = left.uip /\ rsp' = left.rsp /\ UserSuspended
            /\ UNCHANGED <<left, prog, regs>> /\ RegsAre(left.gp, left.rax, left.ret)
        BY <1>4, <2>2, IretReturns, Zenon
      <3> QED
        BY <2>2, <3>1 DEF ViewAt, ViewSp, ViewRax, RegsAre, UserSuspended
    <2> QED
      BY <1>4, <2>1, <2>2, IretReturns
  <1>5. CASE Next /\ cpl = 0 /\ ~UserJumpSysret /\ ~SyscallSysret
             /\ ~PageFaultIret /\ ~TimerIret
    BY <1>5, KernelStays DEF ViewAt, ViewSp, ViewRax
  <1>6. CASE User
    BY <1>6, ViewUser
  <1>7. CASE Next /\ cpl # 0 /\ ~User
    <2>1. pc = "user"
      BY <1>7, InvTypes, LabelShape DEF IInv, InBoot, InJump, InSyscall, InFault,
         PageFaultOverUser, PageFaultOverCall, InTick, TimerOverUser,
         TimerOverUserFault, TimerOverCallFault, TimerOverBoot, TimerOverJump,
         InTimer, Kernel, Dead
    <2>2. ~Boot /\ ~Syscall /\ ~Traps
      BY <2>1 DEF Boot, BootStage, SetUserStack, LoadPageTable, SyscallInit,
         TssSegmentInit, TlsInit, IdtInit, LapicEnable, PrintBanner, UserJump,
         UserJumpSysret, Syscall, SyscallSave, SyscallBody, SyscallPrint, SyscallPop,
         SyscallSysret, Traps, TrapSave, PageFaultSave, PageFaultBody, PageFaultRestore,
         PageFaultIret, TimerSave, TimerBody, TimerRestore, TimerIret, DefaultSave,
         DefaultBody, Halt
    <2>3. PICK v \in Vectors : Tick(v) \/ Deliver(v)
      BY <1>7, <2>2 DEF Next
    <2>4. CASE Tick(v)
      BY <2>4 DEF Tick, cpuVars, ViewAt, ViewSp, ViewRax
    <2>5. CASE Deliver(v)
      BY <2>5, RaiseLeaves DEF Deliver
    <2> QED
      BY <2>3, <2>4, <2>5
  <1> QED
    BY <1>1, <1>2, <1>3, <1>4, <1>5, <1>6, <1>7

(***************************************************************************)
(* The theorems.                                                           *)
(***************************************************************************)
\* Every variable keeps its type, the three stacks with every frame and
\* register block on them included.
THEOREM TypeCorrect == Spec => []TypeOK
  BY Invariance, InvTypes, PTL

\* The order of kernel_start's calls leaves no gap: an interrupt or a fault
\* always finds the IDT, the TSS and the page table it needs.
THEOREM GatesBeforeTraps == Spec => []NoTrapBeforeItsGate
  BY Invariance, InvGates, PTL

\* The pushes and pops of kernel_asm.S match: every iretq of a trap routine
\* finds the frame the CPU pushed for it.
THEOREM FramesMatch == Spec => []IretFrameOnTop
  BY Invariance, InvIret, PTL

\* Nothing is left on the stacks of the kernel when the user program runs.
THEOREM StacksEmptied == Spec => []NothingLeftBehind
  BY Invariance, InvEmpty, PTL

\* The kernel, which enters and leaves a system call on the user's stack
\* pointer, never writes below it once the program has started.
THEOREM UserStackUntouched == Spec => []KernelKeepsOffUserStack
  BY Invariance, InvUserStack, PTL

\* Trap routines nest to a depth the page of stack they run on can hold.
THEOREM NestingIsBounded == Spec => []NestingBounded
  BY Invariance, InvNesting, PTL

\* No trap interrupts a print of another trap or of a system call, so
\* fb_output's static cursor needs no lock after boot.
THEOREM OutputExclusive == Spec => []FbOutputExclusive
  BY Invariance, InvPrinting, PTL

\* The local APIC has had its EOI whenever interrupts are enabled.
THEOREM EoiFirst == Spec => []EoiBeforeUnmask
  BY Invariance, InvEoi, PTL

\* The user program is resumed with the registers, the stack pointer and
\* the instruction it left ring 3 with.
THEOREM ResumesUnchanged == Spec => UserResumes
  <1>1. IInv /\ [Next]_vars =>
           [cpl = 0 /\ cpl' = 3 /\ left.via # "boot" => ResumesAsLeft]_vars
    BY ResumeStep
  <1> QED
    BY <1>1, Invariance, PTL DEF Spec, UserResumes

\* The kernel implements the machine of UserView: interrupts, page faults
\* and the switches of stack are invisible to the user program.
THEOREM ImplementsUserView == Spec => UserViewSpec
  <1> QED
    BY ViewInit, ViewStep, Invariance, PTL
       DEF Spec, UserViewSpec, UV!Spec, UV!vars, ViewVars

(***************************************************************************)
(* How long interrupts are off.                                            *)
(***************************************************************************)
\* The steps from a label with IF clear to the next with IF set, or to the
\* end of the default routine.
MaskedSteps ==
    CASE pc = "user_stack"                                           -> 6
      [] pc \in {"cr3", "sc_entry"}                                  -> 5
      [] pc \in {"syscall", "sc_body", "tm_save"}                    -> 4
      [] pc \in {"tss", "sc_print", "tm_body", "pf_save"}            -> 3
      [] pc \in {"tls", "sc_pop", "tm_restore", "pf_body", "df_save"} -> 2
      [] pc \in {"idt", "sc_sysret", "tm_iret", "pf_restore", "df_body"} -> 1
      [] OTHER                                                       -> 0

\* A step with IF clear sets it, or comes nearer to one that does.  One with
\* IF set leaves nothing in service, so the CPU may take what is requested.
MaskedBriefly ==
    /\ ~intf => \/ \E v \in Vectors : Tick(v)
                \/ intf' = TRUE
                \/ MaskedSteps' < MaskedSteps
    /\ intf => \A w \in Vectors : \A v \in isr : v \div 16 < w \div 16

\* The labels with IF clear.
LEMMA MaskedLabels ==
    ASSUME IInv, ~intf
    PROVE  pc \in {"user_stack", "cr3", "syscall", "tss", "tls", "idt"}
                  \cup CallLabels \cup {"pf_save", "pf_body", "pf_restore"}
                  \cup TimerLabels \cup DeadLabels
  <1>1. /\ pc \in BootStages => InBoot
        /\ pc = "jump_sysret" => InJump
        /\ pc = "user" => InUser
        /\ pc \in FaultLabels => InFault
        /\ pc \in BootStages \cup CallLabels \cup FaultLabels
                 \cup TimerLabels \cup DeadLabels \cup {"jump_sysret", "user"}
    BY LabelShape DEF IInv
  <1>2. pc \in BootStages => pc \in {"user_stack", "cr3", "syscall", "tss", "tls", "idt"}
    BY <1>1 DEF InBoot, BootStages, Open
  <1>3. pc # "pf_iret"
    BY <1>1 DEF InFault, PageFaultOverUser, PageFaultOverCall, FaultLabels
  <1>4. pc # "jump_sysret" /\ pc # "user" BY <1>1 DEF InJump, InUser
  <1> QED BY <1>1, <1>2, <1>3, <1>4 DEF FaultLabels

\* The iretq of the timer routine goes back to where IF was set.
LEMMA TimerUnmasks ==
    ASSUME IInv, TimerIret
    PROVE  intf' = TRUE
  <1>1. InTick /\ intf' = Top(Here).intf
    BY LabelShape DEF IInv, TimerIret, TimerLabels, Iret
  <1>2. pc = "tm_iret" BY DEF TimerIret
  <1>3. CASE TimerOverUser
    <2>1. Here = <<UserFrame>> BY <1>2, <1>3 DEF TimerOverUser, InTimer, Kernel, Here
    <2>2. Top(Here) = UserFrame BY <2>1, TopPop1
    <2> QED BY <1>1, <2>2 DEF UserFrame
  <1>4. CASE TimerOverUserFault \/ TimerOverCallFault
    <2>1. \/ Here = <<WindowFrame("T"), UserFrame>>
          \/ Here = <<WindowFrame("K"), CallFrame, CallEntry>>
      BY <1>2, <1>4 DEF TimerOverUserFault, TimerOverCallFault, InTimer, Kernel, Here
    <2>2. Top(Here) \in {WindowFrame("T"), WindowFrame("K")}
      BY <2>1, TopPop2, TopPop3
    <2>3. Top(Here).intf = TRUE BY <2>2 DEF WindowFrame, KernelFrame
    <2> QED BY <1>1, <2>3
  <1>5. CASE TimerOverBoot \/ TimerOverJump
    <2>1. \E l, sp : Here = <<KernelFrame(l, TRUE, sp)>>
      BY <1>2, <1>5 DEF TimerOverBoot, TimerOverJump, InTimer, Kernel, Here
    <2>2. \E l, sp : Top(Here) = KernelFrame(l, TRUE, sp) BY <2>1, TopPop1
    <2>3. Top(Here).intf = TRUE BY <2>2 DEF KernelFrame
    <2> QED BY <1>1, <2>3
  <1> QED BY <1>1, <1>3, <1>4, <1>5 DEF InTick

\* A fault in a system call goes to one of two routines.
LEMMA FaultLabel ==
    ASSUME NEW page, FaultOn(page)
    PROVE  pc' \in {"pf_save", "df_save", "lost"}
  <1>1. Raise(PageFault) \/ Raise(GeneralProtection) BY DEF FaultOn
  <1> QED BY <1>1, Gates DEF Raise

LEMMA MaskedStep ==
    ASSUME IInv, Next, ~intf
    PROVE  \/ \E v \in Vectors : Tick(v)
           \/ intf' = TRUE
           \/ MaskedSteps' < MaskedSteps
           \/ UNCHANGED vars
  <1>0. pc \in {"user_stack", "cr3", "syscall", "tss", "tls", "idt"}
               \cup CallLabels \cup {"pf_save", "pf_body", "pf_restore"}
               \cup TimerLabels \cup DeadLabels
    BY MaskedLabels
  <1> DEFINE Nearer == intf' = TRUE \/ MaskedSteps' < MaskedSteps
  <1>1. CASE Boot
    <2>1. \/ pc \in {"user_stack", "cr3", "syscall", "tss"} /\ pc' = NextStage[pc]
          \/ pc = "tls" /\ pc' \in {NextStage["tls"], "lost"}
          \/ pc = "idt" /\ intf' = TRUE
      BY <1>0, <1>1
         DEF Boot, SetUserStack, LoadPageTable, SyscallInit, TssSegmentInit, TlsInit,
             IdtInit, LapicEnable, PrintBanner, UserJump, UserJumpSysret, BootStage,
             CallLabels, TimerLabels, DeadLabels
    <2> QED BY <2>1 DEF MaskedSteps, NextStage
  <1>2. CASE User
    BY <1>0, <1>2 DEF User, UserTouch, UserSetSp, UserSyscall, UserSpin, UserAt,
                      CallLabels, TimerLabels, DeadLabels
  <1>3. CASE Syscall
    <2>1. CASE SyscallSave BY <2>1 DEF SyscallSave, MaskedSteps
    <2>2. CASE SyscallBody
      <3>1. pc' \in {"pf_save", "df_save", "lost", "sc_print", "sc_pop"} /\ pc = "sc_body"
        BY <2>2, FaultLabel DEF SyscallBody
      <3> QED BY <3>1 DEF MaskedSteps
    <2>3. CASE SyscallPrint BY <2>3 DEF SyscallPrint, MaskedSteps
    <2>4. CASE SyscallPop BY <2>4 DEF SyscallPop, MaskedSteps
    <2>5. CASE SyscallSysret BY <2>5, CallReturns
    <2> QED BY <1>3, <2>1, <2>2, <2>3, <2>4, <2>5 DEF Syscall
  <1>4. CASE Traps
    <2>1. CASE PageFaultSave \/ TimerSave \/ DefaultSave
      <3>1. \/ pc = "pf_save" /\ pc' = "pf_body"
            \/ pc = "tm_save" /\ pc' = "tm_body"
            \/ pc = "df_save" /\ pc' = "df_body"
        BY <2>1 DEF PageFaultSave, TimerSave, DefaultSave, TrapSave
      <3> QED BY <3>1 DEF MaskedSteps
    <2>2. CASE PageFaultBody \/ TimerBody \/ DefaultBody
      <3>1. \/ pc = "pf_body" /\ pc' = "pf_restore"
            \/ pc = "tm_body" /\ pc' = "tm_restore"
            \/ pc = "df_body" /\ pc' = "halted"
        BY <2>2 DEF PageFaultBody, TimerBody, DefaultBody
      <3> QED BY <3>1 DEF MaskedSteps
    <2>3. CASE PageFaultRestore BY <2>3 DEF PageFaultRestore
    <2>4. CASE TimerRestore BY <2>4 DEF TimerRestore, MaskedSteps
    <2>5. CASE PageFaultIret
      BY <1>0, <2>5 DEF PageFaultIret, CallLabels, TimerLabels, DeadLabels
    <2>6. CASE TimerIret BY <2>6, TimerUnmasks
    <2>7. CASE Halt BY <2>7 DEF Halt
    <2> QED BY <1>4, <2>1, <2>2, <2>3, <2>4, <2>5, <2>6, <2>7 DEF Traps
  <1>5. CASE \E v \in Vectors : Tick(v) \/ Deliver(v)
    BY <1>5 DEF Deliver
  <1> QED BY <1>1, <1>2, <1>3, <1>4, <1>5 DEF Next

\* A tick waits for six steps of the kernel at most to be taken: no routine keeps
\* interrupts off longer, however page faults, ticks and system calls nest, and
\* where they are on the EOI has been sent.  Only the default routine never
\* turns them on again.
THEOREM MasksBriefly == Spec => [][MaskedBriefly]_vars
  <1>1. IInv /\ [Next]_vars => [MaskedBriefly]_vars
    <2> SUFFICES ASSUME IInv, Next PROVE MaskedBriefly \/ UNCHANGED vars
      OBVIOUS
    <2>1. intf => isr = {} BY InvEoi DEF EoiBeforeUnmask
    <2> QED BY <2>1, MaskedStep DEF MaskedBriefly
  <1> QED BY <1>1, Invariance, PTL DEF Spec
=============================================================================
