----------------------------- MODULE BootProofs ----------------------------
(***************************************************************************)
(* ExitBootServicesHook, for every size of the firmware's map, every       *)
(* number of its changes and every number of retries; and the buffers of   *)
(* efi_main, for every size of what they hold.                             *)
(***************************************************************************)
EXTENDS Boot, SequenceTheorems, TLAPS

\* Where the loader holds no live buffer.
NoBuffer == {"plan", "query", "alloc", "error", "failed"}

\* Where memoryMapSize is the size of the buffer, or less.  It is not where
\* the firmware has just asked for more: before AllocatePool, or before the
\* buffer is dropped.
Sized == {"query", "map", "exit", "retry"}

HookInv ==
    /\ pc \in Labels /\ buf \in {"null", "live", "freed"}
    /\ size \in Nat /\ cap \in Nat /\ need \in Nat
    /\ pool = IF buf = "live" THEN 1 ELSE 0
    /\ pc \in NoBuffer => buf # "live"
    /\ pc = "plan" => buf = "null"
    /\ buf # "null" /\ pc \in Sized => size <= cap
    /\ exited <=> pc \in {"success", "kernel"}

LEMMA HookInit == Init => HookInv
  BY BootAssumption DEF Init, HookInv, Labels, NoBuffer, Sized

LEMMA MapChangesType ==
    ASSUME NEW sizes, MapChanges(sizes)
    PROVE  need' \in Nat
  BY BootAssumption DEF MapChanges

\* The steps of efi_main before the hook.
LEMMA MainStep ==
    ASSUME HookInv,
           GiveUp \/ OpenFile \/ TakePages \/ LoadBinaryFileInBuffer
           \/ CloseFile \/ SetGraphicsMode
    PROVE  HookInv'
  <1>1. pc = "plan" /\ pc' \in {"plan", "failed", "query"}
    BY DEF GiveUp, OpenFile, TakePages, LoadBinaryFileInBuffer, CloseFile,
           SetGraphicsMode, Doing, Done
  <1>2. UNCHANGED <<hook, firmware>>
    BY DEF GiveUp, OpenFile, TakePages, LoadBinaryFileInBuffer, CloseFile,
           SetGraphicsMode
  <1> QED BY <1>1, <1>2 DEF HookInv, hook, firmware, NoBuffer, Sized, Labels

\* A successful GetMemoryMap makes memoryMapSize smaller or leaves it.
LEMMA QueryStep ==
    ASSUME HookInv, QuerySize \/ QueryMap
    PROVE  HookInv'
  <1>1. CASE /\ GetMemoryMap
             /\ \/ pc = "query" /\ pc' = IF Fits THEN "map" ELSE "alloc"
                \/ pc = "map" /\ pc' = IF Fits THEN "exit" ELSE "drop"
    <2>1. /\ size' = IF size < need \/ Fits THEN need ELSE size
          /\ UNCHANGED <<buf, cap, need, pool, exited>>
      BY <1>1 DEF GetMemoryMap
    <2>2. size' \in Nat /\ (Fits => size' = need /\ need <= size /\ buf # "null")
      BY <2>1 DEF HookInv, Fits
    <2> QED BY <1>1, <2>1, <2>2 DEF HookInv, NoBuffer, Sized, Labels
  <1>2. CASE /\ UNCHANGED <<hook, firmware>>
             /\ \/ pc = "query" /\ pc' = "error"
                \/ pc = "map" /\ pc' = "drop"
    BY <1>2 DEF HookInv, hook, firmware, NoBuffer, Sized, Labels
  <1> QED BY <1>1, <1>2 DEF QuerySize, QueryMap, Goto, Refused

LEMMA AllocStep ==
    ASSUME HookInv, AllocMap
    PROVE  HookInv'
  <1>1. pc = "alloc" /\ pc' = "map" /\ UNCHANGED <<size, exited>>
    BY DEF AllocMap, Goto
  <1>2. CASE /\ buf' = "live" /\ cap' = size /\ pool' = pool + 1
             /\ MapChanges(need..(need + 1))
    BY <1>1, <1>2, MapChangesType DEF HookInv, NoBuffer, Sized, Labels
  <1>3. CASE buf' = "null" /\ UNCHANGED <<cap, pool, need, fresh>>
    BY <1>1, <1>3 DEF HookInv, NoBuffer, Sized, Labels
  <1> QED BY <1>2, <1>3 DEF AllocMap

LEMMA ExitStep ==
    ASSUME HookInv, fresh \in BOOLEAN, ExitBootServices
    PROVE  HookInv'
  BY DEF ExitBootServices, Goto, Refused, hook, firmware, HookInv, NoBuffer, Sized, Labels

LEMMA FreeStep ==
    ASSUME HookInv, FreeMap
    PROVE  HookInv'
  <1>1. /\ \/ pc = "drop" /\ pc' = "error"
           \/ pc = "retry" /\ pc' = "query"
        /\ UNCHANGED <<cap, size, exited>>
    BY DEF FreeMap, Goto
  <1>2. CASE /\ buf = "live" /\ buf' = "freed" /\ pool' = pool - 1
             /\ MapChanges((need - 1)..need)
    BY <1>1, <1>2, MapChangesType DEF HookInv, NoBuffer, Sized, Labels
  <1>3. CASE buf # "live" /\ UNCHANGED <<buf, pool, need, fresh>>
    BY <1>1, <1>3 DEF HookInv, NoBuffer, Sized, Labels
  <1> QED BY <1>2, <1>3 DEF FreeMap

LEMMA LastStep ==
    ASSUME HookInv, HookFailed \/ CallKernel
    PROVE  HookInv'
  BY DEF HookFailed, CallKernel, Goto, hook, firmware, HookInv, NoBuffer, Sized, Labels

LEMMA EventStep ==
    ASSUME HookInv, FirmwareEvent
    PROVE  HookInv'
  <1>1. UNCHANGED <<pc, buf, cap, size, pool, exited>>
    BY DEF FirmwareEvent, plan, hook
  <1>2. need' \in Nat
    BY MapChangesType DEF FirmwareEvent
  <1> QED BY <1>1, <1>2 DEF HookInv

\* The key is current or it is not.
FreshType == fresh \in BOOLEAN

LEMMA FreshStep == FreshType /\ [Next]_vars => FreshType'
  <1> SUFFICES ASSUME FreshType, [Next]_vars PROVE FreshType'
    OBVIOUS
  <1>1. CASE QuerySize \/ QueryMap
    BY <1>1 DEF QuerySize, QueryMap, GetMemoryMap, Refused, firmware, FreshType
  <1>2. CASE AllocMap \/ FreeMap \/ FirmwareEvent
    BY <1>2 DEF AllocMap, FreeMap, FirmwareEvent, MapChanges, FreshType
  <1>3. CASE UNCHANGED fresh
    BY <1>3 DEF FreshType
  <1>4. CASE GiveUp \/ OpenFile \/ TakePages \/ LoadBinaryFileInBuffer
             \/ CloseFile \/ SetGraphicsMode
    BY <1>3, <1>4 DEF GiveUp, OpenFile, TakePages, LoadBinaryFileInBuffer,
                      CloseFile, SetGraphicsMode, firmware
  <1>5. CASE ExitBootServices \/ HookFailed \/ CallKernel \/ UNCHANGED vars
    BY <1>3, <1>5 DEF ExitBootServices, Refused, HookFailed, CallKernel, firmware, vars
  <1> QED BY <1>1, <1>2, <1>4, <1>5 DEF Next, Loader

LEMMA HookStep == HookInv /\ FreshType /\ [Next]_vars => HookInv'
  <1> SUFFICES ASSUME HookInv, FreshType, [Next]_vars PROVE HookInv'
    OBVIOUS
  <1>1. CASE UNCHANGED vars
    BY <1>1 DEF vars, plan, hook, firmware, HookInv
  <1>2. CASE ExitBootServices
    BY <1>2, ExitStep DEF FreshType
  <1> QED BY <1>1, <1>2, MainStep, QueryStep, AllocStep, FreeStep, LastStep, EventStep
          DEF Next, Loader

\* The inductive invariant: at every step of the retry loop, what the size,
\* the buffer and the firmware's pool have to do with each other.
THEOREM HookInvariance == Spec => [](HookInv /\ FreshType)
  <1>1. Init => FreshType
    BY DEF Init, FreshType
  <1> QED BY <1>1, HookInit, HookStep, FreshStep, PTL DEF Spec

\* Assignment_3/boot.c:285-303 and 494-518: the kernel is called after boot
\* services have ended, and no service is called then.
THEOREM ExitComesLast == Spec => []ExitIsFinal
  <1>1. HookInv => ExitIsFinal
    BY DEF HookInv, ExitIsFinal
  <1> QED BY <1>1, HookInvariance, PTL

\* boot.c:263-288: the size the firmware is told never exceeds the size of
\* the last AllocatePool, although the variable is used again and again.
THEOREM MapFits == Spec => []MapFitsBuffer
  <1>1. HookInv => MapFitsBuffer
    BY DEF HookInv, MapFitsBuffer, Sized
  <1> QED BY <1>1, HookInvariance, PTL

\* boot.c:263-296: the hook frees what it allocates before it allocates again
\* and before it fails.
THEOREM NothingLeaked == Spec => []NoMapLeaked
  <1>1. HookInv => NoMapLeaked
    BY DEF HookInv, NoMapLeaked, NoBuffer
  <1> QED BY <1>1, HookInvariance, PTL

----------------------------------------------------------------------------
(* efi_main's plan, step by step.                                          *)

Ops == {"open", "pages", "read", "close"}
Names == {"kernel", "user", "kernelTables", "userTables", "tss", "tls",
          "shared", "grants", "extra", "stacks"}
PlanType == [op : Ops, name : Names, n : Nat]

Entry(o, b, m) == [op |-> o, name |-> b, n |-> m]
Join(s, t) == s \o t
Add(s, e) == s \o <<e>>

LEMMA AddedStep ==
    ASSUME NEW s \in Seq(PlanType), NEW e \in PlanType
    PROVE  /\ Add(s, e) \in Seq(PlanType) /\ Len(Add(s, e)) = Len(s) + 1
           /\ \A k \in 1..Len(s) : Add(s, e)[k] = s[k]
           /\ Add(s, e)[Len(s) + 1] = e
  <1>1. PICK len, t : len = Len(s) /\ t = Add(s, e) OBVIOUS
  <1>2. len \in Nat BY <1>1, LenProperties
  <1>3. <<e>> \in Seq(PlanType) /\ Len(<<e>>) = 1 /\ <<e>>[1] = e
    OBVIOUS
  <1>4. /\ t \in Seq(PlanType) /\ Len(t) = len + 1
        /\ \A k \in 1..(len + 1) :
              t[k] = IF k <= len THEN s[k] ELSE <<e>>[k - len]
    BY <1>1, <1>3, ConcatProperties DEF Add
  <1>5. \A k \in 1..len : t[k] = s[k]
    BY <1>2, <1>4
  <1>6. t[len + 1] = e
    <2>1. len + 1 \in 1..(len + 1) /\ ~(len + 1 <= len) /\ len + 1 - len = 1
      BY <1>2
    <2>2. t[len + 1] = IF len + 1 <= len THEN s[len + 1] ELSE <<e>>[len + 1 - len]
      BY <1>2, <1>4, <2>1
    <2>3. <<e>>[len + 1 - len] = <<e>>[1] BY <1>2, <2>1
    <2> QED BY <1>3, <2>1, <2>2, <2>3
  <1> QED BY <1>1, <1>4, <1>5, <1>6

LEMMA LoadSteps ==
    ASSUME NEW f \in {"kernel", "user"}
    PROVE  /\ Load(f) \in Seq(PlanType) /\ Len(Load(f)) = 4
           /\ Load(f)[1] = Entry("open", f, 0)
           /\ Load(f)[2] = Entry("pages", f, Pages[f])
           /\ Load(f)[3] = Entry("read", f, 0)
           /\ Load(f)[4] = Entry("close", f, 0)
  <1>1. Pages[f] \in Nat /\ f \in Names BY BootAssumption DEF Names
  <1> DEFINE o == Entry("open", f, 0)
             p == Entry("pages", f, Pages[f])
             r == Entry("read", f, 0)
             c == Entry("close", f, 0)
  <1>2. Load(f) = <<o, p, r, c>> BY DEF Load, Entry
  <1>3. o \in PlanType /\ p \in PlanType /\ r \in PlanType /\ c \in PlanType
    BY <1>1 DEF Entry, PlanType, Ops
  <1> HIDE DEF o, p, r, c
  <1>4. /\ <<o, p, r, c>> \in Seq(PlanType) /\ Len(<<o, p, r, c>>) = 4
        /\ <<o, p, r, c>>[1] = o /\ <<o, p, r, c>>[2] = p
        /\ <<o, p, r, c>>[3] = r /\ <<o, p, r, c>>[4] = c
    BY <1>3
  <1> QED BY <1>2, <1>4 DEF o, p, r, c

LEMMA LoadBoth ==
    ASSUME NEW k \in Seq(PlanType), NEW u \in Seq(PlanType), Len(k) = 4, Len(u) = 4,
           NEW p, p = Join(k, u)
    PROVE  /\ p \in Seq(PlanType) /\ Len(p) = 8
           /\ p[1] = k[1] /\ p[2] = k[2] /\ p[3] = k[3] /\ p[4] = k[4]
           /\ p[5] = u[1] /\ p[6] = u[2] /\ p[7] = u[3] /\ p[8] = u[4]
  <1>1. /\ p \in Seq(PlanType) /\ Len(p) = 8
        /\ \A i \in 1..8 : p[i] = IF i <= 4 THEN k[i] ELSE u[i - 4]
    <2>1. /\ p \in Seq(PlanType) /\ Len(p) = Len(k) + Len(u)
          /\ \A i \in 1..(Len(k) + Len(u)) :
                p[i] = IF i <= Len(k) THEN k[i] ELSE u[i - Len(k)]
      BY ConcatProperties DEF Join
    <2> QED BY <2>1
  <1>2. p[1] = k[1] /\ p[2] = k[2] /\ p[3] = k[3] /\ p[4] = k[4]
    BY <1>1
  <1>3. p[5] = u[5 - 4] /\ p[6] = u[6 - 4] /\ p[7] = u[7 - 4] /\ p[8] = u[8 - 4]
    BY <1>1
  <1> QED BY <1>1, <1>2, <1>3

\* Where the plan takes pages.
Takes == {2, 6} \cup 9..16

LEMMA PlanSteps ==
    /\ Plan \in Seq(PlanType) /\ Len(Plan) = 16
    /\ Plan[1] = Entry("open", "kernel", 0)
    /\ Plan[2] = Entry("pages", "kernel", Pages["kernel"])
    /\ Plan[3] = Entry("read", "kernel", 0)
    /\ Plan[4] = Entry("close", "kernel", 0)
    /\ Plan[5] = Entry("open", "user", 0)
    /\ Plan[6] = Entry("pages", "user", Pages["user"])
    /\ Plan[7] = Entry("read", "user", 0)
    /\ Plan[8] = Entry("close", "user", 0)
    /\ Plan[9] = Entry("pages", "kernelTables", FixedTables)
    /\ Plan[10] = Entry("pages", "userTables", Pages["userTables"])
    /\ Plan[11] = Entry("pages", "tss", 2)
    /\ Plan[12] = Entry("pages", "tls", 1)
    /\ Plan[13] = Entry("pages", "shared", 1)
    /\ Plan[14] = Entry("pages", "grants", 1)
    /\ Plan[15] = Entry("pages", "extra", 1)
    /\ Plan[16] = Entry("pages", "stacks", 2)
  <1>1. PICK k, u : k = Load("kernel") /\ u = Load("user") OBVIOUS
  <1>2. /\ k \in Seq(PlanType) /\ Len(k) = 4
        /\ k[1] = Entry("open", "kernel", 0)
        /\ k[2] = Entry("pages", "kernel", Pages["kernel"])
        /\ k[3] = Entry("read", "kernel", 0) /\ k[4] = Entry("close", "kernel", 0)
    BY <1>1, LoadSteps
  <1>3. /\ u \in Seq(PlanType) /\ Len(u) = 4
        /\ u[1] = Entry("open", "user", 0)
        /\ u[2] = Entry("pages", "user", Pages["user"])
        /\ u[3] = Entry("read", "user", 0) /\ u[4] = Entry("close", "user", 0)
    BY <1>1, LoadSteps
  <1>4. PICK p1 : p1 = Join(k, u) OBVIOUS
  <1>5. /\ p1 \in Seq(PlanType) /\ Len(p1) = 8
        /\ p1[1] = k[1] /\ p1[2] = k[2] /\ p1[3] = k[3] /\ p1[4] = k[4]
        /\ p1[5] = u[1] /\ p1[6] = u[2] /\ p1[7] = u[3] /\ p1[8] = u[4]
    BY <1>2, <1>3, <1>4, LoadBoth
  <1>6. Pages["userTables"] \in Nat /\ FixedTables \in Nat BY BootAssumption
  <1>7. PICK e2, p2 : e2 = Entry("pages", "kernelTables", FixedTables) /\ p2 = Add(p1, e2) OBVIOUS
  <1>8. /\ p2 \in Seq(PlanType) /\ Len(p2) = 9
        /\ p2[9] = e2
        /\ \A j \in 1..8 : p2[j] = p1[j]
    <2>1. e2 \in PlanType
      BY <1>6, <1>7 DEF Entry, PlanType, Ops, Names
    <2>0. p2 = Add(p1, e2) /\ p1 \in Seq(PlanType) /\ Len(p1) \in Nat
      BY <1>5, <1>7
    <2>2. /\ p2 \in Seq(PlanType) /\ Len(p2) = Len(p1) + 1
          /\ \A j \in 1..Len(p1) : p2[j] = p1[j]
          /\ p2[Len(p1) + 1] = e2
      BY <2>0, <2>1, AddedStep
    <2> QED BY <1>5, <2>2
  <1>9. PICK e3, p3 : e3 = Entry("pages", "userTables", Pages["userTables"]) /\ p3 = Add(p2, e3) OBVIOUS
  <1>10. /\ p3 \in Seq(PlanType) /\ Len(p3) = 10
        /\ p3[10] = e3
        /\ \A j \in 1..9 : p3[j] = p2[j]
    <2>1. e3 \in PlanType
      BY <1>6, <1>9 DEF Entry, PlanType, Ops, Names
    <2>0. p3 = Add(p2, e3) /\ p2 \in Seq(PlanType) /\ Len(p2) \in Nat
      BY <1>8, <1>9
    <2>2. /\ p3 \in Seq(PlanType) /\ Len(p3) = Len(p2) + 1
          /\ \A j \in 1..Len(p2) : p3[j] = p2[j]
          /\ p3[Len(p2) + 1] = e3
      BY <2>0, <2>1, AddedStep
    <2> QED BY <1>8, <2>2
  <1>11. PICK e4, p4 : e4 = Entry("pages", "tss", 2) /\ p4 = Add(p3, e4) OBVIOUS
  <1>12. /\ p4 \in Seq(PlanType) /\ Len(p4) = 11
        /\ p4[11] = e4
        /\ \A j \in 1..10 : p4[j] = p3[j]
    <2>1. e4 \in PlanType
      BY <1>6, <1>11 DEF Entry, PlanType, Ops, Names
    <2>0. p4 = Add(p3, e4) /\ p3 \in Seq(PlanType) /\ Len(p3) \in Nat
      BY <1>10, <1>11
    <2>2. /\ p4 \in Seq(PlanType) /\ Len(p4) = Len(p3) + 1
          /\ \A j \in 1..Len(p3) : p4[j] = p3[j]
          /\ p4[Len(p3) + 1] = e4
      BY <2>0, <2>1, AddedStep
    <2> QED BY <1>10, <2>2
  <1>13. PICK e5, p5 : e5 = Entry("pages", "tls", 1) /\ p5 = Add(p4, e5) OBVIOUS
  <1>14. /\ p5 \in Seq(PlanType) /\ Len(p5) = 12
        /\ p5[12] = e5
        /\ \A j \in 1..11 : p5[j] = p4[j]
    <2>1. e5 \in PlanType
      BY <1>6, <1>13 DEF Entry, PlanType, Ops, Names
    <2>0. p5 = Add(p4, e5) /\ p4 \in Seq(PlanType) /\ Len(p4) \in Nat
      BY <1>12, <1>13
    <2>2. /\ p5 \in Seq(PlanType) /\ Len(p5) = Len(p4) + 1
          /\ \A j \in 1..Len(p4) : p5[j] = p4[j]
          /\ p5[Len(p4) + 1] = e5
      BY <2>0, <2>1, AddedStep
    <2> QED BY <1>12, <2>2
  <1>15. PICK e6, p6 : e6 = Entry("pages", "shared", 1) /\ p6 = Add(p5, e6) OBVIOUS
  <1>16. /\ p6 \in Seq(PlanType) /\ Len(p6) = 13
        /\ p6[13] = e6
        /\ \A j \in 1..12 : p6[j] = p5[j]
    <2>1. e6 \in PlanType
      BY <1>6, <1>15 DEF Entry, PlanType, Ops, Names
    <2>0. p6 = Add(p5, e6) /\ p5 \in Seq(PlanType) /\ Len(p5) \in Nat
      BY <1>14, <1>15
    <2>2. /\ p6 \in Seq(PlanType) /\ Len(p6) = Len(p5) + 1
          /\ \A j \in 1..Len(p5) : p6[j] = p5[j]
          /\ p6[Len(p5) + 1] = e6
      BY <2>0, <2>1, AddedStep
    <2> QED BY <1>14, <2>2
  <1>17. PICK e7, p7 : e7 = Entry("pages", "grants", 1) /\ p7 = Add(p6, e7) OBVIOUS
  <1>18. /\ p7 \in Seq(PlanType) /\ Len(p7) = 14
        /\ p7[14] = e7
        /\ \A j \in 1..13 : p7[j] = p6[j]
    <2>1. e7 \in PlanType
      BY <1>6, <1>17 DEF Entry, PlanType, Ops, Names
    <2>0. p7 = Add(p6, e7) /\ p6 \in Seq(PlanType) /\ Len(p6) \in Nat
      BY <1>16, <1>17
    <2>2. /\ p7 \in Seq(PlanType) /\ Len(p7) = Len(p6) + 1
          /\ \A j \in 1..Len(p6) : p7[j] = p6[j]
          /\ p7[Len(p6) + 1] = e7
      BY <2>0, <2>1, AddedStep
    <2> QED BY <1>16, <2>2
  <1>19. PICK e8, p8 : e8 = Entry("pages", "extra", 1) /\ p8 = Add(p7, e8) OBVIOUS
  <1>20. /\ p8 \in Seq(PlanType) /\ Len(p8) = 15
        /\ p8[15] = e8
        /\ \A j \in 1..14 : p8[j] = p7[j]
    <2>1. e8 \in PlanType
      BY <1>6, <1>19 DEF Entry, PlanType, Ops, Names
    <2>0. p8 = Add(p7, e8) /\ p7 \in Seq(PlanType) /\ Len(p7) \in Nat
      BY <1>18, <1>19
    <2>2. /\ p8 \in Seq(PlanType) /\ Len(p8) = Len(p7) + 1
          /\ \A j \in 1..Len(p7) : p8[j] = p7[j]
          /\ p8[Len(p7) + 1] = e8
      BY <2>0, <2>1, AddedStep
    <2> QED BY <1>18, <2>2
  <1>21. PICK e9, p9 : e9 = Entry("pages", "stacks", 2) /\ p9 = Add(p8, e9) OBVIOUS
  <1>22. /\ p9 \in Seq(PlanType) /\ Len(p9) = 16
        /\ p9[16] = e9
        /\ \A j \in 1..15 : p9[j] = p8[j]
    <2>1. e9 \in PlanType
      BY <1>6, <1>21 DEF Entry, PlanType, Ops, Names
    <2>0. p9 = Add(p8, e9) /\ p8 \in Seq(PlanType) /\ Len(p8) \in Nat
      BY <1>20, <1>21
    <2>2. /\ p9 \in Seq(PlanType) /\ Len(p9) = Len(p8) + 1
          /\ \A j \in 1..Len(p8) : p9[j] = p8[j]
          /\ p9[Len(p8) + 1] = e9
      BY <2>0, <2>1, AddedStep
    <2> QED BY <1>20, <2>2
  <1>23. Plan = p9
    BY <1>1, <1>4, <1>7, <1>9, <1>11, <1>13, <1>15, <1>17, <1>19, <1>21
       DEF Plan, Join, Add, Take, Entry
  <1>24. /\ \A j \in 1..8 : p2[j] = p1[j]
         /\ \A j \in 1..9 : p3[j] = p2[j]
         /\ \A j \in 1..10 : p4[j] = p3[j]
         /\ \A j \in 1..11 : p5[j] = p4[j]
         /\ \A j \in 1..12 : p6[j] = p5[j]
         /\ \A j \in 1..13 : p7[j] = p6[j]
         /\ \A j \in 1..14 : p8[j] = p7[j]
         /\ \A j \in 1..15 : p9[j] = p8[j]
    BY <1>8, <1>10, <1>12, <1>14, <1>16, <1>18, <1>20, <1>22, Zenon
  <1>25. p9[9] = p2[9] BY <1>24
  <1>26. p9[10] = p3[10] BY <1>24
  <1>27. p9[11] = p4[11] BY <1>24
  <1>28. p9[12] = p5[12] BY <1>24
  <1>29. p9[13] = p6[13] BY <1>24
  <1>30. p9[14] = p7[14] /\ p9[15] = p8[15] BY <1>24
  <1>31. \A j \in 1..8 : p9[j] = p1[j] BY <1>24
  <1>32. /\ p9[1] = p1[1] /\ p9[2] = p1[2] /\ p9[3] = p1[3] /\ p9[4] = p1[4]
        /\ p9[5] = p1[5] /\ p9[6] = p1[6] /\ p9[7] = p1[7] /\ p9[8] = p1[8]
    BY <1>31
  <1>33. Plan \in Seq(PlanType) /\ Len(Plan) = 16
    BY <1>22, <1>23
  <1>34. /\ Plan[1] = Entry("open", "kernel", 0)
         /\ Plan[2] = Entry("pages", "kernel", Pages["kernel"])
         /\ Plan[3] = Entry("read", "kernel", 0)
         /\ Plan[4] = Entry("close", "kernel", 0)
    BY <1>2, <1>5, <1>23, <1>32
  <1>35. /\ Plan[5] = Entry("open", "user", 0)
         /\ Plan[6] = Entry("pages", "user", Pages["user"])
         /\ Plan[7] = Entry("read", "user", 0)
         /\ Plan[8] = Entry("close", "user", 0)
    BY <1>3, <1>5, <1>23, <1>32
  <1>36. Plan[9] = Entry("pages", "kernelTables", FixedTables)
    BY <1>25, <1>7, <1>8, <1>23
  <1>37. Plan[10] = Entry("pages", "userTables", Pages["userTables"])
    BY <1>26, <1>9, <1>10, <1>23
  <1>38. Plan[11] = Entry("pages", "tss", 2)
    BY <1>27, <1>11, <1>12, <1>23
  <1>39. Plan[12] = Entry("pages", "tls", 1)
    BY <1>28, <1>13, <1>14, <1>23
  <1>40. Plan[13] = Entry("pages", "shared", 1)
    BY <1>29, <1>15, <1>16, <1>23
  <1>41. Plan[14] = Entry("pages", "grants", 1)
    BY <1>30, <1>17, <1>18, <1>23
  <1>42. Plan[15] = Entry("pages", "extra", 1)
    BY <1>30, <1>19, <1>20, <1>23
  <1>43. Plan[16] = Entry("pages", "stacks", 2)
    BY <1>21, <1>22, <1>23
  <1> QED BY <1>33, <1>34, <1>35, <1>36, <1>37, <1>38, <1>39, <1>40, <1>41, <1>42, <1>43

\* What the steps of the plan take, and from where.
LEMMA PlanFacts ==
    /\ \A k \in 1..16 : Plan[k].op = "pages" <=> k \in Takes
    /\ \A k \in 1..16 : Plan[k].name \in Names /\ Plan[k].n \in Nat
    /\ \A k, l \in Takes : Plan[k].name = Plan[l].name => k = l
    /\ \A k \in 1..16 : Plan[k].op = "open" => Plan[k].name = IF k = 1 THEN "kernel" ELSE "user"
    /\ \A k \in 1..16 : Plan[k].op = "open" <=> k \in {1, 5}
    /\ \A k \in 1..16 : Plan[k].op = "read" <=> k \in {3, 7}
    /\ \A k \in 1..16 : Plan[k].op = "close" <=> k \in {4, 8}
    /\ \A k \in 1..4 : Plan[k].name = "kernel"
    /\ \A k \in 5..8 : Plan[k].name = "user"
    /\ Buffers = Names
  <1>1. \A k \in 1..16 : Plan[k].op =
          IF k \in {1, 5} THEN "open" ELSE IF k \in {3, 7} THEN "read"
          ELSE IF k \in {4, 8} THEN "close" ELSE "pages"
    <2>1. /\ Plan[1].op = "open" /\ Plan[2].op = "pages"
          /\ Plan[3].op = "read" /\ Plan[4].op = "close"
          /\ Plan[5].op = "open" /\ Plan[6].op = "pages"
          /\ Plan[7].op = "read" /\ Plan[8].op = "close"
      BY PlanSteps DEF Entry
    <2>2. /\ Plan[9].op = "pages" /\ Plan[10].op = "pages"
          /\ Plan[11].op = "pages" /\ Plan[12].op = "pages"
          /\ Plan[13].op = "pages" /\ Plan[14].op = "pages"
          /\ Plan[15].op = "pages" /\ Plan[16].op = "pages"
      BY PlanSteps DEF Entry
    <2> QED BY <2>1, <2>2
  <1>2. \A k \in 1..16 : Plan[k] \in PlanType
    BY PlanSteps, ElementOfSeq
  <1>3. \A k \in 1..16 : Plan[k].name \in Names /\ Plan[k].n \in Nat
    BY <1>2 DEF PlanType
  <1>4. /\ \A k \in 1..4 : Plan[k].name = "kernel"
        /\ \A k \in 5..8 : Plan[k].name = "user"
    BY PlanSteps DEF Entry
  <1>5. /\ Plan[9].name = "kernelTables" /\ Plan[10].name = "userTables"
        /\ Plan[11].name = "tss" /\ Plan[12].name = "tls"
        /\ Plan[13].name = "shared" /\ Plan[14].name = "grants"
        /\ Plan[15].name = "extra" /\ Plan[16].name = "stacks"
    BY PlanSteps DEF Entry
  <1>6. \A k, l \in Takes : Plan[k].name = Plan[l].name => k = l
    BY <1>4, <1>5 DEF Takes
  <1>7. Buffers = Names
    <2>1. Buffers = {Plan[k].name : k \in 1..16}
      BY PlanSteps DEF Buffers
    <2>2. Buffers \subseteq Names
      BY <1>3, <2>1
    <2>3. \A b \in Names : \E k \in 1..16 : b = Plan[k].name
      BY <1>4, <1>5 DEF Names
    <2> QED BY <2>1, <2>2, <2>3
  <1>8. \A k \in 1..16 : k \in Takes <=> k \notin {1, 3, 4, 5, 7, 8}
    BY DEF Takes
  <1>9. \A k \in 1..16 : Plan[k].op = "pages" <=> k \in Takes
    BY <1>1, <1>8
  <1> QED BY <1>1, <1>3, <1>4, <1>6, <1>7, <1>9

\* Each buffer that has been taken lies above the ones taken before it.
Laid ==
    \A k \in Takes : k < at =>
        LET b == Plan[k].name
        IN  /\ 1 <= base[b] /\ base[b] + Plan[k].n <= top
            /\ \A l \in Takes : l < k =>
                  base[Plan[l].name] + Plan[l].n <= base[b]

PlanInv ==
    /\ at \in 1..17 /\ top \in Nat \ {0} /\ base \in [Names -> Nat]
    /\ pc \notin {"plan", "failed"} => at = 17
    /\ loaded = {f \in {"kernel", "user"} : at > IF f = "kernel" THEN 3 ELSE 7}
    /\ open = {f \in {"kernel", "user"} : at \in IF f = "kernel" THEN 2..4 ELSE 6..8}
    /\ Laid

LEMMA PlanInit == Init => PlanInv
  <1> SUFFICES ASSUME Init PROVE PlanInv
    OBVIOUS
  <1>1. base \in [Names -> Nat]
    BY PlanFacts DEF Init, Buffers
  <1>2. at = 1 /\ top = 1 /\ open = {} /\ loaded = {} /\ pc = "plan"
    BY DEF Init
  <1>3. Laid
    BY <1>2 DEF Laid, Takes
  <1> QED BY <1>1, <1>2, <1>3 DEF PlanInv

LEMMA TakeStep ==
    ASSUME PlanInv, TakePages
    PROVE  PlanInv'
  <1>1. /\ pc = "plan" /\ pc' = pc /\ at \in 1..16 /\ Plan[at].op = "pages"
        /\ at' = at + 1
        /\ base' = [base EXCEPT ![Plan[at].name] = top]
        /\ top' = top + Plan[at].n
        /\ UNCHANGED <<open, loaded>>
    BY PlanSteps DEF TakePages, Doing, Done, PlanInv
  <1>2. at \in Takes /\ Plan[at].name \in Names /\ Plan[at].n \in Nat
    BY <1>1, PlanFacts
  <1>3. top' \in Nat \ {0} /\ top <= top'
    BY <1>1, <1>2 DEF PlanInv
  <1>4. base' \in [Names -> Nat] /\ base'[Plan[at].name] = top
    BY <1>1, <1>2 DEF PlanInv
  <1>5. \A k \in Takes : k # at => base'[Plan[k].name] = base[Plan[k].name]
    <2> SUFFICES ASSUME NEW k \in Takes, k # at
                 PROVE  base'[Plan[k].name] = base[Plan[k].name]
      OBVIOUS
    <2>1. Plan[k].name # Plan[at].name
      BY <1>2, PlanFacts
    <2>2. Plan[k].name \in Names
      BY PlanFacts DEF Takes
    <2> QED BY <1>1, <2>1, <2>2 DEF PlanInv
  <1>6. \A k \in Takes : base[Plan[k].name] \in Nat /\ Plan[k].n \in Nat /\ k \in Nat
    BY PlanFacts DEF Takes, PlanInv
  <1>7. Laid'
    <2> SUFFICES ASSUME NEW k \in Takes, k < at + 1
                 PROVE  /\ 1 <= base'[Plan[k].name] /\ base'[Plan[k].name] + Plan[k].n <= top'
                        /\ \A l \in Takes : l < k =>
                              base'[Plan[l].name] + Plan[l].n <= base'[Plan[k].name]
      BY <1>1 DEF Laid
    <2>1. CASE k = at
      <3>1. \A l \in Takes : l < at => base[Plan[l].name] + Plan[l].n <= top
        BY DEF PlanInv, Laid
      <3>2. \A l \in Takes : l < k => base'[Plan[l].name] + Plan[l].n <= base'[Plan[k].name]
        <4> SUFFICES ASSUME NEW l \in Takes, l < k
                     PROVE  base'[Plan[l].name] + Plan[l].n <= base'[Plan[k].name]
          OBVIOUS
        <4>1. l # at /\ l < at
          BY <1>1, <1>6, <2>1
        <4>2. base[Plan[l].name] + Plan[l].n <= top
          BY <3>1, <4>1
        <4>3. base'[Plan[l].name] = base[Plan[l].name]
          BY <1>5, <4>1
        <4> QED BY <1>4, <2>1, <4>2, <4>3
      <3>3. base'[Plan[k].name] = top /\ 1 <= top /\ top + Plan[k].n <= top'
        BY <1>1, <1>2, <1>4, <2>1 DEF PlanInv
      <3> QED BY <3>2, <3>3
    <2>2. CASE k # at
      <3>1. k < at
        BY <1>1, <1>6, <2>2
      <3>2. /\ 1 <= base[Plan[k].name] /\ base[Plan[k].name] + Plan[k].n <= top
            /\ \A l \in Takes : l < k => base[Plan[l].name] + Plan[l].n <= base[Plan[k].name]
        BY <3>1 DEF PlanInv, Laid
      <3>3. base'[Plan[k].name] = base[Plan[k].name]
        BY <1>5, <2>2
      <3>4. \A l \in Takes : l < k => base'[Plan[l].name] = base[Plan[l].name]
        BY <1>1, <1>5, <1>6, <3>1
      <3>5. base[Plan[k].name] + Plan[k].n <= top'
        BY <1>3, <1>6, <3>2 DEF PlanInv
      <3> QED BY <3>2, <3>3, <3>4, <3>5
    <2> QED BY <2>1, <2>2
  <1>8. at \notin 3..4 /\ at \notin 7..8 /\ at # 1 /\ at # 5
    BY <1>2 DEF Takes
  <1>9. loaded' = {f \in {"kernel", "user"} : at' > IF f = "kernel" THEN 3 ELSE 7}
    BY <1>1, <1>8 DEF PlanInv
  <1>10. open' = {f \in {"kernel", "user"} : at' \in IF f = "kernel" THEN 2..4 ELSE 6..8}
    BY <1>1, <1>8 DEF PlanInv
  <1> QED BY <1>1, <1>3, <1>4, <1>7, <1>9, <1>10 DEF PlanInv

\* The files: at is at none of the steps that take pages.
LEMMA FileStep ==
    ASSUME PlanInv, OpenFile \/ LoadBinaryFileInBuffer \/ CloseFile
    PROVE  PlanInv'
  <1>1. /\ pc = "plan" /\ pc' = pc /\ at \in 1..16 /\ at' = at + 1
        /\ UNCHANGED <<base, top>>
    BY PlanSteps DEF OpenFile, LoadBinaryFileInBuffer, CloseFile, Doing, Done, PlanInv
  <1>2. Plan[at].op # "pages"
    BY DEF OpenFile, LoadBinaryFileInBuffer, CloseFile, Doing
  <1>3. at \notin Takes
    BY <1>1, <1>2, PlanFacts
  <1>4. Laid'
    <2>1. \A k \in Takes : k < at + 1 => k < at
      BY <1>1, <1>3 DEF Takes
    <2> QED BY <1>1, <2>1 DEF PlanInv, Laid
  <1> USE <1>1
  <1>5. CASE OpenFile
    <2>1. at \in {1, 5} /\ open' = open \cup {Plan[at].name} /\ loaded' = loaded
      BY <1>5, PlanFacts DEF OpenFile, Doing
    <2>2. Plan[at].name = IF at = 1 THEN "kernel" ELSE "user"
      BY <2>1, PlanFacts
    <2> QED BY <1>4, <2>1, <2>2 DEF PlanInv
  <1>6. CASE LoadBinaryFileInBuffer
    <2>1. at \in {3, 7} /\ loaded' = loaded \cup {Plan[at].name} /\ open' = open
      BY <1>6, PlanFacts DEF LoadBinaryFileInBuffer, Doing
    <2>2. Plan[at].name = IF at = 3 THEN "kernel" ELSE "user"
      BY <2>1, PlanFacts
    <2> QED BY <1>4, <2>1, <2>2 DEF PlanInv
  <1>7. CASE CloseFile
    <2>1. at \in {4, 8} /\ open' = open \ {Plan[at].name} /\ loaded' = loaded
      BY <1>7, PlanFacts DEF CloseFile, Doing
    <2>2. Plan[at].name = IF at = 4 THEN "kernel" ELSE "user"
      BY <2>1, PlanFacts
    <2> QED BY <1>4, <2>1, <2>2 DEF PlanInv
  <1> QED BY <1>5, <1>6, <1>7

LEMMA PlanStep == HookInv /\ PlanInv /\ [Next]_vars => PlanInv'
  <1> SUFFICES ASSUME HookInv, PlanInv, [Next]_vars PROVE PlanInv'
    OBVIOUS
  <1>1. CASE TakePages \/ OpenFile \/ LoadBinaryFileInBuffer \/ CloseFile
    BY <1>1, TakeStep, FileStep
  <1>2. CASE UNCHANGED <<at, open, loaded, base, top>> /\ (pc' \notin {"plan", "failed"} => at = 17)
    BY <1>2 DEF PlanInv, Laid
  <1>3. CASE GiveUp
    BY <1>2, <1>3 DEF GiveUp
  <1>4. CASE SetGraphicsMode
    BY <1>2, <1>4, PlanSteps DEF SetGraphicsMode
  <1>5. CASE QuerySize \/ AllocMap \/ QueryMap \/ ExitBootServices \/ FreeMap
             \/ HookFailed \/ CallKernel
    <2>1. pc \notin {"plan", "failed"}
      BY <1>5 DEF QuerySize, AllocMap, QueryMap, ExitBootServices, FreeMap, HookFailed,
                  CallKernel
    <2>2. at = 17
      BY <2>1 DEF PlanInv
    <2>3. UNCHANGED <<at, open, loaded, base, top>>
      BY <1>5 DEF QuerySize, AllocMap, QueryMap, ExitBootServices, FreeMap, HookFailed,
                  CallKernel, Goto, Refused
    <2> QED BY <1>2, <2>2, <2>3
  <1>6. CASE FirmwareEvent \/ UNCHANGED vars
    <2>1. UNCHANGED plan
      BY <1>6 DEF FirmwareEvent, vars
    <2> QED BY <1>2, <2>1 DEF plan, PlanInv
  <1> QED BY <1>1, <1>3, <1>4, <1>5, <1>6 DEF Next, Loader

\* The inductive invariant of the plan: which images are loaded and which
\* files are open at each step of it, and where the buffers lie.
THEOREM PlanInvariance == Spec => []PlanInv
  <1> QED BY PlanInit, PlanStep, HookInvariance, PTL DEF Spec

\* A range that kernel_start is given is what one step of the plan took, or
\* one page of the two it took.
LEMMA GivenIsTaken ==
    ASSUME NEW r \in Given
    PROVE  \E k \in Takes :
             LET b == Plan[k].name
             IN  \/ k \notin {11, 16} /\ r = <<b, base[b], base[b] + Plan[k].n>>
                 \/ /\ k \in {11, 16} /\ Plan[k].n = 2
                    /\ r \in {<<b, base[b], base[b] + 1>>, <<b, base[b] + 1, base[b] + 2>>}
  <1> DEFINE Whole(b, n) == r = <<b, base[b], base[b] + n>>
             Half(b) == r \in {<<b, base[b], base[b] + 1>>, <<b, base[b] + 1, base[b] + 2>>}
  <1>1. \/ Whole("kernel", Pages["kernel"]) \/ Whole("user", Pages["user"])
        \/ Whole("userTables", Pages["userTables"]) \/ Whole("kernelTables", FixedTables)
        \/ Half("tss") \/ Half("stacks")
        \/ Whole("tls", 1) \/ Whole("shared", 1) \/ Whole("grants", 1) \/ Whole("extra", 1)
    <2>1. \/ r \in UNION {{<<b, base[b], base[b] + Pages[b]>>} : b \in {"kernel", "user", "userTables"}}
          \/ r \in {<<"kernelTables", base["kernelTables"], base["kernelTables"] + FixedTables>>}
          \/ Half("tss") \/ Half("stacks")
          \/ r \in UNION {{<<b, base[b], base[b] + 1>>} : b \in {"tls", "shared", "grants", "extra"}}
      BY DEF Given
    <2>2. CASE r \in UNION {{<<b, base[b], base[b] + Pages[b]>>} : b \in {"kernel", "user", "userTables"}}
      BY <2>2
    <2>3. CASE r \in UNION {{<<b, base[b], base[b] + 1>>} : b \in {"tls", "shared", "grants", "extra"}}
      BY <2>3
    <2> QED BY <2>1, <2>2, <2>3
  <1>2. /\ Plan[2].name = "kernel" /\ Plan[2].n = Pages["kernel"]
        /\ Plan[6].name = "user" /\ Plan[6].n = Pages["user"]
        /\ Plan[9].name = "kernelTables" /\ Plan[9].n = FixedTables
        /\ Plan[10].name = "userTables" /\ Plan[10].n = Pages["userTables"]
    BY PlanSteps DEF Entry
  <1>3. /\ Plan[11].name = "tss" /\ Plan[11].n = 2
        /\ Plan[12].name = "tls" /\ Plan[12].n = 1
        /\ Plan[13].name = "shared" /\ Plan[13].n = 1
        /\ Plan[14].name = "grants" /\ Plan[14].n = 1
        /\ Plan[15].name = "extra" /\ Plan[15].n = 1
        /\ Plan[16].name = "stacks" /\ Plan[16].n = 2
    BY PlanSteps DEF Entry
  <1>4. /\ 2 \in Takes /\ 6 \in Takes /\ 9 \in Takes /\ 10 \in Takes /\ 11 \in Takes
        /\ 12 \in Takes /\ 13 \in Takes /\ 14 \in Takes /\ 15 \in Takes /\ 16 \in Takes
    BY DEF Takes
  <1>6. \/ \E k \in Takes : k \notin {11, 16} /\ Whole(Plan[k].name, Plan[k].n)
        \/ \E k \in Takes : k \in {11, 16} /\ Plan[k].n = 2 /\ Half(Plan[k].name)
    <2> HIDE DEF Whole, Half
    <2> QED BY <1>1, <1>2, <1>3, <1>4
  <1> QED BY <1>6

LEMMA Apart == HookInv /\ PlanInv => BuffersApart
  <1> SUFFICES ASSUME PlanInv, pc = "kernel"
               PROVE  /\ \A r, s \in Given : r = s \/ r[3] <= s[2] \/ s[3] <= r[2]
                      /\ \A r \in Given : 1 <= r[2] /\ r[3] <= top
                      /\ loaded = {"kernel", "user"} /\ open = {}
    BY DEF BuffersApart
  <1>1. at = 17
    BY DEF PlanInv
  <1>2. loaded = {"kernel", "user"} /\ open = {}
    BY <1>1 DEF PlanInv
  <1> DEFINE lo(k) == base[Plan[k].name]
             hi(k) == base[Plan[k].name] + Plan[k].n
             Of(r, k) == \/ k \notin {11, 16} /\ r = <<Plan[k].name, lo(k), hi(k)>>
                         \/ /\ k \in {11, 16} /\ Plan[k].n = 2
                            /\ r \in {<<Plan[k].name, lo(k), lo(k) + 1>>,
                                      <<Plan[k].name, lo(k) + 1, lo(k) + 2>>}
  <1>3. \A k \in Takes : k \in Nat /\ lo(k) \in Nat /\ hi(k) \in Nat /\ Plan[k].n \in Nat
    BY PlanFacts DEF Takes, PlanInv
  <1>4. \A k \in Takes : 1 <= lo(k) /\ hi(k) <= top
    BY <1>1 DEF PlanInv, Laid, Takes
  <1>5. \A k, l \in Takes : l < k => hi(l) <= lo(k)
    BY <1>1 DEF PlanInv, Laid, Takes
  <1>6. \A r \in Given : \E k \in Takes : Of(r, k)
    BY GivenIsTaken
  <1>7. \A r \in Given, k \in Takes : Of(r, k) =>
           /\ r[2] \in Nat /\ r[3] \in Nat /\ lo(k) <= r[2] /\ r[3] <= hi(k)
    <2> SUFFICES ASSUME NEW r \in Given, NEW k \in Takes, Of(r, k)
                 PROVE  r[2] \in Nat /\ r[3] \in Nat /\ lo(k) <= r[2] /\ r[3] <= hi(k)
      OBVIOUS
    <2>1. r[2] \in {lo(k), lo(k) + 1}
      OBVIOUS
    <2>2. \/ r[3] = hi(k) /\ r[2] = lo(k)
          \/ Plan[k].n = 2 /\ r[3] \in {lo(k) + 1, lo(k) + 2}
      OBVIOUS
    <2>3. lo(k) \in Nat /\ hi(k) = lo(k) + Plan[k].n /\ Plan[k].n \in Nat
      BY <1>3
    <2> HIDE DEF lo, hi, Of
    <2> QED BY <2>1, <2>2, <2>3
  <1>8. ASSUME NEW r \in Given, NEW s \in Given
        PROVE  r = s \/ r[3] <= s[2] \/ s[3] <= r[2]
    <2>1. PICK k \in Takes, l \in Takes : Of(r, k) /\ Of(s, l)
      BY <1>6
    <2>2. CASE k = l
      <3>1. lo(k) \in Nat
        BY <1>3
      <3>2. CASE k \in {11, 16}
        <4>1. /\ r \in {<<Plan[k].name, lo(k), lo(k) + 1>>, <<Plan[k].name, lo(k) + 1, lo(k) + 2>>}
              /\ s \in {<<Plan[k].name, lo(k), lo(k) + 1>>, <<Plan[k].name, lo(k) + 1, lo(k) + 2>>}
          BY <2>1, <2>2, <3>2
        <4> HIDE DEF lo, Of
        <4>2. CASE r = <<Plan[k].name, lo(k), lo(k) + 1>>
          BY <3>1, <4>1, <4>2
        <4>3. CASE r = <<Plan[k].name, lo(k) + 1, lo(k) + 2>>
          BY <3>1, <4>1, <4>3
        <4> QED BY <4>1, <4>2, <4>3
      <3>3. CASE k \notin {11, 16}
        BY <2>1, <2>2, <3>3
      <3> QED BY <3>2, <3>3
    <2>3. CASE k < l
      <3>1. r[3] <= hi(k) /\ hi(k) <= lo(l) /\ lo(l) <= s[2]
        BY <1>5, <1>7, <2>1, <2>3
      <3>2. r[3] \in Nat /\ s[2] \in Nat /\ hi(k) \in Nat /\ lo(l) \in Nat
        BY <1>3, <1>7, <2>1
      <3> HIDE DEF lo, hi, Of
      <3> QED BY <3>1, <3>2
    <2>4. CASE l < k
      <3>1. s[3] <= hi(l) /\ hi(l) <= lo(k) /\ lo(k) <= r[2]
        BY <1>5, <1>7, <2>1, <2>4
      <3>2. s[3] \in Nat /\ r[2] \in Nat /\ hi(l) \in Nat /\ lo(k) \in Nat
        BY <1>3, <1>7, <2>1
      <3> HIDE DEF lo, hi, Of
      <3> QED BY <3>1, <3>2
    <2>5. k = l \/ k < l \/ l < k
      BY <1>3
    <2> QED BY <2>2, <2>3, <2>4, <2>5
  <1>9. \A r \in Given : 1 <= r[2] /\ r[3] <= top
    <2> SUFFICES ASSUME NEW r \in Given PROVE 1 <= r[2] /\ r[3] <= top
      OBVIOUS
    <2>1. PICK k \in Takes : Of(r, k)
      BY <1>6
    <2>2. lo(k) <= r[2] /\ r[3] <= hi(k) /\ 1 <= lo(k) /\ hi(k) <= top
      BY <1>4, <1>7, <2>1
    <2>3. lo(k) \in Nat /\ hi(k) \in Nat /\ r[2] \in Nat /\ r[3] \in Nat /\ top \in Nat
      BY <1>3, <1>7, <2>1 DEF PlanInv
    <2> HIDE DEF lo, hi, Of
    <2> QED BY <2>2, <2>3
  <1> QED BY <1>2, <1>8, <1>9

\* boot.c:377-475: whatever the sizes of the files and of the tables, no two
\* of the buffers that kernel_start is given overlap.
THEOREM NoOverlap == Spec => []BuffersApart
  <1> QED BY Apart, HookInvariance, PlanInvariance, PTL

----------------------------------------------------------------------------
(* The types.                                                              *)

\* The part of TypeOK that HookInv and PlanInv leave open.
Bounds ==
    /\ mode \in {"unset", "asked", "default", "none"}
    /\ cap \in 0..MaxNeed /\ size \in 0..MaxNeed /\ need \in 1..MaxNeed
    /\ fresh \in BOOLEAN /\ exited \in BOOLEAN /\ astray \in BOOLEAN
    /\ events \in 0..MaxEvents

LEMMA BoundsInit == Init => Bounds
  <1>1. MaxNeed \in Nat /\ MaxEvents \in Nat
    BY BootAssumption
  <1>2. 0 \in 0..MaxNeed /\ 0 \in 0..MaxEvents
    BY <1>1
  <1> QED BY <1>2 DEF Init, Bounds

LEMMA QueryBounds ==
    ASSUME Bounds, HookInv, GetMemoryMap, mode' = mode
    PROVE  Bounds'
  <1>1. UNCHANGED <<cap, need, exited, events>> /\ fresh' \in BOOLEAN
    BY DEF GetMemoryMap, Bounds
  <1>2. size' \in 0..MaxNeed
    BY BootAssumption DEF GetMemoryMap, Bounds
  <1>3. astray' \in BOOLEAN
    BY DEF GetMemoryMap, Hand, Bounds
  <1> QED BY <1>1, <1>2, <1>3 DEF Bounds

LEMMA BoundsStep == HookInv /\ Bounds /\ [Next]_vars => Bounds'
  <1> SUFFICES ASSUME HookInv, Bounds, [Next]_vars PROVE Bounds'
    OBVIOUS
  <1>1. CASE GiveUp \/ OpenFile \/ TakePages \/ LoadBinaryFileInBuffer \/ CloseFile
             \/ HookFailed \/ CallKernel \/ UNCHANGED vars
    <2>1. UNCHANGED <<mode, hook, firmware, astray>>
      BY <1>1 DEF GiveUp, OpenFile, TakePages, LoadBinaryFileInBuffer, CloseFile,
                  HookFailed, CallKernel, Goto, vars, plan
    <2> QED BY <2>1 DEF hook, firmware, Bounds
  <1>2. CASE SetGraphicsMode
    <2>1. mode' \in {"unset", "asked", "default", "none"}
      BY <1>2 DEF SetGraphicsMode, ModeOf
    <2> QED BY <1>2, <2>1 DEF SetGraphicsMode, hook, firmware, Bounds
  <1>3. CASE QuerySize \/ QueryMap
    <2>1. mode' = mode
      BY <1>3 DEF QuerySize, QueryMap, Goto, Refused
    <2>2. CASE UNCHANGED <<hook, firmware>> /\ Hand
      <3>1. astray' \in BOOLEAN
        BY <2>2 DEF Hand, Bounds
      <3> QED BY <2>1, <2>2, <3>1 DEF hook, firmware, Bounds
    <2>3. GetMemoryMap \/ (UNCHANGED <<hook, firmware>> /\ Hand)
      BY <1>3 DEF QuerySize, QueryMap, Refused
    <2> QED BY <2>1, <2>2, <2>3, QueryBounds
  <1>4. CASE AllocMap
    <2>1. UNCHANGED <<mode, size, exited, events, astray>>
      BY <1>4 DEF AllocMap, Goto
    <2>2. cap' \in 0..MaxNeed /\ need' \in 1..MaxNeed /\ fresh' \in BOOLEAN
      BY <1>4 DEF AllocMap, MapChanges, Bounds
    <2> QED BY <2>1, <2>2 DEF Bounds
  <1>5. CASE ExitBootServices
    BY <1>5 DEF ExitBootServices, Goto, Refused, hook, firmware, Bounds
  <1>6. CASE FreeMap
    <2>1. UNCHANGED <<mode, cap, size, exited, events>>
      BY <1>6 DEF FreeMap, Goto
    <2>2. need' \in 1..MaxNeed /\ fresh' \in BOOLEAN /\ astray' \in BOOLEAN
      BY <1>6 DEF FreeMap, MapChanges, Hand, Bounds
    <2> QED BY <2>1, <2>2 DEF Bounds
  <1>7. CASE FirmwareEvent
    <2>1. UNCHANGED <<mode, cap, size, exited, astray>>
      BY <1>7 DEF FirmwareEvent, plan, hook
    <2>2. need' \in 1..MaxNeed /\ fresh' \in BOOLEAN
      BY <1>7 DEF FirmwareEvent, MapChanges
    <2>3. events' \in 0..MaxEvents
      <3>1. MaxEvents \in Nat /\ events \in 0..MaxEvents
        BY BootAssumption DEF Bounds
      <3>2. events < MaxEvents /\ events' = events + 1
        BY <1>7 DEF FirmwareEvent
      <3> QED BY <3>1, <3>2
    <2> QED BY <2>1, <2>2, <2>3 DEF Bounds
  <1> QED BY <1>1, <1>2, <1>3, <1>4, <1>5, <1>6, <1>7 DEF Next, Loader

\* boot.c's variables keep to their ranges, for every plan and every firmware.
THEOREM Typed == Spec => []TypeOK
  <1>1. HookInv /\ PlanInv /\ Bounds => TypeOK
    <2> SUFFICES ASSUME HookInv, PlanInv, Bounds PROVE TypeOK
      OBVIOUS
    <2>1. at \in 1..(Len(Plan) + 1) /\ base \in [Buffers -> Nat] /\ top \in Nat
      BY PlanSteps, PlanFacts DEF PlanInv
    <2>2. open \subseteq {"kernel", "user"} /\ loaded \subseteq {"kernel", "user"}
      BY DEF PlanInv
    <2>3. pc \in Labels /\ buf \in {"null", "live", "freed"} /\ pool \in Nat
      BY DEF HookInv
    <2> QED BY <2>1, <2>2, <2>3 DEF TypeOK, Bounds
  <1>2. Spec => []Bounds
    BY BoundsInit, BoundsStep, HookInvariance, PTL DEF Spec
  <1> QED BY <1>1, <1>2, HookInvariance, PlanInvariance, PTL

----------------------------------------------------------------------------
(* The loader comes to an end.                                             *)

\* The steps that efi_main still takes if the firmware's map is left alone:
\* with a key that is not current the hook goes round once more.
Ahead ==
    CASE pc = "plan" -> Len(Plan) + 9 - at
      [] pc = "exit" -> IF fresh THEN 4 ELSE 9
      [] pc = "retry" -> 8
      [] pc = "query" -> 7
      [] pc = "alloc" -> 6
      [] pc = "map" -> 5
      [] pc = "drop" -> 3
      [] pc \in {"error", "success"} -> 2
      [] OTHER -> 0

\* A change of the map by the firmware costs one more round.
StepsLeft == 10 * (MaxEvents - events) + Ahead

LEMMA AheadType == TypeOK => Ahead \in Nat /\ StepsLeft \in Nat
  <1> SUFFICES ASSUME TypeOK PROVE Ahead \in Nat /\ StepsLeft \in Nat
    OBVIOUS
  <1>1. /\ Len(Plan) = 16 /\ at \in 1..17 /\ pc \in Labels /\ fresh \in BOOLEAN
        /\ MaxEvents \in Nat /\ events \in 0..MaxEvents
    BY PlanSteps, BootAssumption DEF TypeOK
  <1>2. Ahead \in Nat
    BY <1>1 DEF Ahead, Labels
  <1>3. 10 * (MaxEvents - events) \in Nat
    BY <1>1
  <1> QED BY <1>2, <1>3 DEF StepsLeft

\* Every step of the loader is one less ahead.
LEMMA LoaderAdvances ==
    ASSUME TypeOK, Loader
    PROVE  Ahead' < Ahead /\ events' = events
  <1>1. Len(Plan) = 16 /\ Len(Plan)' = 16 /\ at \in 1..17
    <2>1. Plan' = Plan
      BY DEF Plan, Load, Take
    <2> QED BY <2>1, PlanSteps DEF TypeOK
  <1>2. CASE GiveUp
    <2>1. pc = "plan" /\ pc' = "failed" /\ events' = events
      BY <1>2 DEF GiveUp, firmware
    <2> QED BY <1>1, <2>1 DEF Ahead
  <1>3. CASE OpenFile \/ TakePages \/ LoadBinaryFileInBuffer \/ CloseFile
    <2>1. pc = "plan" /\ pc' = "plan" /\ at' = at + 1 /\ events' = events
      BY <1>3 DEF OpenFile, TakePages, LoadBinaryFileInBuffer, CloseFile, Doing, Done,
                  firmware
    <2> QED BY <1>1, <2>1 DEF Ahead
  <1>4. CASE SetGraphicsMode
    <2>1. pc = "plan" /\ at = Len(Plan) + 1 /\ pc' = "query" /\ events' = events
      BY <1>4 DEF SetGraphicsMode, firmware
    <2> QED BY <1>1, <2>1 DEF Ahead
  <1>5. CASE QuerySize
    <2>1. pc = "query" /\ pc' \in {"map", "alloc", "error"} /\ events' = events
      BY <1>5 DEF QuerySize, Goto, GetMemoryMap, Refused, firmware
    <2> QED BY <2>1 DEF Ahead
  <1>6. CASE AllocMap
    <2>1. pc = "alloc" /\ pc' = "map" /\ events' = events
      BY <1>6 DEF AllocMap, Goto
    <2> QED BY <2>1 DEF Ahead
  <1>7. CASE QueryMap
    <2>1. pc = "map" /\ events' = events
          /\ (pc' = "drop" \/ (pc' = "exit" /\ fresh' = TRUE))
      BY <1>7 DEF QueryMap, Goto, GetMemoryMap, Refused, firmware
    <2> QED BY <2>1 DEF Ahead
  <1>8. CASE ExitBootServices
    <2>1. /\ pc = "exit" /\ events' = events
          /\ pc' = "drop" \/ pc' = IF fresh THEN "success" ELSE "retry"
      BY <1>8 DEF ExitBootServices, Goto, Refused, firmware
    <2> QED BY <2>1 DEF Ahead, TypeOK
  <1>9. CASE FreeMap
    <2>1. /\ \/ pc = "drop" /\ pc' = "error"
             \/ pc = "retry" /\ pc' = "query"
          /\ events' = events
      BY <1>9 DEF FreeMap, Goto
    <2> QED BY <2>1 DEF Ahead
  <1>10. CASE HookFailed \/ CallKernel
    <2>1. /\ pc \in {"error", "success"} /\ pc' \in {"failed", "kernel"}
          /\ events' = events
      BY <1>10 DEF HookFailed, CallKernel, Goto, firmware
    <2> QED BY <2>1 DEF Ahead
  <1> QED BY <1>2, <1>3, <1>4, <1>5, <1>6, <1>7, <1>8, <1>9, <1>10 DEF Loader

LEMMA StepsDecrease ==
    TypeOK /\ Ahead \in Nat /\ (TypeOK /\ Ahead \in Nat)' /\ Next => StepsLeft' < StepsLeft
  <1> SUFFICES ASSUME TypeOK, Ahead \in Nat, (TypeOK /\ Ahead \in Nat)', Next
               PROVE  StepsLeft' < StepsLeft
    OBVIOUS
  <1>0. Ahead' \in Nat /\ events' \in Nat
    <2>1. MaxEvents \in Nat /\ events' \in 0..MaxEvents
      BY BootAssumption DEF TypeOK
    <2> QED BY <2>1
  <1>1. PICK m \in Nat, e \in Nat, a \in Nat, f \in Nat, b \in Nat :
            m = MaxEvents /\ e = events /\ a = Ahead /\ f = events' /\ b = Ahead'
    BY <1>0, BootAssumption DEF TypeOK
  <1>2. StepsLeft = 10 * (m - e) + a /\ StepsLeft' = 10 * (m - f) + b
    BY <1>1 DEF StepsLeft
  <1>3. CASE Loader
    <2>1. b < a /\ f = e
      BY <1>1, <1>3, LoaderAdvances
    <2> QED BY <1>2, <2>1
  <1>4. CASE FirmwareEvent
    <2>1. f = e + 1 /\ pc' = pc /\ at' = at
      BY <1>1, <1>4 DEF FirmwareEvent, plan
    <2>2. b <= a + 5
      <3>1. Plan' = Plan
        BY DEF Plan, Load, Take
      <3>2. Len(Plan) = 16 /\ Len(Plan)' = 16 /\ at \in Nat
        BY <3>1, PlanSteps DEF TypeOK
      <3>3. Ahead' <= Ahead + 5
        BY <2>1, <3>2 DEF Ahead
      <3> QED BY <1>1, <3>3
    <2> QED BY <1>2, <2>1, <2>2
  <1> QED BY <1>3, <1>4 DEF Next

\* boot.c:263-288: ExitBootServicesHook goes round again only as often as the
\* firmware changes its map between the loader's own calls, and each round ends:
\* every step of the loader or the firmware leaves fewer to come.
THEOREM RetriesRunOut == Spec => [](StepsLeft \in Nat) /\ [][StepsLeft' < StepsLeft]_vars
  <1>1. TypeOK => Ahead \in Nat /\ StepsLeft \in Nat
    BY AheadType
  <1>2. TypeOK /\ Ahead \in Nat /\ (TypeOK /\ Ahead \in Nat)' /\ [Next]_vars
        => [StepsLeft' < StepsLeft]_vars
    BY StepsDecrease
  <1> QED BY <1>1, <1>2, Typed, PTL DEF Spec
=============================================================================
