---------------------------- MODULE PageTables -----------------------------
(***************************************************************************)
(* The page tables: what the boot loader allocates for them                *)
(* (CalculateNumPagesUserPageTable), how the kernel fills them             *)
(* (page_table_init_kernel, page_table_init_user), and how the page-fault  *)
(* handler fills the user tables again while CR3 points at them.           *)
(*                                                                         *)
(* A table has Radix entries in place of 512, and the kernel maps Giga     *)
(* page directories in place of 4.  A step is one store into a table.      *)
(* Page 0 of memory stands for the kernel image.                           *)
(***************************************************************************)
EXTENDS Integers, Sequences

CONSTANTS
    Radix,        \* entries of a table
    Giga,         \* page directories of the kernel's mapping
    BinaryPages,  \* possible sizes of the user program, in pages
    MaxFaults     \* bound: page faults taken

ASSUME RadixAssumption ==
    /\ Radix \in Nat /\ Radix > 3
    /\ Giga \in 1..Radix
    /\ BinaryPages \subseteq 1..Radix
    /\ MaxFaults \in Nat

VARIABLES
    mem,      \* memory, by words
    cr3,      \* page of the top table in use, -1 for the firmware's
    pc,
    todo,     \* the stores left of the builder that is running
    redef,    \* argument of the last page_table_init_user
    info,     \* what the loader passes to the kernel
    faults    \* page faults taken so far

vars == <<mem, cr3, pc, todo, redef, info, faults>>

Entry(page, user) == [page |-> page, user |-> user]
Empty == Entry(-1, FALSE)
Junk  == Entry(-2, FALSE)    \* memory nobody has written

PagesFor(words) == (words + Radix - 1) \div Radix
PhysicalPages == Giga * Radix * Radix

----------------------------------------------------------------------------
(* The loader.                                                             *)

StackPages == 1
KernelTablePages == Giga * Radix + Giga + 2

\* Mutant: the counts are rounded down.
Levels_Floor(ptes) ==
    LET pdes == ptes \div Radix
        pdpes == pdes \div Radix
    IN  [ptes |-> ptes, pdes |-> pdes, pdpes |-> pdpes,
         pml4es |-> pdpes \div Radix]

Levels(ptes) ==
    LET pdes == ptes \div Radix + 1
        pdpes == pdes \div Radix + 1
    IN  [ptes |-> ptes, pdes |-> pdes, pdpes |-> pdpes,
         pml4es |-> pdpes \div Radix + 1]

UserTablePages(n) == PagesFor(n.ptes) + PagesFor(n.pdes) + PagesFor(n.pdpes)
                     + PagesFor(n.pml4es)

\* The buffers, in the order in which efi_main allocates them.
Layout(binary) ==
    LET n == Levels(binary + StackPages)
        kernelPt == 1 + binary
        userPt == kernelPt + KernelTablePages
        tss == userPt + UserTablePages(n)
    IN  [n |-> n, app |-> 1, kernelPt |-> kernelPt, userPt |-> userPt,
         tss |-> tss, tls |-> tss + 2, extra |-> tss + 3,
         kernelStack |-> tss + 4, userStack |-> tss + 5]

\* The memory that the kernel maps holds every buffer.
ASSUME MemoryAssumption ==
    \A binary \in BinaryPages : Layout(binary).userStack < PhysicalPages

----------------------------------------------------------------------------
(* The builders: their stores in order, each a word and its new entry.     *)

\* for (i = from; i < to; i++) table[i] = Value(i);  table starts a page.
Loop(table, from, to, Value(_)) ==
    [j \in 1..(to - from) |-> <<table * Radix + from + j - 1,
                                Value(from + j - 1)>>]

Clear(table, from, to) == Loop(table, from, to, LAMBDA i : Empty)

KernelStores ==
    LET pte  == info.kernelPt
        pde  == pte + Giga * Radix
        pdpe == pde + Giga
        pml4 == pdpe + 1
    IN  Loop(pte, 0, PhysicalPages, LAMBDA i : Entry(i, FALSE))
        \o Loop(pde, 0, Giga * Radix, LAMBDA j : Entry(pte + j, FALSE))
        \o Loop(pdpe, 0, Giga, LAMBDA k : Entry(pde + k, FALSE))
        \o Clear(pdpe, Giga, Radix)
        \o Loop(pml4, 0, 1, LAMBDA m : Entry(pdpe + m, FALSE))
        \o Clear(pml4, 1, Radix - 1)

KernelRoot == info.kernelPt + KernelTablePages - 1

UserPte  == info.userPt
UserPde  == UserPte + 1
UserPdpe == UserPde + 1
UserPml4 == UserPdpe + 1

\* Mutant: the index of the program's pages is not made relative.
AppPage_Absolute(i) == info.app + i
AppPage(i) == info.app + (i - StackPages)

PteStores(extra) ==
    Loop(UserPte, 0, StackPages, LAMBDA i : Entry(info.userStack + i, TRUE))
    \o Loop(UserPte, StackPages, info.n.ptes, LAMBDA i : Entry(AppPage(i), TRUE))
    \o Clear(UserPte, info.n.ptes, Radix)
    \o Loop(UserPte, Radix - 2, Radix - 1, LAMBDA i : Entry(info.tls, TRUE))
    \o (IF extra
        THEN Loop(UserPte, Radix - 1, Radix, LAMBDA i : Entry(info.extra, TRUE))
        ELSE <<>>)

PdStores ==
    Loop(UserPde, 0, info.n.pdes, LAMBDA j : Entry(UserPte + j, TRUE))
    \o Clear(UserPde, info.n.pdes, Radix)
    \o Clear(UserPdpe, 0, Radix - info.n.pdpes)
    \o Loop(UserPdpe, Radix - 1, Radix, LAMBDA k : Entry(UserPde, TRUE))

\* Mutant: the top table is cleared before the kernel's entry is copied.
Pml4Stores_ClearFirst ==
    Clear(UserPml4, 0, Radix - info.n.pml4es)
    \o Loop(UserPml4, 0, 1, LAMBDA m : mem[KernelRoot * Radix])
    \o Loop(UserPml4, Radix - 1, Radix, LAMBDA m : Entry(UserPdpe, TRUE))

Pml4Stores ==
    Loop(UserPml4, 0, 1, LAMBDA m : mem[KernelRoot * Radix])
    \o Clear(UserPml4, 1, Radix - info.n.pml4es)
    \o Loop(UserPml4, Radix - 1, Radix, LAMBDA m : Entry(UserPdpe, TRUE))

UserStores(extra) == PteStores(extra) \o PdStores \o Pml4Stores

----------------------------------------------------------------------------
(* The kernel.                                                             *)

Init ==
    \E binary \in BinaryPages :
        /\ info = Layout(binary)
        /\ mem = [w \in 0..(PhysicalPages * Radix - 1) |-> Junk]
        /\ cr3 = -1 /\ pc = "start" /\ todo = <<>> /\ redef = FALSE
        /\ faults = 0

\* One store of the builder that is running.
Store ==
    /\ pc \in {"kernel", "user"} /\ todo # <<>>
    /\ mem' = [mem EXCEPT ![Head(todo)[1]] = Head(todo)[2]]
    /\ todo' = Tail(todo)
    /\ UNCHANGED <<cr3, pc, redef, info, faults>>

PageTableInitKernel ==
    /\ pc = "start" /\ pc' = "kernel"
    /\ todo' = KernelStores
    /\ UNCHANGED <<mem, cr3, redef, info, faults>>

PageTableInitUser(extra) ==
    /\ pc' = "user" /\ redef' = extra
    /\ todo' = UserStores(extra)
    /\ UNCHANGED <<mem, cr3, info>>

FirstPageTableInitUser ==
    /\ pc = "kernel" /\ todo = <<>>
    /\ PageTableInitUser(FALSE)
    /\ UNCHANGED faults

\* Mutant: the kernel's own tables are loaded.
WriteCr3_Kernel ==
    /\ pc = "user" /\ todo = <<>>
    /\ cr3' = KernelRoot /\ pc' = "ring3"
    /\ UNCHANGED <<mem, todo, redef, info, faults>>

WriteCr3 ==
    /\ pc = "user" /\ todo = <<>>
    /\ cr3' = UserPml4 /\ pc' = "ring3"
    /\ UNCHANGED <<mem, todo, redef, info, faults>>

\* Mutant: the handler leaves out the extra page.
PageFaultHandler_Same ==
    /\ pc = "ring3" /\ faults < MaxFaults
    /\ PageTableInitUser(FALSE)
    /\ faults' = faults + 1

PageFaultHandler ==
    /\ pc = "ring3" /\ faults < MaxFaults
    /\ PageTableInitUser(TRUE)
    /\ faults' = faults + 1

\* The user program runs on, without faults, for ever.
Ring3 == pc = "ring3" /\ UNCHANGED vars

Next == Store \/ PageTableInitKernel \/ FirstPageTableInitUser \/ WriteCr3
        \/ PageFaultHandler \/ Ring3

Spec == Init /\ [][Next]_vars

----------------------------------------------------------------------------
(* The processor: a page is what four entries lead to, and ring 3 may use  *)
(* it if all four say so.  A virtual page is its four indices.             *)

VirtualPages == [1..4 -> 0..(Radix - 1)]

Follow(e, k) ==
    IF e.page < 0 THEN e
    ELSE LET f == mem[e.page * Radix + k]
         IN  Entry(f.page, e.user /\ f.user)

Walk(root, v) ==
    Follow(Follow(Follow(Follow(Entry(root, TRUE), v[1]), v[2]), v[3]), v[4])

----------------------------------------------------------------------------
(* Properties.                                                             *)

EntryType == [page : -2..(PhysicalPages - 1), user : BOOLEAN]
Words == 0..(PhysicalPages * Radix - 1)

\* The type invariant.
TypeOK ==
    /\ mem \in [Words -> EntryType]
    /\ cr3 \in {-1, UserPml4}
    /\ pc \in {"start", "kernel", "user", "ring3"}
    /\ \A j \in DOMAIN todo : todo[j] \in Words \X EntryType
    /\ redef \in BOOLEAN
    /\ faults \in 0..MaxFaults

\* The addresses the kernel and the user program are written for: memory as
\* it is below, and at the top the stack, the program, the TLS block and,
\* after a fault, the extra page.
Low(v)  == v[1] = 0 /\ v[2] < Giga
High(v) == v[1] = Radix - 1 /\ v[2] = Radix - 1 /\ v[3] = 0
Identity(v) == Entry((v[2] * Radix + v[3]) * Radix + v[4], FALSE)
HighPage(k, extra) ==
    CASE k < StackPages   -> info.userStack + k
      [] k >= StackPages /\ k < info.n.ptes -> info.app + k - StackPages
      [] k >= info.n.ptes /\ k = Radix - 2 -> info.tls
      [] k >= info.n.ptes /\ k = Radix - 1 /\ extra -> info.extra
      [] OTHER -> -1
Intended(v, extra) ==
    CASE Low(v)  -> Identity(v)
      [] High(v) -> LET p == HighPage(v[4], extra) IN Entry(p, p >= 0)
      [] OTHER   -> Empty

\* The handler rewrites the tables it runs on: after every store the
\* kernel's own addresses lead where they did.
KernelStaysMapped ==
    cr3 >= 0 => \A v \in VirtualPages : Low(v) => Walk(cr3, v) = Identity(v)

\* At every store of a rebuild an address of the user program leads where it
\* should or nowhere: never to another page, and never through memory nobody
\* has written.
NoStrayTranslation ==
    cr3 >= 0 => \A v \in VirtualPages :
        LET e == Walk(cr3, v)
        IN  e = Intended(v, TRUE) \/ e.page = -1

\* When the user program runs, the whole address space is the intended one,
\* with the extra page from the first fault on.
AddressSpaceExact ==
    pc = "ring3" => \A v \in VirtualPages :
        Walk(cr3, v) = Intended(v, faults > 0)

\* The builders store only into what the loader has allocated for the
\* tables: the counts of the two programs agree.
StoresInsideTables ==
    \A j \in DOMAIN todo :
        \/ todo[j][1] \div Radix \in
               info.kernelPt..(info.kernelPt + KernelTablePages - 1)
        \/ todo[j][1] \div Radix \in
               info.userPt..(info.userPt + UserTablePages(info.n) - 1)

\* kernel.c:150, "The only caveat is if user_stack + user_app size is > 2mb":
\* a program that fits in one table is mapped.
OneTableIsEnough ==
    (pc = "ring3" /\ info.n.ptes <= Radix) =>
        \A k \in StackPages..(info.n.ptes - 1) :
            Walk(cr3, <<Radix - 1, Radix - 1, 0, k>>).page = AppPage(k)
=============================================================================
