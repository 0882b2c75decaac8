-------------------------------- MODULE Boot -------------------------------
(***************************************************************************)
(* The boot loader of Assignment 3 (boot.c): efi_main loads the kernel and *)
(* the user program, allocates the buffers the kernel will use, sets the   *)
(* graphics mode, leaves boot services and calls the kernel.               *)
(*                                                                         *)
(* A step is one or a few firmware calls.  The firmware's own handlers     *)
(* allocate and free memory between them, and each change of its memory    *)
(* map makes the key of an earlier GetMemoryMap useless.                   *)
(***************************************************************************)
EXTENDS Integers, Sequences, FiniteSets

CONSTANTS
    Pages,        \* pages of each image's file, and of the user page table
    BssPages,     \* pages of the kernel's memory behind its file
    FixedTables,  \* pages of the kernel page table
    GopModes,     \* lists of modes that the graphics output may offer
    MaxNeed,      \* bound: size of the memory map
    MaxEvents     \* bound: times the firmware changes its map by itself

ASSUME BootAssumption ==
    /\ Pages \in [{"kernel", "user", "userTables"} -> Nat]
    /\ FixedTables \in Nat /\ BssPages \in Nat /\ MaxNeed \in Nat \ {0} /\ MaxEvents \in Nat
    /\ GopModes \subseteq Seq({"asked", "other", "unreadable", "unsettable"})

VARIABLES
    pc, at,       \* where efi_main is: a label, and a step of its plan
    open, loaded, \* files that are open, images in memory
    base, top,    \* first page of each buffer, first page still free
    mode,         \* what fb points to: the asked mode's memory, another's, NULL
    buf, cap,     \* memoryMap of ExitBootServicesHook, bytes allocated for it
    size,         \* memoryMapSize
    fresh,        \* memoryMapKey is the firmware's current key
    need,         \* the firmware: bytes its memory map takes
    pool,         \* the firmware: memory map buffers allocated
    exited,       \* the firmware: boot services are terminated
    events,       \* bound
    astray        \* history: the firmware was handed a freed buffer

plan == <<pc, at, open, loaded, base, top, mode>>
hook == <<buf, cap, size>>
firmware == <<fresh, need, pool, exited, events>>
vars == <<plan, hook, firmware, astray>>

----------------------------------------------------------------------------
(* efi_main, up to the hook.                                               *)

Load(file) == << [op |-> "open", name |-> file, n |-> 0],
                 [op |-> "pages", name |-> file, n |-> Pages[file]],
                 [op |-> "read", name |-> file, n |-> 0],
                 [op |-> "close", name |-> file, n |-> 0] >>
Take(name, n) == << [op |-> "pages", name |-> name, n |-> n] >>

\* Mutant: no page for the TSS itself.
Plan_OneTssPage ==
    Load("kernel") \o Load("user")
    \o Take("kernelTables", FixedTables)
    \o Take("userTables", Pages["userTables"])
    \o Take("tss", 1) \o Take("tls", 1) \o Take("shared", 1)
    \o Take("grants", 1) \o Take("extra", 1) \o Take("stacks", 2)

Plan ==
    Load("kernel") \o Load("user")
    \o Take("kernelTables", FixedTables)
    \o Take("userTables", Pages["userTables"])
    \o Take("tss", 2) \o Take("tls", 1) \o Take("shared", 1)
    \o Take("grants", 1) \o Take("extra", 1) \o Take("stacks", 2)

Doing(op) == pc = "plan" /\ at <= Len(Plan) /\ Plan[at].op = op
Done == at' = at + 1 /\ pc' = pc

\* Every one of these calls may fail: efi_main stalls and returns.
GiveUp ==
    /\ pc = "plan" /\ at <= Len(Plan) /\ Plan[at].op # "close"
    /\ pc' = "failed"
    /\ UNCHANGED <<at, open, loaded, base, top, mode, hook, firmware, astray>>

\* The firmware changes its map when it allocates or frees.
MapChanges(sizes) == need' \in sizes \cap 1..MaxNeed /\ fresh' = FALSE

\* OpenFile and ReadFileSize.
OpenFile ==
    /\ Doing("open") /\ Done
    /\ open' = open \cup {Plan[at].name}
    /\ UNCHANGED <<loaded, base, top, mode, hook, firmware, astray>>

TakePages ==
    /\ Doing("pages") /\ Done
    /\ base' = [base EXCEPT ![Plan[at].name] = top]
    /\ top' = top + Plan[at].n
    /\ UNCHANGED <<open, loaded, mode, hook, firmware, astray>>

LoadBinaryFileInBuffer ==
    /\ Doing("read") /\ Done
    /\ loaded' = loaded \cup {Plan[at].name}
    /\ UNCHANGED <<open, base, top, mode, hook, firmware, astray>>

CloseFile ==
    /\ Doing("close") /\ Done
    /\ open' = open \ {Plan[at].name}
    /\ UNCHANGED <<loaded, base, top, mode, hook, firmware, astray>>

\* Mutant: the address is not set when there is no mode.
ModeOf_Unset(modes) == IF modes = <<>> THEN "garbage" ELSE "default"

\* The mode that SetGraphicsMode ends with: the first that it does not skip
\* decides, and an empty list is a missing protocol.
ModeOf(modes) ==
    LET hits == {k \in 1..Len(modes) : modes[k] # "other"}
        stop == CHOOSE k \in hits : \A l \in hits : k <= l
    IN  CASE modes = <<>> -> "none"
          [] hits # {} /\ modes[stop] = "asked" -> "asked"
          [] OTHER -> "default"

\* Its answer is not checked.
SetGraphicsMode ==
    /\ pc = "plan" /\ at = Len(Plan) + 1
    /\ \E modes \in GopModes : mode' = ModeOf(modes)
    /\ pc' = "query"
    /\ UNCHANGED <<at, open, loaded, base, top, hook, firmware, astray>>

----------------------------------------------------------------------------
(* ExitBootServicesHook.                                                   *)

Goto(label) == pc' = label /\ UNCHANGED <<at, open, loaded, base, top, mode>>
Hand == astray' = (astray \/ buf = "freed")

\* GetMemoryMap with this buffer.  A buffer that is large enough is used.
Fits == buf # "null" /\ size >= need
GetMemoryMap ==
    /\ size' = IF size < need \/ Fits THEN need ELSE size
    /\ Hand
    /\ fresh' = (fresh \/ Fits)
    /\ UNCHANGED <<buf, cap, need, pool, exited, events>>

\* An error besides those.  UefiSpec.h lists none, but the hook expects one of
\* each of its three calls.
Refused(label) == Goto(label) /\ UNCHANGED <<hook, firmware>>

\* The first call: it fails with EFI_BUFFER_TOO_SMALL or it succeeds; or the
\* hook returns, without FreePool: the buffer of an earlier round is freed.
QuerySize ==
    /\ pc = "query"
    /\ \/ GetMemoryMap /\ Goto(IF Fits THEN "map" ELSE "alloc")
       \/ Hand /\ Refused("error")

\* AllocatePool may split a free range of the map, and may return NULL,
\* which is not checked.
AllocMap ==
    /\ pc = "alloc" /\ Goto("map")
    /\ \/ /\ buf' = "live" /\ cap' = size /\ pool' = pool + 1
          /\ MapChanges(need..(need + 1))
       \/ buf' = "null" /\ UNCHANGED <<cap, pool, need, fresh>>
    /\ UNCHANGED <<size, exited, events, astray>>

\* Mutant: the second call does not free the buffer when it fails.
QueryMap_Leak ==
    /\ pc = "map"
    /\ \/ GetMemoryMap /\ Goto(IF Fits THEN "exit" ELSE "error")
       \/ Hand /\ Refused("error")

\* Mutant: a map that has grown is asked for again, with the new size.
QueryMap_Again ==
    /\ pc = "map"
    /\ \/ GetMemoryMap /\ Goto(IF Fits THEN "exit" ELSE "map")
       \/ Hand /\ Refused("drop")

QueryMap ==
    /\ pc = "map"
    /\ \/ GetMemoryMap /\ Goto(IF Fits THEN "exit" ELSE "drop")
       \/ Hand /\ Refused("drop")

\* Mutant: the buffer is freed on success too.
ExitBootServices_Free ==
    /\ pc = "exit"
    /\ \/ /\ exited' = fresh /\ Goto(IF fresh THEN "drop" ELSE "retry")
          /\ UNCHANGED <<hook, fresh, need, pool, events>>
       \/ Refused("drop")
    /\ UNCHANGED astray

\* EFI_INVALID_PARAMETER is the answer to a key that is not current; after
\* another error the hook frees the buffer and returns.
ExitBootServices ==
    /\ pc = "exit"
    /\ \/ /\ exited' = fresh /\ Goto(IF fresh THEN "success" ELSE "retry")
          /\ UNCHANGED <<hook, fresh, need, pool, events>>
       \/ Refused("drop")
    /\ UNCHANGED astray

\* Mutant: the call is retried with the key it has.
FreeMap_SameKey ==
    /\ pc \in {"drop", "retry"}
    /\ Goto(IF pc = "drop" THEN "error" ELSE "exit")
    /\ Hand
    /\ IF buf = "live"
       THEN buf' = "freed" /\ pool' = pool - 1 /\ MapChanges((need - 1)..need)
       ELSE UNCHANGED <<buf, pool, need, fresh>>
    /\ UNCHANGED <<cap, size, exited, events>>

\* FreePool, before the hook returns an error ("drop") and before it goes
\* round again ("retry"): memoryMap and memoryMapSize keep their values.
FreeMap ==
    /\ pc \in {"drop", "retry"}
    /\ Goto(IF pc = "drop" THEN "error" ELSE "query")
    /\ Hand
    /\ IF buf = "live"
       THEN buf' = "freed" /\ pool' = pool - 1 /\ MapChanges((need - 1)..need)
       ELSE UNCHANGED <<buf, pool, need, fresh>>
    /\ UNCHANGED <<cap, size, exited, events>>

\* efi_main after the hook: it stalls and returns, or calls the kernel.
HookFailed == pc = "error" /\ Goto("failed") /\ UNCHANGED <<hook, firmware, astray>>
CallKernel == pc = "success" /\ Goto("kernel") /\ UNCHANGED <<hook, firmware, astray>>

----------------------------------------------------------------------------
(* The firmware's timers and drivers, until boot services end.             *)

FirmwareEvent ==
    /\ ~exited /\ events < MaxEvents /\ events' = events + 1
    /\ MapChanges((need - 1)..(need + 1))
    /\ UNCHANGED <<plan, hook, pool, exited, astray>>

Init ==
    /\ pc = "plan" /\ at = 1 /\ open = {} /\ loaded = {}
    /\ base = [b \in {Plan[k].name : k \in 1..Len(Plan)} |-> 0] /\ top = 1
    /\ mode = "unset"
    /\ buf = "null" /\ cap = 0 /\ size = 0
    /\ fresh = FALSE /\ need \in 1..MaxNeed /\ pool = 0
    /\ exited = FALSE /\ events = 0 /\ astray = FALSE

Loader == \/ GiveUp \/ OpenFile \/ TakePages \/ LoadBinaryFileInBuffer
          \/ CloseFile \/ SetGraphicsMode
          \/ QuerySize \/ AllocMap \/ QueryMap \/ ExitBootServices \/ FreeMap
          \/ HookFailed \/ CallKernel

Next == Loader \/ FirmwareEvent

Spec == Init /\ [][Next]_vars

\* The loader is the only program; the firmware returns from its handlers.
FairSpec == Spec /\ WF_vars(Loader)

----------------------------------------------------------------------------
(* Properties.                                                             *)

Buffers == {Plan[k].name : k \in 1..Len(Plan)}
Labels == {"plan", "query", "alloc", "map", "exit", "drop", "retry", "error",
           "success", "failed", "kernel"}

\* The type invariant.
TypeOK ==
    /\ pc \in Labels /\ at \in 1..(Len(Plan) + 1)
    /\ open \subseteq {"kernel", "user"} /\ loaded \subseteq {"kernel", "user"}
    /\ base \in [Buffers -> Nat] /\ top \in Nat
    /\ mode \in {"unset", "asked", "default", "none"}
    /\ buf \in {"null", "live", "freed"} /\ cap \in 0..MaxNeed
    /\ size \in 0..MaxNeed /\ need \in 1..MaxNeed
    /\ fresh \in BOOLEAN /\ exited \in BOOLEAN /\ astray \in BOOLEAN
    /\ pool \in Nat /\ events \in 0..MaxEvents

\* The kernel runs only on a machine it owns, and the loader calls no boot
\* service once they have ended: the hook's status is what happened.
ExitIsFinal ==
    /\ pc = "kernel" => exited
    /\ exited => pc \in {"success", "kernel"}

\* The firmware is never told that the buffer is larger than it is, however
\* often the map grows, shrinks and is asked for again.
MapFitsBuffer ==
    buf # "null" /\ pc \in {"query", "map", "exit"} =>
        size <= cap

\* The hook holds at most one buffer, and none when it has failed.
NoMapLeaked ==
    /\ pool = IF buf = "live" THEN 1 ELSE 0
    /\ pc \in {"error", "failed"} => pool = 0

\* What kernel_start is given: a use, its first page, the page after its
\* last.  Stacks grow down from the addresses in info.
Given ==
    LET Own(name, n) == {<<name, base[name], base[name] + n>>}
        Two(name)    == {<<name, base[name], base[name] + 1>>,
                         <<name, base[name] + 1, base[name] + 2>>}
    IN  (UNION {Own(b, Pages[b]) : b \in {"kernel", "user", "userTables"}})
        \cup Own("kernelTables", FixedTables)
        \cup Two("tss") \cup Two("stacks")
        \cup (UNION {Own(b, 1) : b \in {"tls", "shared", "grants", "extra"}})

\* No two of them overlap (the TSS above its stack, the user stack above the
\* kernel's), all are allocated, and both images are in theirs.
BuffersApart ==
    pc = "kernel" =>
        /\ \A r, s \in Given : r = s \/ r[3] <= s[2] \/ s[3] <= r[2]
        /\ \A r \in Given : 1 <= r[2] /\ r[3] <= top
        /\ loaded = {"kernel", "user"} /\ open = {}

\* The retry comes to an end once the firmware's map is left alone.
BootEnds == <>(pc \in {"kernel", "failed"})

\* UefiSpec.h:217, of GetMemoryMap's MemoryMapSize: "On input, this is the
\* size of the buffer allocated by the caller."
BufferIsAllocated == ~astray

\* README.md:22, "Bootloader allocates 4kb page aligned buffers for kernel,
\* user application": the kernel's .bss, which its file leaves out and
\* kernel.lds puts behind it, lies in no buffer of another use.
KernelIsAllocated ==
    pc = "kernel" =>
        LET end == base["kernel"] + Pages["kernel"] + BssPages
        IN  \A r \in Given : r[1] = "kernel" \/ r[3] <= base["kernel"] \/ end <= r[2]

\* Assignment_3/boot.c:492, "Set the graphics mode to 800x600 BGRA."
KernelModeIsSet == pc = "kernel" => mode = "asked"
=============================================================================
