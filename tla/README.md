# Verification of the OS and virtualization assignments

The repository holds three small x86-64 systems booted by UEFI: a boot loader
with a kernel that draws a rectangle (`Assignment_1`), a kernel with user
mode, system calls, traps, a timer and on-demand memory (`Assignment_2`), and
that kernel as a Xen guest that shares memory with a second guest
(`Assignment_3`, `guest2`). There are no tests. This directory models the
parts with behaviour worth checking in TLA+, model-checks them with TLC and
proves what it can with TLAPS.

## 1. The system

| Component | State | Operations | Interacts with |
|---|---|---|---|
| Boot loader (`*/boot.c`) | memory map, buffers, GOP mode | load kernel and user image, size and allocate the page tables, `ExitBootServicesHook`, jump | firmware (calls), kernel (argument registers, `information`) |
| Trap core (`kernel_asm.S`, `kernel_syscall.c`, `kernel.c`) | CPU registers, `kernel_stack`, TSS stack, `user_stack`, IDT, TSS, MSRs | `kernel_start`, `user_jump`, `syscall_entry`, `pagefault_trap`, `timer_apic`, `default_trap` | user program (SYSCALL, faults), APIC (interrupts), page tables, console |
| Page tables (`page_table_init_kernel`, `page_table_init_user`) | the tables in memory, CR3 | build, rebuild with the extra page | loader (page counts), trap core (the fault) |
| Local APIC (`apic.c`) | APIC registers, requested and in-service vectors | enable, timer set-up, handler, EOI | trap core |
| Console (`fb.c`, `printf.c`, `ascii_font.c`) | framebuffer, static cursor | `fb_output`, `printf` | everything, in every context |
| User program (`user.c`) | registers, TLS, stack | memory accesses, two system calls, one deliberate fault | trap core |
| Xen set-up (`Assignment_3/kernel.c`) | `xen_base`, hypercall page, shared-info page | detect, find base, register page, map | hypervisor (CPUID, MSR, hypercalls) |
| Paravirtual clock (`pvclock_*`, `wait`) | record shared with the hypervisor | monotonic and wall-clock read, busy wait | hypervisor (writes while the guest reads) |
| Grant tables (`gnttab.c`, `guest2/kernel.c`) | `gnttab_list`, entries shared with the hypervisor | grant, transfer, end access, end transfer, init, map | hypervisor, the other guest |

What is hard: interrupts arrive at every instruction where IF is set, trap
routines nest, one global holds the user's stack pointer, and the page table
in use is rewritten by the fault handler; hypervisor and other guest read and
write shared records concurrently; and the loader must leave boot services
with a memory map that its own allocations change. `PROJECT.json` lists each
such hazard at its line, with the properties that would catch it going wrong, or why
there is none.

## 2. The trap core: `KernelTraps`

One CPU, one user program. A step is the longest run of instructions that no
interrupt or fault can split, so each `pc` label with IF set is a real window.

| TLA+ | Code |
|---|---|
| `pc`, `uip`, `cpl`, `intf`, `rsp`, `regs` | program counter (kernel label or user instruction), privilege ring, RFLAGS.IF, stack pointer, who wrote the registers last |
| `stack` | the three stacks: `kernel_stack` ("K"), TSS rsp0 ("T"), below the user's stack pointer ("U") |
| `user_stack` | the global of `kernel_syscall.c` |
| `ready`, `mapped`, `cr2` | what `kernel_start` has set up, user pages in the page table, last fault |
| `irr`, `isr` | local APIC request and in-service registers |
| `left` | history: the user context when ring 3 was left last |
| `SetUserStack` ... `UserJumpSysret` | `kernel_start` in its order, `user_jump` |
| `UserTouch`, `UserSetSp`, `UserSyscall`, `UserSpin` | what a user program can do |
| `SyscallSave`, `SyscallBody`, `SyscallPrint`, `SyscallPop`, `SyscallSysret` | `syscall_entry`, `do_syscall_entry` |
| `PageFault*`, `Timer*`, `Default*`, `Halt` | `pagefault_trap`, `timer_apic`, `default_trap` and their handlers |
| `Raise`, `Tick`, `Deliver`, `Iret`, `Sysret`, `Eoi` | the hardware, external to the repository |

Abstractions. A register holds the name of the context that wrote it last, so
a register that is lost or mixed up is seen and its number is not. Memory is a
set of pages that behave differently: mapped, mapped on demand (the last PTE),
never mapped, not canonical. The program's data does not matter, its
instructions are those that enter the kernel or move the stack pointer. The
interrupt shadow is kept: `sti; addq; iretq` leaves a window before `iretq`,
`sti; iretq` does not. `XmmUsers` says which C handlers the compiler gave xmm
instructions.

`UserView` is the abstract specification: a machine that executes the user
program's instructions one after the other, each once, with its registers and
its stack pointer untouched by anything else. `KernelTraps` implements it
(`UserViewSpec`, and with fairness `UserViewFairSpec`; `ViewAt`, `ViewSp` and
`ViewRax` are the mapping).

### Runs

| Run | Question |
|---|---|
| `traps` | Is every safety property right, with ticks anywhere, does the user program get to its next instruction as `UserView` says, and is each tick serviced? For the repository's program, every program of at most two instructions of 12 kinds, and those of three that raise no general protection fault |
| `fault_page` | violation: section 10 |

Bounds. Three instructions are enough for each ordered pair of kernel entries
with a change of stack pointer between, and a general protection fault ends the
program, so that a third instruction behind it says nothing new (one program
with the fault last is added). The deepest nesting, a tick in the window of a
page fault in a system call, needs one. Two stack pointers tell a stale
`user_stack` from a current one. The proofs of section 11 remove these bounds.

Properties. `NoTrapBeforeItsGate` (boot order), `IretFrameOnTop` and
`NothingLeftBehind` (pushes and pops match over every nesting),
`KernelKeepsOffUserStack`, `NestingBounded`, `FbOutputExclusive` (no lock is
needed around the console after boot), `UserResumes` (every register the code
saves, stack pointer and instruction are as they were left), and liveness:
`UserViewFairSpec`, the refinement with its fairness, and `TickServiced`.
`UserViewFairSpec` contains `UserViewSpec`, the part that is proved. That no
interrupt is enabled before the EOI of the one in service is the theorem
`EoiFirst`.

Fairness. Ring-0 code with IF clear only needs weak fairness: the CPU keeps
executing. An instruction with IF set may be preempted by a tick each time it
is about to execute, so it is given strong fairness: the timer counts 0x400000
bus cycles times its divisor, far longer than its handler, so the interrupted
instruction runs before the next tick. Delivery is strongly fair because the
CPU takes a pending interrupt at the first boundary with IF set. Nothing is
assumed about when ticks come, or that they come. UserView's fairness is weak
fairness of its next instruction; a program that touches an unmappable page
has none, in both.

## 3. The grant table: `Gnttab`

The guest's calls against the hypervisor and other domains that act between
any two of its accesses to a shared entry.

| TLA+ | Code |
|---|---|
| `list` | `gnttab_list`; entry 0 is the head, 0 ends the list |
| `table` | `gnttab_table`: frame, domid, set of GTF flags |
| `pc`, `call`, `i` | the call the guest is in and its locals, the loop of `init_gnttab` |
| `free`, `grants`, `inbound` | history: the free references in order, the grants callers hold, the frames moved in and not returned |
| `maps` | the hypervisor's record of what other domains map |
| `InitPut`, `InitMap` | `init_gnttab`, and its endless loop when the hypercall fails |
| `GrantStart`, `GrantDomid`, `GrantPublish` | `gnttab_grant_access`, `gnttab_grant_transfer`: the three stores of each |
| `EndAccess`, `EndAccessCas` | `gnttab_end_access`: the read, the compare-and-swap |
| `EndTransfer*` | `gnttab_end_transfer` |
| `Map`, `Unmap`, `Commit`, `Complete` | the hypervisor, external: it sets the use flags of a mapped entry, clears them when it is unmapped, and marks a transfer committed, then completed |

`Grants` is the abstract specification: grants made and ended atomically,
mapped only by their domain and ended only when unmapped, transfers withdrawn
before they begin or collected after they complete. `Gnttab` implements it with
a transfer's begin and frame read off the entry's flags (`GrantsSpec`). From
that follows that no frame moved in is lost or returned twice, and that no
reserved reference is handed out.

A caller ends only what it holds and holds no more than the pool
(`MaxGrants`): `get_free_entry` does not check for an empty list and would
return the reserved reference 0, over and over. The repository's kernel grants
one of 504. x86 keeps stores in program order, so a step is one store; the
compiler is kept from moving them by `wmb`. Where nothing keeps it from leaving
out a load, the wait loop of `gnttab_end_transfer`, the model chooses: the load
is repeated, or it is not and the call is `hung`.

| Run | Question |
|---|---|
| `gnttab` | Are free list, mappings and transfers right, is `Grants` implemented, and does `gnttab_end_access` return? Two reserved entries and a pool of two, so that the list is full, empty and in either order; two domains, so that a grant to the wrong one shows; two frames moved in |
| `transfer_wait` | violation: section 10 |

Fairness: the guest keeps executing, and the hypervisor completes the
transfers it has committed to, which it does in the same hypercall. Callers
need not call and other domains need not unmap.

## 4. The page tables: `PageTables`

`info` is what the loader computes and allocates, `mem` is memory by words,
`todo` holds the stores that the running builder has still to do, in its order,
and `cr3`, `redef`, `faults` are what they are called. `KernelStores` and
`UserStores` are the loops of `page_table_init_kernel` and
`page_table_init_user`; `Store` does one of their stores, so that the page-fault
handler's rebuild of the tables it runs on is seen half done. `Walk` is the
processor's translation (external). Memory that nobody has written holds `Junk`,
so that a walk through an entry no loop has reached is noticed.

| Run | Question |
|---|---|
| `pages` | With 6 entries a table and 2 page directories for the kernel, does every one of the 1296 virtual pages translate as intended after each build, does the kernel stay mapped and no page lead astray at each store of two rebuilds, and does the loader's count of pages cover the kernel's stores? Programs of one to three pages, which leave the two fixed entries free (section 10 has the others) |

The radix only scales the tables: the indices that matter (0, the first user
entry, the last two) are distinct from 5 entries on, and the kernel's number of
directories is between 1 and the radix as 4 is. The TLB is left out: the handler
only turns absent entries present, or makes them absent and back what they were.

## 5. The paravirtual clock: `PvClock`

`ti` and `wc` are the shared records, `ticking` and `setting` the values the
hypervisor is bringing them to, `job`, `pc`, `loc`, `time` the guest inside
`kernel_start`, the two reads and `wait`. One step is one load or store. The
records are volatile and the code loads `version` and `tsc_shift` twice each,
and so does the model; a shift whose sign changes between the two loads is
undefined and gives an arbitrary value; `rdtsc` and the load of `tsc_timestamp`
come in either order. The multiplier is loaded before `system_time`. Words are
of 1024 values and a second of 2 nanoseconds.

`ReadIsCurrent` makes a read atomic: it returns the clock of a moment between
its call and its return. It rests on the hypervisor keeping its clock running on
across an update, and on its storing a record's version before and after the
other fields, which is the protocol's other half (external).

| Run | Question |
|---|---|
| `clock` | One update of each record against all reads and `wait`, two rates with shifts of both signs: are reads current and whole, is `wait` long enough, and do the loops end? |

Bounds. One update lets a read see an even version at both ends with fields of
two records. An update of the wall clock matters only to the read of it, so the
model has it begin only before that read has ended (`WallMatters`).
`EarlyTsc` holds the counter back before `wait` has its starting time, so that
the time `wait` needs is within `MaxTsc`. Versions are words too: `Versions` is
their number, and no read lasts until one comes back.
Fairness: time passes, the guest executes, the hypervisor ends an update it has
begun. A hypervisor that updates at every read would keep the reader busy; the
model bounds their number, and the real one updates at most a few times a second.

## 6. The boot loader: `Boot`

`efi_main` of `Assignment_3/boot.c`; those of Assignment 2 and `guest2` allocate
fewer buffers and are otherwise the same. `Plan` is the list of its firmware
calls up to the graphics mode, in order, and `at` the place in it; `base` and
`top` are the pages it is given. `buf`, `cap`, `size` and `fresh` are
`memoryMap`, the bytes allocated for it, `memoryMapSize` and whether
`memoryMapKey` is current, in `ExitBootServicesHook`, whose labels are `query`,
`alloc`, `map`, `exit`, `retry`, `drop`. The firmware (external) may refuse any
call that the code tests: `GiveUp` before the hook, `Refused` at each of the
hook's three calls, although `UefiSpec.h:230-235` and `985-986` list no such error
of the first `GetMemoryMap` and of `ExitBootServices`. Its map grows or shrinks by
one entry when the loader allocates or frees, and `FirmwareEvent` is one of its
own timers or drivers doing the same.

| Run | Question |
|---|---|
| `boot` | For maps of up to four entries and three events of the firmware's: do boot services end once, last, and before the kernel, is the map's buffer never overfilled or leaked, do the kernel's buffers lie apart, and does the retry end? |
| `freed_map`, `kernel_bss` | violations: section 10 |

Bounds. `MaxEvents` is what makes the retry end: a firmware that changes its map
between every `GetMemoryMap` and `ExitBootServices` would keep the loader for
ever, and real firmware does not because the two calls are a few instructions
apart. Three events are one in each of the hook's first two rounds, and once more.
Four entries let a map grow past, and shrink back into, an old buffer. Fairness: the
loader is the only program, and the firmware's handlers return.

## 7. The console: `Console` and `Terminal`

`fb_output` and `fb_scrollup` on memory, pixel by pixel, with a pixel of a glyph
named by its character and place, and with memory behind the framebuffer that
must stay as it is. `Terminal` is what a console promises: rows of characters, of
which the last `MaxY` are shown. `Console` implements it (`TerminalSpec`), with
the rows read off the pixels, for texts of any length.

| Run | Question |
|---|---|
| `console` | Three rows of two characters of 2 x 3 pixels, with a margin at both ends: do the pixels always show the text, does scrolling leave no trace, and is nothing else written? |

Three rows are the first, the last and one that is neither; two characters let a
row be empty, begun and full. A step is one call of `fb_output`, which is what
`FbOutputExclusive` of `KernelTraps` allows, but for the banner: a tick may come
in the middle of its `fb_output`, and what the two then leave on the screen is
not modelled.

## 8. Formatted output: `Printf`

`_do_vprintf` is a machine that goes over the format with five states, and the
model keeps it so: `state`, `flags`, `wd`, `i`, and `head`, because the code tests
for the end of the format at the head of its loop only and some states step over
a character without going there. Words have 2, 3, 4 and 6 bits. `Written` is
`vsnprintf_output` called for one character after the other.

| Run | Question |
|---|---|
| `printf` | Is every conversion that `printf.c` lists, with each flag, modifier and three widths, what C says of it, and does a second one take the second argument? Which of all formats of up to four characters of nine kinds are read behind their end? Does `snprintf` keep to its buffer and end it? |

A format is read behind its end only if it stops in a `%` or its flags
(`OverrunsAfterFlags`). The reference for `ConvertsAsListed` is written without
the machine: digits by powers of the base, padding by length and side.

## 9. Two guests: `Guests`

The start of `Assignment_3/kernel.c` (the writer) and of `guest2/kernel.c` (the
reader) on one host, with `Gnttab` as the writer's table: CPUID search with the
unsigned difference of `xen_base_detect`, the hypercall page, the shared page, and
then the writer's `init_gnttab`, message and grant, and the reader's one mapping
of reference 511 of domain 5. A host is what CPUID and the hypervisor answer:
which bases are Xen's, how many leaves follow, how many hypercall pages there
are, and whether mappings are granted; where Xen answers it says how many leaves it has,
and that is at least its own base (`XenAssumption`). Domain numbers go to the guests in the
order they are created in, either one first.

| Run | Question |
|---|---|
| `guests` | On each of the hosts with three bases: does the reader never print a part of the message, is the reference it has built in the one the free list hands out first, and does no guest call into an empty hypercall page unless the host has none to offer? |

Four entries, two of them reserved, so that the reference depends on the order in
which `init_gnttab` fills the list. Three bases let Xen be first, behind another
interface (`xen_detect` then does not look further), and twice. Where a leaf of
another vendor answers a number below its own, the difference wraps, and only the
comparison of the name keeps the base from being taken. The guest that is lost in
an empty page, one in the endless loop of `init_gnttab` and one that has gone to
its user program do nothing more here (`Rest`). Nothing is assumed fair: no
property is about progress, and the reader may well come too early.

## 10. Where the code and its words differ

Four are runs that TLC refutes:

* `README.md:32` "maps a page to the memory location accessed": the handler
  maps one fixed page and does not read CR2 (`fault_page`).
* `gnttab.c:114` "If a transfer is in progress then wait until it is
  completed": the loop's load is not volatile, and gcc 12 at -O2 makes it a
  jump to itself (`transfer_wait`).
* `UefiSpec.h:217`, of the map's size, "the size of the buffer allocated by the
  caller": after a stale key the hook frees the buffer and hands it to
  `GetMemoryMap` again (`freed_map`).
* `README.md:22` "Bootloader allocates 4kb page aligned buffers for kernel": the
  buffer is as long as the file, and the linker script leaves `.bss` out of the
  file. Assignment 2 with gcc 12 has a file of three pages and a kernel of four;
  the IDT and the console's cursor lie in the fourth (`kernel_bss`).

The other differences are smaller, or show in a glance at the code. Each has a
configuration for the MC module it belongs to, whose invariant or property quotes
the line; TLC refutes it.

| Configuration | Module | Words and code |
|---|---|---|
| `v_syscall_if.cfg` | `MCKernelTraps` | `kernel_syscall.c:39` "Disable interrupts (IF) while in a syscall": the page-fault routine ends with `sti`, also when the fault was in a system call |
| `v_xmm.cfg` | `MCKernelTraps` | `kernel_asm.S:56` "save and restore volatile registers": not the xmm ones |
| `v_vectors.cfg` | `MCKernelTraps` | `README.md:31` "a default handler to handle all the 256 exceptions": the gates from 32 on are null, and 255 is the APIC's spurious vector |
| `v_one_table.cfg` | `MCPageTables` | `kernel.c:150` "The only caveat is if user_stack + user_app size is > 2mb": the fixed TLS entry takes a page of programs that fit |
| `v_boot_mode.cfg` | `MCBoot` | `boot.c:492` "Set the graphics mode to 800x600 BGRA": the kernel is called for that mode whatever was set |
| `v_print_value.cfg` | `MCPrintf` | `user.c:13` "print the value passed as is": a `long` is printed with `%d` |
| `v_pointer_case.cfg` | `MCPrintf` | `printf.c:121` "display pointers in upper-case hex": the option is defined as `PRINTF_UCP` and tested as `PRINT_UCP` |
| `v_other_guest.cfg` | `MCGuests` | `README.md:43` "The other guest reads data from the shared memory": it maps once, and fails if it is there before the grant |

## 11. Proofs

Every theorem is of the specification that the runs check, with the constants
left open: what TLC shows of a table of two entries, a screen of six characters or
one update of a record holds of any. The assumptions are those of the modules
(each evaluated by TLC in the runs) and, where a theorem has a hypothesis of its
own, it is named below. The theorems are listed in `PROJECT.json`.

### The trap core: `KernelTrapsInv`, `KernelTrapsProofs`

`KernelTrapsInv` states the inductive invariant `IInv`, `KernelTrapsProofs`
proves it and what follows, for every set of user programs, stack pointers and
delivered vectors (assumptions: the constants' types only).

The properties are not inductive: that an `iretq` finds its frame depends on
the contents of the whole stack, entry by entry, and on what those frames
resume. `IInv` says that every reachable state has one of eleven shapes (boot,
the jump, user mode, a system call, a page fault over user mode or over a
system call, a tick over user mode, over either page fault's window, over the
banner or over the jump, and the dead end), gives the three stacks in each, and
says that what they hold of the user program is the history variable `left`.
One lemma per action shows which shape it leads to; `Raise`, `Iret` and
`Sysret` have lemmas of their own, and the timer routine, which runs over five
shapes, is proved once over an abstract interrupted context. `Invariance` puts
them together; each safety property is then read off the shapes, `UserResumes`
and the refinement `ImplementsUserView` off the steps that enter and leave
ring 3.

`MasksBriefly` is the safety half of `TickServiced`. `MaskedSteps` gives each label
with interrupts off the number of steps to the next one with them on; a step that is
not a tick lowers it or turns them on, and where they are on nothing is in service
that would hold a request back. The shapes give what the labels do not say: that an
`iretq` of the timer routine and a `sysretq` return to where IF was set. The
longest stretch is that of `kernel_start` before `sti`, six steps; a system call
has five.

### The grant table: `GnttabProofs`

`TypeOK`, `FreeListExact`, `MapsAsGranted` and the refinement `GrantsSpec`, for
every size of the table, every set of domains and frames, and every number of
grants within the pool. The last is `PoolAssumption`: `get_free_entry` does not
check for an empty list, so a caller that asked for more would be handed entry 0,
and nothing would hold; the kernel asks for one.

The invariant has four parts. `PoolInv`: the list threads the free references in
order (`Chain`), and each reference is free, held by a caller or in the hand of
the call in progress, and only one of these. `CallInv`: what the call in progress
has already stored, or has read and may still act on. The read of
`gnttab_end_access` says nothing of the entry when the compare-and-swap comes,
the swap itself does. `EntryInv`: what the flags of an entry say of the grant it
serves, and of the mappings of it, for a held entry and for an idle one.
`InboundInv`: two completed transfers have two frames. `MapsAsGranted` is the fifth
part, because whether an entry may be withdrawn depends on it. For the refinement
each store is shown to be a step of `Grants` or nothing to it: a grant is made by
the store of the flags and ended by the swap, a transfer returned by the read of
the frame.

`SwapOnce` says of the loop around the compare-and-swap of `gnttab_end_access`
(`gnttab.c:88`) that it never goes round a second time. An entry granted for access
and not in use has one value of the flags, by `EntryInv`, and the read that let the
call come to the swap found that value (`CasInv`); the swap then meets either the
same, and ends the grant, or an entry in use, and gives up. So another domain cannot
keep the call from returning by mapping and unmapping (`AccessCallsShort`): the
guest has three accesses to make in one call and two in the other. This is the
safety half of `AccessCallsReturn`, which adds that the guest keeps executing.

### The page tables: `PageTablesProofs`

For every number of entries in a table from 4 on, every number of gigabytes the
kernel maps and every number of page faults. Two assumptions are about the loader:
the program's image is at most as long as one table maps, 2 MB (the caveat of
`kernel.c:150`), and the buffers lie in the memory that the kernel maps
(`MemoryAssumption`), without which it could not write to them.

A builder is a sequence of stores, and the argument is about the words they touch.
`Leaves` says that the last store of a sequence to a word leaves a given entry
there, `Fills` that a sequence does this for a range of words and touches no
other: one lemma for a loop, one for two loops in a row, one for each
builder. `Due` is what a word will hold when the running builder is done: its last
pending store, or its contents if there is none. A single store changes nothing
that is due. `TableInv` (the pending stores are the running builder's, the
kernel's tables are due or there, and so is the entry that leads to them) gives
`TypeOK`, `StoresInsideTables` and `KernelStaysMapped` for programs of every size.

`NoStrayTranslation` and `AddressSpaceExact` add `MapInv`, every word of the user's
four tables, and have the hypothesis `Fits`: the program and its stack leave the
last two entries of the table alone. The kernel gives these to the TLS block and to
the page that a fault brings. The hypothesis is needed and sharp: a program
that is one page longer fits the table, and loses a page to the TLS block, which
is what `v_one_table.cfg` shows.

### The clock: `PvClockProofs`

`TypeOK`, `ReadIsCurrent`, `WallClockWhole` and `WaitIsLongEnough` for every set of
rates and wall clocks, every width of a word and every number of updates, wherever
they fall. The assumptions say what the interface promises or the hardware is:
versions do not come back (2^31 updates; `VersionAssumption`), the wall clock's
nanoseconds fit 64 bits (`WallAssumption`), and neither the counter nor the clock
runs so far that it wraps, which takes centuries (`WideAssumption`: some speed
bounds every rate). `PowerAssumption` says that a power of two is positive, which
is arithmetic that the provers do not know.

`HostInv` has the hypervisor's side: a version counts the stores made and to come,
so it is odd exactly within an update; which fields are already those of the new
record; and that the clock runs on (`ClockMono`). `ReadInv` has the guest's. Nothing
can be said of a value that was put together from two records, so all of it is
under a condition, `Steady`: the version that the read began with is still the
record's and no update is under way. Then the local value is the right one so far
(`Partial`) for some moment since the call (`During`); once broken, `Steady` does not
come back, and the last comparison sees it. `WallInv` is the same for the wall
clock, whose values in force are in `seen`. `WaitInv` adds the starting time.

`PassesReturn` is what the two loops owe their callers besides: they retry for an
update only. A pass that no update overlaps returns after nine steps, or five,
because the version is even exactly between updates.

### The boot loader: `BootProofs`

`ExitIsFinal`, `MapFitsBuffer`, `NoMapLeaked`, `BuffersApart` and `TypeOK` for every
firmware map, every number of its changes, every number of retries and every size of
the kernel, the program and their tables. None is inductive: the buffer
that a retry hands over is freed, and the size that goes with it may be that of a
map the firmware has only announced. `HookInv` says at which labels there is a
live buffer, and at which the size is known to be at most what was allocated:
everywhere but between a `GetMemoryMap` that has asked for more and the
`AllocatePool` or `FreePool` that follows. `PlanInv` follows the list of calls:
`Laid` says that each buffer allocated so far lies behind the ones before it.

`RetriesRunOut` is the safety half of `BootEnds`. A change of the map costs the loader
one more round of five steps at most; so `StepsLeft`, ten for each change to come and
the steps ahead if none comes, decreases with every step, the firmware's included, and
is a natural number. The loop of
`ExitBootServicesHook` ends when the firmware's changes do (`MaxEvents`, any number).

### The console: `ConsoleProofs`

`TypeOK`, `ScreenClean` and the refinement `TerminalSpec`, for every size of the screen
and of a glyph that leaves two rows of one character (`ConsoleAssumption`;
`fb_scrollup` with a single row would not end). A word of memory is a column and a
line, and the lemmas on them say what `fb_scrollup` and the loop that draws a glyph
leave at each. `ScreenInv`: behind the screen nothing is touched and the margins
are black (`Margins`), and every row holds glyphs up to some column and is black
from there, the cursor's row to the cursor, the rows below it from the start
(`Rows`, `Filled`). `RowExists` and `RowUnique` make the rows a function of the
pixels; then a line feed, a scroll and a glyph are what `Terminal` does to its rows.

### Formatted output: `PrintfProofs`

`OverrunsAfterFlags` for every format: `ReadInv` says, for each state of the machine,
how far the format has been read, and that whenever the end may be missed what lies
behind the last `%` is flags. `ReadsToAnEnd`: each step leaves less to read, because the
states gone to without taking a character lead forward only, and the machine is at the
guard of one of its steps until it has returned or run over.

`SnprintfKeeps` is about the operator: whatever the output and for n > 0, the
buffer holds as much of the output as fits before the NUL, and the NUL. It is by
induction over the output, which the library's induction theorems cannot be
instantiated for; the proof takes the least number for which the claim fails, from
the library's theorem that the naturals are well founded (`SetInduction`).
`SnprintfInBounds` is the run's `SnprintfFits`, for every format, argument, string
and width of an integer. What it adds is that the output is a sequence of
characters (`OutInv`), which goes through the digits (`DigitsTyped`, by induction
again, with a lemma that the recursion has a solution) and the padding. Its
hypothesis, that no more arguments are taken than are passed, is what C asks of a
caller of `va_arg`; what a call without them reads is undefined. `PrintfAssumption`
gives the types of the constants, with a power of two positive as for the clock.

`Converts` is `ConvertsAsListed` for every argument, string and width of an integer,
under the same hypothesis. It has three layers:

* *The number.* The code divides and collects the remainders, last digit first; the
  reference `Numeral` takes each digit with a power of the base. The provers know
  nothing of powers, so a few lemmas say what is needed (`Power` satisfies its
  recursion and grows, and a number divided by it is divided step by step), by
  `SetInduction`; `DigitsAreNumeral` is then the equality of the two for every number
  and base.
* *The field.* `EmittedLayout` says what sign, padding and body are in the output,
  and `EmittedConverted` that this is the conversion asked for, by the kind of its
  body and sign and not by each of the 486 formats.
* *The format.* `FormatPlaced` says which character stands where in a format of a
  flag, a width, a modifier and a conversion. `ListedInv` is the inductive invariant:
  for each character read so far, the state, flags and width it has led to
  (`Stage`), and what has been output.

### The two guests: `GuestsProofs`

`MessageWhole` for every table size, host and order of creation, from `IInv`: a
published entry implies a written page, and the writer comes to the call that
publishes with its page full. The steps of `Gnttab` are opened: what counts is
that only `GrantPublish` gives an entry flags. `LateReaderMaps` adds `SlotInv`: the
loop of `init_gnttab` leaves the last entry at the head of the list, the first grant
takes that one, and nothing takes it back. `AstrayOnlyWithoutPage` adds `BaseInv`:
on a host with one hypercall page a base that either search has accepted is one
whose page count is one, whatever the other bases answer and however the 32-bit
difference wraps.

### Only model-checked

Every invariant that a passing run checks, every action property, and the two
refinements without fairness are theorems. What TLC alone checks is

* Liveness, whose fairness and ENABLED are out of the prover's reach. For each of these
  a theorem states the part that is safety: for `UserViewFairSpec` that every step is
  one of `UserView` (`ImplementsUserView`), for `TickServiced` how long a tick can be kept out
  (`MasksBriefly`), for `AccessCallsReturn` and `BootEnds` a count of steps that
  decreases (`AccessCallsShort`, `RetriesRunOut`), for `WaitReturns` that a read is
  repeated for an update only (`PassesReturn`).
* The runs that TLC refutes, and those of section 10.

## 12. Not modelled, and the plan

Of the lines under `src/`, 96 in 100 are vendored UEFI headers (`src/Include`):
declarations, with no behaviour of their own to model. Of the rest,
`Assignment_3` and `guest2` repeat `Assignment_2` file by file (traps, page
tables, console, `printf`, most of the loader), and `guest2` repeats Assignment
3's Xen code; each is modelled once, from the copy that the map names.

Left out, and why:

* The font, the linker scripts and the GDT image: data. `kernel_entry.S`: a
  straight line of instructions before any state of the models exists.
* `Assignment_1/kernel.c`: its page table is the kernel half of Assignment 2's,
  its picture a double loop of stores.
* `apic.c` beyond the timer: access to the registers by memory or MSR, whose
  difference nothing else sees, and inter-processor interrupts, which nothing
  sends.
* `fini_gnttab`, which nothing calls.
* The wall clock printed after the wait (`kernel.c:105`) adds the offset read
  before it, by design.
* `AllocatePool` for the information record may return NULL, which is written
  through, and an error return of `efi_main` leaves files open and pages
  allocated; nothing says what such a boot gives back.
* `fb_scrollup` with a single row would not end; the screen has 37
  (`ConsoleAssumption`).

Next: the refinement between a printed line and the console, `Printf`'s output as the
text that `Terminal` shows.
