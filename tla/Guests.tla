------------------------------- MODULE Guests ------------------------------
(***************************************************************************)
(* The two guests of Assignment 3 on one host.  The writer                 *)
(* (Assignment_3/kernel.c) fills a page and grants it; the reader          *)
(* (guest2/kernel.c) maps the reference it expects the grant to have, and  *)
(* prints the page.  Both look for Xen in the same way first.  The         *)
(* writer's table is Gnttab's.                                             *)
(***************************************************************************)
EXTENDS Integers, Sequences, FiniteSets

CONSTANTS
    NrEntries,    \* NR_GRANT_ENTRIES
    NrReserved,   \* NR_RESERVED_ENTRIES
    Machines,     \* hosts, see Machine
    Leaves,       \* number of bases xen_base_detect looks at
    Word          \* 2^32 scaled down

Guest == {"writer", "reader"}
Machine == [hv : BOOLEAN,      \* leaf 1 says there is a hypervisor
            sig : [0..(Leaves - 1) -> {"xen", "other"}],
            more : [0..(Leaves - 1) -> Int], \* leaves that follow the base
            pages : Nat,       \* hypercall pages, from the leaf at Xen's base + 2
            maps : BOOLEAN]    \* Xen maps its shared page for a guest

ASSUME GuestsAssumption ==
    /\ Leaves \in Nat \ {0} /\ Word \in Nat /\ Word > 2
    /\ NrReserved \in Nat \ {0} /\ NrEntries \in Nat /\ NrReserved < NrEntries
    /\ \A h \in Machines :
          /\ DOMAIN h = {"hv", "sig", "more", "pages", "maps"}
          /\ h.more \in [0..(Leaves - 1) -> -1..(Word - 2)]

\* Where Xen answers, it answers with the largest of its own leaves.
ASSUME XenAssumption ==
    \A h \in Machines, b \in 0..(Leaves - 1) :
        h.sig[b] = "xen" => h.more[b] >= 0

MinLeaves == 2

\* Domain numbers go to the guests in the order they are created in.
Ids == {[writer |-> "dom5", reader |-> "dom6"],
        [writer |-> "dom6", reader |-> "dom5"]}

Doms == {"dom5", "dom6"}
Frames == {"shared_page"}
Moved == {"moved"}
MaxGrants == 1

VARIABLES
    list, table, pc, call, i, maps, grants, free, inbound,   \* Gnttab's
    host,      \* what CPUID and Xen answer
    id,        \* the guests' domain numbers
    at,        \* where each guest's kernel_start is
    base,      \* xen_base
    page,      \* the writer's shared page
    printed    \* what the reader prints of it

tableVars == <<list, table, pc, call, i, maps, grants, free, inbound>>
vars == <<list, table, pc, call, i, maps, grants, free, inbound,
          host, id, at, base, page, printed>>

T == INSTANCE Gnttab

Message == <<"H", "i", "nul">>
None == "none"    \* a byte not written
Nothing == <<>>   \* nothing printed
Failed == <<"failed">>   \* the mapping's failure printed
NoBase == -1      \* xen_base = 0

----------------------------------------------------------------------------
(* Both guests.                                                            *)

Go(g, next) == at' = [at EXCEPT ![g] = next]

\* xen_detect looks at the first base only.
XenDetect(g) ==
    /\ at[g] = "detect"
    /\ Go(g, IF host.hv /\ host.more[0] >= 0 /\ host.sig[0] = "xen"
             THEN "base" ELSE "user")
    /\ UNCHANGED <<tableVars, host, id, base, page, printed>>

\* The difference eax - base is unsigned.
Enough(b) == host.more[b] % Word >= MinLeaves

\* Mutant: the vendor's name is taken from the first base only.
IsXen_FirstName(b) == Enough(b)

IsXen(b) == Enough(b) /\ host.sig[b] = "xen"

XenBaseDetect(g) ==
    /\ at[g] = "base" /\ Go(g, "hypercalls")
    /\ LET found == {b \in 0..(Leaves - 1) : IsXen(b)}
       IN  base' = [base EXCEPT ![g] =
                       IF found = {} THEN NoBase
                       ELSE CHOOSE b \in found : \A c \in found : b <= c]
    /\ UNCHANGED <<tableVars, host, id, page, printed>>

\* The leaf at xen_base + 2 says one page, and the page is filled.  With no
\* base it is leaf 2, on the caches.
PageCount(b) == IF b # NoBase /\ host.sig[b] = "xen" /\ host.more[b] >= 2
                THEN host.pages ELSE 0

XenHypercallsInit(g) ==
    /\ at[g] = "hypercalls" /\ Go(g, "shared")
    /\ base' = [base EXCEPT ![g] = IF PageCount(@) = 1 THEN @ ELSE NoBase]
    /\ UNCHANGED <<tableVars, host, id, page, printed>>

\* The first hypercall.  The page it calls into holds no code unless it has
\* been filled; Xen may refuse the mapping.
XenSharedInit(g) ==
    /\ at[g] = "shared"
    /\ Go(g, IF base[g] = NoBase THEN "astray"
             ELSE IF host.maps THEN "clock" ELSE "user")
    /\ UNCHANGED <<tableVars, host, id, base, page, printed>>

\* The version and the clocks are read and wait(1) returns: see PvClock.
ReadClocks(g) ==
    /\ at[g] = "clock"
    /\ Go(g, IF g = "writer" THEN "table" ELSE "map")
    /\ UNCHANGED <<tableVars, host, id, base, page, printed>>

----------------------------------------------------------------------------
(* The writer.                                                             *)

\* init_gnttab, which does not come back if Xen refuses the mapping.
InitGnttab ==
    /\ at.writer = "table"
    /\ T!InitPut \/ T!InitMap
    /\ Go("writer", IF pc' = "idle" THEN "write" ELSE "table")
    /\ UNCHANGED <<host, id, base, page, printed>>

\* Mutant: the page is granted after its first character.
NextByte_Early(k) == IF k = 1 THEN "grant" ELSE "write"

NextByte(k) == IF k = 3 THEN "grant" ELSE "write"

WriteMessage ==
    /\ at.writer = "write"
    /\ \E k \in 1..3 :
          /\ page[k] = None /\ \A l \in 1..(k - 1) : page[l] # None
          /\ page' = [page EXCEPT ![k] = Message[k]] /\ Go("writer", NextByte(k))
    /\ UNCHANGED <<tableVars, host, id, base, printed>>

GrantAccess ==
    \/ /\ at.writer = "grant" /\ Go("writer", "granting")
       /\ T!GrantStart("access", "dom6", "shared_page", FALSE)
       /\ UNCHANGED <<host, id, base, page, printed>>
    \/ /\ at.writer = "granting"
       /\ T!GrantDomid \/ T!GrantPublish
       /\ Go("writer", IF pc' = "idle" THEN "user" ELSE "granting")
       /\ UNCHANGED <<host, id, base, page, printed>>

----------------------------------------------------------------------------
(* The reader.                                                             *)

\* The last entry, 511.
Reference == NrEntries - 1

Published == {g \in grants : g.dom = id.reader}

\* GNTTABOP_map_grant_ref on a reference of domain 5, once.
MapGrantRef ==
    /\ at.reader = "map"
    /\ \/ /\ id.writer = "dom5"
          /\ T!Map(id.reader, Reference, TRUE)
          /\ Go("reader", "print") /\ UNCHANGED printed
       \/ /\ ~(id.writer = "dom5" /\ "permit" \in table[Reference].flags
                                  /\ table[Reference].domid = id.reader)
          /\ Go("reader", "user") /\ printed' = Failed
          /\ UNCHANGED tableVars
    /\ UNCHANGED <<host, id, base, page>>

PrintMessage ==
    /\ at.reader = "print" /\ Go("reader", "user")
    /\ printed' = page
    /\ UNCHANGED <<tableVars, host, id, base, page>>

----------------------------------------------------------------------------
Init ==
    /\ T!Init
    /\ host \in Machines /\ id \in Ids
    /\ at = [g \in Guest |-> "detect"]
    /\ base = [g \in Guest |-> NoBase]
    /\ page = [k \in 1..3 |-> None] /\ printed = Nothing

Start(g) == \/ XenDetect(g) \/ XenBaseDetect(g) \/ XenHypercallsInit(g)
            \/ XenSharedInit(g) \/ ReadClocks(g)

Writer == Start("writer") \/ InitGnttab \/ WriteMessage \/ GrantAccess
Reader == Start("reader") \/ MapGrantRef \/ PrintMessage

\* A kernel that is in its user program, in an endless loop or lost does no
\* more that concerns the other.
Over(g) == at[g] \in {"user", "astray"} \/ (at[g] = "table" /\ pc = "stuck")
Rest == (\A g \in Guest : Over(g)) /\ UNCHANGED vars

Next == Writer \/ Reader \/ Rest

Spec == Init /\ [][Next]_vars

----------------------------------------------------------------------------
(* Properties.                                                             *)

\* The reader prints the whole message or says that it could not map it:
\* what it maps has been written before it was granted (kernel.c:108-115,
\* gnttab.c:59-63).
MessageWhole == printed \in {Nothing, Failed, Message}

\* The number 511 in the reader is the reference the writer's free list
\* hands out first: a reader that is domain 6 and asks after the grant maps
\* it.
LateReaderMaps ==
    [][Published # {} /\ printed' = Failed => printed = Failed]_vars

\* A guest calls into an empty hypercall page only on a host whose Xen
\* leaves do not lead to exactly one page (kernel.c:171-175 gives up in
\* silence, and kernel_start goes on).
AstrayOnlyWithoutPage ==
    (\E g \in Guest : at[g] = "astray") =>
        ~ (/\ host.pages = 1
           /\ \E b \in 0..(Leaves - 1) : host.sig[b] = "xen" /\ host.more[b] >= 2)

----------------------------------------------------------------------------
(* What the repository says and the code does not do.                      *)

\* README.md:43, "The other guest reads data from the shared memory."
\* Of a reader that is the domain the writer grants to.
OtherGuestReads == id.reader = "dom6" => printed # Failed
=============================================================================
