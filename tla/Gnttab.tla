------------------------------ MODULE Gnttab -------------------------------
(***************************************************************************)
(* The grant table of the Assignment 3 guest (gnttab.c): the free list     *)
(* threaded through gnttab_list, the entries it shares with the            *)
(* hypervisor, and the hypervisor and the other domains using them.        *)
(*                                                                         *)
(* A step is one access to a shared entry.  The free list is private to    *)
(* the guest, so taking from it and adding to it is part of the step next  *)
(* to it.  x86 makes stores visible in program order.                      *)
(***************************************************************************)
EXTENDS Integers, Sequences, FiniteSets

CONSTANTS
    NrEntries,    \* NR_GRANT_ENTRIES
    NrReserved,   \* NR_RESERVED_ENTRIES
    Doms,         \* domains the guest grants to
    Frames,       \* frames the guest grants, and slots it offers
    Moved,        \* frames the hypervisor moves in
    MaxGrants     \* bound: grants the guest holds at a time

ASSUME EntriesAssumption ==
    NrReserved \in Nat \ {0} /\ NrEntries \in Nat /\ NrReserved < NrEntries

\* get_free_entry hands out what the head of the list holds and never asks
\* whether that is the end of the list: the callers keep within the pool.
ASSUME PoolAssumption == MaxGrants <= NrEntries - NrReserved

Zero == "zero"    \* what the zeroed table holds

ASSUME FramesAssumption ==
    /\ MaxGrants \in Nat /\ IsFiniteSet(Moved) /\ MaxGrants <= Cardinality(Moved)
    /\ Frames \cap Moved = {}
    /\ {Zero, "pending"} \cap (Doms \cup Frames \cup Moved) = {}

Refs == 0..(NrEntries - 1)

VARIABLES
    list,      \* gnttab_list
    table,     \* gnttab_table
    pc, call,  \* the call the guest is in, and its locals
    i,         \* loop counter of init_gnttab
    maps,      \* mappings other domains hold
    grants,    \* history: the grants the guest's callers hold
    free,      \* history: the free references, first to last
    inbound    \* history: frames moved in and not returned to a caller

guestVars == <<list, pc, call, i, grants, free>>
vars == <<list, table, pc, call, i, maps, grants, free, inbound>>

Flags == {"permit", "readonly", "reading", "writing", "accept", "committed",
          "completed"}
NoCall == [kind |-> "none", ref |-> 0, dom |-> Zero, frame |-> Zero,
           ro |-> FALSE, flags |-> {}]

InUse(flags) == flags \cap {"reading", "writing"} # {}

----------------------------------------------------------------------------
(* The free list: entry 0 is the head, 0 ends it.                          *)

PutFree(l, ref) == [l EXCEPT ![ref] = l[0], ![0] = ref]
GetFree(l)      == [l EXCEPT ![0] = l[l[0]]]

Release(ref) ==
    /\ list' = PutFree(list, ref)
    /\ free' = <<ref>> \o free

----------------------------------------------------------------------------
(* init_gnttab.                                                            *)

\* Mutant: the loop runs one entry past the table.
InitPut_Past ==
    /\ pc = "init" /\ i <= NrEntries
    /\ Release(i)
    /\ i' = i + 1
    /\ UNCHANGED <<table, pc, call, maps, grants, inbound>>

\* Mutant: the entries are put on the list from the last to the first.
InitPut_Down ==
    /\ pc = "init" /\ i < NrEntries
    /\ Release(NrEntries - 1 - (i - NrReserved))
    /\ i' = i + 1
    /\ UNCHANGED <<table, pc, call, maps, grants, inbound>>

InitPut ==
    /\ pc = "init" /\ i < NrEntries
    /\ Release(i)
    /\ i' = i + 1
    /\ UNCHANGED <<table, pc, call, maps, grants, inbound>>

\* The hypercall that maps the table may fail: the guest then spins.
InitMap ==
    /\ pc = "init" /\ i = NrEntries
    /\ pc' \in {"idle", "stuck"}
    /\ UNCHANGED <<list, table, call, i, maps, grants, free, inbound>>

----------------------------------------------------------------------------
(* gnttab_grant_access and gnttab_grant_transfer.                          *)

Starts(kind, dom, frame, ro) ==
    /\ pc = "idle"
    /\ Cardinality(grants) < MaxGrants
    /\ kind = "transfer" => ~ro
    /\ call' = [kind |-> kind, ref |-> list[0], dom |-> dom, frame |-> frame,
                ro |-> ro, flags |-> {}]
    /\ list' = GetFree(list)
    /\ free' = IF free = <<>> THEN <<>> ELSE Tail(free)
    /\ UNCHANGED <<i, maps, grants, inbound>>

GrantFlags(kind, ro) ==
    IF kind = "transfer" THEN {"accept"}
    ELSE {"permit"} \cup (IF ro THEN {"readonly"} ELSE {})

\* Mutant: the flags are written before the domid.
GrantStart_FlagsFirst(kind, dom, frame, ro) ==
    /\ Starts(kind, dom, frame, ro)
    /\ pc' = "domid"
    /\ table' = [table EXCEPT ![list[0]].frame = frame,
                              ![list[0]].flags = GrantFlags(kind, ro)]

GrantStart(kind, dom, frame, ro) ==
    /\ Starts(kind, dom, frame, ro)
    /\ pc' = "domid"
    /\ table' = [table EXCEPT ![list[0]].frame = frame]

GrantDomid ==
    /\ pc = "domid" /\ pc' = "flags"
    /\ table' = [table EXCEPT ![call.ref].domid = call.dom]
    /\ UNCHANGED <<list, call, i, maps, grants, free, inbound>>

\* The call returns its reference to the caller.
GrantPublish ==
    /\ pc = "flags" /\ pc' = "idle" /\ call' = NoCall
    /\ table' = [table EXCEPT ![call.ref].flags = GrantFlags(call.kind, call.ro)]
    /\ grants' = grants \cup {[kind |-> call.kind, ref |-> call.ref,
                               dom |-> call.dom, frame |-> call.frame,
                               ro |-> call.ro]}
    /\ UNCHANGED <<list, i, maps, free, inbound>>

----------------------------------------------------------------------------
(* gnttab_end_access.                                                      *)

\* The call in progress on grant g, with the flags it has read.
CallOn(g, flags) == [kind |-> g.kind, ref |-> g.ref, dom |-> g.dom,
                     frame |-> g.frame, ro |-> g.ro, flags |-> flags]
Called == [kind |-> call.kind, ref |-> call.ref, dom |-> call.dom,
           frame |-> call.frame, ro |-> call.ro]
Current == table[call.ref].flags

\* Reads the flags, and gives up at once on an entry in use.
EndAccess(g) ==
    /\ pc = "idle" /\ g \in grants /\ g.kind = "access"
    /\ ~InUse(table[g.ref].flags)
    /\ pc' = "ea_cas" /\ call' = CallOn(g, table[g.ref].flags)
    /\ UNCHANGED <<list, table, i, maps, grants, free, inbound>>

\* The entry is cleared and free again, and the call returns.
TakeBack ==
    /\ table' = [table EXCEPT ![call.ref].flags = {}]
    /\ Release(call.ref)
    /\ grants' = grants \ {Called}
    /\ pc' = "idle" /\ call' = NoCall
    /\ UNCHANGED <<i, maps, inbound>>

\* The compare-and-swap found other flags: the loop goes on with them.
Reconsider ==
    /\ IF InUse(Current)
       THEN pc' = "idle" /\ call' = NoCall
       ELSE pc' = pc /\ call' = [call EXCEPT !.flags = Current]
    /\ UNCHANGED <<list, table, i, maps, grants, free, inbound>>

\* Mutant: a plain store in place of the compare-and-swap.
EndAccessCas_Store == pc = "ea_cas" /\ TakeBack

\* Mutant: the loop compares with the flags it read first, for ever.
EndAccessCas_Stale == pc = "ea_cas" /\ Current = call.flags /\ TakeBack

\* Mutant: the entry is not put back.
EndAccessCas_Leak ==
    /\ pc = "ea_cas" /\ Current = call.flags
    /\ table' = [table EXCEPT ![call.ref].flags = {}]
    /\ grants' = grants \ {Called}
    /\ pc' = "idle" /\ call' = NoCall
    /\ UNCHANGED <<i, list, free, maps, inbound>>

EndAccessCas ==
    /\ pc = "ea_cas"
    /\ \/ Current = call.flags /\ TakeBack
       \/ Current # call.flags /\ Reconsider

----------------------------------------------------------------------------
(* gnttab_end_transfer.                                                    *)

EndTransfer(g) ==
    /\ pc = "idle" /\ g \in grants /\ g.kind = "transfer"
    /\ pc' = "et_read" /\ call' = CallOn(g, {})
    /\ UNCHANGED <<list, table, i, maps, grants, free, inbound>>

\* The loop that waits for the completion reads the flags through a pointer
\* that is not volatile: the compiler may load them again or not, and in a
\* build that does not, the loop never ends.
EndTransferRead ==
    /\ pc = "et_read"
    /\ CASE "committed" \notin Current -> pc' = "et_cas"
         [] "completed" \in Current    -> pc' = "et_frame"
         [] OTHER                      -> pc' \in {"et_wait", "hung"}
    /\ call' = [call EXCEPT !.flags = Current]
    /\ UNCHANGED <<list, table, i, maps, grants, free, inbound>>

EndTransferCas ==
    /\ pc = "et_cas"
    /\ \/ Current = call.flags /\ TakeBack
       \/ /\ Current # call.flags /\ pc' = "et_read"
          /\ UNCHANGED <<list, table, call, i, maps, grants, free, inbound>>

EndTransferWait ==
    /\ pc = "et_wait" /\ "completed" \in Current
    /\ pc' = "et_frame"
    /\ UNCHANGED <<list, table, call, i, maps, grants, free, inbound>>

\* Returns the frame the hypervisor left in the entry.  The flags stay.
EndTransferFrame ==
    /\ pc = "et_frame"
    /\ inbound' = inbound \ {table[call.ref].frame}
    /\ Release(call.ref)
    /\ grants' = grants \ {Called}
    /\ pc' = "idle" /\ call' = NoCall
    /\ UNCHANGED <<table, i, maps>>

\* The endless loops of init_gnttab and of a build of gnttab_end_transfer.
Spin == pc \in {"stuck", "hung"} /\ UNCHANGED vars

----------------------------------------------------------------------------
(* The hypervisor, on behalf of the other domains.                         *)

Map(dom, ref, write) ==
    LET e == table[ref]
        m == [ref |-> ref, dom |-> dom, frame |-> e.frame, write |-> write]
    IN  /\ "permit" \in e.flags /\ e.domid = dom
        /\ write => "readonly" \notin e.flags
        /\ m \notin maps
        /\ maps' = maps \cup {m}
        /\ table' = [table EXCEPT ![ref].flags = @ \cup {"reading"} \cup
                                    (IF write THEN {"writing"} ELSE {})]
        /\ UNCHANGED <<guestVars, inbound>>

\* The last unmapping clears the use flags.
Unmap(m) ==
    LET left == {n \in maps \ {m} : n.ref = m.ref}
        over == (IF left = {} THEN {"reading"} ELSE {}) \cup
                (IF \E n \in left : n.write THEN {} ELSE {"writing"})
    IN  /\ maps' = maps \ {m}
        /\ table' = [table EXCEPT ![m.ref].flags = @ \ over]
        /\ UNCHANGED <<guestVars, inbound>>

Commit(dom, ref) ==
    /\ table[ref].flags = {"accept"} /\ table[ref].domid = dom
    /\ table' = [table EXCEPT ![ref].flags = @ \cup {"committed"}]
    /\ UNCHANGED <<guestVars, maps, inbound>>

Complete(ref, f) ==
    /\ "committed" \in table[ref].flags /\ "completed" \notin table[ref].flags
    /\ f \in Moved \ inbound
    /\ table' = [table EXCEPT ![ref].frame = f,
                              ![ref].flags = @ \cup {"completed"}]
    /\ inbound' = inbound \cup {f}
    /\ UNCHANGED <<guestVars, maps>>

----------------------------------------------------------------------------
Init ==
    /\ list = [r \in Refs |-> 0]
    /\ table = [r \in Refs |-> [frame |-> Zero, domid |-> Zero, flags |-> {}]]
    /\ pc = "init" /\ call = NoCall /\ i = NrReserved
    /\ maps = {} /\ grants = {} /\ free = <<>> /\ inbound = {}

\* What a caller asks for.
Ask == \/ \E kind \in {"access", "transfer"}, d \in Doms, f \in Frames,
             ro \in BOOLEAN : GrantStart(kind, d, f, ro)
       \/ \E g \in grants : EndAccess(g) \/ EndTransfer(g)

\* The guest inside a call.
Run == \/ InitPut \/ InitMap
       \/ GrantDomid \/ GrantPublish \/ EndAccessCas
       \/ EndTransferRead \/ EndTransferCas \/ EndTransferWait
       \/ EndTransferFrame \/ Spin

Finish == \E ref \in Refs, f \in Moved : Complete(ref, f)

Hypervisor ==
    \/ \E d \in Doms, ref \in Refs :
          Commit(d, ref) \/ \E write \in BOOLEAN : Map(d, ref, write)
    \/ \E m \in maps : Unmap(m)
    \/ Finish

Next == Ask \/ Run \/ Hypervisor

Spec == Init /\ [][Next]_vars

\* The guest keeps executing, and the hypervisor completes what it has
\* committed to.
FairSpec == Spec /\ WF_vars(Run) /\ WF_vars(Finish)

----------------------------------------------------------------------------
(* Properties.                                                             *)

GrantType == [kind : {"access", "transfer"}, ref : Refs, dom : Doms,
              frame : Frames, ro : BOOLEAN]
CallType == [kind : {"none", "access", "transfer"}, ref : Refs,
             dom : Doms \cup {Zero}, frame : Frames \cup {Zero},
             ro : BOOLEAN, flags : SUBSET Flags]
Pcs == {"init", "stuck", "idle", "domid", "flags", "ea_cas", "et_read",
        "et_cas", "et_wait", "et_frame", "hung"}

\* The type invariant.
TypeOK ==
    /\ list \in [Refs -> Refs]
    /\ table \in [Refs -> [frame : Frames \cup Moved \cup {Zero},
                           domid : Doms \cup {Zero}, flags : SUBSET Flags]]
    /\ pc \in Pcs /\ call \in CallType
    /\ i \in NrReserved..NrEntries
    /\ maps \subseteq [ref : Refs, dom : Doms,
                       frame : Frames \cup Moved \cup {Zero}, write : BOOLEAN]
    /\ grants \subseteq GrantType
    /\ free \in Seq(Refs)
    /\ inbound \subseteq Moved

\* The reference a call has taken and not yet published.
InHand == IF pc \in {"domid", "flags"} THEN {call.ref} ELSE {}

\* No reference is lost and none is handed out twice: the list holds, in
\* order and once each, exactly the references neither held nor in hand.
FreeListExact ==
    /\ list[0] = IF free = <<>> THEN 0 ELSE free[1]
    /\ \A k \in 1..Len(free) :
          /\ list[free[k]] = IF k = Len(free) THEN 0 ELSE free[k + 1]
          /\ \A l \in 1..Len(free) : k # l => free[k] # free[l]
    /\ {free[k] : k \in 1..Len(free)} =
          (NrReserved..(i - 1)) \ ({g.ref : g \in grants} \cup InHand)
    /\ \A g, h \in grants : g.ref = h.ref => g = h

\* Another domain maps a frame only while it is granted to that domain,
\* with that access: an entry is not seen half written, and it is not taken
\* back while it is in use.
MapsAsGranted ==
    \A m \in maps : \E g \in grants :
        /\ g.kind = "access" /\ g.ref = m.ref /\ g.dom = m.dom
        /\ g.frame = m.frame /\ (m.write => ~g.ro)

\* The abstract specification: a transfer is under way from its commit on.
\* A frame moved in is handed over once, by the call that ends its transfer,
\* and no reserved reference (NR_RESERVED_ENTRIES) is ever granted.
Moves == {[ref |-> g.ref,
           frame |-> IF "completed" \in table[g.ref].flags
                     THEN table[g.ref].frame ELSE "pending"] :
            g \in {h \in grants : h.kind = "transfer" /\
                                  "committed" \in table[h.ref].flags}}

G == INSTANCE Grants WITH References <- NrReserved..(NrEntries - 1),
                          moves <- Moves

GrantsSpec == G!Spec

\* Granting access and ending it come to an end, whatever the other domains
\* map and unmap meanwhile.
AccessCallsReturn == (pc \in {"domid", "flags", "ea_cas"}) ~> (pc = "idle")

\* gnttab.c:114, "If a transfer is in progress then wait until it is
\* completed."
TransferCallsReturn == (pc = "et_read") ~> (pc = "idle")
=============================================================================
