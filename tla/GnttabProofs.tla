---------------------------- MODULE GnttabProofs ---------------------------
(***************************************************************************)
(* The grant table, for every size of the table, every set of domains and  *)
(* frames and every number of grants the pool can serve: no reference is   *)
(* lost or handed out twice, no other domain maps what is not granted to   *)
(* it, and the table implements the abstract Grants.                       *)
(***************************************************************************)
EXTENDS Gnttab, SequenceTheorems, FiniteSetTheorems, TLAPS

----------------------------------------------------------------------------
(* The inductive invariant.                                                *)

Held == {g.ref : g \in grants}

Members(s) == {s[k] : k \in 1..Len(s)}

\* The list l threads the references of s in order.
Chain(l, s) ==
    /\ l[0] = IF s = <<>> THEN 0 ELSE s[1]
    /\ \A k \in 1..Len(s) :
          /\ l[s[k]] = IF k = Len(s) THEN 0 ELSE s[k + 1]
          /\ \A n \in 1..Len(s) : k # n => s[k] # s[n]

\* A reference is free, held or in hand, and only one of these.
PoolInv ==
    /\ Chain(list, free)
    /\ Members(free) = (NrReserved..(i - 1)) \ (Held \cup InHand)
    /\ Held \cup InHand \subseteq NrReserved..(i - 1)
    /\ Held \cap InHand = {}
    /\ \A g, h \in grants : g.ref = h.ref => g = h
    /\ pc # "init" => i = NrEntries

\* The call in progress is about a reference nobody else has, or about a
\* grant its caller holds.
Taking == {"domid", "flags"}
Ending == {"et_read", "et_cas", "et_wait", "et_frame", "hung"}

CallInv ==
    /\ pc \in Taking => /\ call.kind # "none"
                        /\ call.dom \in Doms /\ call.frame \in Frames
                        /\ table[call.ref].frame = call.frame
    /\ pc = "flags" => table[call.ref].domid = call.dom
    /\ pc = "ea_cas" => /\ Called \in grants /\ call.kind = "access"
                        /\ ~InUse(call.flags)
    /\ pc \in Ending => Called \in grants /\ call.kind = "transfer"
    /\ pc = "et_cas" => "committed" \notin call.flags
    /\ pc = "et_frame" => "completed" \in Current

\* The shared entry of a grant says what was granted, and tells of every
\* mapping made through it.
AccessEntry(g) ==
    LET e == table[g.ref]
    IN  /\ e.frame = g.frame /\ "permit" \in e.flags
        /\ e.flags \subseteq {"permit", "readonly", "reading", "writing"}
        /\ "readonly" \in e.flags <=> g.ro
        /\ \A m \in maps : m.ref = g.ref => "reading" \in e.flags

TransferEntry(g) ==
    LET e == table[g.ref]
    IN  /\ e.flags \in {{"accept"}, {"accept", "committed"},
                        {"accept", "committed", "completed"}}
        /\ "completed" \in e.flags => e.frame \in inbound

\* The hypervisor does nothing with an entry that is not granted.
IdleEntry(ref) ==
    LET e == table[ref]
    IN  /\ "permit" \notin e.flags /\ e.flags # {"accept"}
        /\ "committed" \in e.flags => "completed" \in e.flags

EntryInv ==
    /\ \A g \in grants :
          /\ table[g.ref].domid = g.dom
          /\ g.kind = "access" => AccessEntry(g)
          /\ g.kind = "transfer" => TransferEntry(g)
    /\ \A ref \in Refs \ Held : IdleEntry(ref)

\* Two completed transfers brought two frames.
InboundInv ==
    \A g, h \in {t \in grants : t.kind = "transfer"} :
        /\ g # h /\ "completed" \in table[g.ref].flags
        /\ "completed" \in table[h.ref].flags
        => table[g.ref].frame # table[h.ref].frame

IInv == TypeOK /\ PoolInv /\ CallInv /\ EntryInv /\ InboundInv /\ MapsAsGranted

----------------------------------------------------------------------------
(* The free list.                                                          *)

\* Putting a reference that is not on the list in front of it.
LEMMA PutFreeChain ==
    ASSUME NEW l \in [Refs -> Refs], NEW s \in Seq(Refs), Chain(l, s),
           NEW ref \in Refs \ {0}, ref \notin Members(s), 0 \notin Members(s)
    PROVE  /\ PutFree(l, ref) \in [Refs -> Refs]
           /\ <<ref>> \o s \in Seq(Refs)
           /\ Chain(PutFree(l, ref), <<ref>> \o s)
           /\ Members(<<ref>> \o s) = Members(s) \cup {ref}
  <1> DEFINE t == <<ref>> \o s
             p == PutFree(l, ref)
  <1>1. /\ <<ref>> \in Seq(Refs) /\ Len(<<ref>>) = 1 /\ <<ref>>[1] = ref
        /\ 0 \in Refs
    BY EntriesAssumption DEF Refs
  <1>2. /\ t \in Seq(Refs) /\ Len(t) = Len(s) + 1 /\ Len(s) \in Nat
        /\ \A k \in 1..Len(t) : t[k] = IF k = 1 THEN ref ELSE s[k - 1]
    BY <1>1, ConcatProperties, LenProperties
  <1>3. /\ p \in [Refs -> Refs]
        /\ \A r \in Refs : p[r] = IF r = 0 THEN ref
                                  ELSE IF r = ref THEN l[0] ELSE l[r]
    BY <1>1 DEF PutFree
  <1>4. \A k \in 1..Len(s) : s[k] \in Refs /\ s[k] # ref /\ s[k] # 0
    BY <1>2, ElementOfSeq DEF Members
  <1>5. Members(t) = Members(s) \cup {ref}
    <2>1. Members(t) \subseteq Members(s) \cup {ref}
      <3>1. SUFFICES ASSUME NEW k \in 1..Len(t)
                     PROVE  t[k] \in Members(s) \cup {ref}
        BY DEF Members
      <3>2. k # 1 => k - 1 \in 1..Len(s) BY <1>2
      <3> QED BY <1>2, <3>2 DEF Members
    <2>2. ref \in Members(t)
      <3>1. 1 \in 1..Len(t) /\ t[1] = ref BY <1>2
      <3> QED BY <3>1 DEF Members
    <2>3. Members(s) \subseteq Members(t)
      <3>1. SUFFICES ASSUME NEW k \in 1..Len(s) PROVE s[k] \in Members(t)
        BY DEF Members
      <3>2. k + 1 \in 1..Len(t) /\ t[k + 1] = s[k] BY <1>2
      <3> QED BY <3>2 DEF Members
    <2> QED BY <2>1, <2>2, <2>3
  <1>6. p[0] = t[1] /\ t # <<>>
    BY <1>1, <1>2, <1>3
  <1>7. ASSUME NEW k \in 1..Len(t)
        PROVE  /\ p[t[k]] = IF k = Len(t) THEN 0 ELSE t[k + 1]
               /\ \A n \in 1..Len(t) : k # n => t[k] # t[n]
    <2>1. CASE k = 1
      <3>1. p[t[k]] = IF s = <<>> THEN 0 ELSE s[1]
        BY <2>1, <1>2, <1>3 DEF Chain
      <3>2. s = <<>> <=> Len(s) = 0 BY EmptySeq
      <3>3. Len(s) # 0 => t[2] = s[1] BY <1>2
      <3>4. \A n \in 1..Len(t) : n # 1 => n - 1 \in 1..Len(s) /\ t[n] = s[n - 1]
        BY <1>2
      <3>5. \A n \in 1..Len(t) : k # n => t[k] # t[n]
        BY <2>1, <1>2, <1>4, <3>4
      <3> QED BY <2>1, <1>2, <3>1, <3>2, <3>3, <3>5
    <2>2. CASE k # 1
      <3>1. k - 1 \in 1..Len(s) /\ t[k] = s[k - 1] BY <2>2, <1>2
      <3>2. p[t[k]] = l[s[k - 1]] BY <3>1, <1>3, <1>4
      <3>3. l[s[k - 1]] = IF k - 1 = Len(s) THEN 0 ELSE s[k]
        BY <3>1 DEF Chain
      <3>4. k # Len(t) => t[k + 1] = s[k] BY <1>2, <3>1
      <3>5. ASSUME NEW n \in 1..Len(t), k # n PROVE t[k] # t[n]
        <4>1. CASE n = 1 BY <4>1, <3>1, <1>2, <1>4
        <4>2. CASE n # 1
          <5>1. n - 1 \in 1..Len(s) /\ t[n] = s[n - 1] /\ n - 1 # k - 1
            BY <4>2, <1>2, <3>5
          <5> QED BY <5>1, <3>1 DEF Chain
        <4> QED BY <4>1, <4>2
      <3> QED BY <3>1, <3>2, <3>3, <3>4, <3>5, <1>2
    <2> QED BY <2>1, <2>2
  <1> QED BY <1>2, <1>3, <1>5, <1>6, <1>7 DEF Chain

\* Taking the first reference of a list that is not empty.
LEMMA GetFreeChain ==
    ASSUME NEW l \in [Refs -> Refs], NEW s \in Seq(Refs), Chain(l, s),
           s # <<>>, 0 \notin Members(s)
    PROVE  /\ l[0] = s[1] /\ s[1] \in Refs
           /\ GetFree(l) \in [Refs -> Refs]
           /\ Tail(s) \in Seq(Refs)
           /\ Chain(GetFree(l), Tail(s))
           /\ Members(Tail(s)) = Members(s) \ {s[1]}
           /\ s[1] \in Members(s)
  <1> DEFINE t == Tail(s)
             p == GetFree(l)
  <1>1. /\ t \in Seq(Refs) /\ Len(t) = Len(s) - 1 /\ Len(s) \in Nat \ {0}
        /\ \A k \in 1..Len(t) : t[k] = s[k + 1]
    BY HeadTailProperties, LenProperties, EmptySeq
  <1>0. Len(t) \in Nat BY <1>1
  <1>a. 1 \in 1..Len(s) BY <1>1
  <1>b. s[1] \in Refs BY <1>a, ElementOfSeq
  <1>2. l[0] = s[1] /\ s[1] \in Refs /\ 0 \in Refs /\ 1 \in 1..Len(s)
    BY <1>a, <1>b, EntriesAssumption DEF Chain, Refs
  <1>3. /\ p \in [Refs -> Refs]
        /\ \A r \in Refs : p[r] = IF r = 0 THEN l[s[1]] ELSE l[r]
    BY <1>2 DEF GetFree
  <1>4. \A k \in 1..Len(s) : s[k] \in Refs /\ s[k] # 0
    BY <1>1, ElementOfSeq DEF Members
  <1>5. \A k \in 1..Len(t) : k + 1 \in 1..Len(s)
    BY <1>1
  <1>6. \A k, n \in 1..Len(s) : k # n => s[k] # s[n]
    BY DEF Chain
  <1>7. Members(t) = Members(s) \ {s[1]}
    <2>1. Members(t) \subseteq Members(s) \ {s[1]}
      BY <1>1, <1>2, <1>5, <1>6 DEF Members
    <2>2. ASSUME NEW k \in 1..Len(s), s[k] # s[1] PROVE s[k] \in Members(t)
      <3>1. k - 1 \in 1..Len(t) /\ t[k - 1] = s[k] BY <1>1, <2>2
      <3> QED BY <3>1 DEF Members
    <2> QED BY <2>1, <2>2 DEF Members
  <1>8. p[0] = IF t = <<>> THEN 0 ELSE t[1]
    <2>1. p[0] = IF 1 = Len(s) THEN 0 ELSE s[2]
      BY <1>2, <1>3 DEF Chain
    <2>2. t = <<>> <=> Len(t) = 0 BY <1>1, EmptySeq
    <2> QED BY <1>1, <2>1, <2>2
  <1>9. ASSUME NEW k \in 1..Len(t)
        PROVE  /\ p[t[k]] = IF k = Len(t) THEN 0 ELSE t[k + 1]
               /\ \A n \in 1..Len(t) : k # n => t[k] # t[n]
    <2>1. p[t[k]] = l[s[k + 1]] BY <1>1, <1>3, <1>4, <1>5
    <2>2. l[s[k + 1]] = IF k + 1 = Len(s) THEN 0 ELSE s[k + 2]
      BY <1>5 DEF Chain
    <2>3. k # Len(t) => t[k + 1] = s[k + 2]
      <3>1. k # Len(t) => k + 1 \in 1..Len(t) BY <1>0
      <3>2. k + 1 \in 1..Len(t) => t[k + 1] = s[(k + 1) + 1] BY <1>1
      <3>3. (k + 1) + 1 = k + 2 BY <1>1
      <3> QED BY <3>1, <3>2, <3>3
    <2>4. \A n \in 1..Len(t) : k # n => t[k] # t[n]
      <3>1. SUFFICES ASSUME NEW n \in 1..Len(t), k # n PROVE t[k] # t[n]
        OBVIOUS
      <3>2. k + 1 # n + 1 BY <1>1, <3>1
      <3> QED BY <1>1, <1>5, <1>6, <3>2
    <2>5. k = Len(t) <=> k + 1 = Len(s) BY <1>1
    <2> HIDE DEF t, p
    <2> QED BY <2>1, <2>2, <2>3, <2>4, <2>5
  <1> QED BY <1>1, <1>2, <1>3, <1>7, <1>8, <1>9 DEF Chain, Members

----------------------------------------------------------------------------
(* What the invariant says of references.                                  *)

LEMMA PoolRefs ==
    ASSUME TypeOK, PoolInv
    PROVE  /\ NrReserved..(i - 1) \subseteq Refs \ {0}
           /\ Members(free) \subseteq NrReserved..(i - 1)
           /\ 0 \notin Members(free)
           /\ i \in Nat
  <1>1. NrReserved..(i - 1) \subseteq Refs \ {0} /\ i \in Nat
    BY EntriesAssumption DEF TypeOK, Refs
  <1> QED BY <1>1 DEF PoolInv

\* A reference that is not free goes to the front of the list.
LEMMA ReleaseList ==
    ASSUME TypeOK, PoolInv, NEW ref \in Refs \ {0}, ref \notin Members(free),
           Release(ref)
    PROVE  /\ list' \in [Refs -> Refs] /\ free' \in Seq(Refs)
           /\ Chain(list', free')
           /\ Members(free') = Members(free) \cup {ref}
  <1>1. /\ list \in [Refs -> Refs] /\ free \in Seq(Refs)
        /\ Chain(list, free) /\ 0 \notin Members(free)
    BY PoolRefs DEF TypeOK, PoolInv
  <1>2. list' = PutFree(list, ref) /\ free' = <<ref>> \o free
    BY DEF Release
  <1> HIDE DEF TypeOK, PoolInv
  <1>3. /\ PutFree(list, ref) \in [Refs -> Refs]
        /\ <<ref>> \o free \in Seq(Refs)
        /\ Chain(PutFree(list, ref), <<ref>> \o free)
        /\ Members(<<ref>> \o free) = Members(free) \cup {ref}
    BY <1>1, PutFreeChain
  <1> QED BY <1>2, <1>3

\* There is a free reference whenever a caller may ask for a grant.
LEMMA PoolServes ==
    ASSUME TypeOK, PoolInv, pc = "idle", Cardinality(grants) < MaxGrants
    PROVE  free # <<>>
  <1> SUFFICES ASSUME free = <<>> PROVE FALSE
    OBVIOUS
  <1> DEFINE pool == NrReserved..(NrEntries - 1)
             f == [g \in grants |-> g.ref]
  <1>1. Members(free) = {} /\ InHand = {} /\ i = NrEntries
    <2>1. Len(free) = 0 BY EmptySeq
    <2> QED BY <2>1 DEF Members, PoolInv, InHand
  <1>2. Held = pool BY <1>1 DEF PoolInv
  <1>3. f \in Injection(grants, pool) /\ f \in Surjection(grants, pool)
    <2>1. f \in [grants -> pool] BY <1>2 DEF Held
    <2>2. \A g, h \in grants : f[g] = f[h] => g = h BY DEF PoolInv
    <2>3. \A r \in pool : \E g \in grants : f[g] = r BY <1>2 DEF Held
    <2> QED BY <2>1, <2>2, <2>3 DEF Injection, Surjection, IsInjective
  <1>4. IsFiniteSet(pool) /\ Cardinality(pool) = NrEntries - NrReserved
    BY FS_Interval, EntriesAssumption
  <1>5. Cardinality(grants) = Cardinality(pool)
    BY <1>3, <1>4, FS_Injection
  <1> QED BY <1>4, <1>5, PoolAssumption, FramesAssumption, EntriesAssumption

----------------------------------------------------------------------------
(* Every step keeps the invariant.                                         *)

\* The entries, the mappings and the grants as they were.
LEMMA SameEntries ==
    ASSUME EntryInv, InboundInv, MapsAsGranted,
           UNCHANGED <<table, maps, grants, inbound>>
    PROVE  EntryInv' /\ InboundInv' /\ MapsAsGranted'
  <1>1. Held' = Held BY DEF Held
  <1>2. \A r \in Refs : IdleEntry(r) => IdleEntry(r)' BY DEF IdleEntry
  <1>3. \A g \in grants : /\ AccessEntry(g) => AccessEntry(g)'
                          /\ TransferEntry(g) => TransferEntry(g)'
    BY DEF AccessEntry, TransferEntry
  <1>4. EntryInv' BY <1>1, <1>2, <1>3 DEF EntryInv
  <1>5. InboundInv' BY DEF InboundInv
  <1>6. MapsAsGranted' BY DEF MapsAsGranted
  <1> QED BY <1>4, <1>5, <1>6

LEMMA InitIInv == Init => IInv
  <1> SUFFICES ASSUME Init PROVE IInv
    OBVIOUS
  <1>1. 0 \in Refs /\ NrReserved..(NrReserved - 1) = {} /\ NrReserved \in NrReserved..NrEntries
    BY EntriesAssumption DEF Refs
  <1>2. TypeOK
    BY <1>1, EmptySeq DEF Init, TypeOK, Pcs, CallType, NoCall
  <1>3. Len(free) = 0 /\ Members(free) = {}
    BY EmptySeq DEF Init, Members
  <1>4. PoolInv
    BY <1>1, <1>3 DEF Init, PoolInv, Chain, Held, InHand
  <1>5. CallInv
    BY DEF Init, CallInv, Taking, Ending
  <1>6. EntryInv /\ InboundInv /\ MapsAsGranted
    BY DEF Init, EntryInv, InboundInv, MapsAsGranted, IdleEntry
  <1> QED BY <1>2, <1>4, <1>5, <1>6 DEF IInv

LEMMA Stutter == IInv /\ UNCHANGED vars => IInv'
  <1> SUFFICES ASSUME IInv, UNCHANGED vars PROVE IInv'
    OBVIOUS
  <1>1. UNCHANGED <<list, table, pc, call, i, maps, grants, free, inbound>>
    BY DEF vars, guestVars
  <1>2. TypeOK' BY <1>1 DEF IInv, TypeOK
  <1>3. PoolInv' BY <1>1 DEF IInv, PoolInv, Held, InHand, Chain, Members
  <1>4. CallInv'
    BY <1>1 DEF IInv, CallInv, Called, Current, Taking, Ending, InUse
  <1>5. EntryInv' /\ InboundInv' /\ MapsAsGranted'
    BY <1>1, SameEntries DEF IInv
  <1> QED BY <1>2, <1>3, <1>4, <1>5 DEF IInv

LEMMA InitPutStep ==
    ASSUME IInv, InitPut
    PROVE  IInv'
  <1>1. i \in Refs \ {0} /\ i \notin Members(free) /\ i \in Nat
        /\ NrReserved..(i' - 1) = (NrReserved..(i - 1)) \cup {i}
        /\ i' \in NrReserved..NrEntries /\ i \notin NrReserved..(i - 1)
    <2>1. i \in NrReserved..NrEntries /\ i < NrEntries /\ i' = i + 1
      BY DEF IInv, TypeOK, InitPut
    <2> QED BY <2>1, PoolRefs, EntriesAssumption DEF IInv, Refs
  <1>2. /\ list' \in [Refs -> Refs] /\ free' \in Seq(Refs)
        /\ Chain(list', free')
        /\ Members(free') = Members(free) \cup {i}
    BY <1>1, ReleaseList DEF IInv, InitPut
  <1>3. UNCHANGED <<table, pc, call, maps, grants, inbound>> /\ pc = "init"
    BY DEF InitPut
  <1>4. TypeOK' BY <1>1, <1>2, <1>3 DEF IInv, TypeOK
  <1>5. PoolInv'
    <2>1. Held' = Held /\ InHand' = InHand /\ i \notin Held \cup InHand
      BY <1>1, <1>3 DEF Held, InHand, IInv, PoolInv
    <2> QED BY <1>1, <1>2, <1>3, <2>1 DEF IInv, PoolInv
  <1>6. CallInv' BY <1>3 DEF CallInv, IInv, Taking, Ending
  <1>7. EntryInv' /\ InboundInv' /\ MapsAsGranted'
    BY <1>3, SameEntries DEF IInv
  <1> QED BY <1>4, <1>5, <1>6, <1>7 DEF IInv

\* Steps that change the guest's place in a call and nothing else.
LEMMA CallStep ==
    ASSUME IInv, UNCHANGED <<list, table, i, maps, grants, free, inbound>>,
           pc' \in Pcs, call' \in CallType, CallInv',
           pc \notin Taking, pc' \notin Taking,
           pc' # "init", i = NrEntries
    PROVE  IInv'
  <1>1. TypeOK' BY DEF IInv, TypeOK
  <1>2. PoolInv'
    <2>1. Held' = Held /\ InHand = {} /\ InHand' = {}
      BY DEF Held, InHand, Taking
    <2> QED BY <2>1 DEF IInv, PoolInv, Chain, Members
  <1>3. EntryInv' /\ InboundInv' /\ MapsAsGranted'
    BY SameEntries DEF IInv
  <1> QED BY <1>1, <1>2, <1>3 DEF IInv

LEMMA InitMapStep == IInv /\ InitMap => IInv'
  <1> SUFFICES ASSUME IInv, InitMap PROVE IInv'
    OBVIOUS
  <1>1. pc' \in Pcs /\ call' \in CallType /\ i = NrEntries
        /\ pc \notin Taking /\ pc' \notin Taking /\ pc' # "init"
    BY DEF InitMap, IInv, TypeOK, Pcs, Taking
  <1>2. CallInv' BY DEF InitMap, CallInv, Taking, Ending
  <1> QED BY <1>1, <1>2, CallStep DEF InitMap

\* A call that ends a grant starts, or goes on.
LEMMA EndingStep ==
    ASSUME IInv,
           \/ \E g \in grants : EndAccess(g) \/ EndTransfer(g)
           \/ EndTransferRead \/ EndTransferWait
           \/ EndAccessCas /\ Reconsider
           \/ /\ pc = "et_cas" /\ pc' = "et_read"
              /\ UNCHANGED <<list, table, call, i, maps, grants, free,
                             inbound>>
    PROVE  IInv'
  <1>t. TypeOK /\ CallInv /\ EntryInv BY DEF IInv
  <1>i. pc # "init" => i = NrEntries BY DEF IInv, PoolInv
  <1>u. ASSUME NEW g \in grants
        PROVE  /\ g \in GrantType /\ table[g.ref].flags \in SUBSET Flags
               /\ g = [kind |-> g.kind, ref |-> g.ref, dom |-> g.dom,
                       frame |-> g.frame, ro |-> g.ro]
    BY <1>t DEF TypeOK, GrantType
  <1>1. ASSUME NEW g \in grants, EndAccess(g) PROVE IInv'
    <2>1. call' \in CallType BY <1>1, <1>u DEF EndAccess, CallOn, CallType, GrantType
    <2>2. Called' = g /\ call'.kind = "access" /\ call'.flags = table[g.ref].flags
      BY <1>1, <1>u DEF EndAccess, CallOn, Called
    <2>3. CallInv' BY <1>1, <2>2 DEF EndAccess, CallInv, Taking, Ending
    <2> QED BY <1>1, <1>i, <2>1, <2>3, CallStep DEF EndAccess, Pcs, Taking
  <1>2. ASSUME NEW g \in grants, EndTransfer(g) PROVE IInv'
    <2>1. call' \in CallType
      BY <1>2, <1>u DEF EndTransfer, CallOn, CallType, GrantType
    <2>2. Called' = g /\ call'.kind = "transfer"
      BY <1>2, <1>u DEF EndTransfer, CallOn, Called
    <2>3. CallInv' BY <1>2, <2>2 DEF EndTransfer, CallInv, Taking, Ending
    <2> QED BY <1>2, <1>i, <2>1, <2>3, CallStep DEF EndTransfer, Pcs, Taking
  <1>3. ASSUME EndTransferRead PROVE IInv'
    <2>1. /\ pc = "et_read" /\ call' = [call EXCEPT !.flags = Current]
          /\ pc' \in {"et_cas", "et_frame", "et_wait", "hung"}
          /\ pc' = "et_cas" => "committed" \notin Current
          /\ pc' = "et_frame" => "completed" \in Current
      BY <1>3 DEF EndTransferRead
    <2>2. call \in CallType /\ Current \in SUBSET Flags
      BY <1>t DEF TypeOK, CallType, Current
    <2>3. /\ call' \in CallType /\ Called' = Called
          /\ call'.kind = call.kind /\ call'.flags = Current /\ call'.ref = call.ref
      BY <2>1, <2>2 DEF CallType, Called
    <2>4. Current' = Current /\ grants' = grants
      BY <1>3, <2>3 DEF EndTransferRead, Current
    <2>5. CallInv'
      BY <1>t, <2>1, <2>3, <2>4 DEF CallInv, Taking, Ending
    <2> QED BY <1>3, <1>i, <2>1, <2>3, <2>5, CallStep
            DEF EndTransferRead, Pcs, Taking
  <1>4. ASSUME EndTransferWait PROVE IInv'
    <2>1. CallInv'
      BY <1>4, <1>t DEF EndTransferWait, CallInv, Taking, Ending, Called, Current
    <2> QED BY <1>4, <1>i, <1>t, <2>1, CallStep
            DEF EndTransferWait, Pcs, Taking, TypeOK
  <1>5. ASSUME EndAccessCas, Reconsider PROVE IInv'
    <2>1. pc = "ea_cas" /\ Called \in grants /\ call.kind = "access"
      BY <1>5, <1>t DEF EndAccessCas, CallInv
    <2>2. call \in CallType /\ Current \in SUBSET Flags
      BY <1>t DEF TypeOK, CallType, Current
    <2>3. CASE InUse(Current)
      <3>1. pc' = "idle" /\ call' = NoCall BY <1>5, <2>3 DEF Reconsider
      <3>2. call' \in CallType
        BY <3>1, EntriesAssumption DEF NoCall, CallType, Refs
      <3>3. CallInv' BY <3>1 DEF CallInv, Taking, Ending
      <3> QED BY <1>5, <1>i, <2>1, <3>1, <3>2, <3>3, CallStep
              DEF Reconsider, Pcs, Taking
    <2>4. CASE ~InUse(Current)
      <3>1. pc' = pc /\ call' = [call EXCEPT !.flags = Current]
        BY <1>5, <2>4 DEF Reconsider
      <3>2. /\ call' \in CallType /\ Called' = Called
            /\ call'.kind = call.kind /\ call'.flags = Current
        BY <2>2, <3>1 DEF CallType, Called
      <3>3. CallInv'
        BY <1>5, <2>1, <2>4, <3>1, <3>2
           DEF CallInv, Taking, Ending, Reconsider, InUse
      <3> QED BY <1>5, <1>i, <2>1, <3>1, <3>2, <3>3, CallStep
              DEF Reconsider, Pcs, Taking
    <2> QED BY <2>3, <2>4
  <1>6. ASSUME pc = "et_cas", pc' = "et_read",
               UNCHANGED <<list, table, call, i, maps, grants, free, inbound>>
        PROVE  IInv'
    <2>1. CallInv'
      BY <1>6, <1>t DEF CallInv, Taking, Ending, Called
    <2> QED BY <1>6, <1>i, <1>t, <2>1, CallStep DEF Pcs, Taking, TypeOK
  <1> QED BY <1>1, <1>2, <1>3, <1>4, <1>5, <1>6

EntryType == [frame : Frames \cup Moved \cup {Zero}, domid : Doms \cup {Zero},
              flags : SUBSET Flags]

\* What a store to one field of an entry leaves.
LEMMA SetFrame ==
    ASSUME NEW t \in [Refs -> EntryType], NEW r \in Refs, NEW u,
           NEW f \in Frames \cup Moved \cup {Zero},
           u = [t EXCEPT ![r].frame = f]
    PROVE  /\ u \in [Refs -> EntryType]
           /\ \A q \in Refs \ {r} : u[q] = t[q]
           /\ u[r].frame = f /\ u[r].domid = t[r].domid /\ u[r].flags = t[r].flags
  <1> DEFINE e == [t[r] EXCEPT !.frame = f]
  <1>1. t[r] \in EntryType OBVIOUS
  <1>2. e \in EntryType BY <1>1 DEF EntryType
  <1>3. e.frame = f /\ e.domid = t[r].domid /\ e.flags = t[r].flags
    BY <1>1 DEF EntryType
  <1>4. u = [t EXCEPT ![r] = e] OBVIOUS
  <1> HIDE DEF e
  <1> QED BY <1>2, <1>3, <1>4

LEMMA SetDomid ==
    ASSUME NEW t \in [Refs -> EntryType], NEW r \in Refs, NEW u,
           NEW d \in Doms \cup {Zero},
           u = [t EXCEPT ![r].domid = d]
    PROVE  /\ u \in [Refs -> EntryType]
           /\ \A q \in Refs \ {r} : u[q] = t[q]
           /\ u[r].frame = t[r].frame /\ u[r].domid = d /\ u[r].flags = t[r].flags
  <1> DEFINE e == [t[r] EXCEPT !.domid = d]
  <1>1. t[r] \in EntryType OBVIOUS
  <1>2. e \in EntryType BY <1>1 DEF EntryType
  <1>3. e.frame = t[r].frame /\ e.domid = d /\ e.flags = t[r].flags
    BY <1>1 DEF EntryType
  <1>4. u = [t EXCEPT ![r] = e] OBVIOUS
  <1> HIDE DEF e
  <1> QED BY <1>2, <1>3, <1>4

LEMMA SetFlags ==
    ASSUME NEW t \in [Refs -> EntryType], NEW r \in Refs, NEW u,
           NEW fl \in SUBSET Flags,
           u = [t EXCEPT ![r].flags = fl]
    PROVE  /\ u \in [Refs -> EntryType]
           /\ \A q \in Refs \ {r} : u[q] = t[q]
           /\ u[r].frame = t[r].frame /\ u[r].domid = t[r].domid /\ u[r].flags = fl
  <1> DEFINE e == [t[r] EXCEPT !.flags = fl]
  <1>1. t[r] \in EntryType OBVIOUS
  <1>2. e \in EntryType BY <1>1 DEF EntryType
  <1>3. e.frame = t[r].frame /\ e.domid = t[r].domid /\ e.flags = fl
    BY <1>1 DEF EntryType
  <1>4. u = [t EXCEPT ![r] = e] OBVIOUS
  <1> HIDE DEF e
  <1> QED BY <1>2, <1>3, <1>4

LEMMA FlagsStored ==
    ASSUME table \in [Refs -> EntryType], NEW r \in Refs, NEW fl \in SUBSET Flags,
           table' = [table EXCEPT ![r].flags = fl]
    PROVE  /\ table' \in [Refs -> EntryType]
           /\ \A q \in Refs \ {r} : table'[q] = table[q]
           /\ table'[r].frame = table[r].frame /\ table'[r].domid = table[r].domid
           /\ table'[r].flags = fl
  <1> DEFINE e == [table[r] EXCEPT !.flags = fl]
  <1>1. table[r] \in EntryType OBVIOUS
  <1>2. e \in EntryType BY <1>1 DEF EntryType
  <1>3. e.frame = table[r].frame /\ e.domid = table[r].domid /\ e.flags = fl
    BY <1>1 DEF EntryType
  <1>4. table' = [table EXCEPT ![r] = e] OBVIOUS
  <1> HIDE DEF e
  <1> QED BY <1>2, <1>3, <1>4

\* Steps that change one entry, and no mapping of another: what is to be
\* shown is what they do to that entry.
LEMMA OneEntry ==
    ASSUME EntryInv, NEW r \in Refs,
           \A q \in Refs \ {r} : table'[q] = table[q],
           \A m \in maps' : m.ref = r \/ m \in maps,
           \A g \in grants' : g.ref = r \/ g \in grants,
           \A g \in grants : g.ref = r \/ g \in grants',
           grants \cup grants' \subseteq GrantType,
           \A g \in grants : /\ g.ref # r /\ "completed" \in table[g.ref].flags
                             /\ table[g.ref].frame \in inbound
                             => table[g.ref].frame \in inbound',
           \A g \in grants' : g.ref = r =>
                /\ table'[r].domid = g.dom
                /\ g.kind = "access" => AccessEntry(g)'
                /\ g.kind = "transfer" => TransferEntry(g)',
           r \notin Held' => IdleEntry(r)'
    PROVE  EntryInv'
  <1>1. ASSUME NEW g \in grants', g.ref # r
        PROVE  /\ table'[g.ref].domid = g.dom
               /\ g.kind = "access" => AccessEntry(g)'
               /\ g.kind = "transfer" => TransferEntry(g)'
    <2>1. g \in grants /\ g.ref \in Refs BY <1>1 DEF GrantType
    <2>2. table'[g.ref] = table[g.ref] BY <1>1, <2>1
    <2>3. table'[g.ref].domid = g.dom BY <2>1, <2>2 DEF EntryInv
    <2>4. g.kind = "access" => AccessEntry(g)'
      BY <1>1, <2>1, <2>2 DEF EntryInv, AccessEntry
    <2>5. g.kind = "transfer" => TransferEntry(g)'
      BY <1>1, <2>1, <2>2 DEF EntryInv, TransferEntry
    <2> QED BY <2>3, <2>4, <2>5
  <1>2. ASSUME NEW q \in Refs \ Held', q # r PROVE IdleEntry(q)'
    <2>1. q \notin Held BY <1>2 DEF Held
    <2> QED BY <1>2, <2>1 DEF EntryInv, IdleEntry
  <1>3. ASSUME NEW g \in grants'
        PROVE  /\ table'[g.ref].domid = g.dom
               /\ g.kind = "access" => AccessEntry(g)'
               /\ g.kind = "transfer" => TransferEntry(g)'
    BY <1>1, <1>3
  <1>4. ASSUME NEW q \in Refs \ Held' PROVE IdleEntry(q)'
    BY <1>2, <1>4
  <1> QED BY <1>3, <1>4 DEF EntryInv

\* A free reference is taken, and the frame is written to its entry.
LEMMA GrantStartStep ==
    ASSUME IInv, NEW kind \in {"access", "transfer"}, NEW d \in Doms,
           NEW f \in Frames, NEW ro \in BOOLEAN, GrantStart(kind, d, f, ro)
    PROVE  IInv'
  <1>0. PICK r : r = list[0]
    OBVIOUS
  <1>1. TypeOK /\ PoolInv /\ EntryInv /\ InboundInv /\ MapsAsGranted
    BY DEF IInv
  <1>2. /\ pc = "idle" /\ pc' = "domid" /\ Cardinality(grants) < MaxGrants
        /\ call' = [kind |-> kind, ref |-> r, dom |-> d, frame |-> f,
                    ro |-> ro, flags |-> {}]
        /\ list' = GetFree(list)
        /\ free' = IF free = <<>> THEN <<>> ELSE Tail(free)
        /\ table' = [table EXCEPT ![r].frame = f]
        /\ UNCHANGED <<i, maps, grants, inbound>>
    BY <1>0 DEF GrantStart, Starts
  <1>3. free # <<>> /\ free' = Tail(free) BY <1>1, <1>2, PoolServes
  <1>4. /\ r = free[1] /\ r \in Refs /\ r \in Members(free)
        /\ list' \in [Refs -> Refs] /\ free' \in Seq(Refs)
        /\ Chain(list', free') /\ Members(free') = Members(free) \ {r}
    <2>1. /\ list \in [Refs -> Refs] /\ free \in Seq(Refs)
          /\ Chain(list, free) /\ 0 \notin Members(free)
      BY <1>1, PoolRefs DEF TypeOK, PoolInv
    <2> QED BY <2>1, <1>0, <1>2, <1>3, GetFreeChain
  <1>5. InHand = {} /\ InHand' = {r} /\ Held' = Held
    BY <1>2 DEF InHand, Held
  <1>6. r \notin Held /\ r \in NrReserved..(i - 1)
    BY <1>1, <1>4 DEF PoolInv
  <1>7. /\ \A q \in Refs \ {r} : table'[q] = table[q]
        /\ table'[r].flags = table[r].flags /\ table'[r].frame = f
        /\ table' \in [Refs -> [frame : Frames \cup Moved \cup {Zero},
                                domid : Doms \cup {Zero}, flags : SUBSET Flags]]
    <2>1. table \in [Refs -> EntryType] BY <1>1 DEF TypeOK, EntryType
    <2>2. table' = [table EXCEPT ![r].frame = f] /\ r \in Refs BY <1>2, <1>4
    <2> HIDE DEF EntryType
    <2>3. /\ table' \in [Refs -> EntryType]
          /\ \A q \in Refs \ {r} : table'[q] = table[q]
          /\ table'[r].flags = table[r].flags /\ table'[r].frame = f
      BY <2>1, <2>2, SetFrame
    <2> QED BY <2>3 DEF EntryType
  <1>8. TypeOK'
    <2>1. call' \in CallType BY <1>2, <1>4 DEF CallType
    <2> QED BY <1>1, <1>2, <1>4, <1>7, <2>1 DEF TypeOK, Pcs
  <1>9. PoolInv'
    BY <1>1, <1>2, <1>4, <1>5, <1>6 DEF PoolInv
  <1>10. CallInv' BY <1>2, <1>7 DEF CallInv, Taking, Ending
  <1>11. \A g \in grants : g.ref # r /\ g.ref \in Refs /\ g \in GrantType
    BY <1>1, <1>6 DEF Held, TypeOK, GrantType
  <1>12. IdleEntry(r)'
    BY <1>1, <1>4, <1>6, <1>7 DEF EntryInv, IdleEntry
  <1>13. EntryInv'
    BY <1>1, <1>2, <1>4, <1>7, <1>11, <1>12, OneEntry
  <1>14. InboundInv' /\ MapsAsGranted'
    BY <1>1, <1>2, <1>7, <1>11 DEF InboundInv, MapsAsGranted
  <1> QED BY <1>8, <1>9, <1>10, <1>13, <1>14 DEF IInv

LEMMA GrantDomidStep == IInv /\ GrantDomid => IInv'
  <1> SUFFICES ASSUME IInv, GrantDomid PROVE IInv'
    OBVIOUS
  <1>0. PICK r : r = call.ref
    OBVIOUS
  <1>1. TypeOK /\ PoolInv /\ CallInv /\ EntryInv /\ InboundInv /\ MapsAsGranted
    BY DEF IInv
  <1>2. /\ pc = "domid" /\ pc' = "flags"
        /\ table' = [table EXCEPT ![r].domid = call.dom]
        /\ UNCHANGED <<list, call, i, maps, grants, free, inbound>>
    BY <1>0 DEF GrantDomid
  <1>3. r \in Refs /\ call.dom \in Doms
    BY <1>0, <1>1, <1>2 DEF TypeOK, CallType, CallInv, Taking
  <1>4. InHand = {r} /\ InHand' = {r} /\ Held' = Held /\ r \notin Held
    BY <1>0, <1>1, <1>2 DEF InHand, Held, PoolInv
  <1>5. /\ \A q \in Refs \ {r} : table'[q] = table[q]
        /\ table'[r].flags = table[r].flags /\ table'[r].domid = call.dom
        /\ table'[r].frame = table[r].frame
        /\ table' \in [Refs -> [frame : Frames \cup Moved \cup {Zero},
                                domid : Doms \cup {Zero}, flags : SUBSET Flags]]
    <2>1. PICK d \in Doms : d = call.dom BY <1>3
    <2>2. table' = [table EXCEPT ![r].domid = d] BY <1>2, <2>1
    <2>3. table \in [Refs -> EntryType] BY <1>1 DEF TypeOK, EntryType
    <2> QED BY <1>3, <2>1, <2>2, <2>3, SetDomid DEF EntryType
  <1>6. TypeOK' BY <1>1, <1>2, <1>5 DEF TypeOK, Pcs
  <1>7. PoolInv' BY <1>1, <1>2, <1>4 DEF PoolInv, Chain, Members
  <1>8. CallInv' BY <1>0, <1>1, <1>2, <1>5 DEF CallInv, Taking, Ending
  <1>9. \A g \in grants : g.ref # r /\ g.ref \in Refs /\ g \in GrantType
    BY <1>1, <1>4 DEF Held, TypeOK, GrantType
  <1>10. IdleEntry(r)' BY <1>1, <1>3, <1>4, <1>5 DEF EntryInv, IdleEntry
  <1>11. EntryInv' BY <1>1, <1>2, <1>3, <1>5, <1>9, <1>10, OneEntry
  <1>12. InboundInv' /\ MapsAsGranted'
    BY <1>1, <1>2, <1>5, <1>9 DEF InboundInv, MapsAsGranted
  <1> QED BY <1>6, <1>7, <1>8, <1>11, <1>12 DEF IInv

\* The flags are written last: the entry is granted whole.
LEMMA GrantPublishStep == IInv /\ GrantPublish => IInv'
  <1> SUFFICES ASSUME IInv, GrantPublish PROVE IInv'
    OBVIOUS
  <1>0. PICK r : r = call.ref
    OBVIOUS
  <1>c. PICK c : c = Called
    OBVIOUS
  <1>1. TypeOK /\ PoolInv /\ CallInv /\ EntryInv /\ InboundInv /\ MapsAsGranted
    BY DEF IInv
  <1>2. /\ pc = "flags" /\ pc' = "idle" /\ call' = NoCall
        /\ table' = [table EXCEPT ![r].flags = GrantFlags(call.kind, call.ro)]
        /\ grants' = grants \cup {c}
        /\ UNCHANGED <<list, i, maps, free, inbound>>
    BY <1>0, <1>c DEF GrantPublish, Called
  <1>3. /\ r \in Refs /\ call.dom \in Doms /\ call.frame \in Frames
        /\ call.kind \in {"access", "transfer"} /\ call.ro \in BOOLEAN
        /\ table[r].frame = call.frame /\ table[r].domid = call.dom
    BY <1>0, <1>1, <1>2 DEF TypeOK, CallType, CallInv, Taking
  <1>4. /\ c \in GrantType
        /\ c.kind = call.kind /\ c.ref = r /\ c.ro = call.ro
        /\ c.dom = call.dom /\ c.frame = call.frame
    BY <1>0, <1>c, <1>3 DEF Called, GrantType
  <1>5. InHand = {r} /\ InHand' = {} /\ Held' = Held \cup {r} /\ r \notin Held
    <2>1. InHand = {r} /\ InHand' = {} BY <1>0, <1>2 DEF InHand
    <2>2. Held' = Held \cup {r} BY <1>2, <1>4 DEF Held
    <2> QED BY <1>1, <2>1, <2>2 DEF PoolInv
  <1>6. /\ \A q \in Refs \ {r} : table'[q] = table[q]
        /\ table'[r].flags = GrantFlags(call.kind, call.ro)
        /\ table'[r].frame = call.frame /\ table'[r].domid = call.dom
        /\ table' \in [Refs -> [frame : Frames \cup Moved \cup {Zero},
                                domid : Doms \cup {Zero}, flags : SUBSET Flags]]
    <2>1. GrantFlags(call.kind, call.ro) \in SUBSET Flags
      BY DEF GrantFlags, Flags
    <2>2. table \in [Refs -> EntryType] BY <1>1 DEF TypeOK, EntryType
    <2> QED BY <1>2, <1>3, <2>1, <2>2, SetFlags DEF EntryType
  <1>7. TypeOK'
    <2>1. call' \in CallType
      BY <1>2, EntriesAssumption DEF NoCall, CallType, Refs
    <2> QED BY <1>1, <1>2, <1>4, <1>6, <2>1 DEF TypeOK, Pcs
  <1>8. \A g \in grants : g.ref # r /\ g.ref \in Refs /\ g \in GrantType
    BY <1>1, <1>5 DEF Held, TypeOK, GrantType
  <1>9. PoolInv'
    <2>1. \A g, h \in grants' : g.ref = h.ref => g = h
      BY <1>1, <1>2, <1>4, <1>8 DEF PoolInv
    <2> QED BY <1>1, <1>2, <1>5, <2>1 DEF PoolInv, Chain, Members
  <1>10. CallInv' BY <1>2 DEF CallInv, Taking, Ending
  <1>11. \A m \in maps : m.ref # r
    BY <1>1, <1>8 DEF MapsAsGranted
  <1>12. /\ call.kind = "access" => AccessEntry(c)'
         /\ call.kind = "transfer" => TransferEntry(c)'
    <2>1. CASE call.kind = "access"
      <3>1. /\ "permit" \in table'[r].flags
            /\ table'[r].flags \subseteq {"permit", "readonly", "reading", "writing"}
            /\ "readonly" \in table'[r].flags <=> call.ro
        BY <1>6, <2>1 DEF GrantFlags
      <3> QED BY <1>2, <1>4, <1>6, <1>11, <2>1, <3>1 DEF AccessEntry
    <2>2. CASE call.kind = "transfer"
      BY <1>2, <1>4, <1>6, <2>2 DEF TransferEntry, GrantFlags
    <2> QED BY <1>3, <2>1, <2>2
  <1>13. EntryInv'
    <2>1. \A g \in grants' : g.ref = r => g = c
      BY <1>2, <1>8
    <2>2. \A g \in grants' : g.ref = r =>
                /\ table'[r].domid = g.dom
                /\ g.kind = "access" => AccessEntry(g)'
                /\ g.kind = "transfer" => TransferEntry(g)'
      BY <2>1, <1>4, <1>6, <1>12
    <2>3. r \in Held' BY <1>5
    <2>4. /\ \A g \in grants' : g.ref = r \/ g \in grants
          /\ \A g \in grants : g.ref = r \/ g \in grants'
          /\ grants \cup grants' \subseteq GrantType
      BY <1>2, <1>4, <1>8
    <2> QED BY <1>1, <1>2, <1>3, <1>6, <2>2, <2>3, <2>4, OneEntry
  <1>14. InboundInv'
    <2>1. "completed" \in table'[r].flags => call.kind # "transfer"
      BY <1>6 DEF GrantFlags
    <2> QED BY <1>1, <1>2, <1>4, <1>6, <1>8, <2>1 DEF InboundInv
  <1>15. MapsAsGranted' BY <1>1, <1>2 DEF MapsAsGranted
  <1> QED BY <1>7, <1>9, <1>10, <1>13, <1>14, <1>15 DEF IInv

\* A call that ends a grant gives the reference back.
LEMMA GiveBackStep ==
    ASSUME IInv, NEW c \in grants, NEW r, c = Called, r = call.ref,
           pc \in {"ea_cas"} \cup Ending,
           \A m \in maps : m.ref # r,
           Release(r), grants' = grants \ {c},
           pc' = "idle", call' = NoCall, UNCHANGED <<i, maps>>,
           table' \in [Refs -> EntryType],
           \A q \in Refs \ {r} : table'[q] = table[q],
           IdleEntry(r)',
           inbound' \subseteq inbound,
           \A g \in grants \ {c} :
                /\ g.kind = "transfer" /\ "completed" \in table[g.ref].flags
                => table[g.ref].frame \in inbound'
    PROVE  IInv'
  <1>1. TypeOK /\ PoolInv /\ CallInv /\ EntryInv /\ InboundInv /\ MapsAsGranted
    BY DEF IInv
  <1>2. /\ c \in GrantType /\ c.ref = r /\ r \in Refs
        /\ \A g \in grants : g \in GrantType /\ g.ref \in Refs
    BY <1>1 DEF TypeOK, GrantType, Called
  <1>3. InHand = {} /\ InHand' = {} BY DEF InHand, Ending
  <1>4. \A g \in grants \ {c} : g.ref # r
    BY <1>1, <1>2 DEF PoolInv
  <1>5. Held' = Held \ {r} /\ r \in Held
    BY <1>2, <1>4 DEF Held
  <1>6. r \in NrReserved..(i - 1) /\ r \in Refs \ {0} /\ r \notin Members(free)
    BY <1>1, <1>5, PoolRefs DEF PoolInv
  <1>7. /\ list' \in [Refs -> Refs] /\ free' \in Seq(Refs)
        /\ Chain(list', free') /\ Members(free') = Members(free) \cup {r}
    BY <1>1, <1>6, ReleaseList
  <1>8. TypeOK'
    <2>1. call' \in CallType
      BY EntriesAssumption DEF NoCall, CallType, Refs
    <2> QED BY <1>1, <1>7, <2>1 DEF TypeOK, Pcs, EntryType
  <1>9. PoolInv'
    BY <1>1, <1>3, <1>5, <1>6, <1>7 DEF PoolInv, Ending
  <1>10. CallInv' BY DEF CallInv, Taking, Ending
  <1>11. EntryInv'
    <2>1. ASSUME NEW g \in grants'
          PROVE  /\ table'[g.ref].domid = g.dom
                 /\ g.kind = "access" => AccessEntry(g)'
                 /\ g.kind = "transfer" => TransferEntry(g)'
      <3>1. g \in grants \ {c} /\ table'[g.ref] = table[g.ref]
        BY <1>2, <1>4
      <3>2. table'[g.ref].domid = g.dom BY <1>1, <3>1 DEF EntryInv
      <3>3. g.kind = "access" => AccessEntry(g)'
        BY <1>1, <3>1 DEF EntryInv, AccessEntry
      <3>4. g.kind = "transfer" => TransferEntry(g)'
        BY <1>1, <3>1 DEF EntryInv, TransferEntry
      <3> QED BY <3>2, <3>3, <3>4
    <2>2. ASSUME NEW q \in Refs \ Held' PROVE IdleEntry(q)'
      <3>1. CASE q = r BY <3>1
      <3>2. CASE q # r
        <4>1. q \notin Held /\ table'[q] = table[q] BY <1>5, <3>2
        <4> QED BY <1>1, <4>1 DEF EntryInv, IdleEntry
      <3> QED BY <3>1, <3>2
    <2> QED BY <2>1, <2>2 DEF EntryInv
  <1>12. InboundInv'
    BY <1>1, <1>2, <1>4 DEF InboundInv
  <1>13. MapsAsGranted'
    BY <1>1, <1>2 DEF MapsAsGranted
  <1> QED BY <1>8, <1>9, <1>10, <1>11, <1>12, <1>13 DEF IInv

\* Nothing is mapped through the entry that a call takes back.
LEMMA TakeBackStep ==
    ASSUME IInv, Current = call.flags, TakeBack,
           pc \in {"ea_cas", "et_cas"}
    PROVE  IInv'
  <1>0. PICK r, c : r = call.ref /\ c = Called
    OBVIOUS
  <1>1. TypeOK /\ PoolInv /\ CallInv /\ EntryInv /\ InboundInv /\ MapsAsGranted
    BY DEF IInv
  <1>2. c \in grants /\ c.kind = call.kind /\ c.ref = r /\ c \in GrantType
    BY <1>0, <1>1 DEF CallInv, Called, Ending, TypeOK
  <1>3. /\ table' = [table EXCEPT ![r].flags = {}]
        /\ Release(r) /\ grants' = grants \ {c}
        /\ pc' = "idle" /\ call' = NoCall
        /\ UNCHANGED <<i, maps, inbound>>
    BY <1>0 DEF TakeBack
  <1>4. table \in [Refs -> EntryType] /\ r \in Refs
    BY <1>1, <1>2 DEF TypeOK, EntryType, GrantType
  <1>5. /\ table' \in [Refs -> EntryType]
        /\ \A q \in Refs \ {r} : table'[q] = table[q]
        /\ table'[r].flags = {}
    <2>1. PICK v \in SUBSET Flags : v = {} OBVIOUS
    <2>2. table' = [table EXCEPT ![r].flags = v] BY <1>3, <2>1
    <2>3. /\ table' \in [Refs -> EntryType]
          /\ \A q \in Refs \ {r} : table'[q] = table[q]
          /\ table'[r].flags = v
      BY <1>4, <2>2, FlagsStored, Zenon
    <2> QED BY <2>1, <2>3, Zenon
  <1>6. IdleEntry(r)' BY <1>5 DEF IdleEntry
  <1>7. ASSUME NEW m \in maps, m.ref = r PROVE FALSE
    <2>1. PICK g \in grants : g.kind = "access" /\ g.ref = r
      BY <1>1, <1>7 DEF MapsAsGranted
    <2>2. g = c BY <1>1, <1>2, <2>1 DEF PoolInv
    <2>3. pc = "ea_cas" /\ ~InUse(table[r].flags)
      BY <1>0, <1>1, <1>2, <2>1, <2>2 DEF CallInv, Ending, Current
    <2>4. "reading" \in table[r].flags
      BY <1>1, <1>2, <1>7, <2>1, <2>2 DEF EntryInv, AccessEntry
    <2> QED BY <2>3, <2>4 DEF InUse
  <1>8. \A g \in grants \ {c} :
                /\ g.kind = "transfer" /\ "completed" \in table[g.ref].flags
                => table[g.ref].frame \in inbound'
    BY <1>1, <1>3 DEF EntryInv, TransferEntry
  <1> QED BY <1>0, <1>2, <1>3, <1>5, <1>6, <1>7, <1>8, GiveBackStep DEF Ending

LEMMA EndTransferFrameStep == IInv /\ EndTransferFrame => IInv'
  <1> SUFFICES ASSUME IInv, EndTransferFrame PROVE IInv'
    OBVIOUS
  <1>0. PICK r, c : r = call.ref /\ c = Called
    OBVIOUS
  <1>1. TypeOK /\ PoolInv /\ CallInv /\ EntryInv /\ InboundInv /\ MapsAsGranted
    BY DEF IInv
  <1>2. /\ pc = "et_frame" /\ inbound' = inbound \ {table[r].frame}
        /\ Release(r) /\ grants' = grants \ {c}
        /\ pc' = "idle" /\ call' = NoCall
        /\ UNCHANGED <<table, i, maps>>
    BY <1>0 DEF EndTransferFrame
  <1>3. /\ c \in grants /\ c.kind = "transfer" /\ c.ref = r /\ c \in GrantType
        /\ "completed" \in table[r].flags
    BY <1>0, <1>1, <1>2 DEF CallInv, Called, Ending, TypeOK, Current
  <1>4. table' \in [Refs -> EntryType] /\ r \in Refs
    BY <1>1, <1>2, <1>3 DEF TypeOK, EntryType, GrantType
  <1>5. IdleEntry(r)'
    BY <1>1, <1>2, <1>3 DEF EntryInv, TransferEntry, IdleEntry
  <1>6. \A m \in maps : m.ref # r
    BY <1>1, <1>3 DEF MapsAsGranted, PoolInv
  <1>7. \A g \in grants \ {c} :
                /\ g.kind = "transfer" /\ "completed" \in table[g.ref].flags
                => table[g.ref].frame \in inbound'
    BY <1>1, <1>2, <1>3 DEF EntryInv, TransferEntry, InboundInv
  <1> QED BY <1>0, <1>2, <1>3, <1>4, <1>5, <1>6, <1>7, GiveBackStep DEF Ending

----------------------------------------------------------------------------
(* The hypervisor's steps.                                                 *)

\* They leave the guest alone: what is to be shown is what they do to the
\* entry of the one grant they are about.
LEMMA HypervisorStep ==
    ASSUME IInv, UNCHANGED guestVars, NEW g \in grants, NEW r, r = g.ref,
           table' \in [Refs -> EntryType],
           \A q \in Refs \ {r} : table'[q] = table[q],
           "completed" \in table[r].flags => "completed" \in table'[r].flags,
           table'[r].domid = g.dom,
           g.kind = "access" => AccessEntry(g)',
           g.kind = "transfer" => TransferEntry(g)',
           inbound \subseteq inbound', inbound' \subseteq Moved,
           maps' \subseteq [ref : Refs, dom : Doms,
                            frame : Frames \cup Moved \cup {Zero},
                            write : BOOLEAN],
           \A m \in maps' : m.ref = r \/ m \in maps,
           InboundInv', MapsAsGranted'
    PROVE  IInv'
  <1>1. TypeOK /\ PoolInv /\ CallInv /\ EntryInv BY DEF IInv
  <1>2. UNCHANGED <<list, pc, call, i, grants, free>> BY DEF guestVars
  <1>3. TypeOK' BY <1>1, <1>2 DEF TypeOK, EntryType
  <1>4. Held' = Held /\ InHand' = InHand /\ r \in Held
    BY <1>2 DEF Held, InHand
  <1>5. PoolInv' BY <1>1, <1>2, <1>4 DEF PoolInv, Chain, Members
  <1>6. CallInv'
    <2>1. pc \in Taking => table'[call.ref] = table[call.ref]
      <3>1. pc \in Taking => call.ref # r /\ call.ref \in Refs
        BY <1>1, <1>4 DEF InHand, Taking, PoolInv, TypeOK, CallType
      <3> QED BY <3>1
    <2>2. pc = "et_frame" => "completed" \in table'[call.ref].flags
      <3>1. call.ref \in Refs BY <1>1 DEF TypeOK, CallType
      <3> QED BY <1>1, <3>1 DEF CallInv, Current
    <2>3. Called' = Called BY <1>2 DEF Called
    <2> QED BY <1>1, <1>2, <2>1, <2>2, <2>3
            DEF CallInv, Current, Taking, Ending
  <1>7. EntryInv'
    <2>0. \A h \in grants : h.ref = r => h = g BY <1>1 DEF PoolInv
    <2>1. \A h \in grants : h \in GrantType /\ h.ref \in Refs
      BY <1>1 DEF TypeOK, GrantType
    <2>2. ASSUME NEW h \in grants'
          PROVE  /\ table'[h.ref].domid = h.dom
                 /\ h.kind = "access" => AccessEntry(h)'
                 /\ h.kind = "transfer" => TransferEntry(h)'
      <3>1. CASE h.ref = r BY <1>2, <2>0, <3>1
      <3>2. CASE h.ref # r
        <4>1. h \in grants /\ table'[h.ref] = table[h.ref]
          BY <1>2, <2>1, <3>2
        <4>2. table'[h.ref].domid = h.dom BY <1>1, <4>1 DEF EntryInv
        <4>3. h.kind = "access" => AccessEntry(h)'
          BY <1>1, <3>2, <4>1 DEF EntryInv, AccessEntry
        <4>4. h.kind = "transfer" => TransferEntry(h)'
          BY <1>1, <4>1 DEF EntryInv, TransferEntry
        <4> QED BY <4>2, <4>3, <4>4
      <3> QED BY <3>1, <3>2
    <2>3. ASSUME NEW q \in Refs \ Held' PROVE IdleEntry(q)'
      <3>1. q \notin Held /\ table'[q] = table[q] BY <1>4
      <3> QED BY <1>1, <3>1 DEF EntryInv, IdleEntry
    <2> QED BY <2>2, <2>3 DEF EntryInv
  <1> QED BY <1>3, <1>5, <1>6, <1>7 DEF IInv

LEMMA MapStep ==
    ASSUME IInv, NEW d \in Doms, NEW r \in Refs, NEW write \in BOOLEAN,
           Map(d, r, write)
    PROVE  IInv'
  <1> DEFINE e == table[r]
             m == [ref |-> r, dom |-> d, frame |-> e.frame, write |-> write]
             fl == e.flags \cup {"reading"} \cup
                     (IF write THEN {"writing"} ELSE {})
  <1>1. TypeOK /\ PoolInv /\ EntryInv /\ InboundInv /\ MapsAsGranted
    BY DEF IInv
  <1>2. /\ "permit" \in e.flags /\ e.domid = d
        /\ write => "readonly" \notin e.flags
        /\ maps' = maps \cup {m}
        /\ table' = [table EXCEPT ![r].flags = fl]
        /\ UNCHANGED <<guestVars, inbound>>
    BY DEF Map
  <1>3. r \in Held BY <1>1, <1>2 DEF EntryInv, IdleEntry
  <1>4. PICK g \in grants : g.ref = r BY <1>3 DEF Held
  <1>5. g \in GrantType /\ table \in [Refs -> EntryType] /\ e \in EntryType
    BY <1>1 DEF TypeOK, EntryType
  <1>6. /\ g.kind = "access" /\ g.dom = d /\ AccessEntry(g)
        /\ g.frame = e.frame /\ (write => ~g.ro)
    <2>1. g.kind # "transfer"
      BY <1>1, <1>2, <1>4 DEF EntryInv, TransferEntry
    <2>2. g.kind = "access" BY <1>5, <2>1 DEF GrantType
    <2> QED BY <1>1, <1>2, <1>4, <2>2 DEF EntryInv, AccessEntry
  <1>7. /\ table' \in [Refs -> EntryType]
        /\ \A q \in Refs \ {r} : table'[q] = table[q]
        /\ table'[r].frame = e.frame /\ table'[r].domid = e.domid
        /\ table'[r].flags = fl
    <2>1. fl \in SUBSET Flags BY <1>5 DEF EntryType, Flags
    <2>2. table' = [table EXCEPT ![r].flags = fl] BY <1>2
    <2> HIDE DEF fl
    <2> QED BY <1>5, <2>1, <2>2, SetFlags
  <1>8. AccessEntry(g)'
    BY <1>4, <1>6, <1>7 DEF AccessEntry
  <1>9. m \in [ref : Refs, dom : Doms,
               frame : Frames \cup Moved \cup {Zero}, write : BOOLEAN]
    BY <1>5 DEF EntryType
  <1>10. InboundInv'
    <2>1. \A h \in grants : h.kind = "transfer" => h.ref # r /\ h.ref \in Refs
      BY <1>1, <1>4, <1>6 DEF PoolInv, TypeOK, GrantType
    <2>2. UNCHANGED grants BY <1>2 DEF guestVars
    <2> QED BY <1>1, <1>7, <2>1, <2>2 DEF InboundInv
  <1>11. MapsAsGranted'
    <2>1. UNCHANGED grants BY <1>2 DEF guestVars
    <2> QED BY <1>1, <1>2, <1>4, <1>6, <2>1 DEF MapsAsGranted
  <1>12. maps' \subseteq [ref : Refs, dom : Doms,
                          frame : Frames \cup Moved \cup {Zero},
                          write : BOOLEAN]
    BY <1>1, <1>2, <1>9 DEF TypeOK
  <1>13. \A n \in maps' : n.ref = r \/ n \in maps BY <1>2
  <1>14. inbound' \subseteq Moved /\ inbound \subseteq inbound'
    BY <1>1, <1>2 DEF TypeOK
  <1>15. "completed" \in table[r].flags => "completed" \in table'[r].flags
    BY <1>7
  <1> HIDE DEF m, fl, e
  <1> QED BY <1>2, <1>4, <1>6, <1>7, <1>8, <1>10, <1>11, <1>12, <1>13, <1>14,
             <1>15, HypervisorStep DEF e

LEMMA UnmapStep ==
    ASSUME IInv, NEW m \in maps, Unmap(m)
    PROVE  IInv'
  <1> DEFINE left == {n \in maps \ {m} : n.ref = m.ref}
             over == (IF left = {} THEN {"reading"} ELSE {}) \cup
                       (IF \E n \in left : n.write THEN {} ELSE {"writing"})
             r == m.ref
             fl == table[r].flags \ over
  <1>1. TypeOK /\ PoolInv /\ EntryInv /\ InboundInv /\ MapsAsGranted
    BY DEF IInv
  <1>2. /\ maps' = maps \ {m}
        /\ table' = [table EXCEPT ![r].flags = fl]
        /\ UNCHANGED <<guestVars, inbound>>
    BY DEF Unmap
  <1>3. PICK g \in grants : g.kind = "access" /\ g.ref = r /\ g.dom = m.dom
    BY <1>1 DEF MapsAsGranted
  <1>4. /\ g \in GrantType /\ table \in [Refs -> EntryType] /\ r \in Refs
        /\ table[r] \in EntryType /\ AccessEntry(g) /\ table[r].domid = g.dom
    BY <1>1, <1>3 DEF TypeOK, EntryType, EntryInv
  <1>5. /\ table' \in [Refs -> EntryType]
        /\ \A q \in Refs \ {r} : table'[q] = table[q]
        /\ table'[r].frame = table[r].frame
        /\ table'[r].domid = table[r].domid
        /\ table'[r].flags = fl
    <2>1. fl \in SUBSET Flags BY <1>4 DEF EntryType
    <2>2. table' = [table EXCEPT ![r].flags = fl] BY <1>2
    <2> HIDE DEF fl, r
    <2> QED BY <1>4, <2>1, <2>2, SetFlags
  <1>6. AccessEntry(g)'
    <2>1. over \subseteq {"reading", "writing"} OBVIOUS
    <2>2. ASSUME NEW n \in maps', n.ref = r PROVE "reading" \in fl
      <3>1. n \in left /\ left # {} BY <1>2, <2>2
      <3>2. "reading" \notin over BY <3>1
      <3> QED BY <1>2, <1>3, <1>4, <2>2, <3>2 DEF AccessEntry
    <2>3. /\ "permit" \in fl /\ ("readonly" \in fl <=> g.ro)
          /\ fl \subseteq {"permit", "readonly", "reading", "writing"}
      BY <1>3, <1>4, <2>1 DEF AccessEntry
    <2> HIDE DEF fl
    <2> QED BY <1>3, <1>4, <1>5, <2>2, <2>3 DEF AccessEntry
  <1>7. "completed" \notin table[r].flags BY <1>3, <1>4 DEF AccessEntry
  <1>8. UNCHANGED grants BY <1>2 DEF guestVars
  <1>9. InboundInv'
    <2>1. \A h \in grants : h.kind = "transfer" => h.ref # r /\ h.ref \in Refs
      BY <1>1, <1>3 DEF PoolInv, TypeOK, GrantType
    <2> QED BY <1>1, <1>5, <1>8, <2>1 DEF InboundInv
  <1>10. MapsAsGranted' BY <1>1, <1>2, <1>8 DEF MapsAsGranted
  <1>11. maps' \subseteq [ref : Refs, dom : Doms,
                          frame : Frames \cup Moved \cup {Zero},
                          write : BOOLEAN]
    BY <1>1, <1>2 DEF TypeOK
  <1>12. inbound' \subseteq Moved /\ inbound \subseteq inbound'
    BY <1>1, <1>2 DEF TypeOK
  <1> HIDE DEF left, over, r, fl
  <1> QED BY <1>2, <1>3, <1>4, <1>5, <1>6, <1>7, <1>9, <1>10, <1>11, <1>12,
             HypervisorStep

LEMMA CommitStep ==
    ASSUME IInv, NEW d \in Doms, NEW r \in Refs, Commit(d, r)
    PROVE  IInv'
  <1> DEFINE fl == {"accept", "committed"}
  <1>1. TypeOK /\ PoolInv /\ EntryInv /\ InboundInv /\ MapsAsGranted
    BY DEF IInv
  <1>2. /\ table[r].flags = {"accept"} /\ table[r].domid = d
        /\ UNCHANGED <<guestVars, maps, inbound>>
    BY DEF Commit
  <1>3. table' = [table EXCEPT ![r].flags = fl]
    <2>1. table[r].flags \cup {"committed"} = fl BY <1>2
    <2> QED BY <2>1 DEF Commit
  <1>4. r \in Held BY <1>1, <1>2 DEF EntryInv, IdleEntry
  <1>5. PICK g \in grants : g.ref = r BY <1>4 DEF Held
  <1>6. table \in [Refs -> EntryType] /\ fl \in SUBSET Flags
    BY <1>1 DEF TypeOK, EntryType, Flags
  <1>7. g.kind = "transfer" /\ table[r].domid = g.dom
    <2>1. g.kind # "access" BY <1>1, <1>2, <1>5 DEF EntryInv, AccessEntry
    <2> QED BY <1>1, <1>5, <2>1 DEF EntryInv, TypeOK, GrantType
  <1>8. /\ table' \in [Refs -> EntryType]
        /\ \A q \in Refs \ {r} : table'[q] = table[q]
        /\ table'[r].frame = table[r].frame
        /\ table'[r].domid = table[r].domid
        /\ table'[r].flags = fl
    <2>1. table \in [Refs -> EntryType] BY <1>6
    <2>2. fl \in SUBSET Flags BY <1>6
    <2>3. PICK v \in SUBSET Flags : v = fl BY <2>2
    <2>4. table' = [table EXCEPT ![r].flags = v] BY <1>3, <2>3
    <2>5. r \in Refs BY <1>6
    <2>6. /\ table' \in [Refs -> EntryType]
          /\ \A q \in Refs \ {r} : table'[q] = table[q]
          /\ table'[r].frame = table[r].frame /\ table'[r].domid = table[r].domid
          /\ table'[r].flags = v
      BY <2>1, <2>4, <2>5, FlagsStored, Zenon
    <2> QED BY <2>3, <2>6, Zenon
  <1>9. TransferEntry(g)' BY <1>5, <1>8 DEF TransferEntry
  <1>10. UNCHANGED grants BY <1>2 DEF guestVars
  <1>11. InboundInv'
    <2>1. \A h \in grants : h.ref \in Refs BY <1>1 DEF TypeOK, GrantType
    <2>2. "completed" \notin table'[r].flags BY <1>8
    <2> QED BY <1>1, <1>8, <1>10, <2>1, <2>2 DEF InboundInv
  <1>12. MapsAsGranted' BY <1>1, <1>2, <1>10 DEF MapsAsGranted
  <1>13. /\ maps' \subseteq [ref : Refs, dom : Doms,
                             frame : Frames \cup Moved \cup {Zero},
                             write : BOOLEAN]
         /\ inbound' \subseteq Moved
    BY <1>1, <1>2 DEF TypeOK
  <1>14. "completed" \notin table[r].flags BY <1>2
  <1> HIDE DEF fl
  <1> QED BY <1>2, <1>5, <1>7, <1>8, <1>9, <1>11, <1>12, <1>13, <1>14,
             HypervisorStep

LEMMA CompleteStep ==
    ASSUME IInv, NEW r \in Refs, NEW f \in Moved, Complete(r, f)
    PROVE  IInv'
  <1> DEFINE fl == table[r].flags \cup {"completed"}
  <1>1. TypeOK /\ PoolInv /\ EntryInv /\ InboundInv /\ MapsAsGranted
    BY DEF IInv
  <1>2. /\ "committed" \in table[r].flags
        /\ "completed" \notin table[r].flags /\ f \notin inbound
        /\ table' = [table EXCEPT ![r].frame = f, ![r].flags = fl]
        /\ inbound' = inbound \cup {f}
        /\ UNCHANGED <<guestVars, maps>>
    BY DEF Complete
  <1>3. r \in Held BY <1>1, <1>2 DEF EntryInv, IdleEntry
  <1>4. PICK g \in grants : g.ref = r BY <1>3 DEF Held
  <1>5. table \in [Refs -> EntryType] /\ fl \in SUBSET Flags
    BY <1>1 DEF TypeOK, EntryType, Flags
  <1>6. g.kind = "transfer" /\ table[r].domid = g.dom /\ TransferEntry(g)
    <2>1. g.kind # "access" BY <1>1, <1>2, <1>4 DEF EntryInv, AccessEntry
    <2> QED BY <1>1, <1>4, <2>1 DEF EntryInv, TypeOK, GrantType
  <1>7. /\ table' \in [Refs -> EntryType]
        /\ \A q \in Refs \ {r} : table'[q] = table[q]
        /\ table'[r].frame = f /\ table'[r].domid = table[r].domid
        /\ table'[r].flags = fl
    <2>1. table' = [table EXCEPT ![r].frame = f, ![r].flags = fl] BY <1>2
    <2>2. f \in Frames \cup Moved \cup {Zero} OBVIOUS
    <2>3. table \in [Refs -> EntryType] BY <1>5
    <2>4. fl \in SUBSET Flags BY <1>5
    <2>5. PICK v \in SUBSET Flags, w \in Frames \cup Moved \cup {Zero} :
             v = fl /\ w = f
      BY <2>2, <2>4
    <2>6. table' = [table EXCEPT ![r].frame = w, ![r].flags = v]
      BY <2>1, <2>5
    <2>7. /\ table' \in [Refs -> EntryType]
          /\ \A q \in Refs \ {r} : table'[q] = table[q]
          /\ table'[r].frame = w /\ table'[r].domid = table[r].domid
          /\ table'[r].flags = v
      <3>1. PICK u : u = [table EXCEPT ![r].frame = w] OBVIOUS
      <3>2. /\ u \in [Refs -> EntryType]
            /\ \A q \in Refs \ {r} : u[q] = table[q]
            /\ u[r].frame = w /\ u[r].domid = table[r].domid
        BY <2>3, <3>1, SetFrame
      <3>3. table' = [u EXCEPT ![r].flags = v] BY <2>6, <3>1
      <3>4. /\ table' \in [Refs -> EntryType]
            /\ \A q \in Refs \ {r} : table'[q] = u[q]
            /\ table'[r].frame = u[r].frame
            /\ table'[r].domid = u[r].domid /\ table'[r].flags = v
        <4>1. u \in [Refs -> EntryType] /\ r \in Refs BY <3>2
        <4>2. PICK x : x = table' OBVIOUS
        <4>3. x = [u EXCEPT ![r].flags = v] BY <3>3, <4>2
        <4>4. /\ x \in [Refs -> EntryType]
              /\ \A q \in Refs \ {r} : x[q] = u[q]
              /\ x[r].frame = u[r].frame /\ x[r].domid = u[r].domid /\ x[r].flags = v
          BY <4>1, <4>3, SetFlags
        <4> QED BY <4>2, <4>4, Zenon
      <3> QED BY <3>2, <3>4
    <2> QED BY <2>5, <2>7
  <1>8. fl = {"accept", "committed", "completed"}
    BY <1>2, <1>4, <1>6 DEF TransferEntry
  <1>9. TransferEntry(g)' BY <1>2, <1>4, <1>7, <1>8 DEF TransferEntry
  <1>10. UNCHANGED grants BY <1>2 DEF guestVars
  <1>11. \A h \in grants : h.ref \in Refs /\ (h.ref = r => h = g)
    BY <1>1, <1>4 DEF TypeOK, GrantType, PoolInv
  <1>12. InboundInv'
    <2>1. \A h \in grants : /\ h # g /\ h.kind = "transfer"
                            /\ "completed" \in table'[h.ref].flags
                            => table'[h.ref].frame # f
      BY <1>1, <1>2, <1>4, <1>7, <1>11 DEF EntryInv, TransferEntry
    <2> QED BY <1>1, <1>4, <1>7, <1>10, <1>11, <2>1 DEF InboundInv
  <1>13. MapsAsGranted' BY <1>1, <1>2, <1>10 DEF MapsAsGranted
  <1>14. /\ maps' \subseteq [ref : Refs, dom : Doms,
                             frame : Frames \cup Moved \cup {Zero},
                             write : BOOLEAN]
         /\ inbound' \subseteq Moved /\ inbound \subseteq inbound'
    BY <1>1, <1>2 DEF TypeOK
  <1> HIDE DEF fl
  <1> QED BY <1>2, <1>4, <1>6, <1>7, <1>9, <1>12, <1>13, <1>14, HypervisorStep

----------------------------------------------------------------------------
LEMMA NextIInv ==
    ASSUME IInv, [Next]_vars
    PROVE  IInv'
  <1>1. ASSUME Ask PROVE IInv'
    <2>1. ASSUME NEW kind \in {"access", "transfer"}, NEW d \in Doms,
                 NEW f \in Frames, NEW ro \in BOOLEAN,
                 GrantStart(kind, d, f, ro)
          PROVE  IInv'
      BY <2>1, GrantStartStep
    <2>2. ASSUME \E g \in grants : EndAccess(g) \/ EndTransfer(g)
          PROVE  IInv'
      BY <2>2, EndingStep
    <2> QED BY <1>1, <2>1, <2>2 DEF Ask
  <1>2. ASSUME Run PROVE IInv'
    <2>1. CASE InitPut BY <2>1, InitPutStep
    <2>2. CASE InitMap BY <2>2, InitMapStep
    <2>3. CASE GrantDomid BY <2>3, GrantDomidStep
    <2>4. CASE GrantPublish BY <2>4, GrantPublishStep
    <2>5. CASE EndAccessCas
      <3>1. CASE Current = call.flags /\ TakeBack
        BY <2>5, <3>1, TakeBackStep DEF EndAccessCas
      <3>2. CASE Reconsider BY <2>5, <3>2, EndingStep
      <3> QED BY <2>5, <3>1, <3>2 DEF EndAccessCas
    <2>6. CASE EndTransferRead \/ EndTransferWait BY <2>6, EndingStep
    <2>7. CASE EndTransferCas
      <3>1. CASE Current = call.flags /\ TakeBack
        BY <2>7, <3>1, TakeBackStep DEF EndTransferCas
      <3>2. CASE /\ pc' = "et_read"
                 /\ UNCHANGED <<list, table, call, i, maps, grants, free,
                                inbound>>
        BY <2>7, <3>2, EndingStep DEF EndTransferCas
      <3> QED BY <2>7, <3>1, <3>2 DEF EndTransferCas
    <2>8. CASE EndTransferFrame BY <2>8, EndTransferFrameStep
    <2>9. CASE Spin
      <3>1. UNCHANGED vars BY <2>9 DEF Spin
      <3> QED BY <3>1, Stutter
    <2> QED BY <1>2, <2>1, <2>2, <2>3, <2>4, <2>5, <2>6, <2>7, <2>8, <2>9
            DEF Run
  <1>3. ASSUME Hypervisor PROVE IInv'
    <2>1. ASSUME NEW d \in Doms, NEW ref \in Refs, Commit(d, ref) PROVE IInv'
      BY <2>1, CommitStep
    <2>2. ASSUME NEW d \in Doms, NEW ref \in Refs, NEW write \in BOOLEAN,
                 Map(d, ref, write)
          PROVE  IInv'
      BY <2>2, MapStep
    <2>3. ASSUME NEW m \in maps, Unmap(m) PROVE IInv'
      BY <2>3, UnmapStep
    <2>4. ASSUME NEW ref \in Refs, NEW f \in Moved, Complete(ref, f)
          PROVE  IInv'
      BY <2>4, CompleteStep
    <2> QED BY <1>3, <2>1, <2>2, <2>3, <2>4 DEF Hypervisor, Finish
  <1>4. CASE UNCHANGED vars BY <1>4, Stutter
  <1> QED BY <1>1, <1>2, <1>3, <1>4 DEF Next

THEOREM Invariance == Spec => []IInv
  <1>1. Init => IInv BY InitIInv
  <1>2. IInv /\ [Next]_vars => IInv' BY NextIInv
  <1> QED BY <1>1, <1>2, PTL DEF Spec

\* The variables keep their types.
THEOREM Typed == Spec => []TypeOK
  <1>1. IInv => TypeOK BY DEF IInv
  <1> QED BY <1>1, Invariance, PTL

\* put_free_entry and get_free_entry lose no reference and hand none out
\* twice, whatever calls end between them.
THEOREM FreeListIsExact == Spec => []FreeListExact
  <1>1. IInv => FreeListExact
    <2> SUFFICES ASSUME IInv PROVE FreeListExact
      OBVIOUS
    <2>1. {free[k] : k \in 1..Len(free)} = Members(free) BY DEF Members
    <2>2. Held \cup InHand = {g.ref : g \in grants} \cup InHand BY DEF Held
    <2> QED BY <2>1, <2>2 DEF IInv, PoolInv, Chain, FreeListExact
  <1> QED BY <1>1, Invariance, PTL

\* Another domain has a frame mapped only while gnttab.c has it granted, to
\* that domain and with that access.
THEOREM MapsAreGranted == Spec => []MapsAsGranted
  <1>1. IInv => MapsAsGranted BY DEF IInv
  <1> QED BY <1>1, Invariance, PTL

----------------------------------------------------------------------------
(* The table implements Grants.                                            *)

\* The transfer under way that a grant stands for.
Move(g) == [ref |-> g.ref,
            frame |-> IF "completed" \in table[g.ref].flags
                      THEN table[g.ref].frame ELSE "pending"]
Begun(g) == g.kind = "transfer" /\ "committed" \in table[g.ref].flags

LEMMA MovesDef ==
    /\ \A g \in grants : Begun(g) => Move(g) \in Moves
    /\ \A v \in Moves : \E g \in grants : Begun(g) /\ v = Move(g)
    /\ Moves = {Move(g) : g \in {h \in grants : Begun(h)}}
  BY DEF Moves, Move, Begun

\* Steps that leave the entries of all transfers alone.
LEMMA MovesSame ==
    ASSUME \A g \in grants : Begun(g) =>
                g \in grants' /\ table'[g.ref] = table[g.ref],
           \A g \in grants' : g.kind = "transfer" /\
                "committed" \in table'[g.ref].flags =>
                g \in grants /\ table'[g.ref] = table[g.ref]
    PROVE  Moves' = Moves
  <1>1. \A g \in grants : Begun(g) => g \in grants' /\ Begun(g)' /\ Move(g)' = Move(g)
    BY DEF Begun, Move
  <1>2. \A g \in grants' : Begun(g)' => g \in grants /\ Begun(g) /\ Move(g)' = Move(g)
    BY DEF Begun, Move
  <1>3. Moves = {Move(g) : g \in {h \in grants : Begun(h)}} BY MovesDef
  <1>4. Moves' = {Move(g)' : g \in {h \in grants' : Begun(h)'}}
    BY DEF Moves, Move, Begun
  <1> QED BY <1>1, <1>2, <1>3, <1>4

LEMMA InitGrants == Init => G!Init
  BY DEF Init, G!Init, Moves

\* The steps inside a call that callers and other domains do not see.
LEMMA HiddenStep ==
    ASSUME UNCHANGED <<grants, maps, inbound, table>>
    PROVE  UNCHANGED G!vars
  BY DEF G!vars, Moves

LEMMA StoreStep ==
    ASSUME IInv, UNCHANGED <<grants, maps, inbound>>, NEW r, r \notin Held,
           r \in Refs, \A q \in Refs \ {r} : table'[q] = table[q]
    PROVE  UNCHANGED G!vars
  <1>1. \A g \in grants : g.ref \in Refs \ {r} /\ table'[g.ref] = table[g.ref]
    BY DEF IInv, TypeOK, GrantType, Held
  <1>2. Moves' = Moves BY <1>1, MovesSame
  <1> QED BY <1>2 DEF G!vars

LEMMA GrantStartGrants ==
    ASSUME IInv, NEW kind \in {"access", "transfer"}, NEW d \in Doms,
           NEW f \in Frames, NEW ro \in BOOLEAN, GrantStart(kind, d, f, ro)
    PROVE  UNCHANGED G!vars
  <1>0. PICK r : r = list[0]
    OBVIOUS
  <1>1. TypeOK /\ PoolInv BY DEF IInv
  <1>2. /\ pc = "idle" /\ Cardinality(grants) < MaxGrants
        /\ table' = [table EXCEPT ![r].frame = f]
        /\ UNCHANGED <<grants, maps, inbound>>
    BY <1>0 DEF GrantStart, Starts
  <1>3. r \in Members(free) /\ r \in Refs
    <2>1. free # <<>> BY <1>1, <1>2, PoolServes
    <2>2. /\ list \in [Refs -> Refs] /\ free \in Seq(Refs)
          /\ Chain(list, free) /\ 0 \notin Members(free)
      BY <1>1, PoolRefs DEF TypeOK, PoolInv
    <2> QED BY <2>1, <2>2, <1>0, GetFreeChain
  <1>4. r \notin Held BY <1>1, <1>3 DEF PoolInv
  <1>5. \A q \in Refs \ {r} : table'[q] = table[q]
    BY <1>1, <1>2 DEF TypeOK
  <1> QED BY <1>2, <1>3, <1>4, <1>5, StoreStep

LEMMA GrantDomidGrants == IInv /\ GrantDomid => UNCHANGED G!vars
  <1> SUFFICES ASSUME IInv, GrantDomid PROVE UNCHANGED G!vars
    OBVIOUS
  <1>0. PICK r : r = call.ref
    OBVIOUS
  <1>1. r \in Refs /\ r \notin Held
    BY <1>0 DEF IInv, TypeOK, CallType, PoolInv, InHand, GrantDomid
  <1>2. UNCHANGED <<grants, maps, inbound>> BY DEF GrantDomid
  <1>3. \A q \in Refs \ {r} : table'[q] = table[q]
    BY <1>0 DEF IInv, TypeOK, GrantDomid
  <1> QED BY <1>1, <1>2, <1>3, StoreStep

LEMMA GrantPublishGrants == IInv /\ GrantPublish => G!Next
  <1> SUFFICES ASSUME IInv, GrantPublish PROVE G!Next
    OBVIOUS
  <1>0. PICK r, c : r = call.ref /\ c = Called
    OBVIOUS
  <1>1. TypeOK /\ PoolInv /\ CallInv BY DEF IInv
  <1>2. /\ pc = "flags"
        /\ table' = [table EXCEPT ![r].flags = GrantFlags(call.kind, call.ro)]
        /\ grants' = grants \cup {c} /\ UNCHANGED <<maps, inbound>>
    BY <1>0 DEF GrantPublish, Called
  <1>3. r \in NrReserved..(NrEntries - 1) /\ r \notin Held /\ r \in Refs
    BY <1>0, <1>1, <1>2, PoolRefs DEF PoolInv, InHand
  <1>4. c \in G!Grant /\ c.ref = r /\ c.kind = call.kind
    BY <1>0, <1>1, <1>2, <1>3
       DEF Called, G!Grant, CallInv, Taking, TypeOK, CallType
  <1>5. /\ \A q \in Refs \ {r} : table'[q] = table[q]
        /\ table'[r].flags = GrantFlags(call.kind, call.ro)
    BY <1>1, <1>2, <1>3 DEF TypeOK
  <1>6. \A g \in grants : g.ref # r /\ g.ref \in Refs
    BY <1>1, <1>3 DEF Held, TypeOK, GrantType
  <1>7. c.kind = "transfer" => "committed" \notin table'[c.ref].flags
    BY <1>4, <1>5 DEF GrantFlags
  <1>8. Moves' = Moves BY <1>2, <1>5, <1>6, <1>7, MovesSame
  <1>9. G!Make(c) BY <1>2, <1>4, <1>6, <1>8 DEF G!Make
  <1> QED BY <1>4, <1>9 DEF G!Next

LEMMA TakeBackGrants ==
    ASSUME IInv, Current = call.flags, TakeBack,
           pc \in {"ea_cas", "et_cas"}
    PROVE  G!Next
  <1>0. PICK r, c : r = call.ref /\ c = Called
    OBVIOUS
  <1>1. TypeOK /\ PoolInv /\ CallInv /\ EntryInv BY DEF IInv
  <1>2. c \in grants /\ c.kind = call.kind /\ c.ref = r /\ r \in Refs
    BY <1>0, <1>1 DEF CallInv, Called, Ending, TypeOK, CallType
  <1>3. /\ table' = [table EXCEPT ![r].flags = {}]
        /\ grants' = grants \ {c} /\ UNCHANGED <<maps, inbound>>
    BY <1>0 DEF TakeBack
  <1>4. \A g \in grants : g.ref \in Refs /\ (g # c => g.ref # r)
    BY <1>1, <1>2 DEF PoolInv, TypeOK, GrantType
  <1>5. \A q \in Refs \ {r} : table'[q] = table[q]
    BY <1>1, <1>3 DEF TypeOK
  <1>6. ~Begun(c)
    BY <1>0, <1>1, <1>2 DEF Begun, CallInv, Ending, Current
  <1>7. Moves' = Moves
    BY <1>2, <1>3, <1>4, <1>5, <1>6, MovesSame
  <1>8. CASE pc = "ea_cas"
    <2>1. c.kind = "access" /\ ~InUse(table[r].flags)
      BY <1>0, <1>1, <1>2, <1>8 DEF CallInv, Current
    <2>2. \A m \in maps : m.ref # c.ref
      BY <1>1, <1>2, <2>1 DEF EntryInv, AccessEntry, InUse
    <2>3. G!EndAccess(c) BY <1>2, <1>3, <1>7, <2>1, <2>2 DEF G!EndAccess
    <2> QED BY <1>2, <2>3 DEF G!Next
  <1>9. CASE pc = "et_cas"
    <2>1. c.kind = "transfer" BY <1>1, <1>2, <1>9 DEF CallInv, Ending
    <2>2. ASSUME NEW v \in Moves PROVE v.ref # c.ref
      <3>1. PICK g \in grants : Begun(g) /\ v = Move(g) BY MovesDef
      <3>2. v.ref = g.ref BY <3>1 DEF Move
      <3> QED BY <1>2, <1>4, <1>6, <3>1, <3>2
    <2>3. G!Withdraw(c) BY <1>2, <1>3, <1>7, <2>1, <2>2 DEF G!Withdraw
    <2> QED BY <1>2, <2>3 DEF G!Next
  <1> QED BY <1>8, <1>9

LEMMA EndTransferFrameGrants == IInv /\ EndTransferFrame => G!Next
  <1> SUFFICES ASSUME IInv, EndTransferFrame PROVE G!Next
    OBVIOUS
  <1>0. PICK r, c : r = call.ref /\ c = Called
    OBVIOUS
  <1>1. TypeOK /\ PoolInv /\ CallInv /\ EntryInv BY DEF IInv
  <1>2. /\ pc = "et_frame" /\ inbound' = inbound \ {table[r].frame}
        /\ grants' = grants \ {c} /\ UNCHANGED <<table, maps>>
    BY <1>0 DEF EndTransferFrame
  <1>3. /\ c \in grants /\ c.kind = "transfer" /\ c.ref = r
        /\ "completed" \in table[r].flags
    BY <1>0, <1>1, <1>2 DEF CallInv, Called, Ending, Current
  <1>4. Begun(c) /\ table[r].frame \in inbound
    BY <1>1, <1>3 DEF EntryInv, TransferEntry, Begun
  <1>5. PICK v : v = Move(c) OBVIOUS
  <1>6. v \in Moves /\ v.ref = c.ref /\ v.frame = table[r].frame
    BY <1>3, <1>4, <1>5, MovesDef DEF Move
  <1>7. \A g \in grants : g # c => g.ref # c.ref
    BY <1>1, <1>3 DEF PoolInv
  <1>8. Moves' = Moves \ {v}
    <2>1. \A g : (Begun(g)' <=> Begun(g)) /\ Move(g)' = Move(g)
      BY <1>2 DEF Begun, Move
    <2>2. Moves' = {Move(g)' : g \in {h \in grants' : Begun(h)'}}
      BY DEF Moves, Move, Begun
    <2>3. Moves' = {Move(g) : g \in {h \in grants \ {c} : Begun(h)}}
      BY <1>2, <2>1, <2>2
    <2>4. \A g \in grants \ {c} : Move(g) # v
      BY <1>5, <1>7 DEF Move
    <2> QED BY <1>3, <1>4, <1>5, <2>3, <2>4, MovesDef
  <1>9. G!Collect(c, v)
    BY <1>2, <1>3, <1>4, <1>6, <1>8 DEF G!Collect
  <1> QED BY <1>3, <1>6, <1>9 DEF G!Next

LEMMA MapGrants ==
    ASSUME IInv, NEW d \in Doms, NEW r \in Refs, NEW write \in BOOLEAN,
           Map(d, r, write)
    PROVE  G!Next
  <1>1. TypeOK /\ PoolInv /\ EntryInv BY DEF IInv
  <1>2. PICK m : m = [ref |-> r, dom |-> d, frame |-> table[r].frame,
                      write |-> write]
    OBVIOUS
  <1>3. /\ "permit" \in table[r].flags /\ table[r].domid = d
        /\ write => "readonly" \notin table[r].flags
        /\ maps' = maps \cup {m}
        /\ UNCHANGED <<grants, inbound>>
    BY <1>2 DEF Map, guestVars
  <1>4. r \in Held BY <1>1, <1>3 DEF EntryInv, IdleEntry
  <1>5. PICK g \in grants : g.ref = r BY <1>4 DEF Held
  <1>6. g.kind = "access"
    <2>1. ASSUME g.kind = "transfer" PROVE FALSE
      <3>1. TransferEntry(g) BY <1>1, <2>1, Zenon DEF EntryInv
      <3>2. "permit" \notin table[g.ref].flags BY <3>1 DEF TransferEntry
      <3> QED BY <1>3, <1>5, <3>2
    <2> QED BY <1>1, <2>1 DEF TypeOK, GrantType
  <1>7. /\ g.dom = d /\ table[r].frame = g.frame /\ (write => ~g.ro)
    BY <1>1, <1>3, <1>5, <1>6 DEF EntryInv, AccessEntry
  <1>8. Moves' = Moves
    <2>1. \A h \in grants : h.kind = "transfer" => h.ref # r /\ h.ref \in Refs
      BY <1>1, <1>5, <1>6 DEF PoolInv, TypeOK, GrantType
    <2>2. \A q \in Refs \ {r} : table'[q] = table[q]
      <3>1. PICK fl : fl = table[r].flags \cup {"reading"} \cup
                                (IF write THEN {"writing"} ELSE {})
        OBVIOUS
      <3>2. table' = [table EXCEPT ![r].flags = fl] BY <3>1 DEF Map
      <3>3. DOMAIN table = Refs BY <1>1 DEF TypeOK
      <3> QED BY <3>2, <3>3
    <2> QED BY <1>3, <2>1, <2>2, MovesSame DEF Begun
  <1>9. G!Map(g, write) BY <1>2, <1>3, <1>5, <1>6, <1>7, <1>8 DEF G!Map
  <1> QED BY <1>9 DEF G!Next

LEMMA UnmapGrants ==
    ASSUME IInv, NEW m \in maps, Unmap(m)
    PROVE  G!Next
  <1>1. TypeOK /\ PoolInv /\ MapsAsGranted BY DEF IInv
  <1>2. maps' = maps \ {m} /\ UNCHANGED <<grants, inbound>>
    BY DEF Unmap, guestVars
  <1>3. PICK g \in grants : g.kind = "access" /\ g.ref = m.ref
    BY <1>1 DEF MapsAsGranted
  <1>4. Moves' = Moves
    <2>1. \A h \in grants : h.kind = "transfer" =>
                               h.ref # m.ref /\ h.ref \in Refs
      BY <1>1, <1>3 DEF PoolInv, TypeOK, GrantType
    <2>2. \A q \in Refs \ {m.ref} : table'[q] = table[q]
      BY <1>1 DEF Unmap, TypeOK
    <2> QED BY <1>2, <2>1, <2>2, MovesSame DEF Begun
  <1>5. G!Unmap(m) BY <1>2, <1>4 DEF G!Unmap
  <1> QED BY <1>5 DEF G!Next

\* What the entry of one transfer turns into, the others staying as they are.
LEMMA MovesOne ==
    ASSUME PoolInv, TypeOK, UNCHANGED grants, NEW g \in grants,
           \A q \in Refs \ {g.ref} : table'[q] = table[q], Begun(g)'
    PROVE  Moves' = (IF Begun(g) THEN Moves \ {Move(g)} ELSE Moves)
                        \cup {Move(g)'}
  <1>1. \A h \in grants \ {g} : h.ref \in Refs \ {g.ref}
    BY DEF PoolInv, TypeOK, GrantType
  <1>2. \A h \in grants \ {g} : (Begun(h)' <=> Begun(h)) /\ Move(h)' = Move(h)
    BY <1>1 DEF Begun, Move
  <1>3. \A h \in grants \ {g} : Move(h) # Move(g)
    BY <1>1 DEF Move
  <1>4. Moves' = {Move(h)' : h \in {k \in grants : Begun(k)'}}
    BY DEF Moves, Move, Begun
  <1>5. Moves = {Move(h) : h \in {k \in grants : Begun(k)}}
    BY MovesDef
  <1> DEFINE others == {Move(h) : h \in {k \in grants \ {g} : Begun(k)}}
  <1>6. Moves' = others \cup {Move(g)'} BY <1>2, <1>4
  <1>7. others = IF Begun(g) THEN Moves \ {Move(g)} ELSE Moves
    BY <1>3, <1>5
  <1> QED BY <1>6, <1>7

LEMMA CommitGrants ==
    ASSUME IInv, NEW d \in Doms, NEW r \in Refs, Commit(d, r)
    PROVE  G!Next
  <1>1. TypeOK /\ PoolInv /\ EntryInv BY DEF IInv
  <1>2. /\ table[r].flags = {"accept"}
        /\ UNCHANGED <<grants, maps, inbound>>
    BY DEF Commit, guestVars
  <1>3. r \in Held BY <1>1, <1>2 DEF EntryInv, IdleEntry
  <1>4. PICK g \in grants : g.ref = r BY <1>3 DEF Held
  <1>5. g.kind = "transfer"
    <2>1. g.kind # "access" BY <1>1, <1>2, <1>4 DEF EntryInv, AccessEntry
    <2> QED BY <1>1, <2>1 DEF TypeOK, GrantType
  <1>6. /\ \A q \in Refs \ {r} : table'[q] = table[q]
        /\ table'[r].flags = {"accept", "committed"}
    BY <1>1, <1>2 DEF Commit, TypeOK
  <1>7. ~Begun(g) /\ Begun(g)' /\ Move(g)' = [ref |-> r, frame |-> "pending"]
    BY <1>2, <1>4, <1>5, <1>6 DEF Begun, Move
  <1>8. Moves' = Moves \cup {[ref |-> g.ref, frame |-> "pending"]}
    BY <1>1, <1>2, <1>4, <1>6, <1>7, MovesOne
  <1>9. ASSUME NEW v \in Moves PROVE v.ref # g.ref
    <2>1. PICK h \in grants : Begun(h) /\ v = Move(h) BY MovesDef
    <2>2. v.ref = h.ref /\ h # g BY <1>7, <2>1 DEF Move
    <2> QED BY <1>1, <2>1, <2>2 DEF PoolInv
  <1>10. G!Commit(g) BY <1>2, <1>5, <1>8, <1>9 DEF G!Commit, G!Pending
  <1> QED BY <1>10 DEF G!Next

LEMMA CompleteGrants ==
    ASSUME IInv, NEW r \in Refs, NEW f \in Moved, Complete(r, f)
    PROVE  G!Next
  <1>1. TypeOK /\ PoolInv /\ EntryInv BY DEF IInv
  <1>2. /\ "committed" \in table[r].flags
        /\ "completed" \notin table[r].flags /\ f \in Moved \ inbound
        /\ inbound' = inbound \cup {f} /\ UNCHANGED <<grants, maps>>
    BY DEF Complete, guestVars
  <1>3. r \in Held BY <1>1, <1>2 DEF EntryInv, IdleEntry
  <1>4. PICK g \in grants : g.ref = r BY <1>3 DEF Held
  <1>5. g.kind = "transfer"
    <2>1. g.kind # "access" BY <1>1, <1>2, <1>4 DEF EntryInv, AccessEntry
    <2> QED BY <1>1, <2>1 DEF TypeOK, GrantType
  <1>6. /\ \A q \in Refs \ {r} : table'[q] = table[q]
        /\ table'[r].frame = f
        /\ {"committed", "completed"} \subseteq table'[r].flags
    <2>1. table \in [Refs -> EntryType] /\ table[r] \in EntryType
      BY <1>1 DEF TypeOK, EntryType
    <2> QED BY <1>2, <2>1 DEF Complete, EntryType
  <1>7. PICK v, w : v = Move(g) /\ w = [ref |-> r, frame |-> f]
    OBVIOUS
  <1>8. Begun(g) /\ Begun(g)' /\ Move(g)' = w
    BY <1>2, <1>4, <1>5, <1>6, <1>7 DEF Begun, Move
  <1>9. v \in Moves /\ v.frame = "pending" /\ v.ref = r
    BY <1>2, <1>4, <1>7, <1>8, MovesDef DEF Move
  <1>10. Moves' = (Moves \ {v}) \cup {w}
    BY <1>1, <1>2, <1>4, <1>6, <1>7, <1>8, MovesOne
  <1>11. G!Complete(v, f)
    BY <1>2, <1>7, <1>9, <1>10 DEF G!Complete, G!Pending
  <1> QED BY <1>9, <1>11 DEF G!Next

LEMMA NextGrants ==
    ASSUME IInv, [Next]_vars
    PROVE  [G!Next]_(G!vars)
  <1>1. ASSUME Ask PROVE UNCHANGED G!vars
    <2>1. ASSUME NEW kind \in {"access", "transfer"}, NEW d \in Doms,
                 NEW f \in Frames, NEW ro \in BOOLEAN,
                 GrantStart(kind, d, f, ro)
          PROVE  UNCHANGED G!vars
      BY <2>1, GrantStartGrants
    <2>2. ASSUME NEW g \in grants, EndAccess(g) \/ EndTransfer(g)
          PROVE  UNCHANGED G!vars
      BY <2>2, HiddenStep DEF EndAccess, EndTransfer
    <2> QED BY <1>1, <2>1, <2>2 DEF Ask
  <1>2. ASSUME Run PROVE G!Next \/ UNCHANGED G!vars
    <2>1. CASE InitPut \/ InitMap \/ EndTransferRead \/ EndTransferWait
      BY <2>1, HiddenStep
         DEF InitPut, InitMap, EndTransferRead, EndTransferWait
    <2>2. CASE GrantDomid BY <2>2, GrantDomidGrants
    <2>3. CASE GrantPublish BY <2>3, GrantPublishGrants
    <2>4. CASE EndAccessCas
      <3>1. CASE Current = call.flags /\ TakeBack
        BY <2>4, <3>1, TakeBackGrants DEF EndAccessCas
      <3>2. CASE Reconsider BY <3>2, HiddenStep DEF Reconsider
      <3> QED BY <2>4, <3>1, <3>2 DEF EndAccessCas
    <2>5. CASE EndTransferCas
      <3>1. CASE Current = call.flags /\ TakeBack
        BY <2>5, <3>1, TakeBackGrants DEF EndTransferCas
      <3>2. CASE UNCHANGED <<list, table, call, i, maps, grants, free, inbound>>
        BY <3>2, HiddenStep
      <3> QED BY <2>5, <3>1, <3>2 DEF EndTransferCas
    <2>6. CASE EndTransferFrame BY <2>6, EndTransferFrameGrants
    <2>7. CASE Spin BY <2>7, HiddenStep DEF Spin, vars, guestVars
    <2> QED BY <1>2, <2>1, <2>2, <2>3, <2>4, <2>5, <2>6, <2>7 DEF Run
  <1>3. ASSUME Hypervisor PROVE G!Next
    <2>1. ASSUME NEW d \in Doms, NEW ref \in Refs, Commit(d, ref) PROVE G!Next
      BY <2>1, CommitGrants
    <2>2. ASSUME NEW d \in Doms, NEW ref \in Refs, NEW write \in BOOLEAN,
                 Map(d, ref, write)
          PROVE  G!Next
      BY <2>2, MapGrants
    <2>3. ASSUME NEW m \in maps, Unmap(m) PROVE G!Next
      BY <2>3, UnmapGrants
    <2>4. ASSUME NEW ref \in Refs, NEW f \in Moved, Complete(ref, f)
          PROVE  G!Next
      BY <2>4, CompleteGrants
    <2> QED BY <1>3, <2>1, <2>2, <2>3, <2>4 DEF Hypervisor, Finish
  <1>4. CASE UNCHANGED vars BY <1>4, HiddenStep DEF vars, guestVars
  <1> QED BY <1>1, <1>2, <1>3, <1>4 DEF Next

\* Every call of gnttab.c, whatever the other domains do meanwhile, is a
\* grant made, ended, withdrawn or collected at one point: Grants.
THEOREM ImplementsGrants == Spec => GrantsSpec
  <1>1. Init => G!Init BY InitGrants
  <1>2. IInv /\ [Next]_vars => [G!Next]_(G!vars) BY NextGrants
  <1> QED BY <1>1, <1>2, Invariance, PTL DEF Spec, GrantsSpec, G!Spec

----------------------------------------------------------------------------
(* The calls that grant access and end it are short.                       *)

\* The flags the compare-and-swap of gnttab_end_access expects.
CasInv == pc = "ea_cas" => call.flags = GrantFlags("access", call.ro)

\* The steps of its own a call is from its return.
ToReturn == CASE pc = "domid"              -> 2
              [] pc \in {"flags", "ea_cas"} -> 1
              [] OTHER                      -> 0

\* A step of the guest inside such a call brings its return nearer, and no
\* other step moves it.
CallAdvances ==
    pc \in {"domid", "flags", "ea_cas"} =>
        IF Run THEN ToReturn' < ToReturn ELSE pc' = pc

\* An entry granted for access and not in use has the flags it was given.
LEMMA UnusedEntry ==
    ASSUME IInv, NEW g \in grants, g.kind = "access",
           ~InUse(table[g.ref].flags)
    PROVE  table[g.ref].flags = GrantFlags("access", g.ro)
  <1> DEFINE e == table[g.ref].flags
  <1>1. /\ "permit" \in e /\ e \subseteq {"permit", "readonly", "reading", "writing"}
        /\ "readonly" \in e <=> g.ro
    BY DEF IInv, EntryInv, AccessEntry
  <1>2. "reading" \notin e /\ "writing" \notin e BY DEF InUse
  <1>3. CASE g.ro
    <2>1. e = {"permit", "readonly"} BY <1>1, <1>2, <1>3
    <2> QED BY <2>1, <1>3 DEF GrantFlags
  <1>4. CASE ~g.ro
    <2>1. e = {"permit"} BY <1>1, <1>2, <1>4
    <2> QED BY <2>1, <1>4 DEF GrantFlags
  <1> QED BY <1>3, <1>4

\* What a call that ends a grant finds in the entry.
LEMMA UnusedCalled ==
    ASSUME IInv, pc = "ea_cas", ~InUse(Current)
    PROVE  Current = GrantFlags("access", call.ro)
  <1>1. Called \in grants /\ call.kind = "access" BY DEF IInv, CallInv
  <1>2. Called.kind = call.kind /\ Called.ref = call.ref /\ Called.ro = call.ro
    BY DEF Called
  <1>3. ~InUse(table[Called.ref].flags) BY <1>2 DEF Current
  <1>4. table[Called.ref].flags = GrantFlags("access", Called.ro)
    BY <1>1, <1>2, <1>3, UnusedEntry
  <1> QED BY <1>2, <1>4 DEF Current

LEMMA NextCasInv == IInv /\ CasInv /\ [Next]_vars => CasInv'
  <1> SUFFICES ASSUME IInv, CasInv, [Next]_vars, pc' = "ea_cas"
               PROVE  call'.flags = GrantFlags("access", call'.ro)
    BY DEF CasInv
  <1>1. ASSUME NEW g \in grants, EndAccess(g)
        PROVE  call'.flags = GrantFlags("access", call'.ro)
    <2>1. table[g.ref].flags = GrantFlags("access", g.ro)
      BY <1>1, UnusedEntry DEF EndAccess
    <2> QED BY <1>1, <2>1 DEF EndAccess, CallOn
  <1>2. ASSUME EndAccessCas PROVE call'.flags = GrantFlags("access", call'.ro)
    <2>1. /\ pc = "ea_cas" /\ ~InUse(Current)
          /\ call' = [call EXCEPT !.flags = Current]
      BY <1>2 DEF EndAccessCas, TakeBack, Reconsider
    <2>2. call'.flags = Current /\ call'.ro = call.ro
      BY <2>1 DEF IInv, TypeOK, CallType
    <2> QED BY <2>1, <2>2, UnusedCalled
  <1>3. CASE UNCHANGED <<pc, call>> BY <1>3 DEF CasInv
  <1>4. CASE Hypervisor
    BY <1>3, <1>4 DEF Hypervisor, Finish, Map, Unmap, Commit, Complete, guestVars
  <1>5. CASE Ask
    BY <1>1, <1>5 DEF Ask, GrantStart, EndTransfer
  <1>6. CASE Run
    BY <1>2, <1>3, <1>6
       DEF Run, InitPut, InitMap, GrantDomid, GrantPublish, EndTransferRead,
           EndTransferCas, TakeBack, EndTransferWait, EndTransferFrame, Spin, vars
  <1> QED BY <1>3, <1>4, <1>5, <1>6 DEF Next, vars

\* gnttab.c:88-94: the loop of gnttab_end_access never goes round twice.  Between
\* the read of the flags and the compare-and-swap another domain may map the
\* frame and the call gives up, or map and unmap it and the flags are again what
\* was read, but the swap never meets a third value.
THEOREM SwapOnce == Spec => [][EndAccessCas => pc' = "idle"]_vars
  <1>1. Init => CasInv BY DEF Init, CasInv
  <1>2. IInv /\ CasInv /\ [Next]_vars => [EndAccessCas => pc' = "idle"]_vars
    <2> SUFFICES ASSUME IInv, CasInv, EndAccessCas PROVE pc' = "idle"
      OBVIOUS
    <2>1. CASE TakeBack BY <2>1 DEF TakeBack
    <2>2. CASE Current # call.flags /\ Reconsider
      <3>1. InUse(Current) BY <2>2, UnusedCalled DEF CasInv, EndAccessCas
      <3> QED BY <2>2, <3>1 DEF Reconsider
    <2> QED BY <2>1, <2>2 DEF EndAccessCas
  <1> QED BY <1>1, <1>2, NextCasInv, Invariance, PTL DEF Spec

\* gnttab_grant_access returns after three accesses to the entry and
\* gnttab_end_access after two, whatever the other domains map and unmap
\* meanwhile.
THEOREM AccessCallsShort == Spec => [][CallAdvances]_vars
  <1>1. (EndAccessCas => pc' = "idle") /\ Next => CallAdvances
    <2> SUFFICES ASSUME EndAccessCas => pc' = "idle", Next,
                        pc \in {"domid", "flags", "ea_cas"}
                 PROVE  IF Run THEN ToReturn' < ToReturn ELSE pc' = pc
      BY DEF CallAdvances
    <2>1. CASE Run
      <3>1. \/ pc = "domid" /\ pc' = "flags"
            \/ pc = "flags" /\ pc' = "idle"
            \/ pc = "ea_cas" /\ pc' = "idle"
        BY <2>1 DEF Run, InitPut, InitMap, GrantDomid, GrantPublish,
                    EndAccessCas, EndTransferRead, EndTransferCas,
                    EndTransferWait, EndTransferFrame, Spin
      <3> QED BY <2>1, <3>1 DEF ToReturn
    <2>2. CASE ~Run
      <3>1. ~Ask BY DEF Ask, GrantStart, Starts, EndAccess, EndTransfer
      <3> QED BY <2>2, <3>1 DEF Next, Hypervisor, Finish, Map, Unmap, Commit,
                                Complete, guestVars
    <2> QED BY <2>1, <2>2
  <1>2. [EndAccessCas => pc' = "idle"]_vars /\ [Next]_vars => [CallAdvances]_vars
    BY <1>1
  <1> QED BY <1>2, SwapOnce, PTL DEF Spec
=============================================================================
