---------------------------- MODULE GuestsProofs ---------------------------
(***************************************************************************)
(* The reader never prints part of a message, for every size of the grant  *)
(* table, every host and every number of CPUID bases.                      *)
(*                                                                         *)
(* What carries the proof: an entry's flags are stored last, and the       *)
(* writer comes to the call that stores them with its page written.        *)
(*                                                                         *)
(* And of how the two meet: a reader that is domain 6 and asks after the   *)
(* grant maps it, and a guest goes astray only where Xen has no page.      *)
(***************************************************************************)
EXTENDS Guests, WellFoundedInduction, TLAPS

\* The page holds the first n characters of the message.
Written(n) == \A k \in 1..3 : page[k] = IF k <= n THEN Message[k] ELSE None

Before == {"detect", "base", "hypercalls", "shared", "clock", "table"}

Stages == Before \cup {"write", "grant", "granting", "map", "print", "user", "astray"}
Bytes == {"H", "i", "nul", None}
Names == Doms \cup Frames \cup {T!Zero}
Kinds == {"none", "access", "transfer"}

\* Only what the steps below look at.
Types ==
    /\ at \in [Guest -> Stages] /\ page \in [1..3 -> Bytes]
    /\ table \in [T!Refs -> [frame : Names, domid : Names,
                             flags : SUBSET T!Flags]]
    /\ call \in [kind : Kinds, ref : Int, dom : Names, frame : Names,
                 ro : BOOLEAN, flags : SUBSET T!Flags]
    /\ list \in [T!Refs -> T!Refs] /\ i \in Nat

WriterInv ==
    /\ at["writer"] \in Before => Written(0)
    /\ at["writer"] = "write" => Written(0) \/ Written(1) \/ Written(2)
    /\ at["writer"] \in {"grant", "granting"} => Written(3)

\* Nothing is published before the whole page is written.
TableInv == (\E r \in T!Refs : table[r].flags # {}) => Written(3)

ReaderInv ==
    /\ at["reader"] = "print" => Written(3)
    /\ MessageWhole

IInv == Types /\ WriterInv /\ TableInv /\ ReaderInv

----------------------------------------------------------------------------
\* A written page is the message.
LEMMA WrittenIsMessage ==
    ASSUME page \in [1..3 -> Bytes], Written(3)
    PROVE  page = Message
  <1>1. Message = [k \in 1..3 |-> Message[k]]
    BY DEF Message
  <1>2. \A k \in 1..3 : page[k] = Message[k]
    BY DEF Written
  <1> QED BY <1>1, <1>2

LEMMA InitInv == Init => IInv
  <1> SUFFICES ASSUME Init PROVE IInv
    OBVIOUS
  <1>1. at["writer"] = "detect" /\ at["reader"] = "detect"
        /\ at \in [Guest -> Stages]
    <2>1. at = [g \in Guest |-> "detect"]
      BY DEF Init
    <2> QED BY <2>1 DEF Guest, Stages, Before
  <1>6. printed = Nothing
    BY DEF Init
  <1>2. page \in [1..3 -> Bytes] /\ Written(0)
    BY DEF Init, Written, Bytes
  <1>3. /\ table \in [T!Refs -> [frame : Names, domid : Names,
                                 flags : SUBSET T!Flags]]
        /\ \A r \in T!Refs : table[r].flags = {}
    BY DEF Init, T!Init, Names
  <1>4. call \in [kind : Kinds, ref : Int, dom : Names, frame : Names,
                  ro : BOOLEAN, flags : SUBSET T!Flags]
    BY DEF Init, T!Init, T!NoCall, Names, Kinds
  <1>5. list \in [T!Refs -> T!Refs] /\ i \in Nat
    BY GuestsAssumption DEF Init, T!Init, T!Refs
  <1> QED BY <1>1, <1>2, <1>3, <1>4, <1>5, <1>6
             DEF IInv, Types, WriterInv, TableInv, ReaderInv, MessageWhole, Before

----------------------------------------------------------------------------
\* The steps of both guests leave the page and the table alone.
LEMMA StartInv ==
    ASSUME IInv, NEW g \in Guest, Start(g)
    PROVE  IInv'
  <1>1. UNCHANGED <<tableVars, page, printed>>
    BY DEF Start, XenDetect, XenBaseDetect, XenHypercallsInit, XenSharedInit,
           ReadClocks
  <1>2. \E next \in Before \cup {"user", "astray", "map"} :
           /\ Go(g, next) /\ at[g] \in Before
           /\ next = "map" => g # "writer"
    BY DEF Start, XenDetect, XenBaseDetect, XenHypercallsInit, XenSharedInit,
           ReadClocks, Before
  <1>3. PICK next \in Before \cup {"user", "astray", "map"} :
           Go(g, next) /\ at[g] \in Before /\ (next = "map" => g # "writer")
    BY <1>2
  <1>4. at' = [at EXCEPT ![g] = next] /\ at' \in [Guest -> Stages]
    BY <1>3 DEF Go, IInv, Types, Before, Stages
  <1>5. Types' /\ TableInv'
    BY <1>1, <1>4 DEF IInv, Types, TableInv, Written, tableVars
  <1>6. WriterInv'
    BY <1>1, <1>3, <1>4 DEF IInv, Types, WriterInv, Written, Before, Guest
  <1>7. ReaderInv'
    BY <1>1, <1>3, <1>4 DEF IInv, Types, ReaderInv, Written, MessageWhole, Before, Guest
  <1> QED BY <1>5, <1>6, <1>7 DEF IInv

LEMMA InitGnttabInv ==
    ASSUME IInv, InitGnttab
    PROVE  IInv'
  <1>1. /\ UNCHANGED <<table, call, page, printed>>
        /\ list' \in [T!Refs -> T!Refs] /\ i' \in Nat
    <2>1. CASE T!InitPut
      <3>1. T!Release(i) /\ UNCHANGED <<table, call>>
        BY <2>1 DEF T!InitPut
      <3>2. list' = T!PutFree(list, i)
        BY <3>1 DEF T!Release
      <3>3. i \in Nat /\ i < NrEntries /\ i' = i + 1
        BY <2>1 DEF T!InitPut, IInv, Types
      <3>4. i \in T!Refs /\ 0 \in T!Refs
        BY <3>3, GuestsAssumption DEF T!Refs
      <3>5. list' \in [T!Refs -> T!Refs]
        BY <3>2, <3>4 DEF T!PutFree, IInv, Types
      <3> QED BY <3>1, <3>3, <3>5 DEF InitGnttab
    <2>2. CASE T!InitMap
      BY <2>2 DEF T!InitMap, InitGnttab, IInv, Types
    <2> QED BY <2>1, <2>2 DEF InitGnttab
  <1>2. PICK next \in {"write", "table"} : at["writer"] = "table" /\ Go("writer", next)
    BY DEF InitGnttab
  <1>3. at' = [at EXCEPT !["writer"] = next] /\ at' \in [Guest -> Stages]
    BY <1>2 DEF Go, IInv, Types, Before, Stages
  <1>4. Types' /\ TableInv'
    BY <1>1, <1>3 DEF IInv, Types, TableInv, Written
  <1>5. WriterInv' /\ ReaderInv'
    BY <1>1, <1>2, <1>3
       DEF IInv, Types, WriterInv, ReaderInv, Written, MessageWhole, Before, Guest
  <1> QED BY <1>4, <1>5 DEF IInv

\* One more character; the third is followed by the grant.
LEMMA WriteMessageInv ==
    ASSUME IInv, WriteMessage
    PROVE  IInv'
  <1>1. PICK k \in 1..3 :
           /\ page[k] = None /\ \A l \in 1..(k - 1) : page[l] # None
           /\ page' = [page EXCEPT ![k] = Message[k]] /\ Go("writer", NextByte(k))
    BY DEF WriteMessage
  <1>2. at["writer"] = "write" /\ UNCHANGED <<tableVars, printed>>
    BY DEF WriteMessage
  <1>3. Message[1] = "H" /\ Message[2] = "i" /\ Message[3] = "nul"
    BY DEF Message
  <1>4. Written(k - 1)
    BY <1>1, <1>2, <1>3 DEF IInv, WriterInv, Written, None
  <1>5. Written(k)' /\ page' \in [1..3 -> Bytes]
    BY <1>1, <1>3, <1>4 DEF IInv, Types, Written, Bytes
  <1>6. ~ Written(3)
    BY <1>1, <1>3 DEF Written, None
  <1>7. at' = [at EXCEPT !["writer"] = NextByte(k)] /\ at' \in [Guest -> Stages]
    BY <1>1 DEF Go, IInv, Types, NextByte, Stages
  <1>8. Types'
    BY <1>2, <1>5, <1>7 DEF IInv, Types, tableVars
  <1>9. WriterInv'
    <2>1. at'["writer"] = IF k = 3 THEN "grant" ELSE "write"
      BY <1>7 DEF IInv, Types, NextByte, Guest
    <2>2. CASE k = 3
      BY <2>1, <2>2, <1>5 DEF WriterInv, Before
    <2>3. CASE k \in 1..2
      BY <2>1, <2>3, <1>5 DEF WriterInv, Before
    <2> QED BY <2>2, <2>3
  <1>10. TableInv'
    BY <1>2, <1>6 DEF IInv, TableInv, tableVars
  <1>11. ReaderInv'
    BY <1>2, <1>6, <1>7 DEF IInv, Types, ReaderInv, MessageWhole, Guest
  <1> QED BY <1>8, <1>9, <1>10, <1>11 DEF IInv

----------------------------------------------------------------------------
\* The whole page is written when the grant begins.
LEMMA GrantAccessInv ==
    ASSUME IInv, GrantAccess
    PROVE  IInv'
  <1>1. Written(3) /\ UNCHANGED <<page, printed>>
    BY DEF GrantAccess, IInv, WriterInv
  <1>2. PICK next \in {"granting", "user"} : Go("writer", next)
    BY DEF GrantAccess
  <1>3. at' = [at EXCEPT !["writer"] = next] /\ at' \in [Guest -> Stages]
    BY <1>2 DEF Go, IInv, Types, Before, Stages
  <1>4. /\ table' \in [T!Refs -> [frame : Names, domid : Names, flags : SUBSET T!Flags]]
        /\ call' \in [kind : Kinds, ref : Int, dom : Names, frame : Names,
                      ro : BOOLEAN, flags : SUBSET T!Flags]
        /\ list' \in [T!Refs -> T!Refs] /\ i' = i
    <2>1. 0 \in T!Refs /\ T!Refs \subseteq Int
      BY GuestsAssumption DEF T!Refs
    <2>2. CASE T!GrantStart("access", "dom6", "shared_page", FALSE)
      <3>1. /\ table' = [table EXCEPT ![list[0]].frame = "shared_page"]
            /\ call' = [kind |-> "access", ref |-> list[0], dom |-> "dom6",
                        frame |-> "shared_page", ro |-> FALSE, flags |-> {}]
            /\ list' = T!GetFree(list) /\ i' = i
        BY <2>2 DEF T!GrantStart, T!Starts
      <3>2. list[0] \in T!Refs /\ list[list[0]] \in T!Refs
        BY <2>1 DEF IInv, Types
      <3> QED BY <3>1, <3>2, <2>1 DEF T!GetFree, IInv, Types, Names, Kinds, Doms, Frames
    <2>3. CASE T!GrantDomid
      BY <2>3 DEF T!GrantDomid, IInv, Types
    <2>4. CASE T!GrantPublish
      <3>1. /\ table' = [table EXCEPT ![call.ref].flags = T!GrantFlags(call.kind, call.ro)]
            /\ call' = T!NoCall /\ list' = list /\ i' = i
        BY <2>4 DEF T!GrantPublish
      <3>2. T!GrantFlags(call.kind, call.ro) \subseteq T!Flags
        BY DEF T!GrantFlags, T!Flags
      <3>3. table' \in [T!Refs -> [frame : Names, domid : Names,
                                    flags : SUBSET T!Flags]]
        BY <3>1, <3>2 DEF IInv, Types
      <3>4. call' \in [kind : Kinds, ref : Int, dom : Names, frame : Names,
                       ro : BOOLEAN, flags : SUBSET T!Flags]
        BY <3>1 DEF T!NoCall, Names, Kinds
      <3> QED BY <3>1, <3>3, <3>4 DEF IInv, Types
    <2> QED BY <2>2, <2>3, <2>4 DEF GrantAccess
  <1>5. Types'
    BY <1>1, <1>3, <1>4 DEF IInv, Types
  <1>6. Written(3)'
    BY <1>1 DEF Written
  <1>7. WriterInv' /\ TableInv'
    BY <1>2, <1>3, <1>6 DEF IInv, Types, WriterInv, TableInv, Before, Guest
  <1>8. ReaderInv'
    BY <1>1, <1>6 DEF IInv, ReaderInv, MessageWhole
  <1> QED BY <1>5, <1>7, <1>8 DEF IInv

\* What the reader maps has been published.
LEMMA MapGrantRefInv ==
    ASSUME IInv, MapGrantRef
    PROVE  IInv'
  <1>1. UNCHANGED <<page, list, call, i>>
    BY DEF MapGrantRef, T!Map, T!guestVars, tableVars
  <1>2. PICK next \in {"print", "user"} : at["reader"] = "map" /\ Go("reader", next)
    BY DEF MapGrantRef
  <1>3. at' = [at EXCEPT !["reader"] = next] /\ at' \in [Guest -> Stages]
    BY <1>2 DEF Go, IInv, Types, Stages
  <1>4. CASE T!Map(id.reader, Reference, TRUE) /\ UNCHANGED printed
    <2>1. /\ "permit" \in table[Reference].flags
          /\ table' = [table EXCEPT ![Reference].flags =
                          @ \cup {"reading"} \cup {"writing"}]
      BY <1>4 DEF T!Map
    <2>2. Reference \in T!Refs
      BY GuestsAssumption DEF Reference, T!Refs
    <2>3. Written(3) /\ Written(3)'
      BY <1>1, <2>1, <2>2 DEF IInv, TableInv, Written
    <2>4. table' \in [T!Refs -> [frame : Names, domid : Names, flags : SUBSET T!Flags]]
      BY <2>1, <2>2 DEF IInv, Types, T!Flags
    <2>5. Types'
      BY <1>1, <1>3, <2>4 DEF IInv, Types
    <2>6. WriterInv'
      BY <1>1, <1>2, <1>3 DEF IInv, Types, WriterInv, Written, Guest
    <2> QED BY <1>4, <2>3, <2>5, <2>6 DEF IInv, TableInv, ReaderInv, MessageWhole
  <1>5. CASE UNCHANGED tableVars /\ printed' = Failed /\ Go("reader", "user")
    <2>1. Types' /\ TableInv'
      BY <1>1, <1>3, <1>5 DEF IInv, Types, TableInv, Written, tableVars
    <2>2. WriterInv' /\ ReaderInv'
      BY <1>1, <1>2, <1>3, <1>5
         DEF IInv, Types, WriterInv, ReaderInv, MessageWhole, Written, Guest, Go
    <2> QED BY <2>1, <2>2 DEF IInv
  <1> QED BY <1>4, <1>5 DEF MapGrantRef

LEMMA PrintMessageInv ==
    ASSUME IInv, PrintMessage
    PROVE  IInv'
  <1>1. at["reader"] = "print" /\ Go("reader", "user") /\ printed' = page
        /\ UNCHANGED <<tableVars, page>>
    BY DEF PrintMessage
  <1>2. printed' = Message
    BY <1>1, WrittenIsMessage DEF IInv, Types, ReaderInv
  <1>3. at' = [at EXCEPT !["reader"] = "user"] /\ at' \in [Guest -> Stages]
    BY <1>1 DEF Go, IInv, Types, Stages
  <1>4. Types' /\ TableInv'
    BY <1>1, <1>3 DEF IInv, Types, TableInv, Written, tableVars
  <1>5. WriterInv' /\ ReaderInv'
    BY <1>1, <1>2, <1>3
       DEF IInv, Types, WriterInv, ReaderInv, MessageWhole, Written, Guest
  <1> QED BY <1>4, <1>5 DEF IInv

LEMMA NextInv == IInv /\ [Next]_vars => IInv'
  <1> SUFFICES ASSUME IInv, [Next]_vars PROVE IInv'
    OBVIOUS
  <1>1. ASSUME NEW g \in Guest, Start(g) PROVE IInv'
    BY <1>1, StartInv
  <1>2. CASE InitGnttab
    BY <1>2, InitGnttabInv
  <1>3. CASE WriteMessage
    BY <1>3, WriteMessageInv
  <1>4. CASE GrantAccess
    BY <1>4, GrantAccessInv
  <1>5. CASE MapGrantRef
    BY <1>5, MapGrantRefInv
  <1>6. CASE PrintMessage
    BY <1>6, PrintMessageInv
  <1>7. CASE UNCHANGED vars
    BY <1>7 DEF vars, IInv, Types, WriterInv, TableInv, ReaderInv, MessageWhole, Written
  <1> QED BY <1>1, <1>2, <1>3, <1>4, <1>5, <1>6, <1>7
          DEF Next, Writer, Reader, Rest, Guest

\* The inductive invariant: what is published, mapped or about to be printed
\* has the whole message in it.
THEOREM PublishedIsWritten == Spec => []IInv
  <1> QED BY InitInv, NextInv, PTL DEF Spec

\* guest2/kernel.c:121 prints the whole message of Assignment_3/kernel.c:109
\* to 111 or none of it, whatever the order the two guests run in.
THEOREM MessageIsWhole == Spec => []MessageWhole
  <1>1. IInv => MessageWhole
    BY DEF IInv, ReaderInv
  <1> QED BY <1>1, PublishedIsWritten, PTL

----------------------------------------------------------------------------
(* The reference the reader knows by heart.                                *)

\* init_gnttab leaves the last entry at the head of the list, the writer
\* takes it, and nothing but this grant is ever made.
SlotInv ==
    /\ id \in Ids
    /\ pc = "init" => /\ i \in NrReserved..NrEntries
                      /\ i > NrReserved => list[0] = i - 1
    /\ at["writer"] \in Before => pc \in {"init", "stuck"}
    /\ at["writer"] \in {"write", "grant"} => list[0] = Reference
    /\ at["writer"] = "granting" =>
          /\ call.kind = "access" /\ call.ref = Reference /\ call.dom = "dom6"
          /\ pc = "flags" => table[Reference].domid = "dom6"
    /\ at["writer"] # "user" => grants = {}
    /\ \A g \in grants : g.dom = "dom6"
    /\ grants # {} => /\ table[Reference].domid = "dom6"
                      /\ "permit" \in table[Reference].flags

LEMMA ReferenceIsLast ==
    /\ Reference \in T!Refs /\ 0 \in T!Refs /\ Reference = NrEntries - 1
    /\ NrEntries \in Nat /\ NrReserved \in Nat /\ NrReserved < NrEntries
  BY GuestsAssumption DEF Reference, T!Refs

LEMMA InitSlot == Init => SlotInv
  <1> SUFFICES ASSUME Init PROVE SlotInv
    OBVIOUS
  <1>1. at["writer"] = "detect" BY DEF Init, Guest
  <1> QED BY <1>1, ReferenceIsLast DEF Init, T!Init, SlotInv, Before

\* Steps that leave the table alone and move the writer, if at all, to where
\* it has nothing to do with it yet.
LEMMA QuietSlot ==
    ASSUME IInv, SlotInv, UNCHANGED <<tableVars, id>>,
           \/ at'["writer"] = at["writer"]
           \/ at["writer"] \in Before /\ at'["writer"] \in Before
           \/ at["writer"] \in Before /\ at'["writer"] \in {"user", "astray"}
           \/ at["writer"] = "write" /\ at'["writer"] \in {"write", "grant"}
    PROVE  SlotInv'
  <1>1. UNCHANGED <<list, table, pc, call, i, grants, id>>
    BY DEF tableVars
  <1>2. Reference' = Reference BY DEF Reference
  <1> QED BY <1>1, <1>2 DEF SlotInv, Before

LEMMA InitGnttabSlot ==
    ASSUME IInv, SlotInv, InitGnttab
    PROVE  SlotInv'
  <1>1. at["writer"] = "table" /\ grants = {} BY DEF InitGnttab, SlotInv
  <1>2. at'["writer"] = IF pc' = "idle" THEN "write" ELSE "table"
    BY DEF InitGnttab, Go, IInv, Types, Guest
  <1>3. id' = id /\ grants' = grants
    BY DEF InitGnttab, T!InitPut, T!InitMap
  <1>4. CASE T!InitPut
    <2>1. /\ pc = "init" /\ pc' = pc /\ i < NrEntries /\ i' = i + 1
          /\ list' = T!PutFree(list, i)
      BY <1>4 DEF T!InitPut, T!Release
    <2>2. i \in NrReserved..NrEntries /\ i \in T!Refs
      BY <2>1, GuestsAssumption DEF SlotInv, T!Refs
    <2>3. list' \in [T!Refs -> T!Refs] /\ list'[0] = i
      BY <2>1, <2>2, ReferenceIsLast DEF T!PutFree, IInv, Types
    <2>4. i' \in NrReserved..NrEntries /\ list'[0] = i' - 1
      BY <2>1, <2>2, <2>3, ReferenceIsLast
    <2> QED BY <1>1, <1>2, <1>3, <2>1, <2>4 DEF SlotInv, Before
  <1>5. CASE T!InitMap
    <2>1. /\ pc = "init" /\ i = NrEntries /\ pc' \in {"idle", "stuck"}
          /\ list' = list
      BY <1>5 DEF T!InitMap
    <2>2. list[0] = Reference BY <2>1, ReferenceIsLast DEF SlotInv
    <2> QED BY <1>1, <1>2, <1>3, <2>1, <2>2 DEF SlotInv, Before, Reference
  <1> QED BY <1>4, <1>5 DEF InitGnttab

LEMMA GrantAccessSlot ==
    ASSUME IInv, SlotInv, GrantAccess
    PROVE  SlotInv'
  <1>1. Reference' = Reference /\ id' = id BY DEF Reference, GrantAccess
  <1>t. /\ table \in [T!Refs -> [frame : Names, domid : Names,
                                 flags : SUBSET T!Flags]]
        /\ at \in [Guest -> Stages]
    BY DEF IInv, Types
  <1>2. CASE /\ at["writer"] = "grant" /\ Go("writer", "granting")
             /\ T!GrantStart("access", "dom6", "shared_page", FALSE)
    <2>1. at'["writer"] = "granting" /\ grants = {} /\ list[0] = Reference
      BY <1>2, <1>t DEF Go, Guest, SlotInv
    <2>2. /\ pc' = "domid" /\ grants' = grants
          /\ call' = [kind |-> "access", ref |-> list[0], dom |-> "dom6",
                      frame |-> "shared_page", ro |-> FALSE, flags |-> {}]
      BY <1>2 DEF T!GrantStart, T!Starts
    <2> QED BY <1>1, <2>1, <2>2 DEF SlotInv, Before
  <1>3. CASE /\ at["writer"] = "granting" /\ T!GrantDomid
             /\ Go("writer", IF pc' = "idle" THEN "user" ELSE "granting")
    <2>1. /\ call.kind = "access" /\ call.ref = Reference
          /\ call.dom = "dom6" /\ grants = {}
      BY <1>3 DEF SlotInv
    <2>2. /\ pc' = "flags" /\ UNCHANGED <<call, grants>>
          /\ table' = [table EXCEPT ![Reference].domid = "dom6"]
      BY <1>3, <2>1 DEF T!GrantDomid
    <2>3. table'[Reference].domid = "dom6"
      BY <1>t, <2>2, ReferenceIsLast
    <2>4. at'["writer"] = "granting" BY <1>3, <1>t, <2>2 DEF Go, Guest
    <2> QED BY <1>1, <2>1, <2>2, <2>3, <2>4 DEF SlotInv, Before
  <1>4. CASE /\ at["writer"] = "granting" /\ T!GrantPublish
             /\ Go("writer", IF pc' = "idle" THEN "user" ELSE "granting")
    <2>1. /\ pc = "flags" /\ pc' = "idle" /\ call.kind = "access"
          /\ call.ref = Reference
          /\ call.dom = "dom6" /\ grants = {}
          /\ table[Reference].domid = "dom6"
      BY <1>4 DEF SlotInv, T!GrantPublish
    <2>2. PICK c : grants' = {c} /\ c.dom = "dom6"
      <3> DEFINE c == [kind |-> call.kind, ref |-> call.ref, dom |-> call.dom,
                       frame |-> call.frame, ro |-> call.ro]
      <3>1. grants' = grants \cup {c} BY <1>4 DEF T!GrantPublish
      <3>2. grants' = {c} /\ c.dom = "dom6" BY <2>1, <3>1
      <3> QED BY <3>2
    <2>3. table' = [table EXCEPT ![Reference].flags = T!GrantFlags("access", call.ro)]
      BY <1>4, <2>1 DEF T!GrantPublish
    <2>4. "permit" \in T!GrantFlags("access", call.ro) BY DEF T!GrantFlags
    <2>5. /\ table'[Reference].domid = "dom6"
          /\ "permit" \in table'[Reference].flags
      BY <1>t, <2>1, <2>3, <2>4, ReferenceIsLast
    <2>6. at'["writer"] = "user" BY <1>4, <1>t, <2>1 DEF Go, Guest
    <2> QED BY <1>1, <2>1, <2>2, <2>5, <2>6 DEF SlotInv, Before
  <1> QED BY <1>2, <1>3, <1>4 DEF GrantAccess

LEMMA MapGrantRefSlot ==
    ASSUME IInv, SlotInv, MapGrantRef
    PROVE  SlotInv'
  <1>1. at'["writer"] = at["writer"]
    BY DEF MapGrantRef, Go, IInv, Types, Guest
  <1>2. CASE T!Map(id.reader, Reference, TRUE)
    <2>1. /\ UNCHANGED <<list, pc, call, i, grants>> /\ id' = id
          /\ table' = [table EXCEPT ![Reference].flags =
                          @ \cup {"reading"} \cup {"writing"}]
      BY <1>2 DEF T!Map, T!guestVars, MapGrantRef
    <2>2. /\ table'[Reference].domid = table[Reference].domid
          /\ table[Reference].flags \subseteq table'[Reference].flags
      BY <2>1, ReferenceIsLast DEF IInv, Types
    <2>3. Reference' = Reference BY DEF Reference
    <2> QED BY <1>1, <2>1, <2>2, <2>3 DEF SlotInv, Before
  <1>3. CASE UNCHANGED tableVars
    BY <1>1, <1>3, QuietSlot DEF MapGrantRef
  <1> QED BY <1>2, <1>3 DEF MapGrantRef

LEMMA NextSlot == IInv /\ SlotInv /\ [Next]_vars => SlotInv'
  <1> SUFFICES ASSUME IInv, SlotInv, [Next]_vars PROVE SlotInv'
    OBVIOUS
  <1>1. ASSUME NEW g \in Guest, Start(g) PROVE SlotInv'
    <2>1. UNCHANGED <<tableVars, id>>
      BY <1>1 DEF Start, XenDetect, XenBaseDetect, XenHypercallsInit,
                  XenSharedInit, ReadClocks
    <2>2. \E next \in Before \cup {"user", "astray", "map"} :
             /\ Go(g, next) /\ at[g] \in Before /\ (next = "map" => g # "writer")
      BY <1>1 DEF Start, XenDetect, XenBaseDetect, XenHypercallsInit,
                  XenSharedInit, ReadClocks, Before
    <2>3. PICK next \in Before \cup {"user", "astray", "map"} :
             /\ Go(g, next) /\ at[g] \in Before /\ (next = "map" => g # "writer")
      BY <2>2
    <2>4. at'["writer"] = IF g = "writer" THEN next ELSE at["writer"]
      BY <2>3 DEF Go, IInv, Types, Guest
    <2> QED BY <2>1, <2>3, <2>4, QuietSlot
  <1>2. CASE InitGnttab BY <1>2, InitGnttabSlot
  <1>3. CASE WriteMessage
    <2>1. UNCHANGED <<tableVars, id>> /\ at["writer"] = "write"
      BY <1>3 DEF WriteMessage
    <2>2. \E next \in {"write", "grant"} : Go("writer", next)
      BY <1>3 DEF WriteMessage, NextByte
    <2>3. at'["writer"] \in {"write", "grant"}
      BY <2>2 DEF Go, IInv, Types, Guest
    <2> QED BY <2>1, <2>3, QuietSlot
  <1>4. CASE GrantAccess BY <1>4, GrantAccessSlot
  <1>5. CASE MapGrantRef BY <1>5, MapGrantRefSlot
  <1>6. CASE PrintMessage
    <2>1. UNCHANGED <<tableVars, id>> /\ at'["writer"] = at["writer"]
      BY <1>6 DEF PrintMessage, Go, IInv, Types, Guest
    <2> QED BY <2>1, QuietSlot
  <1>7. CASE UNCHANGED vars
    BY <1>7, QuietSlot DEF vars, tableVars
  <1> QED BY <1>1, <1>2, <1>3, <1>4, <1>5, <1>6, <1>7
          DEF Next, Writer, Reader, Rest, Guest

THEOREM OneSlot == Spec => []SlotInv
  <1>1. IInv /\ SlotInv /\ [Next]_vars => SlotInv' BY NextSlot
  <1> QED BY <1>1, InitSlot, PublishedIsWritten, PTL DEF Spec

\* A step that prints the failure is the reader's, of a reference nobody has
\* granted to it.
LEMMA FailureStep ==
    ASSUME IInv, SlotInv, [Next]_vars
    PROVE  Published # {} /\ printed' = Failed => printed = Failed
  <1> SUFFICES ASSUME Published # {}, printed' = Failed, printed # Failed
               PROVE  FALSE
    OBVIOUS
  <1>1. CASE MapGrantRef
    <2>1. /\ printed' # printed
          /\ ~(id.writer = "dom5" /\ "permit" \in table[Reference].flags
                                  /\ table[Reference].domid = id.reader)
      BY <1>1 DEF MapGrantRef
    <2>2. PICK g \in grants : g.dom = id.reader BY DEF Published
    <2>3. id.reader = "dom6" /\ id.writer = "dom5"
      BY <2>2 DEF SlotInv, Ids
    <2> QED BY <2>1, <2>2, <2>3 DEF SlotInv
  <1>2. CASE PrintMessage
    <2>1. printed' = Message
      BY <1>2, WrittenIsMessage DEF PrintMessage, IInv, Types, ReaderInv
    <2>2. Message # Failed
      <3>1. Message[1] = "H" /\ Failed[1] = "failed" BY DEF Message, Failed
      <3> QED BY <3>1
    <2> QED BY <2>1, <2>2
  <1>3. CASE ~MapGrantRef /\ ~PrintMessage
    <2>1. printed' = printed
      BY <1>3 DEF Next, Writer, Reader, Rest, Start, XenDetect, XenBaseDetect,
                  XenHypercallsInit, XenSharedInit, ReadClocks, InitGnttab,
                  WriteMessage, GrantAccess, vars
    <2> QED BY <2>1
  <1> QED BY <1>1, <1>2, <1>3

\* guest2/kernel.c:110 asks for reference 511: the one that
\* gnttab_grant_access returns to the writer, on a table of any size.
THEOREM LateReadersMap == Spec => LateReaderMaps
  <1>1. IInv /\ SlotInv /\ [Next]_vars =>
           [Published # {} /\ printed' = Failed => printed = Failed]_vars
    BY FailureStep
  <1> QED BY <1>1, PublishedIsWritten, OneSlot, PTL DEF Spec, LateReaderMaps

----------------------------------------------------------------------------
(* The search for Xen's base, and what it is used for.                     *)

\* Xen answers with one page.
OnePage ==
    /\ host.pages = 1
    /\ \E b \in 0..(Leaves - 1) : host.sig[b] = "xen" /\ host.more[b] >= 2

\* Until the first hypercall a guest's base leads to that page.
BaseInv ==
    /\ host \in Machines /\ base \in [Guest -> Int]
    /\ OnePage => \A g \in Guest :
          /\ at[g] = "hypercalls" => PageCount(base[g]) = 1
          /\ at[g] = "shared" => base[g] # NoBase
          /\ at[g] # "astray"

LEMMA Least ==
    ASSUME NEW S \in SUBSET Nat, S # {}
    PROVE  \E b \in S : \A c \in S : b <= c
  <1>1. PICK b \in S : \A c \in S : ~ (<<c, b>> \in OpToRel(<, Nat))
    BY WFMin, NatLessThanWellFounded
  <1>2. ASSUME NEW c \in S PROVE b <= c
    <2>1. b \in Nat /\ c \in Nat OBVIOUS
    <2>2. ~(c < b) BY <1>1, <2>1 DEF OpToRel
    <2> QED BY <2>1, <2>2
  <1> QED BY <1>2

\* The first base that satisfies xen_base_detect's condition is one whose
\* leaf + 2 is Xen's.
LEMMA FirstBase ==
    ASSUME host \in Machines, OnePage
    PROVE  LET found == {b \in 0..(Leaves - 1) : IsXen(b)}
               first == CHOOSE b \in found : \A c \in found : b <= c
           IN  found # {} /\ first \in Int /\ PageCount(first) = 1
  <1> DEFINE found == {b \in 0..(Leaves - 1) : IsXen(b)}
             first == CHOOSE b \in found : \A c \in found : b <= c
  <1>0. Leaves \in Nat \ {0} /\ Word \in Nat /\ Word > 2
    BY GuestsAssumption
  <1>1. ASSUME NEW b \in 0..(Leaves - 1)
        PROVE  /\ host.more[b] \in -1..(Word - 2)
               /\ host.sig[b] = "xen" => host.more[b] >= 0
    BY GuestsAssumption, XenAssumption
  <1>2. ASSUME NEW b \in 0..(Leaves - 1), host.sig[b] = "xen"
        PROVE  host.more[b] % Word = host.more[b]
    BY <1>0, <1>1, <1>2
  <1>3. \A b \in 0..(Leaves - 1) :
           IsXen(b) <=> host.sig[b] = "xen" /\ host.more[b] >= 2
    BY <1>2 DEF IsXen, Enough, MinLeaves
  <1>4. found # {} /\ found \subseteq Nat
    BY <1>3 DEF OnePage
  <1>5. \E b \in found : \A c \in found : b <= c
    BY <1>4, Least
  <1>6. first \in found BY <1>5
  <1>7. PageCount(first) = 1
    <2> HIDE DEF first
    <2>1. first \in 0..(Leaves - 1) /\ IsXen(first) BY <1>6
    <2>2. host.sig[first] = "xen" /\ host.more[first] >= 2 BY <1>3, <2>1
    <2> QED BY <1>0, <2>1, <2>2 DEF PageCount, OnePage, NoBase
  <1> QED BY <1>4, <1>6, <1>7

LEMMA InitBase == Init => BaseInv
  BY DEF Init, BaseInv, NoBase, Guest

LEMMA StartBase ==
    ASSUME IInv, BaseInv, NEW g \in Guest, Start(g)
    PROVE  BaseInv'
  <1>1. at \in [Guest -> Stages] /\ base \in [Guest -> Int] /\ host' = host
    BY DEF IInv, Types, BaseInv, Start, XenDetect, XenBaseDetect,
           XenHypercallsInit, XenSharedInit, ReadClocks
  <1>2. OnePage' <=> OnePage BY <1>1 DEF OnePage
  <1>3. \A b : PageCount(b)' = PageCount(b) BY <1>1 DEF PageCount
  <1>4. ASSUME NEW next, Go(g, next), UNCHANGED base,
               next \notin {"hypercalls", "shared", "astray"}
        PROVE  BaseInv'
    BY <1>1, <1>2, <1>3, <1>4 DEF BaseInv, Go
  <1>5. CASE XenDetect(g)
    <2>1. PICK next \in {"base", "user"} : Go(g, next)
      BY <1>5 DEF XenDetect
    <2> QED BY <1>4, <1>5, <2>1 DEF XenDetect
  <1>6. CASE ReadClocks(g)
    <2>1. PICK next \in {"table", "map"} : Go(g, next)
      BY <1>6 DEF ReadClocks
    <2> QED BY <1>4, <1>6, <2>1 DEF ReadClocks
  <1>7. CASE XenBaseDetect(g)
    <2> DEFINE found == {b \in 0..(Leaves - 1) : IsXen(b)}
               first == CHOOSE b \in found : \A c \in found : b <= c
               new == IF found = {} THEN NoBase ELSE first
    <2>1. base' = [base EXCEPT ![g] = new] /\ Go(g, "hypercalls")
      BY <1>7 DEF XenBaseDetect
    <2>2. OnePage => new \in Int /\ PageCount(new) = 1
      BY FirstBase DEF BaseInv
    <2>3. new \in Int
      <3>1. CASE found = {} BY <3>1 DEF NoBase
      <3>2. CASE found # {}
        <4>1. \E b \in found : \A c \in found : b <= c
          <5>1. found \subseteq Nat BY GuestsAssumption
          <5> QED BY <3>2, <5>1, Least
        <4>2. first \in found BY <4>1
        <4> QED BY <3>2, <4>2
      <3> QED BY <3>1, <3>2
    <2> HIDE DEF new
    <2> QED BY <1>1, <1>2, <1>3, <2>1, <2>2, <2>3 DEF BaseInv, Go
  <1>8. CASE XenHypercallsInit(g)
    <2> DEFINE new == IF PageCount(base[g]) = 1 THEN base[g] ELSE NoBase
    <2>1. base' = [base EXCEPT ![g] = new] /\ Go(g, "shared")
          /\ at[g] = "hypercalls"
      BY <1>1, <1>8 DEF XenHypercallsInit
    <2>2. new \in Int BY <1>1 DEF NoBase
    <2>3. OnePage => new # NoBase
      BY <2>1 DEF BaseInv, PageCount
    <2> HIDE DEF new
    <2> QED BY <1>1, <1>2, <1>3, <2>1, <2>2, <2>3 DEF BaseInv, Go
  <1>9. CASE XenSharedInit(g)
    <2>1. PICK next \in {"astray", "clock", "user"} :
             Go(g, next) /\ (OnePage => next # "astray")
      BY <1>9 DEF XenSharedInit, BaseInv
    <2>2. UNCHANGED base BY <1>9 DEF XenSharedInit
    <2> QED BY <1>1, <1>2, <1>3, <2>1, <2>2 DEF BaseInv, Go
  <1> QED BY <1>5, <1>6, <1>7, <1>8, <1>9 DEF Start

LEMMA NextBase == IInv /\ BaseInv /\ [Next]_vars => BaseInv'
  <1> SUFFICES ASSUME IInv, BaseInv, [Next]_vars PROVE BaseInv'
    OBVIOUS
  <1>1. at \in [Guest -> Stages] BY DEF IInv, Types
  <1>2. ASSUME UNCHANGED <<host, base>>,
               NEW g \in Guest, NEW next, Go(g, next),
               next \notin {"hypercalls", "shared", "astray"}
        PROVE  BaseInv'
    <2>1. OnePage' <=> OnePage BY <1>2 DEF OnePage
    <2>2. \A b : PageCount(b)' = PageCount(b) BY <1>2 DEF PageCount
    <2> QED BY <1>1, <1>2, <2>1, <2>2 DEF BaseInv, Go
  <1>3. ASSUME NEW g \in Guest, Start(g) PROVE BaseInv'
    BY <1>3, StartBase
  <1>4. CASE InitGnttab
    <2>1. \E next \in {"write", "table"} : Go("writer", next)
      BY <1>4 DEF InitGnttab
    <2> QED BY <1>2, <1>4, <2>1 DEF InitGnttab, Guest
  <1>5. CASE WriteMessage
    <2>1. \E next \in {"write", "grant"} : Go("writer", next)
      BY <1>5 DEF WriteMessage, NextByte
    <2> QED BY <1>2, <1>5, <2>1 DEF WriteMessage, Guest
  <1>6. CASE GrantAccess
    <2>1. \E next \in {"granting", "user"} : Go("writer", next)
      BY <1>6 DEF GrantAccess
    <2> QED BY <1>2, <1>6, <2>1 DEF GrantAccess, Guest
  <1>7. CASE MapGrantRef
    <2>1. \E next \in {"print", "user"} : Go("reader", next)
      BY <1>7 DEF MapGrantRef
    <2> QED BY <1>2, <1>7, <2>1 DEF MapGrantRef, Guest
  <1>8. CASE PrintMessage
    BY <1>2, <1>8 DEF PrintMessage, Guest
  <1>9. CASE UNCHANGED vars
    BY <1>9 DEF vars, BaseInv, OnePage, PageCount
  <1> QED BY <1>3, <1>4, <1>5, <1>6, <1>7, <1>8, <1>9
          DEF Next, Writer, Reader, Rest, Guest

THEOREM BaseLeadsToPage == Spec => []BaseInv
  <1>1. IInv /\ BaseInv /\ [Next]_vars => BaseInv' BY NextBase
  <1> QED BY <1>1, InitBase, PublishedIsWritten, PTL DEF Spec

\* xen_hypercalls_init and xen_shared_init, on every host: a guest calls into
\* an empty page only where Xen's leaves do not lead to one page.
THEOREM NotAstray == Spec => []AstrayOnlyWithoutPage
  <1>1. BaseInv => AstrayOnlyWithoutPage
    BY DEF BaseInv, OnePage, AstrayOnlyWithoutPage
  <1> QED BY <1>1, BaseLeadsToPage, PTL
=============================================================================
