------------------------------ MODULE Grants -------------------------------
(***************************************************************************)
(* What a grant table promises.  A reference stands for one grant at a     *)
(* time.  Another domain maps only what is granted to it, and a grant ends *)
(* only when nothing is mapped through it.  A transfer that the hypervisor *)
(* has begun is waited for, and the frame it moves in is handed over once. *)
(***************************************************************************)
CONSTANTS
    References,   \* references that may be handed out
    Doms,         \* the other domains
    Frames,       \* frames of this domain
    Moved         \* frames the hypervisor moves in

VARIABLES
    grants,    \* the grants in force
    maps,      \* mappings other domains hold
    moves,     \* transfers begun: reference, and the frame once it is there
    inbound    \* frames moved in and not handed over yet

vars == <<grants, maps, moves, inbound>>

Pending == "pending"

Grant == [kind : {"access", "transfer"}, ref : References, dom : Doms,
          frame : Frames, ro : BOOLEAN]

Init == grants = {} /\ maps = {} /\ moves = {} /\ inbound = {}

Make(g) ==
    /\ \A h \in grants : h.ref # g.ref
    /\ grants' = grants \cup {g}
    /\ UNCHANGED <<maps, moves, inbound>>

EndAccess(g) ==
    /\ g \in grants /\ g.kind = "access"
    /\ \A m \in maps : m.ref # g.ref
    /\ grants' = grants \ {g}
    /\ UNCHANGED <<maps, moves, inbound>>

Map(g, write) ==
    /\ g \in grants /\ g.kind = "access"
    /\ write => ~g.ro
    /\ maps' = maps \cup {[ref |-> g.ref, dom |-> g.dom, frame |-> g.frame,
                           write |-> write]}
    /\ UNCHANGED <<grants, moves, inbound>>

Unmap(m) ==
    /\ m \in maps
    /\ maps' = maps \ {m}
    /\ UNCHANGED <<grants, moves, inbound>>

Commit(g) ==
    /\ g \in grants /\ g.kind = "transfer"
    /\ \A v \in moves : v.ref # g.ref
    /\ moves' = moves \cup {[ref |-> g.ref, frame |-> Pending]}
    /\ UNCHANGED <<grants, maps, inbound>>

Complete(v, f) ==
    /\ v \in moves /\ v.frame = Pending
    /\ f \in Moved \ inbound
    /\ moves' = (moves \ {v}) \cup {[ref |-> v.ref, frame |-> f]}
    /\ inbound' = inbound \cup {f}
    /\ UNCHANGED <<grants, maps>>

\* A transfer nobody has begun is taken back; one that is complete hands
\* over its frame.
Withdraw(g) ==
    /\ g \in grants /\ g.kind = "transfer"
    /\ \A v \in moves : v.ref # g.ref
    /\ grants' = grants \ {g}
    /\ UNCHANGED <<maps, moves, inbound>>

Collect(g, v) ==
    /\ g \in grants /\ g.kind = "transfer"
    /\ v \in moves /\ v.ref = g.ref /\ v.frame \in inbound
    /\ grants' = grants \ {g}
    /\ moves' = moves \ {v}
    /\ inbound' = inbound \ {v.frame}
    /\ UNCHANGED maps

Next ==
    \/ \E g \in Grant : Make(g)
    \/ \E g \in grants :
          \/ EndAccess(g) \/ Commit(g) \/ Withdraw(g)
          \/ \E write \in BOOLEAN : Map(g, write)
          \/ \E v \in moves : Collect(g, v)
    \/ \E m \in maps : Unmap(m)
    \/ \E v \in moves, f \in Moved : Complete(v, f)

Spec == Init /\ [][Next]_vars
=============================================================================
