----------------------------- MODULE MCPvClock -----------------------------
(***************************************************************************)
(* PvClock with words small enough to count.                               *)
(***************************************************************************)
EXTENDS PvClock

MCRates == {[shift |-> 1, mul |-> 1], [shift |-> -1, mul |-> 4]}
MCWallClocks == {[sec |-> 1, nsec |-> 1], [sec |-> 2, nsec |-> 0]}
OneUpdate == [ti |-> 1, wc |-> 1]
=============================================================================
