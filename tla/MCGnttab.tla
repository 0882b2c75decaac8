------------------------------ MODULE MCGnttab -----------------------------
(***************************************************************************)
(* Gnttab with two reserved entries and a small pool.                      *)
(***************************************************************************)
EXTENDS Gnttab

CONSTANTS d1, d2, f1, m1, m2
=============================================================================
