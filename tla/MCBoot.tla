------------------------------- MODULE MCBoot ------------------------------
(***************************************************************************)
(* Boot with images of one and two pages and lists of at most two modes.   *)
(***************************************************************************)
EXTENDS Boot

MCPages == [kernel |-> 2, user |-> 1, userTables |-> 4]
MCModes == UNION {[1..n -> {"asked", "other", "unreadable", "unsettable"}] : n \in 0..2}
=============================================================================
