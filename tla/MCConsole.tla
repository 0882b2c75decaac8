------------------------------ MODULE MCConsole ----------------------------
(***************************************************************************)
(* Console with characters of 2 x 3 pixels, three rows of two of them, and *)
(* a margin on both sides.                                                 *)
(***************************************************************************)
EXTENDS Console
=============================================================================
