--------------------------- MODULE MCPageTables ----------------------------
(***************************************************************************)
(* PageTables with tables of a few entries.                                *)
(***************************************************************************)
EXTENDS PageTables
=============================================================================
