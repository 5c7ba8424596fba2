------------------------------- MODULE MCAof -------------------------------
(***************************************************************************)
(* A small instance of Aof.                                                *)
(***************************************************************************)
EXTENDS AofRefinement
============================================================================
