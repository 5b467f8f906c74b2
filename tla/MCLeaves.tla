------------------------------ MODULE MCLeaves ------------------------------
(***************************************************************************)
(* An instance of Leaves: two coordinators, one candidate.                 *)
(***************************************************************************)
EXTENDS Leaves
=============================================================================
