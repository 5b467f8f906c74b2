----------------------------- MODULE MCCaptures -----------------------------
(***************************************************************************)
(* An instance of Captures: two leaves that publish alone and together.    *)
(***************************************************************************)
EXTENDS Captures, TLC

Leaves == Permutations(Leaf)
=============================================================================
