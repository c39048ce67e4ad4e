---------------------------- MODULE MCIndexStore ----------------------------
(***************************************************************************)
(* Finite instances of IndexStore.  No definition or invariant tells one   *)
(* path from another, so source paths are interchangeable.                 *)
(***************************************************************************)
EXTENDS IndexStore, TLC

Symmetry == Permutations(Paths)
=============================================================================
