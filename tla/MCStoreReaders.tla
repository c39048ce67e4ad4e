--------------------------- MODULE MCStoreReaders ---------------------------
(***************************************************************************)
(* A finite instance of StoreReaders; its paths are interchangeable as     *)
(* those of IndexStore are.  Without a daemon, dirty and plan.clears are   *)
(* history of IndexStore's own properties: no guard and no property here   *)
(* reads them, so states that differ in nothing else are one.              *)
(***************************************************************************)
EXTENDS StoreReaders, TLC

Symmetry == Permutations(Paths)

View == <<tree, disk, op, pc, [plan EXCEPT !.clears = {}], cuts, torn, readerVars>>
=============================================================================
