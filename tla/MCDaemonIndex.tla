--------------------------- MODULE MCDaemonIndex ---------------------------
(***************************************************************************)
(* Finite instances of DaemonIndex.  Connection threads, cached instances  *)
(* and edits are interchangeable: neither the specification nor the        *)
(* invariants tell them apart.  Runs of liveness properties do not use     *)
(* the symmetry.                                                           *)
(***************************************************************************)
EXTENDS DaemonIndex, TLC

Symmetry ==
    Permutations(Handlers) \cup Permutations(Instances) \cup Permutations(Edits)
=============================================================================
