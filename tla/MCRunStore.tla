----------------------------- MODULE MCRunStore -----------------------------
(* Model values and symmetry for the runs of RunStore.                     *)
EXTENDS RunStore

(* A registration of the first second has a longer text.                   *)
MCLong == [path : Paths, at : {0}]

Symmetric == Permutations(Procs) \cup Permutations(Slugs)
==============================================================================
