---------------------- MODULE MC_ControlledPodsIndexer ----------------------
EXTENDS ControlledPodsIndexer, TLC

CONSTANTS r1, r2, d1, d2

OwnerDef == (r1 :> d1) @@ (r2 :> d2)

Symmetry == Permutations(Pods)
==============================================================================
