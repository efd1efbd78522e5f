---------------------- MODULE MC_WaitForControlledPods ----------------------
EXTENDS WaitForControlledPods, TLC

Symmetry == Permutations(Keys) \cup Permutations(Specs)
==============================================================================
