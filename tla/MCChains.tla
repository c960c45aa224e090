-------------------------------- MODULE MCChains --------------------------------
EXTENDS ChainsService, TLC

Symmetry == Permutations(Updates) \cup Permutations(Chains \ Embedded)
=============================================================================
