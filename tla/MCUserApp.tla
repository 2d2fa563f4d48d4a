------------------------------ MODULE MCUserApp ------------------------------
EXTENDS UserAppProps, TLC

TabSymmetry == Permutations(Tabs)
=============================================================================
