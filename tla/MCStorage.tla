----------------------------- MODULE MCStorage ------------------------------
EXTENDS StorageRefinement, TLC

Symmetry == Permutations(Processes) \cup Permutations(Wallets) \cup Permutations(Records)
              \cup Permutations(Tabs)
=============================================================================
