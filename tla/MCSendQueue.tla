---------------------------- MODULE MCSendQueue -----------------------------
EXTENDS SendQueue, TLC

Symmetry ==
    Permutations(Users \ {Me}) \union Permutations(Handlers) \union Permutations(Tabs)
=============================================================================
