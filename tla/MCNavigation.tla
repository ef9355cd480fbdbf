----------------------------- MODULE MCNavigation ---------------------------
EXTENDS Navigation, TLC

Symmetry ==
    Permutations(Groups) \union Permutations(Forms) \union Permutations(Details)
        \union Permutations(Handlers)
=============================================================================
