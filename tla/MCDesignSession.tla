-------------------------- MODULE MCDesignSession ---------------------------
EXTENDS Designer, TLC
CONSTANTS loose, cramped
MCBuilt == [c \in Contents |-> IF c = loose THEN Blank ELSE c]
Symmetry == Permutations(Saves)
=============================================================================
