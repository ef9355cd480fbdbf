---------------------------- MODULE MCDesigner -----------------------------
EXTENDS DesignerCanvas, TLC
Symmetry == Permutations(FieldIds)

\* The order of the array decides only between fields of one grid that begin in
\* the same cell; only a rich text that was pasted too narrow comes to lie so.
View == << IF stale THEN fields ELSE Range(fields), clipboard, stale >>
=============================================================================
