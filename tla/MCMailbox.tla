----------------------------- MODULE MCMailbox -----------------------------
(* Model checking of Mailbox.                                              *)
EXTENDS Mailbox, TLC

\* The tabs of a browser are interchangeable.
Symmetry == Permutations(Tabs)
=============================================================================
