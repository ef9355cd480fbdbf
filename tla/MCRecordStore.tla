--------------------------- MODULE MCRecordStore ---------------------------
(* A small form for TLC.  Records, values and handlers are interchangeable. *)
EXTENDS RecordStore, TLC

Symmetry == Permutations(Records) \cup Permutations(Keys) \cup Permutations(StoreHandlers)
=============================================================================
