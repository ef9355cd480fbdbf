-------------------------- MODULE MCRecordApproval --------------------------
(* One record for TLC; the handlers are interchangeable. *)
EXTENDS RecordApproval, TLC

Symmetry == Permutations(Handlers)
=============================================================================
