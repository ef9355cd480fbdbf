--------------------------- MODULE RecordApproval ---------------------------
(***************************************************************************)
(* The workflow fields of one record of a workflow form                    *)
(* (workflowApprovalStatus, workflowInstanceStatus) and the workflow       *)
(* instances started for it (api/src/modules/workflows.rs, forms.rs).      *)
(*                                                                         *)
(* The fields live in the record's data, and every writer of the data      *)
(* writes all of it.  Submitting locks the record; pausing, resuming and   *)
(* ending an instance set both fields whatever they were.  An edit and a   *)
(* reversal read the record without a lock and write it back later, so     *)
(* they may put back fields that have changed in between.                  *)
(*                                                                         *)
(* How an instance comes to its end is the subject of module Execution,    *)
(* deletion and restoring that of RecordStore.                             *)
(***************************************************************************)
EXTENDS Integers, FiniteSets

CONSTANTS
    Handlers,
    MaxInstances    \* bound: times the record is submitted

ASSUME ApprovalAssumption == MaxInstances \in Nat

VARIABLES
    approval,       \* workflowApprovalStatus
    progress,       \* workflowInstanceStatus
    shown,          \* is the record not deleted?
    n,              \* instances started for the record; the last is the latest
    inst,           \* instance -> its status
    pc, read,       \* what a handler is about to do, and the fields it has read
    raced           \* history: fields were written over that the writer had not read

fields == <<approval, progress>>
vars == <<approval, progress, shown, n, inst, pc, read, raced>>

Instances == 1 .. MaxInstances
Approval == {"saved", "reviewing", "approved", "rejected"}
Progress == {"not_started", "running", "paused", "completed", "failed", "cancelled"}
Status == {"none", "running", "paused", "completed", "rejected", "failed", "cancelled"}
Open == {"running", "paused"}

\* The fields, the instances and what handlers have read hold what the code writes.
TypeOK ==
    /\ approval \in Approval /\ progress \in Progress
    /\ shown \in BOOLEAN /\ raced \in BOOLEAN
    /\ n \in Nat /\ n <= MaxInstances
    /\ inst \in [Instances -> Status]
    /\ pc \in [Handlers -> {"idle", "edit", "reverse"}]
    /\ read \in [Handlers -> Approval \X Progress]

\* initialize_workflow_record has filled in the fields of the new record.
Init ==
    /\ approval = "saved" /\ progress = "not_started"
    /\ shown = TRUE /\ raced = FALSE
    /\ n = 0
    /\ inst = [i \in Instances |-> "none"]
    /\ pc = [h \in Handlers |-> "idle"]
    /\ read = [h \in Handlers |-> <<"saved", "not_started">>]

-----------------------------------------------------------------------------
(* The instance's side: update_record_state in the instance's transaction. *)

SetFields(a, p) == approval' = a /\ progress' = p

MaySubmit == approval = "saved"

Submit ==
    /\ shown /\ MaySubmit
    /\ n < MaxInstances
    /\ n' = n + 1
    /\ inst' = [inst EXCEPT ![n + 1] = "running"]
    /\ SetFields("reviewing", "running")
    /\ UNCHANGED <<shown, pc, read, raced>>

\* A transaction that moves instance i and sets the record's fields.  It fails as
\* a whole when the record has been deleted.
Move(i, from, to, a, p) ==
    /\ shown /\ inst[i] \in from
    /\ inst' = [inst EXCEPT ![i] = to]
    /\ SetFields(a, p)
    /\ UNCHANGED <<shown, n, pc, read, raced>>

\* Pause and resume look for the record's latest instance.
Pause  == n > 0 /\ Move(n, {"running"}, "paused", "reviewing", "paused")
Resume == n > 0 /\ Move(n, {"paused"}, "running", "reviewing", "running")

\* A drive ends at a human node, or at the end of the flow.  That of a paused
\* instance may, too: an accepted retry sets its run going again.
Rest(i) ==
    /\ shown /\ inst[i] \in Open
    /\ SetFields("reviewing", "running")
    /\ UNCHANGED <<shown, n, inst, pc, read, raced>>

Complete(i) == Move(i, Open, "completed", "approved", "completed")
Reject(i)   == Move(i, {"running"}, "rejected", "rejected", "completed")
Cancel(i)   == Move(i, Open, "cancelled", "reviewing", "cancelled")

\* fail_instance lets only completed, rejected and failed instances alone.
Fail(i) == Move(i, {"running", "paused", "cancelled"}, "failed", "reviewing", "failed")

-----------------------------------------------------------------------------
(* The form's side.                                                        *)

Read(h, what) ==
    /\ shown /\ pc[h] = "idle"
    /\ pc' = [pc EXCEPT ![h] = what]
    /\ read' = [read EXCEPT ![h] = fields]
    /\ UNCHANGED <<approval, progress, shown, n, inst, raced>>

Write(h, what, a, p) ==
    /\ pc[h] = what
    /\ pc' = [pc EXCEPT ![h] = "idle"]
    /\ raced' = (raced \/ read[h] # fields)
    /\ SetFields(a, p)
    /\ UNCHANGED <<shown, n, inst, read>>

EditAsSent(h) == \E a \in Approval, p \in Progress : Write(h, "edit", a, p)

\* preserve_workflow_system_fields: what the client sends in them is not taken.
Edit(h) == Write(h, "edit", read[h][1], read[h][2])

ReadForReverseAny(h) == Read(h, "reverse")

ReadForReverse(h) == approval = "approved" /\ Read(h, "reverse")

Reverse(h) == Write(h, "reverse", "saved", "not_started")

\* The "before" automation fails, or the client goes away.
Drop(h) ==
    /\ pc[h] # "idle"
    /\ pc' = [pc EXCEPT ![h] = "idle"]
    /\ UNCHANGED <<approval, progress, shown, n, inst, read, raced>>

DeleteOrRestore ==
    /\ shown' = ~shown
    /\ UNCHANGED <<approval, progress, n, inst, pc, read, raced>>

-----------------------------------------------------------------------------
OfInstance(i) == Rest(i) \/ Complete(i) \/ Reject(i) \/ Cancel(i) \/ Fail(i)
OfHandler(h) == Read(h, "edit") \/ Edit(h) \/ ReadForReverse(h) \/ Reverse(h) \/ Drop(h)

Next ==
    \/ Submit \/ Pause \/ Resume \/ DeleteOrRestore
    \/ \E i \in Instances : OfInstance(i)
    \/ \E h \in Handlers : OfHandler(h)

Spec == Init /\ [][Next]_vars

-----------------------------------------------------------------------------
(* Properties.                                                             *)

\* The fields that fit a record whose latest instance has status s.
Fitting(s) ==
    CASE s = "none"      -> {<<"saved", "not_started">>}
      [] s = "running"   -> {<<"reviewing", "running">>}
      [] s = "paused"    -> {<<"reviewing", "paused">>, <<"reviewing", "running">>}
      [] s = "completed" -> {<<"approved", "completed">>, <<"saved", "not_started">>}
      [] s = "rejected"  -> {<<"rejected", "completed">>}
      [] s = "failed"    -> {<<"reviewing", "failed">>}
      [] OTHER           -> {<<"reviewing", "cancelled">>}

Latest == IF n = 0 THEN "none" ELSE inst[n]

\* As long as no edit or reversal writes over fields it has not read, the record
\* tells what became of its latest instance, through any number of submissions.
FieldsTellInstance == ~raced => fields \in Fitting(Latest)

\* ... and a record is submitted again only after its approval has been reversed.
EarlierCompleted == ~raced => \A i \in Instances : i < n => inst[i] = "completed"

\* However edits, reversals and decisions overlap, a record shows as approved only
\* if an instance of it has been completed.
ApprovedWasApproved == approval = "approved" => \E i \in Instances : inst[i] = "completed"

-----------------------------------------------------------------------------
(* The inductive invariant.                                                *)

\* Instances are numbered as they are started.
Numbered == \A i \in Instances : i > n <=> inst[i] = "none"

\* A handler has read an approval only if there was one; a reversal has read one.
ReadWasApproved == \A h \in Handlers :
    /\ pc[h] = "edit" /\ read[h][1] = "approved" => \E i \in Instances : inst[i] = "completed"
    /\ pc[h] = "reverse" => read[h][1] = "approved"

\* What the instances and the handlers preserve, taken together.
ApprovalInv ==
    /\ TypeOK /\ Numbered /\ FieldsTellInstance /\ EarlierCompleted
    /\ ApprovedWasApproved /\ ReadWasApproved
=============================================================================
