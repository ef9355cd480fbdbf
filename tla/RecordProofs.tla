---------------------------- MODULE RecordProofs ----------------------------
(***************************************************************************)
(* What holds of the records of a form, whatever the number of records,    *)
(* values and handlers, and of a workflow record, whatever the number of   *)
(* handlers and submissions.  StoreInv and ApprovalInv are inductive;      *)
(* their conjuncts are proved preserved one after the other, action by     *)
(* action.                                                                 *)
(***************************************************************************)
EXTENDS RecordStore, RecordApproval, FiniteSetTheorems, TLAPS

-----------------------------------------------------------------------------
(* The rows, the counter and the recycle bin. *)

LEMMA LiveIsFinite ==
    /\ IsFiniteSet(Live)
    /\ Cardinality(Live) \in Nat
<1>1. Live \in SUBSET Records
  BY DEF Live
<1>2. IsFiniteSet(Live)
  BY <1>1, FS_Subset, StoreAssumption
<1> QED
  BY <1>2, FS_CardinalityType

\* The counter after deletions of m records that the writer believed to be there.
LEMMA DecrementType ==
    ASSUME count \in Nat, NEW m \in Nat, Decrement(m)
    PROVE  /\ count' \in Nat
           /\ count' = 0 \/ count' + m = count
BY DEF Decrement

LEMMA HeldIsFinite ==
    ASSUME StoreTypeOK, NEW h \in StoreHandlers
    PROVE  /\ IsFiniteSet(held[h])
           /\ Cardinality(held[h]) \in Nat
<1>1. held[h] \in SUBSET Records
  BY DEF StoreTypeOK
<1>2. IsFiniteSet(held[h])
  BY <1>1, FS_Subset, StoreAssumption
<1> QED
  BY <1>2, FS_CardinalityType

-----------------------------------------------------------------------------
(* Type correctness.                                                       *)

LEMMA TypeInit == StoreInit => StoreTypeOK
BY StoreAssumption DEF StoreInit, StoreTypeOK, RowState, Places

LEMMA StoreTypeStep == StoreTypeOK /\ [StoreNext]_storeVars => StoreTypeOK'
<1> SUFFICES ASSUME StoreTypeOK, [StoreNext]_storeVars PROVE StoreTypeOK'
  OBVIOUS
<1> USE DEF StoreTypeOK, RowState, Places, bin, handlers, history
<1>1. ASSUME NEW r \in Records, NEW k \in Keys \cup {Blank}, Insert(r, k) PROVE StoreTypeOK'
  BY <1>1 DEF Insert
<1>2. ASSUME NEW S \in SUBSET Records, Discard(S) PROVE StoreTypeOK'
  BY <1>2 DEF Discard
<1>3. ASSUME NEW h \in StoreHandlers, Handle(h) PROVE StoreTypeOK'
  <2>1. ASSUME NEW r \in Records, ReadForUpdate(h, r) PROVE StoreTypeOK'
    BY <2>1 DEF ReadForUpdate, Begin
  <2>2. ASSUME NEW r \in Records, ReadForDelete(h, r) PROVE StoreTypeOK'
    BY <2>2 DEF ReadForDelete, Begin
  <2>3. ASSUME NEW r \in Records, ReadEntry(h, r) PROVE StoreTypeOK'
    BY <2>3 DEF ReadEntry, Begin
  <2>4. ASSUME NEW k \in Keys \cup {Blank}, Update(h, k) PROVE StoreTypeOK'
    BY <2>4 DEF Update, Forget
  <2>5. ASSUME NEW S \in SUBSET Records, ListForPurge(h, S) PROVE StoreTypeOK'
    BY <2>5 DEF ListForPurge, Begin
  <2>6. CASE Delete(h)
    <3>1. PICK r \in held[h] : /\ MakeEntry(r)
                               /\ row' = [row EXCEPT ![r] = IF @ = "live" THEN "trashed" ELSE @]
      BY <2>6 DEF Delete
    <3>2. count' \in Nat
      BY <2>6, DecrementType DEF Delete
    <3>3. /\ made' \in Nat /\ made <= made'
          /\ entry' \in [Records -> Nat] /\ \A s \in Records : entry'[s] <= made'
      BY <3>1 DEF MakeEntry
    <3>4. row' \in [Records -> RowState]
      BY <3>1
    <3> QED
      BY <2>6, <3>2, <3>3, <3>4 DEF Delete, Forget
  <2>7. CASE Purge(h)
    <3>1. count' \in Nat
      BY <2>7, DecrementType, HeldIsFinite DEF Purge
    <3>2. row' \in [Records -> RowState]
      BY <2>7 DEF Purge
    <3> QED
      BY <2>7, <3>1, <3>2 DEF Purge, Forget
  <2>8. CASE Untrash(h)
    BY <2>8 DEF Untrash
  <2>9. CASE Unlist(h)
    BY <2>9 DEF Unlist, Forget
  <2>10. CASE DropHandler(h)
    BY <2>10 DEF DropHandler, Forget
  <2> QED
    BY <1>3, <2>1, <2>2, <2>3, <2>4, <2>5, <2>6, <2>7, <2>8, <2>9, <2>10 DEF Handle
<1>4. CASE UNCHANGED storeVars
  BY <1>4 DEF storeVars
<1> QED
  BY <1>1, <1>2, <1>3, <1>4 DEF StoreNext

-----------------------------------------------------------------------------
(* Uniqueness.  Only an insert, an edit or a restore can make a pair of    *)
(* live records with one value: the first two check, the third is excused. *)

LEMMA UniqueStep ==
    StoreTypeOK /\ UniqueUnlessRestored /\ [StoreNext]_storeVars => UniqueUnlessRestored'
<1> SUFFICES ASSUME StoreTypeOK, UniqueUnlessRestored, [StoreNext]_storeVars PROVE UniqueUnlessRestored'
  OBVIOUS
<1> USE DEF StoreTypeOK, UniqueUnlessRestored, Live, bin, handlers, history
<1>1. ASSUME NEW r \in Records, NEW k \in Keys \cup {Blank}, Insert(r, k)
      PROVE  UniqueUnlessRestored'
  BY <1>1 DEF Insert, Unique
<1>2. ASSUME NEW S \in SUBSET Records, Discard(S) PROVE UniqueUnlessRestored'
  BY <1>2 DEF Discard
<1>3. ASSUME NEW h \in StoreHandlers, Handle(h) PROVE UniqueUnlessRestored'
  <2>1. CASE UNCHANGED <<row, key, restored>>
    BY <2>1
  <2>2. ASSUME NEW k \in Keys \cup {Blank}, Update(h, k) PROVE UniqueUnlessRestored'
    BY <2>2 DEF Update, Unique
  <2>3. CASE Delete(h)
    BY <2>3 DEF Delete
  <2>4. CASE Purge(h)
    BY <2>4 DEF Purge
  <2>5. CASE Untrash(h)
    BY <2>5 DEF Untrash
  <2> QED
    BY <1>3, <2>1, <2>2, <2>3, <2>4, <2>5
    DEF Handle, ReadForUpdate, ReadForDelete, ReadEntry, ListForPurge, Unlist, DropHandler
<1>4. CASE UNCHANGED storeVars
  BY <1>4 DEF storeVars
<1> QED
  BY <1>1, <1>2, <1>3, <1>4 DEF StoreNext

-----------------------------------------------------------------------------
(* The counter.  A deletion takes at least as much from the counter as it  *)
(* takes from the records; a restore takes nothing and gives a record back.*)

LEMMA CountStep ==
    StoreTypeOK /\ NeverOvercounts /\ [StoreNext]_storeVars => NeverOvercounts'
<1> SUFFICES ASSUME StoreTypeOK, NeverOvercounts, [StoreNext]_storeVars PROVE NeverOvercounts'
  OBVIOUS
<1> USE DEF NeverOvercounts
<1>0. count \in Nat /\ IsFiniteSet(Live) /\ Cardinality(Live) \in Nat
  BY LiveIsFinite DEF StoreTypeOK
<1>1. ASSUME NEW r \in Records, NEW k \in Keys \cup {Blank}, Insert(r, k)
      PROVE  NeverOvercounts'
  <2>1. Live' = Live \cup {r} /\ r \notin Live
    BY <1>1 DEF Insert, Live, StoreTypeOK
  <2>2. Cardinality(Live') = Cardinality(Live) + 1
    BY <1>0, <2>1, FS_AddElement
  <2> QED
    BY <1>0, <1>1, <2>2 DEF Insert
<1>2. CASE UNCHANGED <<row, count>>
  BY <1>2 DEF Live
<1>3. ASSUME NEW h \in StoreHandlers, Delete(h) PROVE NeverOvercounts'
  <2>1. PICK r \in held[h] :
           row' = [row EXCEPT ![r] = IF @ = "live" THEN "trashed" ELSE @]
    BY <1>3 DEF Delete
  <2>2. Live' = Live \ {r}
    BY <2>1 DEF Live, StoreTypeOK
  <2>3. /\ Cardinality(Live') \in Nat
        /\ Cardinality(Live') + 1 >= Cardinality(Live)
    <3>1. IsFiniteSet(Live')
      BY <1>0, <2>2, FS_RemoveElement
    <3>2. Cardinality(Live') \in Nat
      BY <3>1, FS_CardinalityType
    <3>3. Cardinality(Live') = Cardinality(Live) - 1 \/ Cardinality(Live') = Cardinality(Live)
      BY <1>0, <2>2, FS_RemoveElement
    <3> QED
      BY <1>0, <3>2, <3>3
  <2>4. count' \in Nat /\ (count' = 0 \/ count' + 1 = count)
    BY <1>0, <1>3, DecrementType DEF Delete
  <2> QED
    BY <1>0, <2>3, <2>4
<1>4. ASSUME NEW h \in StoreHandlers, Purge(h) PROVE NeverOvercounts'
  <2> DEFINE gone == Cardinality(held[h])
             both == Cardinality(Live \cap held[h])
  <2>1. Live' = Live \ held[h]
    BY <1>4 DEF Purge, Live, StoreTypeOK
  <2>2. IsFiniteSet(held[h]) /\ gone \in Nat
    BY HeldIsFinite
  <2>3. both \in Nat /\ both <= gone
    BY <1>0, <2>2, FS_Intersection, FS_CardinalityType
  <2>4. /\ IsFiniteSet(Live')
        /\ Cardinality(Live') = Cardinality(Live) - both
    BY <1>0, <2>1, FS_Difference
  <2>5. Cardinality(Live') \in Nat
    BY <2>4, FS_CardinalityType
  <2>6. count' \in Nat /\ (count' = 0 \/ count' + gone = count)
    BY <1>0, <1>4, <2>2, DecrementType DEF Purge
  <2> QED
    BY <1>0, <2>2, <2>3, <2>4, <2>5, <2>6
<1>5. ASSUME NEW h \in StoreHandlers, Untrash(h) PROVE NeverOvercounts'
  <2>1. Live \in SUBSET Live' /\ Live' \in SUBSET Records
    BY <1>5 DEF Untrash, Live, StoreTypeOK
  <2>2. IsFiniteSet(Live') /\ Cardinality(Live') \in Nat
    BY <2>1, FS_Subset, FS_CardinalityType, StoreAssumption
  <2>3. Cardinality(Live) <= Cardinality(Live')
    BY <2>1, <2>2, FS_Subset
  <2> QED
    BY <1>0, <1>5, <2>2, <2>3 DEF Untrash
<1> QED
  BY <1>1, <1>2, <1>3, <1>4, <1>5
  DEF StoreNext, Handle, Discard, ReadForUpdate, ReadForDelete, ReadEntry, ListForPurge,
      Update, Unlist, DropHandler, storeVars

-----------------------------------------------------------------------------
(* The recycle bin.                                                        *)

BinInv == RecoverableOnce /\ HeldExists /\ EntryTellsDeletion /\ UnlistedIsRestored

LEMMA BinStep == StoreTypeOK /\ BinInv /\ [StoreNext]_storeVars => BinInv'
<1> SUFFICES ASSUME StoreTypeOK, BinInv, [StoreNext]_storeVars PROVE BinInv'
  OBVIOUS
<1> USE DEF BinInv, StoreTypeOK, RecoverableOnce, HeldExists, EntryTellsDeletion,
            UnlistedIsRestored, Live, RowState,
            Places, bin, handlers, history
<1>1. ASSUME NEW r \in Records, NEW k \in Keys \cup {Blank}, Insert(r, k) PROVE BinInv'
  BY <1>1 DEF Insert
<1>2. ASSUME NEW S \in SUBSET Records, Discard(S) PROVE BinInv'
  BY <1>2 DEF Discard
<1>3. ASSUME NEW h \in StoreHandlers, Handle(h) PROVE BinInv'
  <2>1. ASSUME NEW r \in Records, ReadForUpdate(h, r) PROVE BinInv'
    BY <2>1 DEF ReadForUpdate, Begin
  <2>2. ASSUME NEW r \in Records, ReadForDelete(h, r) PROVE BinInv'
    BY <2>2 DEF ReadForDelete, Begin
  <2>3. ASSUME NEW r \in Records, ReadEntry(h, r) PROVE BinInv'
    BY <2>3 DEF ReadEntry, Begin
  <2>4. ASSUME NEW k \in Keys \cup {Blank}, Update(h, k) PROVE BinInv'
    BY <2>4 DEF Update, Forget
  <2>5. ASSUME NEW S \in SUBSET Records, ListForPurge(h, S) PROVE BinInv'
    BY <2>5 DEF ListForPurge, Begin
  <2>6. CASE Delete(h)
    <3>1. PICK r \in held[h] : /\ MakeEntry(r)
                               /\ row' = [row EXCEPT ![r] = IF @ = "live" THEN "trashed" ELSE @]
      BY <2>6 DEF Delete
    <3>2. entry'[r] # 0 /\ \A s \in Records \ {r} : entry'[s] = entry[s]
      BY <3>1 DEF MakeEntry
    <3>3. \A s \in Records : entry'[s] = entry[s] \/ entry'[s] = made + 1
      BY <3>1 DEF MakeEntry
    <3>4. /\ UNCHANGED history
          /\ \A g \in StoreHandlers : doing'[g] = "unlist" =>
                g # h /\ doing[g] = "unlist" /\ held'[g] = held[g] /\ heldEntry'[g] = heldEntry[g]
      BY <2>6 DEF Delete, Forget
    <3>5. RecoverableOnce'
      BY <3>1, <3>2, <3>4
    <3>6. EntryTellsDeletion' /\ HeldExists'
      BY <2>6, <3>1, <3>2, <3>4 DEF Delete, Forget
    <3>7. UnlistedIsRestored'
      BY <3>1, <3>3, <3>4
    <3> QED
      BY <3>5, <3>6, <3>7
  <2>7. CASE Purge(h)
    BY <2>7 DEF Purge, Forget
  <2>8. CASE Untrash(h)
    BY <2>8 DEF Untrash
  <2>9. CASE Unlist(h)
    BY <2>9 DEF Unlist, Forget
  <2>10. CASE DropHandler(h)
    BY <2>10 DEF DropHandler, Forget
  <2> QED
    BY <1>3, <2>1, <2>2, <2>3, <2>4, <2>5, <2>6, <2>7, <2>8, <2>9, <2>10 DEF Handle
<1>4. CASE UNCHANGED storeVars
  BY <1>4 DEF storeVars
<1> QED
  BY <1>1, <1>2, <1>3, <1>4 DEF StoreNext

-----------------------------------------------------------------------------
\* What every handler, dropped wherever it may be, preserves of the records,
\* the counter and the recycle bin.
THEOREM StoreInvariant == StoreSpec => []StoreInv
<1>1. StoreInit => StoreInv
  <2> SUFFICES ASSUME StoreInit PROVE StoreInv
    OBVIOUS
  <2>1. StoreTypeOK
    BY TypeInit
  <2>2. Live = {}
    BY DEF StoreInit, Live
  <2>3. NeverOvercounts
    BY <2>2, FS_EmptySet DEF StoreInit, NeverOvercounts
  <2> QED
    BY <2>1, <2>2, <2>3
    DEF StoreInit, StoreInv, UniqueUnlessRestored, RecoverableOnce, HeldExists, EntryTellsDeletion,
        UnlistedIsRestored
<1>2. StoreInv /\ [StoreNext]_storeVars => StoreInv'
  BY StoreTypeStep, UniqueStep, CountStep, BinStep DEF StoreInv, BinInv
<1> QED
  BY <1>1, <1>2, PTL DEF StoreSpec

\* Two records share a unique value only if one came back from the recycle bin:
\* inserts, edits and deletions cannot race past the check (records.rs, update, insert).
THEOREM UniqueButForRestores == StoreSpec => []UniqueUnlessRestored
<1>1. StoreInv => UniqueUnlessRestored
  BY DEF StoreInv
<1> QED
  BY <1>1, StoreInvariant, PTL

\* records_count never exceeds the number of records (decrement_app_records_count).
THEOREM CounterIsBounded == StoreSpec => []NeverOvercounts
<1>1. StoreInv => NeverOvercounts
  BY DEF StoreInv
<1> QED
  BY <1>1, StoreInvariant, PTL

\* A record deleted but once stays in the recycle bin until it is removed from it
\* (delete_form_record, restore_recycle_bin_entry).
THEOREM RecoverableButForRestores == StoreSpec => []RecoverableOnce
<1>1. StoreInv => RecoverableOnce
  BY DEF StoreInv
<1> QED
  BY <1>1, StoreInvariant, PTL

-----------------------------------------------------------------------------
(* The fields and the instances of a workflow record. *)

LEMMA InstancesAreNumbers == \A i \in Instances : i \in Nat /\ 1 <= i /\ i <= MaxInstances
BY ApprovalAssumption DEF Instances

LEMMA ReadType ==
    ASSUME TypeOK, NEW h \in Handlers
    PROVE  read[h][1] \in Approval /\ read[h][2] \in Progress
<1>1. read[h] \in Approval \X Progress
  BY DEF TypeOK
<1> QED
  BY <1>1

LEMMA FieldsType == TypeOK => fields \in Approval \X Progress
BY DEF TypeOK, fields

LEMMA ReadStep ==
    ASSUME TypeOK, NEW h \in Handlers, NEW what \in {"edit", "reverse"}, Read(h, what)
    PROVE  TypeOK'
<1>1. read' \in [Handlers -> Approval \X Progress]
  BY FieldsType DEF Read, TypeOK
<1>2. pc' \in [Handlers -> {"idle", "edit", "reverse"}]
  BY DEF Read, TypeOK
<1> QED
  BY <1>1, <1>2 DEF Read, TypeOK

LEMMA TypeStep == TypeOK /\ [Next]_vars => TypeOK'
<1> SUFFICES ASSUME TypeOK, [Next]_vars PROVE TypeOK'
  OBVIOUS
<1> USE ApprovalAssumption
        DEF TypeOK, Approval, Progress, Status, Open, SetFields, fields, Instances
<1>1. CASE Submit
  BY <1>1 DEF Submit
<1>2. CASE Pause \/ Resume
  BY <1>2 DEF Pause, Resume, Move
<1>3. CASE DeleteOrRestore
  BY <1>3 DEF DeleteOrRestore
<1>4. ASSUME NEW i \in Instances, OfInstance(i) PROVE TypeOK'
  BY <1>4 DEF OfInstance, Rest, Complete, Reject, Cancel, Fail, Move
<1>5. ASSUME NEW h \in Handlers, OfHandler(h) PROVE TypeOK'
  <2>1. read[h][1] \in Approval /\ read[h][2] \in Progress
    BY ReadType
  <2>2. CASE Read(h, "edit") \/ ReadForReverse(h)
    BY <2>2, ReadStep DEF ReadForReverse
  <2>3. CASE Edit(h) \/ Reverse(h)
    <3>1. /\ approval' \in Approval /\ progress' \in Progress
          /\ raced' \in BOOLEAN
      BY <2>1, <2>3 DEF Edit, Reverse, Write
    <3> QED
      BY <2>3, <3>1 DEF Edit, Reverse, Write
  <2>4. CASE Drop(h)
    BY <2>4 DEF Drop
  <2> QED
    BY <1>5, <2>2, <2>3, <2>4 DEF OfHandler
<1>6. CASE UNCHANGED vars
  BY <1>6 DEF vars
<1> QED
  BY <1>1, <1>2, <1>3, <1>4, <1>5, <1>6 DEF Next

-----------------------------------------------------------------------------
(* What an action does to the instances and to the fields, said once.      *)

\* Except for a submission, an action changes at most one instance, and completed
\* instances stay completed.
LEMMA MoveStep ==
    ASSUME TypeOK, NEW i \in Instances, NEW from, NEW to \in Status \ {"none"},
           NEW a, NEW p, Move(i, from, to, a, p)
    PROVE  /\ inst[i] \in from /\ inst'[i] = to
           /\ \A j \in Instances \ {i} : inst'[j] = inst[j]
           /\ approval' = a /\ progress' = p
           /\ UNCHANGED <<n, pc, read, raced>>
BY DEF Move, SetFields, TypeOK

LEMMA NumberedStep == TypeOK /\ Numbered /\ [Next]_vars => Numbered'
<1> SUFFICES ASSUME TypeOK, Numbered, [Next]_vars PROVE Numbered'
  OBVIOUS
<1> USE InstancesAreNumbers, ApprovalAssumption DEF Numbered
<1>1. CASE Submit
  <2>1. n \in Nat /\ n' = n + 1
    BY <1>1 DEF Submit, TypeOK
  <2>2. \A i \in Instances : inst'[i] = IF i = n + 1 THEN "running" ELSE inst[i]
    BY <1>1, <2>1 DEF Submit, TypeOK
  <2> QED
    BY <2>1, <2>2
<1>2. ASSUME NEW i \in Instances, NEW from, "none" \notin from, NEW to \in Status \ {"none"},
             NEW a, NEW p, Move(i, from, to, a, p)
      PROVE  Numbered'
  BY <1>2, MoveStep
<1>3. CASE Pause \/ Resume
  <2>1. n > 0 => n \in Instances
    BY DEF TypeOK, Instances
  <2> QED
    BY <1>2, <1>3, <2>1 DEF Pause, Resume, Status
<1>4. ASSUME NEW i \in Instances, OfInstance(i) PROVE Numbered'
  <2>1. CASE Rest(i)
    BY <2>1 DEF Rest
  <2> QED
    BY <1>2, <1>4, <2>1 DEF OfInstance, Complete, Reject, Cancel, Fail, Status, Open
<1>5. CASE UNCHANGED <<n, inst>>
  BY <1>5
<1> QED
  BY <1>1, <1>3, <1>4, <1>5
  DEF Next, DeleteOrRestore, OfHandler, Read, ReadForReverse, Edit, Reverse, Write, Drop, vars

-----------------------------------------------------------------------------
(* Approved means approved by some instance: nobody takes the status back, *)
(* and a handler puts back only what it has read.                          *)

Completed == \E i \in Instances : inst[i] = "completed"

LEMMA CompletedStays == TypeOK /\ Numbered /\ Completed /\ [Next]_vars => Completed'
<1> SUFFICES ASSUME TypeOK, Numbered, [Next]_vars, NEW k \in Instances, inst[k] = "completed"
             PROVE  inst'[k] = "completed"
  BY DEF Completed
<1> USE InstancesAreNumbers
<1>1. CASE Submit
  <2>1. k # n + 1
    BY DEF TypeOK, Numbered
  <2> QED
    BY <1>1, <2>1 DEF Submit, TypeOK
<1>2. ASSUME NEW i \in Instances, NEW from, "completed" \notin from, NEW to, NEW a, NEW p,
             Move(i, from, to, a, p)
      PROVE  inst'[k] = "completed"
  BY <1>2 DEF Move, TypeOK
<1>3. CASE Pause \/ Resume
  <2>1. n > 0 => n \in Instances
    BY DEF TypeOK, Instances
  <2> QED
    BY <1>2, <1>3, <2>1 DEF Pause, Resume
<1>4. ASSUME NEW i \in Instances, OfInstance(i) PROVE inst'[k] = "completed"
  <2>1. CASE Rest(i)
    BY <2>1 DEF Rest
  <2> QED
    BY <1>2, <1>4, <2>1 DEF OfInstance, Complete, Reject, Cancel, Fail, Open
<1>5. CASE UNCHANGED inst
  BY <1>5
<1> QED
  BY <1>1, <1>3, <1>4, <1>5
  DEF Next, DeleteOrRestore, OfHandler, Read, ReadForReverse, Edit, Reverse, Write, Drop, vars

LEMMA ApprovedStep ==
    /\ TypeOK /\ Numbered /\ ApprovedWasApproved /\ ReadWasApproved
    /\ [Next]_vars
    => ApprovedWasApproved' /\ ReadWasApproved'
<1> SUFFICES ASSUME TypeOK, Numbered, ApprovedWasApproved, ReadWasApproved, [Next]_vars
             PROVE  ApprovedWasApproved' /\ ReadWasApproved'
  OBVIOUS
<1> USE DEF ApprovedWasApproved, ReadWasApproved
<1>1. Completed => Completed'
  BY CompletedStays
<1>2. ASSUME UNCHANGED <<pc, read>> PROVE ReadWasApproved'
  BY <1>1, <1>2 DEF Completed
<1>3. CASE Submit
  BY <1>1, <1>2, <1>3 DEF Submit, SetFields
<1>4. CASE Pause \/ Resume
  BY <1>1, <1>2, <1>4 DEF Pause, Resume, Move, SetFields
<1>5. CASE DeleteOrRestore
  BY <1>1, <1>2, <1>5 DEF DeleteOrRestore, Completed
<1>6. ASSUME NEW i \in Instances, OfInstance(i) PROVE ApprovedWasApproved' /\ ReadWasApproved'
  <2>1. CASE Complete(i)
    <3>1. inst'[i] = "completed"
      BY <2>1, MoveStep DEF Complete, Status
    <3>2. UNCHANGED <<pc, read>>
      BY <2>1 DEF Complete, Move
    <3> QED
      BY <1>2, <3>1, <3>2
  <2>2. CASE Rest(i)
    BY <1>2, <2>2 DEF Rest, SetFields
  <2>3. CASE Reject(i) \/ Cancel(i) \/ Fail(i)
    BY <1>2, <2>3 DEF Reject, Cancel, Fail, Move, SetFields
  <2> QED
    BY <1>6, <2>1, <2>2, <2>3 DEF OfInstance
<1>7. ASSUME NEW h \in Handlers, OfHandler(h) PROVE ApprovedWasApproved' /\ ReadWasApproved'
  <2>1. UNCHANGED inst
    BY <1>7 DEF OfHandler, Read, ReadForReverse, Edit, Reverse, Write, Drop
  <2>2. CASE Read(h, "edit") \/ ReadForReverse(h)
    BY <2>1, <2>2 DEF Read, ReadForReverse, TypeOK, fields
  <2>3. CASE Edit(h)
    BY <2>1, <2>3 DEF Edit, Write, SetFields, TypeOK
  <2>4. CASE Reverse(h)
    BY <2>1, <2>4 DEF Reverse, Write, SetFields, TypeOK
  <2>5. CASE Drop(h)
    BY <2>1, <2>5 DEF Drop, TypeOK
  <2> QED
    BY <1>7, <2>2, <2>3, <2>4, <2>5 DEF OfHandler
<1>8. CASE UNCHANGED vars
  BY <1>8 DEF vars
<1> QED
  BY <1>3, <1>4, <1>5, <1>6, <1>7, <1>8 DEF Next

-----------------------------------------------------------------------------
(* Without races the fields tell what became of the latest instance, and   *)
(* all earlier ones are completed, so only the latest is ever moved.       *)

Serial == FieldsTellInstance /\ EarlierCompleted

LEMMA OnlyLatestMoves ==
    ASSUME TypeOK, Numbered, EarlierCompleted, ~raced,
           NEW i \in Instances, inst[i] \notin {"none", "completed"}
    PROVE  i = n
<1>1. i \in Nat /\ n \in Nat /\ ~(i > n) /\ ~(i < n)
  BY InstancesAreNumbers DEF TypeOK, Numbered, EarlierCompleted
<1> QED
  BY <1>1

\* Moving an instance writes fields that fit its new status.
LEMMA MoveFits ==
    ASSUME TypeOK, Numbered, Serial,
           NEW i \in Instances, NEW from, "none" \notin from, "completed" \notin from,
           NEW to \in Status \ {"none"}, NEW a, NEW p, <<a, p>> \in Fitting(to),
           Move(i, from, to, a, p)
    PROVE  Serial'
<1> SUFFICES ASSUME ~raced PROVE Serial'
  BY MoveStep DEF Serial, FieldsTellInstance, EarlierCompleted
<1>1. /\ inst[i] \in from /\ inst'[i] = to
      /\ \A j \in Instances \ {i} : inst'[j] = inst[j]
      /\ approval' = a /\ progress' = p /\ n' = n
  BY MoveStep
<1>2. i = n
  BY <1>1, OnlyLatestMoves DEF Serial
<1>3. n # 0 /\ fields' = <<a, p>> /\ Latest' = to
  BY <1>1, <1>2, InstancesAreNumbers DEF fields, Latest
<1>4. fields' \in Fitting(Latest')
  BY <1>3
<1>5. FieldsTellInstance'
  BY <1>4 DEF FieldsTellInstance
<1>6. \A j \in Instances : j < n => inst'[j] = "completed"
  BY <1>1, <1>2, InstancesAreNumbers DEF Serial, EarlierCompleted
<1> QED
  BY <1>1, <1>5, <1>6 DEF Serial, EarlierCompleted

LEMMA SerialStep ==
    TypeOK /\ Numbered /\ ReadWasApproved /\ Serial /\ [Next]_vars => Serial'
<1> SUFFICES ASSUME TypeOK, Numbered, ReadWasApproved, Serial, [Next]_vars PROVE Serial'
  OBVIOUS
<1>1. CASE Submit
  <2> SUFFICES ASSUME ~raced PROVE Serial'
    BY <1>1 DEF Submit, Serial, FieldsTellInstance, EarlierCompleted
  <2>1. /\ n \in Nat /\ n' = n + 1 /\ n' \in Instances
        /\ \A j \in Instances : inst'[j] = IF j = n' THEN "running" ELSE inst[j]
        /\ approval = "saved" /\ fields' = <<"reviewing", "running">>
    BY <1>1, ApprovalAssumption DEF Submit, MaySubmit, SetFields, fields, TypeOK, Instances
  <2>2. Latest \in {"none", "completed"}
    BY <2>1 DEF Serial, FieldsTellInstance, Fitting, fields
  <2>3. n \in Instances => inst[n] = "completed"
    BY <2>1, <2>2, InstancesAreNumbers DEF Latest, Numbered
  <2>4. Latest' = "running"
    BY <2>1 DEF Latest
  <2>5. FieldsTellInstance'
    BY <2>1, <2>4 DEF FieldsTellInstance, Fitting
  <2>6. ASSUME NEW j \in Instances, j < n' PROVE inst'[j] = "completed"
    <3>1. j # n' /\ (j = n \/ j < n)
      BY <2>1, <2>6, InstancesAreNumbers
    <3> QED
      BY <2>1, <2>3, <3>1 DEF Serial, EarlierCompleted
  <2> QED
    BY <2>5, <2>6 DEF Serial, EarlierCompleted
<1>2. CASE Pause \/ Resume
  <2>1. n > 0 => n \in Instances
    BY DEF TypeOK, Instances
  <2>2. /\ <<"reviewing", "paused">> \in Fitting("paused")
        /\ <<"reviewing", "running">> \in Fitting("running")
    BY DEF Fitting
  <2> QED
    BY <1>2, <2>1, <2>2, MoveFits DEF Pause, Resume, Status
<1>3. ASSUME NEW i \in Instances, OfInstance(i) PROVE Serial'
  <2>1. CASE Rest(i)
    <3> SUFFICES ASSUME ~raced PROVE Serial'
      BY <2>1 DEF Rest, Serial, FieldsTellInstance, EarlierCompleted
    <3>1. inst[i] \in Open /\ UNCHANGED <<n, inst>> /\ fields' = <<"reviewing", "running">>
      BY <2>1 DEF Rest, SetFields, fields
    <3>2. i = n
      BY <3>1, OnlyLatestMoves DEF Serial, Open
    <3>3. Latest' = inst[i]
      BY <3>1, <3>2, InstancesAreNumbers DEF Latest
    <3>4. fields' \in Fitting(Latest')
      BY <3>1, <3>3 DEF Fitting, Open
    <3>5. FieldsTellInstance'
      BY <3>4 DEF FieldsTellInstance
    <3> QED
      BY <3>1, <3>5 DEF Serial, EarlierCompleted
  <2>2. /\ <<"approved", "completed">> \in Fitting("completed")
        /\ <<"rejected", "completed">> \in Fitting("rejected")
        /\ <<"reviewing", "cancelled">> \in Fitting("cancelled")
        /\ <<"reviewing", "failed">> \in Fitting("failed")
    BY DEF Fitting
  <2>3. CASE Complete(i)
    BY <2>2, <2>3, MoveFits DEF Complete, Status, Open
  <2>4. CASE Reject(i)
    BY <2>2, <2>4, MoveFits DEF Reject, Status
  <2>5. CASE Cancel(i)
    BY <2>2, <2>5, MoveFits DEF Cancel, Status, Open
  <2>6. CASE Fail(i)
    BY <2>2, <2>6, MoveFits DEF Fail, Status
  <2> QED
    BY <1>3, <2>1, <2>3, <2>4, <2>5, <2>6 DEF OfInstance
<1>4. ASSUME UNCHANGED <<fields, n, inst, raced>> PROVE Serial'
  <2>1. Latest' = Latest
    BY <1>4 DEF Latest
  <2> QED
    BY <1>4, <2>1 DEF Serial, FieldsTellInstance, EarlierCompleted
<1>5. ASSUME NEW h \in Handlers, OfHandler(h) PROVE Serial'
  <2>1. CASE Read(h, "edit") \/ ReadForReverse(h) \/ Drop(h)
    BY <1>4, <2>1 DEF Read, ReadForReverse, Drop, fields
  <2>2. CASE Edit(h)
    <3> SUFFICES ASSUME ~raced' PROVE Serial'
      BY <2>2 DEF Edit, Write, Serial, FieldsTellInstance, EarlierCompleted
    <3>1. read[h] = fields /\ ~raced /\ UNCHANGED <<n, inst>>
      BY <2>2 DEF Edit, Write
    <3>2. UNCHANGED fields
      BY <2>2, <3>1 DEF Edit, Write, SetFields, fields
    <3>3. raced' = raced
      <4>1. raced' = (raced \/ read[h] # fields)
        BY <2>2 DEF Edit, Write
      <4>2. raced' = FALSE
        BY <4>1
      <4>3. raced = FALSE
        BY <3>1 DEF TypeOK
      <4> QED
        BY <4>2, <4>3
    <3> QED
      BY <1>4, <3>1, <3>2, <3>3
  <2>3. CASE Reverse(h)
    <3> SUFFICES ASSUME ~raced' PROVE Serial'
      BY <2>3 DEF Reverse, Write, Serial, FieldsTellInstance, EarlierCompleted
    <3>1. /\ read[h] = fields /\ ~raced /\ UNCHANGED <<n, inst>>
          /\ fields' = <<"saved", "not_started">>
      BY <2>3 DEF Reverse, Write, SetFields, fields
    <3>2. approval = "approved"
      BY <2>3, <3>1 DEF Reverse, Write, ReadWasApproved, fields
    <3>3. Latest = "completed" /\ Latest' = Latest
      BY <3>1, <3>2 DEF Serial, FieldsTellInstance, Fitting, fields, Latest
    <3>4. fields' \in Fitting(Latest')
      BY <3>1, <3>3 DEF Fitting
    <3>5. FieldsTellInstance'
      BY <3>4 DEF FieldsTellInstance
    <3> QED
      BY <3>1, <3>5 DEF Serial, EarlierCompleted
  <2> QED
    BY <1>5, <2>1, <2>2, <2>3 DEF OfHandler
<1>6. CASE DeleteOrRestore \/ UNCHANGED vars
  BY <1>4, <1>6 DEF DeleteOrRestore, vars, fields
<1> QED
  BY <1>1, <1>2, <1>3, <1>5, <1>6 DEF Next

-----------------------------------------------------------------------------
\* What the instances' and the form's handlers preserve, whatever their order.
THEOREM ApprovalInvariant == Spec => []ApprovalInv
<1>1. Init => ApprovalInv
  <2> SUFFICES ASSUME Init PROVE ApprovalInv
    OBVIOUS
  <2>1. TypeOK
    <3>1. <<"saved", "not_started">> \in Approval \X Progress
      BY DEF Approval, Progress
    <3>2. read \in [Handlers -> Approval \X Progress]
      BY <3>1 DEF Init
    <3>3. /\ approval \in Approval /\ progress \in Progress
          /\ inst \in [Instances -> Status]
      BY DEF Init, Approval, Progress, Status
    <3>4. n \in Nat /\ n <= MaxInstances
      BY ApprovalAssumption DEF Init
    <3>5. /\ shown \in BOOLEAN /\ raced \in BOOLEAN
          /\ pc \in [Handlers -> {"idle", "edit", "reverse"}]
      BY DEF Init
    <3> QED
      BY <3>2, <3>3, <3>4, <3>5 DEF TypeOK
  <2>2. Numbered /\ EarlierCompleted
    BY InstancesAreNumbers DEF Init, Numbered, EarlierCompleted
  <2>3. fields \in Fitting(Latest)
    BY DEF Init, fields, Latest, Fitting
  <2>4. FieldsTellInstance
    BY <2>3 DEF FieldsTellInstance
  <2>5. ApprovedWasApproved /\ ReadWasApproved
    BY DEF Init, ApprovedWasApproved, ReadWasApproved
  <2> QED
    BY <2>1, <2>2, <2>4, <2>5 DEF ApprovalInv
<1>2. ApprovalInv /\ [Next]_vars => ApprovalInv'
  BY TypeStep, NumberedStep, SerialStep, ApprovedStep DEF ApprovalInv, Serial
<1> QED
  BY <1>1, <1>2, PTL DEF Spec

\* The workflow fields of a record tell what became of its latest instance unless a
\* handler wrote over fields it had not read (update_form_record, reverse_workflow_record).
THEOREM FieldsAgree == Spec => []FieldsTellInstance
<1>1. ApprovalInv => FieldsTellInstance
  BY DEF ApprovalInv
<1> QED
  BY <1>1, ApprovalInvariant, PTL

\* A record shows as approved only if an instance has been completed, races or not
\* (preserve_workflow_system_fields, complete_instance).
THEOREM ApprovalIsEarned == Spec => []ApprovedWasApproved
<1>1. ApprovalInv => ApprovedWasApproved
  BY DEF ApprovalInv
<1> QED
  BY <1>1, ApprovalInvariant, PTL
=============================================================================
