---------------------------- MODULE RecordStore ----------------------------
(***************************************************************************)
(* The records of one form: RecordRepository (api/src/platform/records.rs) *)
(* under the handlers of forms.rs, the data nodes of automations.rs and    *)
(* the recycle bin (recycle_bin.rs).                                       *)
(*                                                                         *)
(* Inserting and updating a record takes the form's validation lock for    *)
(* the rest of its transaction, so the check of a unique field and the     *)
(* write are one step here.  What is not one step: a handler reads a       *)
(* record without a lock, runs the "before" automations, and writes later; *)
(* an automation lists the records it then deletes; a restore is three     *)
(* statements, each committed on its own.  A handler may be dropped        *)
(* between any two of them.                                                *)
(***************************************************************************)
EXTENDS Integers, FiniteSets

CONSTANTS
    Records,        \* the record ids the form may come to have
    Keys,           \* values of a field marked unique
    Blank,          \* the empty value, never compared
    StoreHandlers,
    MaxEntries      \* bound: recycle bin entries ever made

ASSUME StoreAssumption ==
    /\ IsFiniteSet(Records)
    /\ Blank \notin Keys
    /\ MaxEntries \in Nat

VARIABLES
    row,            \* record -> state of its row; "trashed" has deleted_at set
    key,            \* record -> value of the unique field
    count,          \* records_count of the app, whose only form this is
    entry,          \* record -> id of its recycle bin entry, 0 for none
    made,           \* number of entries made so far: ids are fresh
    doing, held, heldEntry,    \* a handler's place, the records and the entry it has read
    restored, emptied       \* history: records restored; entries people removed

bin == <<entry, made>>
handlers == <<doing, held, heldEntry>>
history == <<restored, emptied>>
storeVars == <<row, key, count, bin, handlers, history>>

RowState == {"none", "live", "trashed", "gone"}
Places == {"idle", "update", "delete", "purge", "untrash", "unlist"}

\* Rows, counter, entries and what the handlers remember have their types.
StoreTypeOK ==
    /\ row \in [Records -> RowState]
    /\ key \in [Records -> Keys \cup {Blank}]
    /\ count \in Nat
    /\ made \in Nat
    /\ entry \in [Records -> Nat] /\ \A r \in Records : entry[r] <= made
    /\ doing \in [StoreHandlers -> Places]
    /\ held \in [StoreHandlers -> SUBSET Records]
    /\ heldEntry \in [StoreHandlers -> Nat] /\ \A h \in StoreHandlers : heldEntry[h] <= made
    /\ restored \subseteq Records /\ emptied \subseteq Records

StoreInit ==
    /\ row = [r \in Records |-> "none"]
    /\ key = [r \in Records |-> Blank]
    /\ count = 0
    /\ entry = [r \in Records |-> 0] /\ made = 0
    /\ doing = [h \in StoreHandlers |-> "idle"]
    /\ held = [h \in StoreHandlers |-> {}]
    /\ heldEntry = [h \in StoreHandlers |-> 0]
    /\ restored = {} /\ emptied = {}

-----------------------------------------------------------------------------
Live == {r \in Records : row[r] = "live"}

UniqueOnInsert(r, k) == k = Blank \/ row[r] # "none" \/ \A s \in Live : key[s] # k

\* validate_schema_values: no other record that is not deleted has the value.
Unique(r, k) == k = Blank \/ \A s \in Live \ {r} : key[s] # k

DecrementOne(n) == count' = IF count > 1 THEN count - 1 ELSE 0

\* decrement_app_records_count: GREATEST(records_count - n, 0).
Decrement(n) == count' = IF count > n THEN count - n ELSE 0

Begin(h, place, S) ==
    /\ doing[h] = "idle"
    /\ doing' = [doing EXCEPT ![h] = place]
    /\ held' = [held EXCEPT ![h] = S]

\* The handler returns, or fails, or is dropped: what it read is forgotten.
Forget(h) ==
    /\ doing' = [doing EXCEPT ![h] = "idle"]
    /\ held' = [held EXCEPT ![h] = {}]
    /\ heldEntry' = [heldEntry EXCEPT ![h] = 0]

DropHandler(h) ==
    /\ doing[h] # "idle"
    /\ Forget(h)
    /\ UNCHANGED <<row, key, count, bin, history>>

-----------------------------------------------------------------------------
(* Writing records.                                                        *)

\* RecordRepository::insert, by a person or a node.
Insert(r, k) ==
    /\ row[r] = "none"
    /\ Unique(r, k)
    /\ row' = [row EXCEPT ![r] = "live"]
    /\ key' = [key EXCEPT ![r] = k]
    /\ count' = count + 1
    /\ UNCHANGED <<bin, handlers, history>>

ReadForUpdate(h, r) ==
    /\ r \in Live
    /\ Begin(h, "update", {r})
    /\ UNCHANGED <<row, key, count, bin, heldEntry, history>>

\* RecordRepository::update finds the row by its id, whether it is deleted or not.
Update(h, k) ==
    /\ doing[h] = "update"
    /\ \E r \in held[h] :
          /\ row[r] \in {"live", "trashed"}
          /\ Unique(r, k)
          /\ key' = [key EXCEPT ![r] = k]
    /\ Forget(h)
    /\ UNCHANGED <<row, count, bin, history>>

-----------------------------------------------------------------------------
(* Deleting records.                                                       *)

ReadForDelete(h, r) ==
    /\ r \in Live
    /\ Begin(h, "delete", {r})
    /\ UNCHANGED <<row, key, count, bin, heldEntry, history>>

NoEntry(r) == UNCHANGED bin

\* record_deleted: a record has one entry, whose id a second deletion keeps.
MakeEntry(r) ==
    IF entry[r] # 0
    THEN UNCHANGED bin
    ELSE /\ made < MaxEntries
         /\ made' = made + 1
         /\ entry' = [entry EXCEPT ![r] = made']

\* delete_form_record's transaction.  Only a row that is not deleted is changed.
Delete(h) ==
    /\ doing[h] = "delete"
    /\ \E r \in held[h] :
          /\ MakeEntry(r)
          /\ row' = [row EXCEPT ![r] = IF @ = "live" THEN "trashed" ELSE @]
    /\ Decrement(1)
    /\ Forget(h)
    /\ UNCHANGED <<key, history>>

\* A delete-data node lists the records and deletes for good those that match.
ListForPurge(h, S) ==
    /\ S # {} /\ S \subseteq Live
    /\ Begin(h, "purge", S)
    /\ UNCHANGED <<row, key, count, bin, heldEntry, history>>

Purge(h) ==
    /\ doing[h] = "purge"
    /\ row' = [r \in Records |-> IF r \in held[h] THEN "gone" ELSE row[r]]
    /\ Decrement(Cardinality(held[h]))
    /\ Forget(h)
    /\ UNCHANGED <<key, bin, history>>

-----------------------------------------------------------------------------
(* The recycle bin.                                                        *)

ReadEntry(h, r) ==
    /\ entry[r] # 0
    /\ Begin(h, "untrash", {r})
    /\ heldEntry' = [heldEntry EXCEPT ![h] = entry[r]]
    /\ UNCHANGED <<row, key, count, bin, history>>

\* UPDATE ... SET deleted_at = NULL: no check of unique fields, no counter.
Untrash(h) ==
    /\ doing[h] = "untrash"
    /\ row' = [r \in Records |-> IF r \in held[h] /\ row[r] = "trashed" THEN "live" ELSE row[r]]
    /\ restored' = restored \cup {r \in held[h] : row[r] = "trashed"}
    /\ doing' = [doing EXCEPT ![h] = "unlist"]
    /\ UNCHANGED <<key, count, bin, held, heldEntry, emptied>>

\* DELETE of the entry that was read, by its id.
Unlist(h) ==
    /\ doing[h] = "unlist"
    /\ entry' = [r \in Records |-> IF r \in held[h] /\ entry[r] = heldEntry[h] THEN 0 ELSE entry[r]]
    /\ Forget(h)
    /\ UNCHANGED <<row, key, count, made, history>>

\* Entries deleted one by one, all together, or because they have expired.
Discard(S) ==
    /\ S # {} /\ \A r \in S : entry[r] # 0
    /\ entry' = [r \in Records |-> IF r \in S THEN 0 ELSE entry[r]]
    /\ emptied' = emptied \cup S
    /\ UNCHANGED <<row, key, count, made, handlers, restored>>

-----------------------------------------------------------------------------
Handle(h) ==
    \/ \E r \in Records : ReadForUpdate(h, r) \/ ReadForDelete(h, r) \/ ReadEntry(h, r)
    \/ \E k \in Keys \cup {Blank} : Update(h, k)
    \/ \E S \in SUBSET Records : ListForPurge(h, S)
    \/ Delete(h) \/ Purge(h) \/ Untrash(h) \/ Unlist(h) \/ DropHandler(h)

StoreNext ==
    \/ \E r \in Records, k \in Keys \cup {Blank} : Insert(r, k)
    \/ \E h \in StoreHandlers : Handle(h)
    \/ \E S \in SUBSET Records : Discard(S)

StoreSpec == StoreInit /\ [][StoreNext]_storeVars

-----------------------------------------------------------------------------
(* Properties.                                                             *)

\* ... unless one of them came back from the recycle bin: no interleaving of
\* inserts, edits and deletions lets a duplicate in.
UniqueUnlessRestored ==
    \A r, s \in Live : r # s /\ key[r] # Blank /\ key[r] = key[s] => r \in restored \/ s \in restored

\* Whatever deletions overlap, the counter never claims records that are not there.
NeverOvercounts == count <= Cardinality(Live)

\* ... which holds of every record that was deleted but once.
RecoverableOnce ==
    \A r \in Records : row[r] = "trashed" /\ entry[r] = 0 => r \in emptied \/ r \in restored

-----------------------------------------------------------------------------
(* The invariant behind RecoverableOnce.                                   *)

\* Handlers and entries know only records that once were there.
HeldExists == \A r \in Records :
    entry[r] # 0 \/ (\E h \in StoreHandlers : r \in held[h]) => row[r] # "none"

\* Without a restore, an entry tells of a deletion.
EntryTellsDeletion == \A r \in Records :
    entry[r] # 0 /\ r \notin restored => row[r] \in {"trashed", "gone"}

\* A restore past its first statement has restored, or there was nothing to restore.
UnlistedIsRestored == \A h \in StoreHandlers : doing[h] = "unlist" => \A r \in held[h] :
    entry[r] = heldEntry[h] /\ entry[r] # 0 => r \in restored \/ row[r] = "gone"

\* All that the handlers preserve, taken together.
StoreInv ==
    /\ StoreTypeOK /\ UniqueUnlessRestored /\ NeverOvercounts /\ RecoverableOnce
    /\ HeldExists /\ EntryTellsDeletion /\ UnlistedIsRestored
=============================================================================
