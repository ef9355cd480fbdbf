--------------------------- MODULE MailboxServer ---------------------------
(***************************************************************************)
(* The server side of one user's mailbox: the numbered events that every   *)
(* message, recall and notification leaves in the database, the outbox     *)
(* whose rows the delivery worker announces to the open web sockets, and   *)
(* the session that serves one socket.  An announcement carries no event:  *)
(* it makes the session read the mailbox from where it last stopped.       *)
(***************************************************************************)
EXTENDS MailboxWire

CONSTANTS
    MaxEvents,   \* bound: events ever put into the mailbox
    MaxBroken    \* bound: those that can no longer be sent; one already stops all behind it

ASSUME ServerAssumption == MaxEvents \in Nat /\ MaxBroken \in Nat

VARIABLES
    events,      \* kinds of the user's im_mailbox_events; the index is mailbox_seq
    outbox,      \* outbox[i]: where the im_delivery_outbox row of event i stands
    lastSent,    \* lastSent[t]: last_sent_mailbox_seq of the session
    second,      \* second[t]: the session is between the two passes of a sync
    announced,   \* announced[t]: a message.created announcement is unread
    acked        \* im_device_cursors.last_acked_mailbox_seq

dbVars == <<events, outbox, acked>>
sessionVars == <<lastSent, second, announced>>
serverVars == <<dbVars, sessionVars>>

Outbox == {"pending", "processing", "stuck", "delivered"}

\* "card" and "gone" are message.created events: a notification card, and a message
\* that has been deleted since.
Kinds == {"message", "card", "recall", "gone"}

Seqs == 1..MaxEvents
Known == 1..Len(events)

\* Rows of a claimed batch and rows that an earlier batch has left behind are both
\* in status processing; here the latter are stuck.
Rows(s) == {i \in Known : outbox[i] = s}
SetRows(from, to) == outbox' = [i \in Known |-> IF outbox[i] = from THEN to ELSE outbox[i]]

ServerInit ==
    /\ events = <<>> /\ outbox = <<>> /\ acked = 0
    /\ lastSent = [t \in Tabs |-> 0]
    /\ second = [t \in Tabs |-> FALSE]
    /\ announced = [t \in Tabs |-> FALSE]

(***************************************************************************)
(* Writers.  The counter, the event and its outbox row are one transaction,*)
(* so the counter is the number of events.                                 *)
(***************************************************************************)
MayBreak == Cardinality({i \in Known : events[i] \in {"card", "gone"}}) < MaxBroken

RecordEvent(kind) ==
    /\ Len(events) < MaxEvents
    /\ events' = Append(events, kind)
    /\ outbox' = Append(outbox, "pending")
    /\ UNCHANGED <<acked, lastSent, second, wireVars>>

\* persist_message; a message sent anew or a changed group is announced at once,
\* besides its outbox row.
PersistMessage ==
    /\ RecordEvent("message")
    /\ announced' \in {announced, [t \in Tabs |-> announced[t] \/ Linked(t)]}

\* create_system_notification_message: an event message.created whose payload is the
\* card and does not name the conversation.
SystemCard == MayBreak /\ RecordEvent("card") /\ UNCHANGED announced

\* recall_message.
RecallMessage ==
    /\ \E i \in Known : events[i] \in {"message", "card"}
    /\ RecordEvent("recall") /\ UNCHANGED announced

\* Messages disappear when a group is dissolved or their retention has passed;
\* the mailbox keeps the events.
DeleteMessage(i) ==
    /\ i \in Known /\ events[i] \in {"message", "card"}
    /\ MayBreak
    /\ events' = [events EXCEPT ![i] = "gone"]
    /\ UNCHANGED <<outbox, acked, sessionVars, wireVars>>

(***************************************************************************)
(* deliver_outbox_batch.                                                   *)
(***************************************************************************)
ClaimOutbox ==
    /\ Rows("processing") = {} /\ Rows("pending") # {}
    /\ SetRows("pending", "processing")
    /\ UNCHANGED <<events, acked, sessionVars, wireVars>>

\* A session that has sent nothing yet is not taken for one that follows the mailbox.
AnnounceToFollowers(i) ==
    announced' = [t \in Tabs |->
                     announced[t] \/ (Linked(t) /\ lastSent[t] # 0 /\ events[i] # "recall")]

\* publish_communication_event; sessions act on message.created alone.
Announce(i) ==
    announced' = [t \in Tabs |-> announced[t] \/ (Linked(t) /\ events[i] # "recall")]

FirstOfBatch(i) == i \in Rows("processing") /\ \A j \in Rows("processing") : i <= j

Publish(i) ==
    /\ FirstOfBatch(i) /\ Announce(i)
    /\ outbox' = [outbox EXCEPT ![i] = "delivered"]
    /\ UNCHANGED <<events, acked, lastSent, second, wireVars>>

\* The row cannot be marked: the batch ends and leaves its rows behind.
PublishFails(i) ==
    /\ Fault /\ FirstOfBatch(i) /\ Announce(i)
    /\ SetRows("processing", "stuck")
    /\ UNCHANGED <<events, acked, lastSent, second, link, syncs, acks, down>>

\* At its end a batch takes up the rows an earlier one has left, ten times each.
RecoverOutbox ==
    /\ Rows("processing") = {} /\ Rows("stuck") # {}
    /\ SetRows("stuck", "pending")
    /\ UNCHANGED <<events, acked, sessionVars, wireVars>>

(***************************************************************************)
(* The session of a tab.  A pass sends the events after seq a through seq  *)
(* b; it fails at the first one it cannot build.                           *)
(***************************************************************************)
Deliverable(i) == events[i] \in {"message", "recall"}

Sendable(a, b) == {i \in (a+1)..b : \A j \in (a+1)..i : Deliverable(j)}

Sends(a, b) == [k \in 1..Cardinality(Sendable(a, b)) |-> Frame("event", a + k)]

\* The error of a pass is dropped.
SentToTheEnd(a, b) == IF b > a THEN b ELSE a

\* What the session notes as sent: nothing new when the pass has failed.
SentThrough(a, b) == IF b > a /\ \A i \in (a+1)..b : Deliverable(i) THEN b ELSE a

Pass(t, a, before, after) ==
    /\ down' = [down EXCEPT ![t] = @ \o before \o Sends(a, Len(events)) \o after]
    /\ lastSent' = [lastSent EXCEPT ![t] = SentThrough(a, Len(events))]

\* A sync: the watermark, the conversations and a first pass ...
HandleSync(t) ==
    /\ Linked(t) /\ ~second[t] /\ syncs[t] # <<>>
    /\ Pass(t, Head(syncs[t]), <<Frame("started", Len(events))>>, <<>>)
    /\ syncs' = [syncs EXCEPT ![t] = Tail(@)]
    /\ second' = [second EXCEPT ![t] = TRUE]
    /\ UNCHANGED <<dbVars, announced, link, acks, faults>>

\* ... then a second pass for what has come in meanwhile.
CompleteSync(t) ==
    /\ Linked(t) /\ second[t]
    /\ Pass(t, lastSent[t], <<>>,
            <<Frame("completed", SentThrough(lastSent[t], Len(events)))>>)
    /\ second' = [second EXCEPT ![t] = FALSE]
    /\ UNCHANGED <<dbVars, announced, link, syncs, acks, faults>>

HandleAnnouncement(t) ==
    /\ Linked(t) /\ ~second[t] /\ announced[t]
    /\ Pass(t, lastSent[t], <<>>, <<>>)
    /\ announced' = [announced EXCEPT ![t] = FALSE]
    /\ UNCHANGED <<dbVars, second, link, syncs, acks, faults>>

HandleAck(t) ==
    /\ Linked(t) /\ ~second[t] /\ acks[t] # 0
    /\ acked' = IF acks[t] > acked THEN acks[t] ELSE acked
    /\ acks' = [acks EXCEPT ![t] = 0]
    /\ UNCHANGED <<events, outbox, sessionVars, link, syncs, down, faults>>

\* The sessions of the tabs in T are over.
EndSessions(T) ==
    /\ lastSent' = [t \in Tabs |-> IF t \in T THEN 0 ELSE lastSent[t]]
    /\ second' = [t \in Tabs |-> second[t] /\ t \notin T]
    /\ announced' = [t \in Tabs |-> announced[t] /\ t \notin T]
=============================================================================
