--------------------------- MODULE MailboxClient ---------------------------
(***************************************************************************)
(* The client side of the mailbox: an ImClientAdapter in every tab and the *)
(* ImStore (IndexedDB) they share.  A tab handles its frames one after the *)
(* other; what it awaits from the store lets other tabs, and the tab's own *)
(* timers and clicks, get in between.                                      *)
(***************************************************************************)
EXTENDS MailboxWire

VARIABLES
    \* the store
    storeCursor,  \* meta.cursor
    reached,      \* history: the furthest storeCursor has been
    cleared,      \* history: the local history has been cleared
    \* each tab
    state,        \* connectionState
    cursor,       \* the adapter's own cursor
    buffered,     \* events received and not applied
    asked,        \* syncRequested
    complete,     \* snapshotComplete
    target,       \* snapshotTarget
    watermark,    \* history: mailboxSeq of the last snapshot.started, which the code ignores
    applying,     \* the seq whose applyMailboxEvent drainMailbox awaits, 0 for none
    committed,    \* what it is going to answer
    advanced      \* drainMailbox has applied something

storeVars == <<storeCursor, reached, cleared>>
tabVars == <<state, cursor, buffered, asked, complete, target, watermark, applying, committed, advanced>>
clientVars == <<storeVars, tabVars>>

States == {"idle", "connecting", "syncing", "online", "reconnecting", "failed"}

ClientInit ==
    /\ storeCursor = 0 /\ reached = 0 /\ cleared = FALSE
    /\ state = [t \in Tabs |-> "idle"]
    /\ cursor = [t \in Tabs |-> 0]
    /\ buffered = [t \in Tabs |-> {}]
    /\ asked = [t \in Tabs |-> FALSE]
    /\ complete = [t \in Tabs |-> FALSE]
    /\ target = [t \in Tabs |-> 0]
    /\ watermark = [t \in Tabs |-> 0]
    /\ applying = [t \in Tabs |-> 0]
    /\ committed = [t \in Tabs |-> 0]
    /\ advanced = [t \in Tabs |-> FALSE]

(***************************************************************************)
(* Connecting.  A tab waits at least half a second before it reconnects;   *)
(* the frames of the old socket have been handled by then.                 *)
(***************************************************************************)
MayConnect(t) ==
    link[t] = "closed" /\ state[t] # "failed" /\ down[t] = <<>> /\ applying[t] = 0

Connect(t) ==
    /\ MayConnect(t)
    /\ link' = [link EXCEPT ![t] = "opening"]
    /\ cursor' = [cursor EXCEPT ![t] = storeCursor]
    /\ state' = [state EXCEPT ![t] = "connecting"]
    /\ UNCHANGED <<storeVars, buffered, asked, complete, target, watermark, applying, committed, advanced,
                   syncs, acks, down, faults>>

\* The store cannot be read: nothing is scheduled any more.
ConnectFails(t) ==
    /\ Fault /\ MayConnect(t)
    /\ state' = [state EXCEPT ![t] = "failed"]
    /\ UNCHANGED <<storeVars, cursor, buffered, asked, complete, target, watermark, applying,
                   committed, advanced, link, syncs, acks, down>>

\* onopen; the server's session begins with it.
Open(t) ==
    /\ link[t] = "opening"
    /\ link' = [link EXCEPT ![t] = "open"]
    /\ state' = [state EXCEPT ![t] = "syncing"]
    /\ complete' = [complete EXCEPT ![t] = FALSE]
    /\ target' = [target EXCEPT ![t] = cursor[t]]
    /\ asked' = [asked EXCEPT ![t] = FALSE]
    /\ syncs' = [syncs EXCEPT ![t] = Append(@, cursor[t])]
    /\ UNCHANGED <<storeVars, cursor, buffered, watermark, applying, committed, advanced,
                   acks, down, faults>>

(***************************************************************************)
(* handleEnvelope, one frame at a time.                                    *)
(***************************************************************************)
Handle(t, type) ==
    /\ applying[t] = 0 /\ down[t] # <<>> /\ Head(down[t]).type = type
    /\ down' = [down EXCEPT ![t] = Tail(@)]

SnapshotStarted(t) ==
    /\ Handle(t, "started")
    /\ complete' = [complete EXCEPT ![t] = FALSE]
    /\ watermark' = [watermark EXCEPT ![t] = Head(down[t]).seq]
    /\ state' = [state EXCEPT ![t] = "syncing"]
    /\ UNCHANGED <<storeVars, cursor, buffered, asked, target, applying, committed, advanced,
                   link, syncs, acks, faults>>

\* completeSnapshot does not look at the cursor.
SnapshotTrusted(t) ==
    /\ Handle(t, "completed")
    /\ complete' = [complete EXCEPT ![t] = TRUE]
    /\ target' = [target EXCEPT ![t] = Head(down[t]).seq]
    /\ state' = [state EXCEPT ![t] = "online"]
    /\ UNCHANGED <<storeVars, cursor, buffered, asked, watermark, applying, committed,
                   advanced, link, syncs, acks, faults>>

SnapshotCompleted(t) ==
    LET goal == Head(down[t]).seq IN
    /\ Handle(t, "completed")
    /\ complete' = [complete EXCEPT ![t] = TRUE]
    /\ target' = [target EXCEPT ![t] = goal]
    /\ state' = [state EXCEPT ![t] = IF cursor[t] >= goal THEN "online" ELSE @]
    /\ UNCHANGED <<storeVars, cursor, buffered, asked, watermark, applying, committed,
                   advanced, link, syncs, acks, faults>>

\* The store takes what it is given.
ApplyBlindly(t, seq) ==
    /\ storeCursor' = seq
    /\ reached' = IF seq > reached THEN seq ELSE reached
    /\ applying' = [applying EXCEPT ![t] = seq]
    /\ committed' = [committed EXCEPT ![t] = seq]
    /\ UNCHANGED <<cleared, state, asked, complete, target, watermark, link, syncs, acks, faults>>

\* applyMailboxEvent: the transaction takes only the event after the store's cursor
\* and answers where the store then stands.  Transactions are carried out in the
\* order in which the tabs ask for them.
ApplyEvent(t, seq) ==
    /\ storeCursor' = IF seq = storeCursor + 1 THEN seq ELSE storeCursor
    /\ reached' = IF storeCursor' > reached THEN storeCursor' ELSE reached
    /\ applying' = [applying EXCEPT ![t] = seq]
    /\ committed' = [committed EXCEPT ![t] = storeCursor']
    /\ UNCHANGED <<cleared, state, asked, complete, target, watermark, link, syncs, acks, faults>>

\* The end of drainMailbox and of handleEnvelope: acknowledge, and ask again for what
\* is missing below a buffered event.  Without a socket the request fails.
EndDrain(t, cur, buf, some) ==
    LET gap == buf # {} /\ cur + 1 \notin buf /\ (some \/ ~asked[t]) IN
    /\ applying' = [applying EXCEPT ![t] = 0]
    /\ committed' = [committed EXCEPT ![t] = 0]
    /\ acks' = IF some /\ Linked(t) THEN [acks EXCEPT ![t] = cur] ELSE acks
    /\ asked' = [asked EXCEPT ![t] = gap \/ (@ /\ ~some)]
    /\ syncs' = IF gap /\ Linked(t) THEN [syncs EXCEPT ![t] = Append(@, cur)] ELSE syncs
    /\ state' = [state EXCEPT ![t] = IF gap /\ ~Linked(t) THEN "reconnecting"
                                     ELSE IF complete[t] /\ cur >= target[t] THEN "online"
                                     ELSE @]
    /\ UNCHANGED <<storeVars, complete, target, watermark, link, faults>>

\* drainMailbox, up to its next transaction or to its end.
Drain(t, cur, buf, some) ==
    /\ cursor' = [cursor EXCEPT ![t] = cur]
    /\ buffered' = [buffered EXCEPT ![t] = buf]
    /\ advanced' = [advanced EXCEPT ![t] = some /\ cur + 1 \in buf]
    /\ IF cur + 1 \in buf THEN ApplyEvent(t, cur + 1) ELSE EndDrain(t, cur, buf, some)

\* An event the adapter is past is dropped; any other is buffered and drained.
MailboxEvent(t) ==
    LET seq == Head(down[t]).seq IN
    /\ Handle(t, "event")
    /\ \/ seq > cursor[t] /\ Drain(t, cursor[t], buffered[t] \cup {seq}, FALSE)
       \/ seq <= cursor[t] /\ UNCHANGED <<clientVars, link, syncs, acks, faults>>

\* The loop goes on from the answer, or ends when the store is behind the event.
Applied(t) ==
    /\ applying[t] # 0 /\ committed[t] >= applying[t]
    /\ Drain(t, committed[t], {i \in buffered[t] : i > committed[t]}, TRUE)
    /\ UNCHANGED down

StoreBehind(t) ==
    /\ applying[t] # 0 /\ committed[t] < applying[t]
    /\ EndDrain(t, cursor[t], buffered[t], advanced[t])
    /\ advanced' = [advanced EXCEPT ![t] = FALSE]
    /\ UNCHANGED <<cursor, buffered, down>>

\* The transaction fails instead: the event is neither applied nor acknowledged.
DrainFails(t, cur, buf) ==
    /\ cur + 1 \in buf
    /\ cursor' = [cursor EXCEPT ![t] = cur]
    /\ buffered' = [buffered EXCEPT ![t] = buf]
    /\ applying' = [applying EXCEPT ![t] = 0]
    /\ committed' = [committed EXCEPT ![t] = 0]
    /\ advanced' = [advanced EXCEPT ![t] = FALSE]
    /\ asked' = [asked EXCEPT ![t] = @ /\ applying[t] = 0]
    /\ UNCHANGED <<storeVars, complete, target, watermark>>

MailboxEventFails(t) ==
    /\ applying[t] = 0 /\ down[t] # <<>> /\ Head(down[t]).type = "event"
    /\ Head(down[t]).seq > cursor[t]
    /\ DrainFails(t, cursor[t], buffered[t] \cup {Head(down[t]).seq})

AppliedFails(t) ==
    /\ applying[t] # 0 /\ committed[t] >= applying[t]
    /\ DrainFails(t, committed[t], {i \in buffered[t] : i > committed[t]})

(***************************************************************************)
(* What people do.                                                         *)
(***************************************************************************)
\* clearLocalHistory: the store is emptied and the tab asks for everything.
ClearHistory(t) ==
    /\ state[t] # "idle"
    /\ Fault
    /\ storeCursor' = 0 /\ cleared' = TRUE
    /\ cursor' = [cursor EXCEPT ![t] = 0]
    /\ buffered' = [buffered EXCEPT ![t] = {}]
    /\ complete' = [complete EXCEPT ![t] = FALSE]
    /\ watermark' = [watermark EXCEPT ![t] = 0]
    /\ syncs' = IF Linked(t) THEN [syncs EXCEPT ![t] = Append(@, 0)] ELSE syncs
    /\ UNCHANGED <<reached, state, asked, target, applying, committed, advanced, link, acks, down>>

\* A page that is loaded anew has a new adapter.
NewAdapter(t) ==
    /\ state' = [state EXCEPT ![t] = "idle"]
    /\ cursor' = [cursor EXCEPT ![t] = 0]
    /\ buffered' = [buffered EXCEPT ![t] = {}]
    /\ asked' = [asked EXCEPT ![t] = FALSE]
    /\ complete' = [complete EXCEPT ![t] = FALSE]
    /\ target' = [target EXCEPT ![t] = 0]
    /\ watermark' = [watermark EXCEPT ![t] = 0]
    /\ applying' = [applying EXCEPT ![t] = 0]
    /\ committed' = [committed EXCEPT ![t] = 0]
    /\ advanced' = [advanced EXCEPT ![t] = FALSE]
=============================================================================
