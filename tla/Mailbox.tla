------------------------------ MODULE Mailbox ------------------------------
(***************************************************************************)
(* The mailbox of one user between the server and the tabs of a browser:   *)
(* MailboxServer and MailboxClient, what goes wrong between them, and what *)
(* they promise together.                                                  *)
(***************************************************************************)
EXTENDS MailboxServer, MailboxClient

vars == <<wireVars, serverVars, clientVars>>

Init == WireInit /\ ServerInit /\ ClientInit

(***************************************************************************)
(* What goes wrong.                                                        *)
(***************************************************************************)
\* Sockets close on both sides.
Close(T) ==
    /\ Disconnect(T) /\ LoseFrames(T) /\ EndSessions(T)
    /\ state' = [t \in Tabs |-> IF t \in T THEN "reconnecting" ELSE state[t]]
    /\ UNCHANGED <<storeVars, cursor, buffered, asked, complete, target, watermark>>

\* The connection of a tab is lost.
Lose(t) ==
    /\ Fault /\ link[t] # "closed"
    /\ Close({t})
    /\ UNCHANGED <<dbVars, applying, committed, advanced>>

\* The API process is restarted: sockets and the batch in memory are gone.
Crash ==
    /\ Fault
    /\ Close({t \in Tabs : link[t] # "closed"})
    /\ SetRows("processing", "stuck")
    /\ UNCHANGED <<events, acked, applying, committed, advanced>>

\* A transaction on the store fails, and the adapter closes its socket.
StoreFails(t) ==
    LET Keep(frames) == \E n \in 0..Len(frames) :
            /\ Linked(t) \/ n = Len(frames)
            /\ down' = [down EXCEPT ![t] = SubSeq(frames, 1, n)]
    IN
    /\ Fault
    /\ \/ MailboxEventFails(t) /\ Keep(Tail(down[t]))
       \/ AppliedFails(t) /\ Keep(down[t])
    /\ state' = [state EXCEPT ![t] = "reconnecting"]
    /\ IF Linked(t) THEN Disconnect({t}) /\ EndSessions({t})
                    ELSE UNCHANGED <<link, syncs, acks, sessionVars>>
    /\ UNCHANGED dbVars

\* The page is loaded anew: the adapter begins with nothing but the store.
Reload(t) ==
    /\ Fault /\ state[t] # "idle"
    /\ Disconnect({t}) /\ EndSessions({t})
    /\ down' = [down EXCEPT ![t] = <<>>]
    /\ NewAdapter(t)
    /\ UNCHANGED <<dbVars, storeVars>>

-----------------------------------------------------------------------------
ClientStep(t) ==
    /\ \/ Connect(t) \/ Open(t)
       \/ SnapshotStarted(t) \/ MailboxEvent(t) \/ SnapshotCompleted(t)
       \/ Applied(t) \/ StoreBehind(t)
    /\ UNCHANGED serverVars

SessionStep(t) ==
    /\ HandleSync(t) \/ CompleteSync(t) \/ HandleAnnouncement(t) \/ HandleAck(t)
    /\ UNCHANGED clientVars

WorkerStep ==
    /\ ClaimOutbox \/ RecoverOutbox \/ \E i \in Seqs : Publish(i)
    /\ UNCHANGED clientVars

Others ==
    /\ PersistMessage \/ SystemCard \/ RecallMessage \/ \E i \in Seqs : DeleteMessage(i)
    /\ UNCHANGED clientVars

Failure ==
    \/ Crash
    \/ \E i \in Seqs : PublishFails(i) /\ UNCHANGED clientVars
    \/ \E t \in Tabs : Lose(t) \/ StoreFails(t) \/ Reload(t)
                     \/ (ConnectFails(t) /\ UNCHANGED serverVars)

Next ==
    \/ \E t \in Tabs : ClientStep(t) \/ SessionStep(t)
    \/ WorkerStep \/ Others \/ Failure
    \/ \E t \in Tabs : ClearHistory(t) /\ UNCHANGED serverVars

Spec == Init /\ [][Next]_vars

\* The worker's timer fires, sessions and tabs go on and a closed socket is replaced.
FairSpec ==
    /\ Spec /\ WF_vars(WorkerStep)
    /\ \A t \in Tabs : WF_vars(ClientStep(t)) /\ WF_vars(SessionStep(t))

-----------------------------------------------------------------------------
(* Safety.                                                                 *)

\* The wire, the server, the store and the tabs have their types.
TypeOK ==
    /\ link \in [Tabs -> {"closed", "opening", "open"}]
    /\ syncs \in [Tabs -> Seq(Nat)] /\ acks \in [Tabs -> Nat]
    /\ down \in [Tabs -> Seq([type : {"started", "event", "completed"}, seq : Nat])]
    /\ faults \in Nat
    /\ events \in Seq(Kinds) /\ outbox \in Seq(Outbox) /\ Len(outbox) = Len(events)
    /\ lastSent \in [Tabs -> Nat] /\ acked \in Nat
    /\ second \in [Tabs -> BOOLEAN] /\ announced \in [Tabs -> BOOLEAN]
    /\ storeCursor \in Nat /\ reached \in Nat /\ cleared \in BOOLEAN
    /\ state \in [Tabs -> States]
    /\ cursor \in [Tabs -> Nat] /\ buffered \in [Tabs -> SUBSET Nat]
    /\ asked \in [Tabs -> BOOLEAN] /\ complete \in [Tabs -> BOOLEAN]
    /\ advanced \in [Tabs -> BOOLEAN]
    /\ target \in [Tabs -> Nat] /\ watermark \in [Tabs -> Nat]
    /\ applying \in [Tabs -> Nat] /\ committed \in [Tabs -> Nat]

\* Event i waits in the tab's buffer or is on its way to it.
Coming(t, i) == i \in buffered[t] \/ \E k \in 1..Len(down[t]) : down[t][k] = Frame("event", i)

\* Every event the session counts as sent and the tab has not applied is in the
\* tab's buffer or on its way, unless the tab has asked for it again.
NothingSkipped ==
    \A t \in Tabs : Linked(t) /\ syncs[t] = <<>> =>
        \A i \in Known : cursor[t] < i /\ i <= lastSent[t] => Coming(t, i)

SnapshotComplete(t) == state[t] = "online" /\ Linked(t) => cursor[t] >= watermark[t]

\* "The watermark makes the initial snapshot race-safe": a tab that shows itself as
\* online has stored every event there was when its snapshot began.
SnapshotIsComplete == \A t \in Tabs : SnapshotComplete(t)

\* ... which holds as long as the session is able to send each of them.
SnapshotUnlessBroken ==
    \A t \in Tabs : (\A i \in 1..watermark[t] : Deliverable(i)) => SnapshotComplete(t)

(***************************************************************************)
(* The inductive invariants behind them.                                   *)
(***************************************************************************)
\* A drain awaits an event that is ahead of the tab's cursor.
DrainInv == \A t \in Tabs : applying[t] # 0 => applying[t] > cursor[t]

\* What a tab asks for last begins no further than it is; and everything its session
\* counts as sent is behind its cursor or coming.
SkipTab(t) == Linked(t) =>
    /\ syncs[t] # <<>> => syncs[t][Len(syncs[t])] <= cursor[t]
    /\ syncs[t] = <<>> => \A i \in (cursor[t] + 1)..lastSent[t] : Coming(t, i)

SkipInv == \A t \in Tabs : SkipTab(t)

\* The watermarks up to which every event can still be sent.
Sound == {w \in 0..Len(events) : \A i \in 1..w : Deliverable(i)}

\* Frame j of d, or the watermark w for j = 0, is the last one before frame k that
\* begins a snapshot.
Begins(d, j, k) ==
    /\ j = 0 \/ d[j].type = "started"
    /\ \A m \in (j+1)..(k-1) : d[m].type # "started"
MarkAt(d, w, j) == IF j = 0 THEN w ELSE d[j].seq

\* A snapshot that ends at frame k with seq reaches the mark with which it began, if
\* that one is in S.
Covers(d, w, k, seq, S) ==
    \A j \in 0..(k-1) : Begins(d, j, k) /\ MarkAt(d, w, j) \in S => MarkAt(d, w, j) <= seq

\* Of the frames in d every one that ends a snapshot covers it; none begins beyond n.
Marked(d, w, S, n) ==
    /\ w <= n
    /\ \A k \in 1..Len(d) :
          /\ d[k].type = "started" => d[k].seq <= n
          /\ d[k].type = "completed" => Covers(d, w, k, d[k].seq, S)

MarkedFrames(t) ==
    /\ Marked(down[t], watermark[t], Sound, Len(events))
    /\ second[t] => Covers(down[t], watermark[t], Len(down[t]) + 1, lastSent[t], Sound)

MarkedTab(t) ==
    /\ complete[t] /\ watermark[t] \in Sound => target[t] >= watermark[t]
    /\ watermark[t] \in Sound => SnapshotComplete(t)

MarkInv == \A t \in Tabs : MarkedFrames(t) /\ MarkedTab(t)

-----------------------------------------------------------------------------
(* Server, wire and tabs together keep the promise of Feed.                *)

TheFeed == INSTANCE Feed WITH log <- Len(events), copied <- storeCursor

\* The store takes the events one by one in their order, whichever tab applies them,
\* and no tab acknowledges an event that was never stored.
ImplementsFeed == TheFeed!Spec

\* What the tabs, the frames and the acknowledgements know of is there.
Frames == {f \in [type : {"started", "event", "completed"}, seq : Nat] :
              f.type = "event" => f.seq \in Known}

FeedInv ==
    /\ TypeOK
    /\ down \in [Tabs -> Seq(Frames)]
    /\ storeCursor <= reached /\ reached <= Len(events) /\ acked <= reached
    /\ \A t \in Tabs : /\ buffered[t] \subseteq Known
                       /\ cursor[t] <= reached /\ committed[t] <= reached /\ acks[t] <= reached

-----------------------------------------------------------------------------
(* Liveness.                                                               *)

\* A message that can be sent, as all events before it can.
Expected(i) == \E j \in Known : /\ i <= j /\ events[j] = "message"
                                /\ \A k \in 1..j : Deliverable(k)

\* Through lost connections, restarts and interrupted batches every event reaches the
\* store once a message follows it, unless the history is cleared or no tab is left.
Delivered ==
    \A i \in Seqs : (i \in Known /\ Expected(i)) ~>
        \/ reached >= i \/ ~Expected(i) \/ cleared
        \/ \A t \in Tabs : state[t] = "failed"
=============================================================================
