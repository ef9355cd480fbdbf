----------------------------- MODULE SendQueue ------------------------------
(***************************************************************************)
(* The queue of messages that a user has written, in the browser's store,  *)
(* and the tabs that send them (ImClientAdapter), over the conversation    *)
(* they go to.  A message is queued before it is sent and leaves the queue *)
(* with the event that brings it back; a tab drains the queue one message  *)
(* at a time, keeps asking only while everything goes well, and starts     *)
(* anew when it comes online.  How events come is Mailbox's subject: here  *)
(* the store applies them in their order.                                  *)
(***************************************************************************)
EXTENDS Conversation

CONSTANTS
    Me,            \* the user
    Tabs,
    NoCall

ASSUME QueueAssumption == Me \in Users /\ NoCall \notin Handlers

VARIABLES
    written,       \* how many messages have been written; their local ids are 1..written
    author,        \* the tab each was written in
    pending,       \* the local ids in the pending store
    cursor,        \* events the store has applied
    online,        \* connectionState is online
    asked,         \* flushRequested
    drain,         \* where drainPending stands
    batch,         \* what it still has to send of the pending messages it has read
    call,          \* the request that it awaits
    submitted,     \* submitted
    gaveUp,        \* the last drain has reported a message as failed
    cleared        \* history: messages written before the queue was last cleared

storeVars == <<written, author, pending, cursor, cleared>>
tabVars == <<online, asked, drain, batch, call, submitted, gaveUp>>
queueVars == <<storeVars, tabVars>>
vars == <<serverVars, queueVars>>

Written == 1..written

Init ==
    /\ ServerInit /\ role[Me] # "none"
    /\ written = 0 /\ author = <<>> /\ pending = {} /\ cursor = 0 /\ cleared = 0
    /\ online \in [Tabs -> BOOLEAN]
    /\ asked = [t \in Tabs |-> FALSE]
    /\ drain = [t \in Tabs |-> "idle"]
    /\ batch = [t \in Tabs |-> {}]
    /\ call = [t \in Tabs |-> NoCall]
    /\ submitted = [t \in Tabs |-> {}]
    /\ gaveUp = [t \in Tabs |-> FALSE]

(***************************************************************************)
(* drainPending.  After an answer, or after the queue has been read, it    *)
(* goes on with the first message it has not submitted yet.                *)
(***************************************************************************)
Stops(t) ==
    /\ drain' = [drain EXCEPT ![t] = "idle"]
    /\ batch' = [batch EXCEPT ![t] = {}]
    /\ call' = [call EXCEPT ![t] = NoCall]

SendsNext(t, items) ==
    \E h \in Handlers, l \in items :
        /\ req[h].at = "idle" /\ \A m \in items : l <= m
        /\ Becomes(h, Request("arrive", Me, {}, {}, l))
        /\ drain' = [drain EXCEPT ![t] = "sending"]
        /\ batch' = [batch EXCEPT ![t] = items]
        /\ call' = [call EXCEPT ![t] = h]

ReadsAgain(t) ==
    /\ asked' = [asked EXCEPT ![t] = FALSE]
    /\ drain' = [drain EXCEPT ![t] = "reading"]
    /\ batch' = [batch EXCEPT ![t] = {}]
    /\ call' = [call EXCEPT ![t] = NoCall]

GoesOn(t, items) ==
    \/ /\ ~online[t] /\ Stops(t)
       /\ UNCHANGED <<req, asked>>
    \/ /\ online[t] /\ items # {} /\ SendsNext(t, items)
       /\ UNCHANGED asked
    \/ /\ online[t] /\ items = {} /\ asked[t] /\ ReadsAgain(t)
       /\ UNCHANGED req
    \/ /\ online[t] /\ items = {} /\ ~asked[t] /\ Stops(t)
       /\ UNCHANGED <<req, asked>>

\* getPending, and on to the first message.
ReadPending(t) ==
    /\ drain[t] = "reading"
    /\ GoesOn(t, pending \ submitted[t])
    /\ UNCHANGED <<groupVars, work, faults, historyVars, storeVars, online, submitted, gaveUp>>

\* The message that is being sent.
Sent(t) == req[call[t]].num

\* The answer makes room for the next request, which comes when it can.
Accepted(t) ==
    /\ drain[t] = "sending" /\ req[call[t]].at = "accepted"
    /\ submitted' = [submitted EXCEPT ![t] = @ \union {Sent(t)}]
    /\ Becomes(call[t], NoRequest)
    /\ drain' = [drain EXCEPT ![t] = "next"]
    /\ batch' = [batch EXCEPT ![t] = @ \ {Sent(t)}]
    /\ call' = [call EXCEPT ![t] = NoCall]
    /\ UNCHANGED <<groupVars, work, faults, historyVars, storeVars, online, asked, gaveUp>>

SendNext(t) ==
    /\ drain[t] = "next"
    /\ GoesOn(t, batch[t] \ submitted[t])
    /\ UNCHANGED <<groupVars, work, faults, historyVars, storeVars, online, submitted, gaveUp>>

\* A failure is reported, and the next message is tried.
FailsAlone(t) ==
    /\ drain' = [drain EXCEPT ![t] = "next"]
    /\ batch' = [batch EXCEPT ![t] = @ \ {Sent(t)}]
    /\ call' = [call EXCEPT ![t] = NoCall]
    /\ gaveUp' = [gaveUp EXCEPT ![t] = TRUE]
    /\ UNCHANGED <<storeVars, online, submitted, asked>>

\* The failure of one message ends the drain, and a flush that was asked for with it.
Fails(t) ==
    /\ asked' = [asked EXCEPT ![t] = FALSE]
    /\ gaveUp' = [gaveUp EXCEPT ![t] = TRUE]
    /\ Stops(t)
    /\ UNCHANGED <<storeVars, online, submitted>>

Refused(t) ==
    /\ drain[t] = "sending" /\ req[call[t]].at = "refused"
    /\ Becomes(call[t], NoRequest)
    /\ Fails(t)
    /\ UNCHANGED <<groupVars, work, faults, historyVars>>

\* No answer comes, whatever becomes of the request.
AnswerLost(t) ==
    /\ drain[t] = "sending" /\ faults < MaxFaults /\ faults' = faults + 1
    /\ Fails(t)
    /\ UNCHANGED <<groupVars, req, work, historyVars>>

\* A request nobody waits for any more.
Discard(h) ==
    /\ req[h].at \in {"accepted", "refused"} /\ \A t \in Tabs : call[t] # h
    /\ Becomes(h, NoRequest)
    /\ UNCHANGED <<groupVars, work, faults, historyVars, queueVars>>

(***************************************************************************)
(* flushPending: a drain under way is told to look again.                  *)
(***************************************************************************)
\* A drain under way is left alone.
FlushUnlessDraining(t) ==
    \/ drain[t] # "idle" /\ UNCHANGED <<asked, drain, batch, call, gaveUp>>
    \/ /\ drain[t] = "idle" /\ ReadsAgain(t)
       /\ gaveUp' = [gaveUp EXCEPT ![t] = FALSE]

Flush(t) ==
    \/ /\ drain[t] # "idle"
       /\ asked' = [asked EXCEPT ![t] = TRUE]
       /\ UNCHANGED <<drain, batch, call, gaveUp>>
    \/ /\ drain[t] = "idle" /\ ReadsAgain(t)
       /\ gaveUp' = [gaveUp EXCEPT ![t] = FALSE]

\* sendMessage: the message is in the queue before it can be flushed.
WriteMessage(t) ==
    /\ work' = work + (IF written = 0 THEN 2 ELSE 1) /\ work' <= MaxWork
    /\ written' = written + 1
    /\ author' = Append(author, t)
    /\ pending' = pending \union {written + 1}
    /\ IF online[t] THEN Flush(t) ELSE UNCHANGED <<asked, drain, batch, call, gaveUp>>
    /\ UNCHANGED <<groupVars, req, faults, historyVars, cursor, cleared, online, submitted>>

\* retryPending, offered on a message that was reported as failed.
Retry(t) ==
    /\ online[t] /\ gaveUp[t] /\ Flush(t)
    /\ UNCHANGED <<serverVars, storeVars, online, submitted>>

\* completeSnapshot.
GoOnline(t) ==
    /\ ~online[t] /\ written > 0
    /\ online' = [online EXCEPT ![t] = TRUE]
    /\ submitted' = [submitted EXCEPT ![t] = {}]
    /\ Flush(t)
    /\ UNCHANGED <<serverVars, storeVars>>

\* The socket closes, or a gap makes the tab synchronize again.
GoOffline(t) ==
    /\ online[t] /\ written > 0
    /\ faults < MaxFaults /\ faults' = faults + 1
    /\ online' = [online EXCEPT ![t] = FALSE]
    /\ UNCHANGED <<groupVars, req, work, historyVars, storeVars, asked, drain, batch, call,
                   submitted, gaveUp>>

\* applyMailboxEvent: the message and its place in the queue, in one transaction.
ApplyEvent ==
    /\ cursor < Len(mailbox[Me])
    /\ cursor' = cursor + 1
    /\ pending' = pending \ {mailbox[Me][cursor + 1].local}
    /\ UNCHANGED <<serverVars, written, author, cleared, tabVars>>

\* clearLocalHistory: the store, then what this tab remembers.
ClearHistory(t) ==
    /\ written > 0 /\ work < MaxWork /\ work' = work + 1
    /\ pending' = {} /\ cursor' = 0 /\ cleared' = written
    /\ submitted' = [submitted EXCEPT ![t] = {}]
    /\ UNCHANGED <<groupVars, req, faults, historyVars, written, author, online, asked, drain,
                   batch, call, gaveUp>>

TabStep(t) ==
    \/ ReadPending(t) \/ Accepted(t) \/ SendNext(t) \/ Refused(t) \/ AnswerLost(t)
    \/ WriteMessage(t) \/ Retry(t) \/ GoOnline(t) \/ GoOffline(t) \/ ClearHistory(t)

Next ==
    \/ \E h \in Handlers : (ServerStep(h) /\ UNCHANGED queueVars) \/ Discard(h)
    \/ \E t \in Tabs : TabStep(t)
    \/ ApplyEvent

Spec == Init /\ [][Next]_vars

-----------------------------------------------------------------------------
Requests == [at : Steps, by : Users \union {NoUser},
             adds : SUBSET Users, whom : SUBSET Users, num : Nat]

TypeOK ==
    /\ open \in BOOLEAN /\ lastSeq \in Nat /\ work \in Nat /\ faults \in Nat
    /\ DOMAIN messages \subseteq 1..lastSeq
    /\ messages \in [DOMAIN messages -> [from : Users, local : Nat, status : {"active", "recalled"}]]
    /\ role \in [Users -> Roles] /\ read \in [Users -> Nat] /\ joined \in [Users -> Nat]
    /\ mailbox \in [Users -> Seq([kind : {"created", "recalled"}, seq : Nat, local : Nat])]
    /\ req \in [Handlers -> Requests]
    /\ overtaken \subseteq Handlers /\ contested \in BOOLEAN /\ untold \subseteq Nat
    /\ written \in Nat /\ author \in [Written -> Tabs] /\ pending \subseteq Written
    /\ cursor \in Nat /\ cleared \in 0..written
    /\ online \in [Tabs -> BOOLEAN] /\ asked \in [Tabs -> BOOLEAN] /\ gaveUp \in [Tabs -> BOOLEAN]
    /\ drain \in [Tabs -> {"idle", "reading", "next", "sending"}]
    /\ batch \in [Tabs -> SUBSET Written] /\ submitted \in [Tabs -> SUBSET Written]
    /\ call \in [Tabs -> Handlers \union {NoCall}]

\* However often a message is sent again, by whichever tab, it is stored once.
SentOnce ==
    \A r, s \in DOMAIN messages :
        messages[r].local # NoLocal /\ messages[r].local = messages[s].local => r = s

\* Messages are stored in the order in which they were written, through failures and
\* retries of several tabs, unless the queue was cleared in between, and as long as no
\* message has been deleted: one that has is stored again when it is sent again.
InQueueOrder ==
    \A r, s \in DOMAIN messages :
        /\ r < s /\ DOMAIN messages = 1..lastSeq
        /\ messages[r].local > cleared /\ messages[s].local > cleared
        => messages[r].local < messages[s].local

\* flushRequested and flushPromise lose no message: a tab that is online and rests has
\* submitted all that was written in it, or has said that it gave up.
QueueIsLookedAfter ==
    \A t \in Tabs :
        online[t] /\ drain[t] = "idle" /\ ~gaveUp[t]
            => {l \in pending : author[l] = t} \subseteq submitted[t]

\* What a member has read grows as long as the member stays, whichever device says
\* so last, and is never ahead of the conversation.
ReadMovesForward ==
    [][\A u \in Users :
           role[u] # "none" /\ role'[u] # "none"
               => read[u] <= read'[u] /\ read'[u] <= lastSeq']_vars

\* A member who has been there since before a message was sent is told when it is
\* recalled, also if it is the sender's other device; a recall that broke off is not
\* made up for.
RecallsAreTold ==
    \A s \in DOMAIN messages :
        /\ messages[s].status = "recalled" /\ s \notin untold
        /\ \A h \in Handlers : ~(req[h].at \in {"aim", "tell"} /\ req[h].num = s)
        => \A u \in Members :
               joined[u] < s => \E i \in DOMAIN mailbox[u] :
                                    mailbox[u][i] = Event("recalled", s, NoLocal)

\* A group has one owner, except halfway through a transfer or a dissolution, and unless
\* a request wrote a role that another one had changed under it, or broke off halfway:
\* then it may be left without an owner, whom nobody can appoint, or with two.
OneOwnerUnlessContested ==
    open /\ ~contested /\ (\A h \in Handlers : ~Halfway(h))
        => \E u \in Users : Owners = {u}

\* Every member's mailbox has every message sent since they joined.
EveryoneIsTold ==
    \A u \in Members : \A s \in (joined[u] + 1)..lastSeq :
        \E i \in DOMAIN mailbox[u] : mailbox[u][i].kind = "created" /\ mailbox[u][i].seq = s
=============================================================================
