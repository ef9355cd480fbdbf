--------------------------- MODULE MailboxProofs ---------------------------
(***************************************************************************)
(* Mailbox implements Feed, for any number of tabs, events and failures:   *)
(* the inductive invariant FeedInv, and every step a step of Feed.         *)
(***************************************************************************)
EXTENDS Mailbox, SequenceTheorems, FiniteSetTheorems, TLAPS

Envelope == [type : {"started", "event", "completed"}, seq : Nat]

-----------------------------------------------------------------------------
(* Frames.                                                                 *)

\* What is known of stays known as the mailbox grows.
LEMMA FramesGrow ==
    ASSUME FeedInv, Len(events') \in Nat, Len(events') >= Len(events)
    PROVE  down \in [Tabs -> Seq(Frames')]
<1>1. Frames \subseteq Frames'
  <2>1. Len(events) \in Nat
    BY DEF FeedInv, TypeOK
  <2>2. Known \subseteq Known'
    BY <2>1 DEF Known
  <2> QED BY <2>2 DEF Frames
<1>2. \A t \in Tabs : down[t] \in Seq(Frames')
  BY <1>1, SeqMonotonic DEF FeedInv
<1> QED BY <1>2 DEF FeedInv, TypeOK

\* A frame is an envelope.
LEMMA FramesAreEnvelopes ==
    ASSUME NEW d \in [Tabs -> Seq(Frames)]
    PROVE  d \in [Tabs -> Seq(Envelope)]
<1>1. Frames \subseteq Envelope
  BY DEF Frames, Envelope
<1>2. \A t \in Tabs : d[t] \in Seq(Envelope)
  BY <1>1, SeqMonotonic
<1> QED BY <1>2

\* A pass sends events that are in the mailbox.
LEMMA SendsFrames ==
    ASSUME FeedInv, NEW a \in Nat
    PROVE  Sends(a, Len(events)) \in Seq(Frames)
<1> DEFINE n == Len(events)  c == Cardinality(Sendable(a, n))
<1>1. n \in Nat
  BY DEF FeedInv, TypeOK
<1>2. Sendable(a, n) \subseteq (a+1)..n
  BY DEF Sendable
<1>3. IsFiniteSet((a+1)..n) /\ Cardinality((a+1)..n) = IF a + 1 > n THEN 0 ELSE n - (a+1) + 1
  <2>1. a + 1 \in Int /\ n \in Int
    BY <1>1
  <2> HIDE DEF n
  <2> QED BY <2>1, FS_Interval, Zenon
<1>4. IsFiniteSet(Sendable(a, n)) /\ c <= Cardinality((a+1)..n)
  BY <1>2, <1>3, FS_Subset
<1>5. c \in Nat
  BY <1>4, FS_CardinalityType
<1>6. \A k \in 1..c : Frame("event", a + k) \in Frames
  <2> SUFFICES ASSUME NEW k \in 1..c PROVE Frame("event", a + k) \in Frames
    OBVIOUS
  <2>1. a + k \in 1..n
    BY <1>1, <1>3, <1>4, <1>5
  <2> QED BY <2>1, <1>1 DEF Frames, Frame, Known
<1>7. [k \in 1..c |-> Frame("event", a + k)] \in [1..c -> Frames]
  BY <1>6
<1> QED BY <1>5, <1>7, SeqDef DEF Sends

\* The watermark and the end of a snapshot are no events.
LEMMA OtherFrames ==
    ASSUME NEW n \in Nat, NEW type \in {"started", "completed"}
    PROVE  <<Frame(type, n)>> \in Seq(Frames)
<1>1. Frame(type, n) \in Frames
  BY DEF Frame, Frames
<1> QED BY <1>1

LEMMA SentThroughType ==
    ASSUME NEW a \in Nat, NEW b \in Nat
    PROVE  SentThrough(a, b) \in Nat
BY DEF SentThrough

-----------------------------------------------------------------------------
(* The server.                                                             *)

LEMMA ServerLengths ==
    ASSUME TypeOK PROVE Len(events) \in Nat /\ Len(outbox) \in Nat
BY DEF TypeOK

\* A step that leaves events, store and tabs alone and sends nothing new.
LEMMA Quiet ==
    ASSUME FeedInv, TypeOK', UNCHANGED <<events, storeVars, cursor, buffered, committed>>,
           down' \in [Tabs -> Seq(Frames)],
           acked' <= reached, \A t \in Tabs : acks'[t] <= reached
    PROVE  FeedInv'
<1>1. Frames' = Frames /\ Known' = Known
  BY DEF Frames, Known
<1> QED BY <1>1 DEF FeedInv, storeVars

LEMMA WritersKeep ==
    ASSUME FeedInv, Others
    PROVE  FeedInv' /\ [TheFeed!Next]_(TheFeed!vars)
<1> USE DEF clientVars, storeVars, tabVars, wireVars, sessionVars
<1>0. TypeOK /\ Len(events) \in Nat
  BY ServerLengths DEF FeedInv
<1>1. ASSUME NEW kind \in Kinds, RecordEvent(kind), UNCHANGED clientVars,
             announced' \in [Tabs -> BOOLEAN]
      PROVE  FeedInv' /\ TheFeed!Write
  <2>1. events' \in Seq(Kinds) /\ Len(events') = Len(events) + 1
    BY <1>0, <1>1 DEF RecordEvent, TypeOK
  <2>2. outbox' \in Seq(Outbox) /\ Len(outbox') = Len(outbox) + 1
    BY <1>0, <1>1, "pending" \in Outbox DEF RecordEvent, TypeOK, Outbox
  <2>3. TypeOK'
    BY <1>0, <1>1, <2>1, <2>2 DEF RecordEvent, TypeOK
  <2>4. down' \in [Tabs -> Seq(Frames')]
    BY <1>0, <1>1, <2>1, FramesGrow DEF RecordEvent
  <2>5. Known \subseteq Known'
    BY <1>0, <2>1 DEF Known
  <2>6. FeedInv'
    BY <1>0, <1>1, <2>1, <2>3, <2>4, <2>5 DEF FeedInv, RecordEvent, TypeOK
  <2> QED BY <1>1, <2>1, <2>6 DEF TheFeed!Write, RecordEvent
<1>2. CASE PersistMessage
  <2>1. announced' \in [Tabs -> BOOLEAN]
    BY <1>0, <1>2 DEF PersistMessage, TypeOK
  <2> QED BY <1>1, <1>2, <2>1 DEF PersistMessage, Kinds, TheFeed!Next, Others
<1>3. CASE SystemCard
  BY <1>0, <1>1, <1>3 DEF SystemCard, TypeOK, Kinds, TheFeed!Next, Others
<1>4. CASE RecallMessage
  BY <1>0, <1>1, <1>4 DEF RecallMessage, TypeOK, Kinds, TheFeed!Next, Others
<1>5. ASSUME NEW i \in Seqs, DeleteMessage(i) PROVE FeedInv' /\ UNCHANGED TheFeed!vars
  <2>1. events' \in Seq(Kinds) /\ Len(events') = Len(events)
    BY <1>0, <1>5 DEF DeleteMessage, TypeOK, Kinds, Known
  <2>2. TypeOK'
    BY <1>0, <1>5, <2>1 DEF DeleteMessage, TypeOK, Others
  <2>3. Frames' = Frames /\ Known' = Known
    BY <2>1 DEF Frames, Known
  <2>4. UNCHANGED clientVars
    BY DEF Others
  <2> QED BY <1>5, <2>1, <2>2, <2>3, <2>4 DEF DeleteMessage, FeedInv, TheFeed!vars
<1> QED BY <1>2, <1>3, <1>4, <1>5 DEF Others

\* The delivery worker moves only outbox rows and announcements.
LEMMA WorkerKeeps ==
    ASSUME FeedInv, UNCHANGED clientVars,
           WorkerStep \/ \E i \in Seqs : PublishFails(i)
    PROVE  FeedInv' /\ UNCHANGED TheFeed!vars
<1> USE DEF clientVars, storeVars, tabVars, wireVars, sessionVars
<1>0. TypeOK
  BY DEF FeedInv
<1>1. ASSUME NEW from \in Outbox, NEW to \in Outbox, SetRows(from, to)
      PROVE  outbox' \in Seq(Outbox) /\ Len(outbox') = Len(outbox)
  <2>1. outbox \in Seq(Outbox) /\ Len(outbox) = Len(events) /\ Len(events) \in Nat
    BY <1>0 DEF TypeOK
  <2>2. outbox' = [i \in 1..Len(outbox) |-> IF outbox[i] = from THEN to ELSE outbox[i]]
    BY <1>1, <2>1 DEF SetRows, Known
  <2>3. \A i \in 1..Len(outbox) : outbox[i] \in Outbox
    BY <2>1
  <2>4. outbox' \in [1..Len(outbox) -> Outbox]
    BY <1>1, <2>2, <2>3
  <2> QED BY <2>1, <2>2, <2>4, SeqDef
<1>2. ASSUME NEW i \in Seqs, Announce(i) PROVE announced' \in [Tabs -> BOOLEAN]
  BY <1>0, <1>2, Zenon DEF Announce, TypeOK
<1>3. outbox' \in Seq(Outbox) /\ Len(outbox') = Len(outbox) /\ announced' \in [Tabs -> BOOLEAN]
  <2>1. CASE ClaimOutbox
    BY <1>0, <1>1, <2>1 DEF ClaimOutbox, Outbox, TypeOK
  <2>2. CASE RecoverOutbox
    BY <1>0, <1>1, <2>2 DEF RecoverOutbox, Outbox, TypeOK
  <2>3. ASSUME NEW i \in Seqs, Publish(i)
        PROVE  outbox' \in Seq(Outbox) /\ Len(outbox') = Len(outbox)
               /\ announced' \in [Tabs -> BOOLEAN]
    <3>1. i \in 1..Len(outbox) /\ outbox \in Seq(Outbox)
      BY <1>0, <2>3 DEF Publish, FirstOfBatch, Rows, Known, TypeOK
    <3>2. announced' \in [Tabs -> BOOLEAN]
      BY <1>2, <2>3 DEF Publish
    <3> QED BY <2>3, <3>1, <3>2, ExceptSeq DEF Publish, Outbox
  <2>4. ASSUME NEW i \in Seqs, PublishFails(i)
        PROVE  outbox' \in Seq(Outbox) /\ Len(outbox') = Len(outbox)
               /\ announced' \in [Tabs -> BOOLEAN]
    BY <1>1, <1>2, <2>4 DEF PublishFails, Outbox
  <2> QED BY <2>1, <2>2, <2>3, <2>4 DEF WorkerStep
<1>4. /\ UNCHANGED <<events, acked, lastSent, second, link, syncs, acks, down>>
      /\ faults' \in Nat
  BY <1>0 DEF WorkerStep, ClaimOutbox, RecoverOutbox, Publish, PublishFails, Fault, TypeOK
<1>5. TypeOK'
  BY <1>0, <1>3, <1>4 DEF TypeOK
<1>6. FeedInv'
  BY <1>4, <1>5, Quiet DEF FeedInv
<1> QED BY <1>4, <1>6 DEF TheFeed!vars

\* A session sends events of the mailbox and notes an acknowledgement.
LEMMA SessionKeeps ==
    ASSUME FeedInv, NEW t \in Tabs, SessionStep(t)
    PROVE  FeedInv' /\ [TheFeed!Next]_(TheFeed!vars)
<1> USE DEF clientVars, storeVars, tabVars, wireVars, sessionVars, dbVars
<1>0. TypeOK /\ Len(events) \in Nat /\ UNCHANGED clientVars
  BY ServerLengths DEF FeedInv, SessionStep
<1>1. ASSUME NEW a \in Nat, NEW before \in Seq(Frames), NEW after \in Seq(Frames),
             Pass(t, a, before, after)
      PROVE  down' \in [Tabs -> Seq(Frames)] /\ lastSent' \in [Tabs -> Nat]
  <2>1. down[t] \in Seq(Frames) /\ Sends(a, Len(events)) \in Seq(Frames)
    BY SendsFrames DEF FeedInv
  <2>2. down[t] \o before \o Sends(a, Len(events)) \o after \in Seq(Frames)
    BY <2>1, ConcatProperties
  <2>3. SentThrough(a, Len(events)) \in Nat
    BY <1>0, SentThroughType
  <2>4. down' \in [Tabs -> Seq(Frames)]
    BY <1>1, <2>2 DEF Pass, FeedInv
  <2> QED BY <1>0, <1>1, <2>3, <2>4 DEF Pass, TypeOK
<1>2. ASSUME UNCHANGED <<dbVars, acks>>, TypeOK', down' \in [Tabs -> Seq(Frames)]
      PROVE  FeedInv' /\ UNCHANGED TheFeed!vars
  BY <1>0, <1>2, Quiet DEF FeedInv, TheFeed!vars
<1>3. <<>> \in Seq(Frames)
  OBVIOUS
<1>4. CASE HandleSync(t)
  <2>1. Head(syncs[t]) \in Nat /\ Tail(syncs[t]) \in Seq(Nat)
    BY <1>0, <1>4, HeadTailProperties DEF HandleSync, TypeOK
  <2>2. down' \in [Tabs -> Seq(Frames)] /\ lastSent' \in [Tabs -> Nat]
    BY <1>0, <1>1, <1>3, <1>4, <2>1, OtherFrames DEF HandleSync
  <2>3. TypeOK'
    BY <1>0, <1>4, <2>1, <2>2, FramesAreEnvelopes DEF HandleSync, TypeOK, Envelope
  <2> QED BY <1>2, <1>4, <2>2, <2>3 DEF HandleSync
<1>5. CASE CompleteSync(t)
  <2>1. lastSent[t] \in Nat /\ SentThrough(lastSent[t], Len(events)) \in Nat
    BY <1>0, SentThroughType DEF TypeOK
  <2>2. down' \in [Tabs -> Seq(Frames)] /\ lastSent' \in [Tabs -> Nat]
    BY <1>0, <1>1, <1>3, <1>5, <2>1, OtherFrames DEF CompleteSync
  <2>3. TypeOK'
    BY <1>0, <1>5, <2>2, FramesAreEnvelopes DEF CompleteSync, TypeOK, Envelope
  <2> QED BY <1>2, <1>5, <2>2, <2>3 DEF CompleteSync
<1>6. CASE HandleAnnouncement(t)
  <2>1. lastSent[t] \in Nat
    BY <1>0 DEF TypeOK
  <2>2. down' \in [Tabs -> Seq(Frames)] /\ lastSent' \in [Tabs -> Nat]
    BY <1>0, <1>1, <1>3, <1>6, <2>1 DEF HandleAnnouncement
  <2>3. TypeOK'
    BY <1>0, <1>6, <2>2, FramesAreEnvelopes DEF HandleAnnouncement, TypeOK, Envelope
  <2> QED BY <1>2, <1>6, <2>2, <2>3 DEF HandleAnnouncement
<1>7. CASE HandleAck(t)
  <2>1. acks[t] \in Nat /\ acks[t] <= reached /\ acked \in Nat /\ acked <= reached /\ reached \in Nat
    BY <1>0 DEF FeedInv, TypeOK
  <2>2. acked' \in Nat /\ acked' <= reached /\ acks' \in [Tabs -> Nat]
    BY <1>0, <1>7, <2>1 DEF HandleAck, TypeOK
  <2>3. \A s \in Tabs : acks'[s] <= reached
    BY <1>0, <1>7, <2>1 DEF HandleAck, FeedInv, TypeOK
  <2>4. TypeOK'
    BY <1>0, <1>7, <2>2 DEF HandleAck, TypeOK
  <2>5. FeedInv'
    BY <1>0, <1>7, <2>2, <2>3, <2>4, Quiet DEF HandleAck, FeedInv
  <2>6. CASE acks[t] > acked
    BY <1>0, <1>7, <2>1, <2>5, <2>6 DEF HandleAck, TheFeed!Next, TheFeed!Acknowledge
  <2>7. CASE ~(acks[t] > acked)
    BY <1>0, <1>7, <2>1, <2>5, <2>7 DEF HandleAck, TheFeed!vars
  <2> QED BY <2>6, <2>7
<1> QED BY <1>2, <1>4, <1>5, <1>6, <1>7 DEF SessionStep

-----------------------------------------------------------------------------
(* The tabs.                                                               *)

\* The invariant is kept where nothing gets past what the store has had.
LEMMA Kept ==
    ASSUME FeedInv, TypeOK', Len(events') = Len(events), acked' = acked,
           down' \in [Tabs -> Seq(Frames)],
           reached <= reached', storeCursor' <= reached', reached' <= Len(events),
           \A s \in Tabs : /\ buffered'[s] \subseteq Known
                           /\ cursor'[s] <= reached' /\ committed'[s] <= reached'
                           /\ acks'[s] <= reached'
    PROVE  FeedInv'
<1>1. Frames' = Frames /\ Known' = Known
  BY DEF Frames, Known
<1>2. acked \in Nat /\ reached \in Nat /\ reached' \in Nat /\ acked <= reached
  BY DEF FeedInv, TypeOK
<1> QED BY <1>1, <1>2 DEF FeedInv

\* What the rest of the steps of a tab leave alone.
LEMMA ServerKept ==
    ASSUME FeedInv, UNCHANGED serverVars
    PROVE  /\ UNCHANGED <<events, outbox, acked, lastSent, second, announced>>
           /\ TypeOK /\ Len(events) \in Nat
BY ServerLengths DEF FeedInv, serverVars, dbVars, sessionVars

\* applyMailboxEvent takes the next event of the mailbox or leaves the store alone.
LEMMA ApplyKeeps ==
    ASSUME FeedInv, UNCHANGED serverVars, NEW t \in Tabs, NEW seq \in Known,
           ApplyEvent(t, seq), down' \in [Tabs -> Seq(Frames)],
           cursor' \in [Tabs -> Nat], buffered' \in [Tabs -> SUBSET Known],
           advanced' \in [Tabs -> BOOLEAN], \A s \in Tabs : cursor'[s] <= reached
    PROVE  FeedInv' /\ [TheFeed!Next]_(TheFeed!vars)
<1>0. /\ UNCHANGED <<events, outbox, acked, lastSent, second, announced>>
      /\ TypeOK /\ Len(events) \in Nat
  BY ServerKept
<1>1. seq \in Nat /\ seq <= Len(events) /\ storeCursor \in Nat /\ reached \in Nat
      /\ storeCursor <= reached /\ reached <= Len(events)
  BY <1>0 DEF Known, FeedInv, TypeOK
<1>2. /\ storeCursor' \in Nat /\ reached' \in Nat /\ storeCursor' <= reached'
      /\ reached <= reached' /\ reached' <= Len(events)
  BY <1>1 DEF ApplyEvent
<1>3. applying' \in [Tabs -> Nat] /\ committed' \in [Tabs -> Nat]
  BY <1>0, <1>1, <1>2 DEF ApplyEvent, TypeOK
<1>4. Known \subseteq Nat
  BY <1>0 DEF Known
<1>5. buffered' \in [Tabs -> SUBSET Nat]
  BY <1>4
<1>6. TypeOK'
  BY <1>0, <1>2, <1>3, <1>5, FramesAreEnvelopes DEF ApplyEvent, TypeOK, Envelope
<1>7. \A s \in Tabs : cursor'[s] <= reached' /\ committed'[s] <= reached' /\ acks'[s] <= reached'
  <2> TAKE s \in Tabs
  <2>1. cursor'[s] \in Nat /\ committed[s] \in Nat /\ acks[s] \in Nat
    BY <1>0 DEF TypeOK
  <2>2. committed[s] <= reached /\ acks[s] <= reached /\ cursor'[s] <= reached
    BY DEF FeedInv
  <2>3. acks' = acks /\ committed'[s] \in {committed[s], storeCursor'}
    BY <1>0 DEF ApplyEvent, TypeOK
  <2> QED BY <1>1, <1>2, <2>1, <2>2, <2>3
<1>8. FeedInv'
  BY <1>0, <1>2, <1>6, <1>7, Kept
<1>9. CASE seq = storeCursor + 1
  <2>1. /\ storeCursor' = storeCursor + 1
        /\ reached' = IF storeCursor' > reached THEN storeCursor' ELSE reached
    BY <1>9 DEF ApplyEvent
  <2>2. storeCursor < Len(events) /\ Len(events') = Len(events) /\ acked' = acked
    BY <1>0, <1>1, <1>9
  <2> QED BY <1>8, <2>1, <2>2 DEF TheFeed!Next, TheFeed!Copy
<1>10. CASE seq # storeCursor + 1
  <2>1. storeCursor' = storeCursor
    BY <1>10 DEF ApplyEvent
  <2>2. reached' = reached
    BY <1>1, <2>1 DEF ApplyEvent
  <2> QED BY <1>0, <1>8, <2>1, <2>2 DEF TheFeed!vars
<1> QED BY <1>8, <1>9, <1>10

\* A drain that ends acknowledges no more than the tab's cursor.
LEMMA EndKeeps ==
    ASSUME FeedInv, UNCHANGED serverVars, NEW t \in Tabs,
           NEW cur \in Nat, cur <= reached, NEW buf \in SUBSET Known, NEW some,
           EndDrain(t, cur, buf, some), down' \in [Tabs -> Seq(Frames)],
           cursor' \in [Tabs -> Nat], buffered' \in [Tabs -> SUBSET Known],
           advanced' \in [Tabs -> BOOLEAN], \A s \in Tabs : cursor'[s] <= reached
    PROVE  FeedInv' /\ UNCHANGED TheFeed!vars
<1> DEFINE gap == buf # {} /\ cur + 1 \notin buf /\ (some \/ ~asked[t])
<1>0. /\ UNCHANGED <<events, outbox, acked, lastSent, second, announced>>
      /\ TypeOK /\ Len(events) \in Nat
  BY ServerKept
<1>1. UNCHANGED <<storeVars, complete, target, watermark, link, faults>>
  BY DEF EndDrain
<1>2. applying' \in [Tabs -> Nat] /\ committed' \in [Tabs -> Nat]
      /\ \A s \in Tabs : committed'[s] = committed[s] \/ committed'[s] = 0
  BY <1>0 DEF EndDrain, TypeOK
<1>3. acks' \in [Tabs -> Nat] /\ \A s \in Tabs : acks'[s] = acks[s] \/ acks'[s] = cur
  BY <1>0 DEF EndDrain, TypeOK
<1>4. asked' \in [Tabs -> BOOLEAN]
  <2>1. asked' = [asked EXCEPT ![t] = gap \/ (@ /\ ~some)]
    BY Zenon DEF EndDrain
  <2> HIDE DEF gap
  <2> QED BY <1>0, <2>1, Zenon DEF TypeOK
<1>5. syncs' \in [Tabs -> Seq(Nat)]
  <2>1. syncs[t] \in Seq(Nat) /\ Append(syncs[t], cur) \in Seq(Nat)
    BY <1>0, AppendProperties DEF TypeOK
  <2> QED BY <1>0, <2>1 DEF EndDrain, TypeOK
<1>6. state' \in [Tabs -> States]
  BY <1>0 DEF EndDrain, TypeOK, States
<1>7. Known \subseteq Nat
  BY <1>0 DEF Known
<1>8. buffered' \in [Tabs -> SUBSET Nat]
  BY <1>7
<1>9. TypeOK'
  BY <1>0, <1>1, <1>2, <1>3, <1>4, <1>5, <1>6, <1>8, FramesAreEnvelopes
     DEF storeVars, TypeOK, Envelope
<1>10. reached \in Nat /\ storeCursor <= reached /\ reached <= Len(events)
       /\ \A s \in Tabs : committed[s] <= reached /\ acks[s] <= reached
  BY DEF FeedInv, TypeOK
<1>11. \A s \in Tabs : committed'[s] <= reached /\ acks'[s] <= reached
  <2> TAKE s \in Tabs
  <2>1. 0 <= reached
    BY <1>10
  <2> QED BY <1>2, <1>3, <1>10, <2>1
<1>12. FeedInv'
  BY <1>0, <1>1, <1>9, <1>10, <1>11, Kept DEF storeVars
<1> QED BY <1>0, <1>1, <1>12 DEF storeVars, TheFeed!vars

\* drainMailbox, up to its next transaction or to its end.
LEMMA DrainKeeps ==
    ASSUME FeedInv, UNCHANGED serverVars, NEW t \in Tabs,
           NEW cur \in Nat, cur <= reached, NEW buf \in SUBSET Known, NEW some \in BOOLEAN,
           Drain(t, cur, buf, some), down' \in [Tabs -> Seq(Frames)]
    PROVE  FeedInv' /\ [TheFeed!Next]_(TheFeed!vars)
<1>1. TypeOK /\ \A s \in Tabs : cursor[s] <= reached /\ buffered[s] \subseteq Known
  BY DEF FeedInv
<1>2. cursor' \in [Tabs -> Nat] /\ \A s \in Tabs : cursor'[s] <= reached
  BY <1>1 DEF Drain, TypeOK
<1>3. buffered' \in [Tabs -> SUBSET Known]
  BY <1>1 DEF Drain, TypeOK
<1>4. advanced' \in [Tabs -> BOOLEAN]
  <2>1. advanced' = [advanced EXCEPT ![t] = some /\ cur + 1 \in buf]
    BY DEF Drain
  <2> DEFINE more == cur + 1 \in buf
  <2>2. advanced' = [advanced EXCEPT ![t] = some /\ more]
    BY <2>1
  <2> HIDE DEF more
  <2> QED BY <1>1, <2>2, Zenon DEF TypeOK
<1>5. CASE cur + 1 \in buf
  <2>1. ApplyEvent(t, cur + 1) /\ cur + 1 \in Known
    BY <1>5 DEF Drain
  <2> QED BY <1>2, <1>3, <1>4, <2>1, ApplyKeeps
<1>6. CASE cur + 1 \notin buf
  <2>1. EndDrain(t, cur, buf, some)
    BY <1>6 DEF Drain
  <2> QED BY <1>2, <1>3, <1>4, <2>1, EndKeeps
<1> QED BY <1>5, <1>6

\* The frames a tab has yet to handle.
LEMMA HandleFrames ==
    ASSUME FeedInv, NEW t \in Tabs, NEW type, Handle(t, type)
    PROVE  /\ Head(down[t]) \in Frames /\ Head(down[t]).type = type
           /\ Tail(down[t]) \in Seq(Frames) /\ down' \in [Tabs -> Seq(Frames)]
<1>1. down[t] \in Seq(Frames) /\ down[t] # <<>>
  BY DEF FeedInv, Handle
<1>2. Head(down[t]) \in Frames /\ Tail(down[t]) \in Seq(Frames)
  BY <1>1, HeadTailProperties
<1> QED BY <1>2 DEF FeedInv, Handle

LEMMA ClientKeeps ==
    ASSUME FeedInv, NEW t \in Tabs, ClientStep(t)
    PROVE  FeedInv' /\ [TheFeed!Next]_(TheFeed!vars)
<1> USE DEF storeVars
<1>0. /\ UNCHANGED serverVars
      /\ UNCHANGED <<events, outbox, acked, lastSent, second, announced>>
      /\ TypeOK /\ Len(events) \in Nat
  BY ServerKept DEF ClientStep
<1>1. /\ reached \in Nat /\ storeCursor \in Nat /\ storeCursor <= reached
      /\ reached <= Len(events) /\ Known \subseteq Nat
      /\ \A s \in Tabs : /\ buffered[s] \subseteq Known /\ cursor[s] <= reached
                         /\ committed[s] <= reached /\ acks[s] <= reached
      /\ down \in [Tabs -> Seq(Frames)]
  BY <1>0 DEF FeedInv, TypeOK, Known
<1>2. ASSUME TypeOK', UNCHANGED <<storeVars, buffered, committed, acks>>,
             down' \in [Tabs -> Seq(Frames)], \A s \in Tabs : cursor'[s] <= reached
      PROVE  FeedInv' /\ UNCHANGED TheFeed!vars
  BY <1>0, <1>1, <1>2, Kept DEF TheFeed!vars
<1>3. CASE Connect(t)
  <2>1. TypeOK'
    BY <1>0, <1>1, <1>3 DEF Connect, TypeOK, States
  <2>2. \A s \in Tabs : cursor'[s] <= reached
    BY <1>0, <1>1, <1>3 DEF Connect, TypeOK
  <2> QED BY <1>1, <1>2, <1>3, <2>1, <2>2 DEF Connect
<1>4. CASE Open(t)
  <2>1. Append(syncs[t], cursor[t]) \in Seq(Nat)
    BY <1>0, AppendProperties DEF TypeOK
  <2>2. TypeOK'
    BY <1>0, <1>4, <2>1 DEF Open, TypeOK, States
  <2> QED BY <1>1, <1>2, <1>4, <2>2 DEF Open
<1>5. CASE SnapshotStarted(t)
  <2>1. /\ Head(down[t]) \in Frames /\ down' \in [Tabs -> Seq(Frames)]
    BY <1>5, HandleFrames DEF SnapshotStarted
  <2>2. TypeOK'
    BY <1>0, <1>5, <2>1, FramesAreEnvelopes DEF SnapshotStarted, TypeOK, States, Envelope, Frames
  <2> QED BY <1>1, <1>2, <1>5, <2>1, <2>2 DEF SnapshotStarted
<1>6. CASE SnapshotCompleted(t)
  <2>1. /\ Head(down[t]) \in Frames /\ down' \in [Tabs -> Seq(Frames)]
    BY <1>6, HandleFrames DEF SnapshotCompleted
  <2>2. TypeOK'
    BY <1>0, <1>6, <2>1, FramesAreEnvelopes DEF SnapshotCompleted, TypeOK, States, Envelope, Frames
  <2> QED BY <1>1, <1>2, <1>6, <2>1, <2>2 DEF SnapshotCompleted
<1>7. CASE MailboxEvent(t)
  <2> DEFINE seq == Head(down[t]).seq
  <2>1. Handle(t, "event")
    BY <1>7 DEF MailboxEvent
  <2>2. seq \in Known /\ down' \in [Tabs -> Seq(Frames)]
    BY <2>1, HandleFrames DEF Frames
  <2>3. CASE Drain(t, cursor[t], buffered[t] \cup {seq}, FALSE)
    <3>1. buffered[t] \cup {seq} \in SUBSET Known /\ cursor[t] \in Nat /\ cursor[t] <= reached
      BY <1>0, <1>1, <2>2 DEF TypeOK
    <3> QED BY <1>0, <2>2, <2>3, <3>1, DrainKeeps
  <2>4. CASE UNCHANGED <<clientVars, link, syncs, acks, faults>>
    <3>1. TypeOK'
      BY <1>0, <2>2, <2>4, FramesAreEnvelopes DEF TypeOK, Envelope, clientVars, tabVars
    <3> QED BY <1>1, <1>2, <2>2, <2>4, <3>1 DEF clientVars, tabVars
  <2> QED BY <1>7, <2>3, <2>4 DEF MailboxEvent
<1>8. CASE Applied(t)
  <2> DEFINE buf == {i \in buffered[t] : i > committed[t]}
  <2>1. Drain(t, committed[t], buf, TRUE) /\ UNCHANGED down
    BY <1>8 DEF Applied
  <2>2. buf \in SUBSET Known /\ committed[t] \in Nat /\ committed[t] <= reached
    BY <1>0, <1>1 DEF TypeOK
  <2>3. down' \in [Tabs -> Seq(Frames)]
    BY <1>1, <2>1
  <2> HIDE DEF buf
  <2> QED BY <1>0, <2>1, <2>2, <2>3, DrainKeeps
<1>9. CASE StoreBehind(t)
  <2>1. EndDrain(t, cursor[t], buffered[t], advanced[t])
        /\ advanced' = [advanced EXCEPT ![t] = FALSE] /\ UNCHANGED <<cursor, buffered, down>>
    BY <1>9 DEF StoreBehind
  <2>2. cursor[t] \in Nat /\ buffered[t] \in SUBSET Known /\ advanced[t] \in BOOLEAN
    BY <1>0, <1>1 DEF TypeOK
  <2>3. down' \in [Tabs -> Seq(Frames)] /\ cursor' \in [Tabs -> Nat]
        /\ buffered' \in [Tabs -> SUBSET Known] /\ advanced' \in [Tabs -> BOOLEAN]
    BY <1>0, <1>1, <2>1 DEF TypeOK
  <2>4. cursor[t] <= reached /\ \A s \in Tabs : cursor'[s] <= reached
    BY <1>1, <2>1
  <2>5. FeedInv' /\ UNCHANGED TheFeed!vars
    BY <1>0, <2>1, <2>2, <2>3, <2>4, EndKeeps
  <2> QED BY <2>5
<1> QED BY <1>2, <1>3, <1>4, <1>5, <1>6, <1>7, <1>8, <1>9 DEF ClientStep

\* clearLocalHistory begins again with nothing.
LEMMA ClearKeeps ==
    ASSUME FeedInv, NEW t \in Tabs, ClearHistory(t), UNCHANGED serverVars
    PROVE  FeedInv' /\ TheFeed!Forget
<1>0. /\ UNCHANGED <<events, outbox, acked, lastSent, second, announced>>
      /\ TypeOK /\ Len(events) \in Nat
  BY ServerKept
<1>1. Append(syncs[t], 0) \in Seq(Nat)
  BY <1>0, AppendProperties DEF TypeOK
<1>2. syncs' \in [Tabs -> Seq(Nat)] /\ faults' \in Nat
  BY <1>0, <1>1 DEF ClearHistory, Fault, TypeOK
<1>3. TypeOK'
  BY <1>0, <1>2 DEF ClearHistory, TypeOK
<1>4. reached' = reached /\ acks' = acks /\ committed' = committed /\ down' = down
      /\ storeCursor' = 0 /\ cursor' = [cursor EXCEPT ![t] = 0]
      /\ buffered' = [buffered EXCEPT ![t] = {}]
  BY DEF ClearHistory
<1>5. \A s \in Tabs : buffered'[s] \subseteq Known /\ cursor'[s] <= reached
  BY <1>0, <1>4 DEF FeedInv, TypeOK
<1>6. /\ reached \in Nat /\ reached <= Len(events) /\ down \in [Tabs -> Seq(Frames)]
      /\ \A s \in Tabs : committed[s] <= reached /\ acks[s] <= reached
  BY <1>0 DEF FeedInv, TypeOK
<1>7. reached <= reached' /\ storeCursor' <= reached' /\ reached' <= Len(events)
  BY <1>4, <1>6
<1>8. FeedInv'
  BY <1>0, <1>3, <1>4, <1>5, <1>6, <1>7, Kept
<1> QED BY <1>0, <1>4, <1>8 DEF TheFeed!Forget

-----------------------------------------------------------------------------
(* What goes wrong.                                                        *)

\* A prefix of what was on its way.
LEMMA PrefixIsSeq ==
    ASSUME NEW S, NEW s \in Seq(S), NEW n \in 0..Len(s)
    PROVE  SubSeq(s, 1, n) \in Seq(S)
BY SubSeqProperties

\* Closed sockets, lost frames and ended sessions keep their types.
LEMMA CloseTypes ==
    ASSUME FeedInv, NEW T \in SUBSET Tabs, Disconnect(T), EndSessions(T)
    PROVE  /\ link' \in [Tabs -> {"closed", "opening", "open"}]
           /\ syncs' \in [Tabs -> Seq(Nat)] /\ acks' \in [Tabs -> Nat]
           /\ lastSent' \in [Tabs -> Nat] /\ second' \in [Tabs -> BOOLEAN]
           /\ announced' \in [Tabs -> BOOLEAN]
           /\ \A s \in Tabs : acks'[s] <= reached
<1>1. TypeOK /\ reached \in Nat /\ \A s \in Tabs : acks[s] <= reached
  BY DEF FeedInv, TypeOK
<1>2. link' \in [Tabs -> {"closed", "opening", "open"}] /\ syncs' \in [Tabs -> Seq(Nat)]
  BY <1>1 DEF Disconnect, TypeOK
<1>3. acks' \in [Tabs -> Nat] /\ lastSent' \in [Tabs -> Nat]
  BY <1>1 DEF Disconnect, EndSessions, TypeOK
<1>4. second' \in [Tabs -> BOOLEAN] /\ announced' \in [Tabs -> BOOLEAN]
  BY <1>1, Zenon DEF EndSessions, TypeOK
<1>5. \A s \in Tabs : acks'[s] <= reached
  BY <1>1 DEF Disconnect
<1> QED BY <1>2, <1>3, <1>4, <1>5

LEMMA CloseKeeps ==
    ASSUME FeedInv, NEW T \in SUBSET Tabs, Close(T), faults' \in Nat,
           UNCHANGED <<events, acked, applying, committed, advanced>>,
           outbox' \in Seq(Outbox), Len(outbox') = Len(outbox)
    PROVE  FeedInv' /\ UNCHANGED TheFeed!vars
<1>0. TypeOK
  BY DEF FeedInv
<1>1. down' \in [Tabs -> Seq(Frames)]
  <2>1. PICK kept \in [T -> UNION {0..Len(down[t]) : t \in T}] :
          /\ \A t \in T : kept[t] <= Len(down[t])
          /\ down' = [t \in Tabs |-> IF t \in T THEN SubSeq(down[t], 1, kept[t]) ELSE down[t]]
    BY DEF Close, LoseFrames
  <2>2. \A t \in Tabs : down[t] \in Seq(Frames) /\ Len(down[t]) \in Nat
    BY DEF FeedInv
  <2>3. \A t \in T : kept[t] \in Nat
    <3> TAKE t \in T
    <3>1. PICK s \in T : kept[t] \in 0..Len(down[s])
      BY <2>1
    <3> QED BY <2>2, <3>1
  <2>4. \A t \in T : SubSeq(down[t], 1, kept[t]) \in Seq(Frames)
    BY <2>1, <2>2, <2>3, PrefixIsSeq
  <2> QED BY <2>1, <2>2, <2>4
<1>2. state' \in [Tabs -> States]
  BY <1>0 DEF Close, TypeOK, States
<1>3. /\ link' \in [Tabs -> {"closed", "opening", "open"}]
      /\ syncs' \in [Tabs -> Seq(Nat)] /\ acks' \in [Tabs -> Nat]
      /\ lastSent' \in [Tabs -> Nat] /\ second' \in [Tabs -> BOOLEAN]
      /\ announced' \in [Tabs -> BOOLEAN] /\ \A s \in Tabs : acks'[s] <= reached
  BY CloseTypes DEF Close
<1>4. UNCHANGED <<storeVars, cursor, buffered, asked, complete, target, watermark>>
  BY DEF Close
<1>5. TypeOK'
  BY <1>0, <1>1, <1>2, <1>3, <1>4, FramesAreEnvelopes DEF TypeOK, Envelope, storeVars
<1>6. FeedInv'
  BY <1>1, <1>3, <1>4, <1>5, Quiet DEF FeedInv, storeVars
<1> QED BY <1>4, <1>6 DEF TheFeed!vars, storeVars

\* A failed transaction leaves the event in the buffer and the store as it was.
LEMMA StoreFailsKeeps ==
    ASSUME FeedInv, NEW t \in Tabs, StoreFails(t)
    PROVE  FeedInv' /\ UNCHANGED TheFeed!vars
<1> USE DEF storeVars, dbVars, sessionVars
<1>0. TypeOK /\ UNCHANGED dbVars /\ faults' \in Nat
      /\ state' = [state EXCEPT ![t] = "reconnecting"]
  <2>1. TypeOK /\ faults \in Nat
    BY DEF FeedInv, TypeOK
  <2>2. UNCHANGED dbVars /\ Fault /\ state' = [state EXCEPT ![t] = "reconnecting"]
    BY DEF StoreFails
  <2> QED BY <2>1, <2>2 DEF Fault
<1>1. /\ reached \in Nat /\ Known \subseteq Nat /\ down \in [Tabs -> Seq(Frames)]
      /\ \A s \in Tabs : /\ buffered[s] \subseteq Known /\ cursor[s] <= reached
                         /\ committed[s] <= reached /\ acks[s] <= reached
      /\ storeCursor <= reached /\ reached <= Len(events) /\ Len(events) \in Nat
  BY <1>0, ServerLengths DEF FeedInv, TypeOK, Known
<1>2. PICK cur \in Nat, buf \in SUBSET Known, rest \in Seq(Frames) :
        /\ cur <= reached /\ DrainFails(t, cur, buf) /\ down' = [down EXCEPT ![t] = rest]
  <2>1. ASSUME MailboxEventFails(t), NEW n \in 0..Len(Tail(down[t])),
               down' = [down EXCEPT ![t] = SubSeq(Tail(down[t]), 1, n)]
        PROVE  \E cur \in Nat, buf \in SUBSET Known, rest \in Seq(Frames) :
                 /\ cur <= reached /\ DrainFails(t, cur, buf) /\ down' = [down EXCEPT ![t] = rest]
    <3>1. down[t] \in Seq(Frames) /\ down[t] # <<>>
      BY <1>1, <2>1 DEF MailboxEventFails
    <3>2. Head(down[t]) \in Frames /\ Tail(down[t]) \in Seq(Frames)
      BY <3>1, HeadTailProperties
    <3>3. Head(down[t]).seq \in Known
      BY <2>1, <3>2 DEF MailboxEventFails, Frames
    <3>4. buffered[t] \cup {Head(down[t]).seq} \in SUBSET Known /\ cursor[t] \in Nat
          /\ cursor[t] <= reached
      BY <1>0, <1>1, <3>3 DEF TypeOK
    <3>5. DrainFails(t, cursor[t], buffered[t] \cup {Head(down[t]).seq})
      BY <2>1 DEF MailboxEventFails
    <3>6. SubSeq(Tail(down[t]), 1, n) \in Seq(Frames)
      BY <2>1, <3>2, PrefixIsSeq
    <3> QED BY <2>1, <3>4, <3>5, <3>6
  <2>2. ASSUME AppliedFails(t), NEW n \in 0..Len(down[t]),
               down' = [down EXCEPT ![t] = SubSeq(down[t], 1, n)]
        PROVE  \E cur \in Nat, buf \in SUBSET Known, rest \in Seq(Frames) :
                 /\ cur <= reached /\ DrainFails(t, cur, buf) /\ down' = [down EXCEPT ![t] = rest]
    <3> DEFINE buf == {i \in buffered[t] : i > committed[t]}
    <3>1. buf \in SUBSET Known /\ committed[t] \in Nat /\ committed[t] <= reached
          /\ down[t] \in Seq(Frames)
      BY <1>0, <1>1 DEF TypeOK
    <3>2. DrainFails(t, committed[t], buf)
      BY <2>2 DEF AppliedFails
    <3>3. SubSeq(down[t], 1, n) \in Seq(Frames)
      BY <2>2, <3>1, PrefixIsSeq
    <3> HIDE DEF buf
    <3> QED BY <2>2, <3>1, <3>2, <3>3
  <2> QED BY <2>1, <2>2 DEF StoreFails
<1>3. down' \in [Tabs -> Seq(Frames)]
  BY <1>1, <1>2
<1>4. /\ UNCHANGED <<storeVars, complete, target, watermark>>
      /\ cursor' = [cursor EXCEPT ![t] = cur] /\ buffered' = [buffered EXCEPT ![t] = buf]
      /\ applying' = [applying EXCEPT ![t] = 0] /\ committed' = [committed EXCEPT ![t] = 0]
      /\ advanced' = [advanced EXCEPT ![t] = FALSE]
      /\ asked' = [asked EXCEPT ![t] = @ /\ applying[t] = 0]
  BY <1>2 DEF DrainFails
<1>5. asked' \in [Tabs -> BOOLEAN]
  <2> DEFINE idle == applying[t] = 0
  <2>1. asked' = [asked EXCEPT ![t] = @ /\ idle]
    BY <1>4
  <2> HIDE DEF idle
  <2> QED BY <1>0, <2>1, Zenon DEF TypeOK
<1>6. /\ link' \in [Tabs -> {"closed", "opening", "open"}]
      /\ syncs' \in [Tabs -> Seq(Nat)] /\ acks' \in [Tabs -> Nat]
      /\ lastSent' \in [Tabs -> Nat] /\ second' \in [Tabs -> BOOLEAN]
      /\ announced' \in [Tabs -> BOOLEAN] /\ \A s \in Tabs : acks'[s] <= reached
  <2>1. CASE Disconnect({t}) /\ EndSessions({t})
    BY <2>1, CloseTypes
  <2>2. CASE UNCHANGED <<link, syncs, acks, sessionVars>>
    BY <1>0, <1>1, <2>2 DEF TypeOK
  <2> QED BY <2>1, <2>2 DEF StoreFails
<1>7. \A s \in Tabs : /\ buffered'[s] \subseteq Known /\ cursor'[s] <= reached
                      /\ committed'[s] <= reached
  <2> TAKE s \in Tabs
  <2>1. /\ cursor'[s] \in {cursor[s], cur} /\ buffered'[s] \in {buffered[s], buf}
        /\ committed'[s] \in {committed[s], 0}
    BY <1>0, <1>4 DEF TypeOK
  <2>2. buffered'[s] \subseteq Known
    BY <1>1, <1>2, <2>1
  <2>3. cursor'[s] <= reached
    BY <1>1, <1>2, <2>1
  <2>4. committed'[s] <= reached
    <3>1. 0 <= reached
      BY <1>1
    <3> QED BY <1>1, <2>1, <3>1
  <2> QED BY <2>2, <2>3, <2>4
<1>8. TypeOK'
  <2>1. buffered' \in [Tabs -> SUBSET Nat] /\ cursor' \in [Tabs -> Nat]
        /\ applying' \in [Tabs -> Nat] /\ committed' \in [Tabs -> Nat]
        /\ advanced' \in [Tabs -> BOOLEAN] /\ state' \in [Tabs -> States]
    BY <1>0, <1>1, <1>4 DEF TypeOK, States
  <2> QED BY <1>0, <1>3, <1>4, <1>5, <1>6, <2>1, FramesAreEnvelopes DEF TypeOK, Envelope
<1>9. reached <= reached' /\ storeCursor' <= reached' /\ reached' <= Len(events)
      /\ reached' = reached
  BY <1>1, <1>4
<1>10. FeedInv'
  BY <1>0, <1>3, <1>6, <1>7, <1>8, <1>9, Kept
<1> QED BY <1>0, <1>4, <1>10 DEF TheFeed!vars

LEMMA ReloadKeeps ==
    ASSUME FeedInv, NEW t \in Tabs, Reload(t)
    PROVE  FeedInv' /\ UNCHANGED TheFeed!vars
<1> USE DEF storeVars, dbVars
<1>0. TypeOK /\ UNCHANGED <<dbVars, storeVars>> /\ faults' \in Nat
      /\ down' = [down EXCEPT ![t] = <<>>] /\ NewAdapter(t)
  <2>1. TypeOK /\ faults \in Nat
    BY DEF FeedInv, TypeOK
  <2>2. /\ UNCHANGED <<dbVars, storeVars>> /\ Fault
        /\ down' = [down EXCEPT ![t] = <<>>] /\ NewAdapter(t)
    BY DEF Reload
  <2> QED BY <2>1, <2>2 DEF Fault
<1>1. /\ reached \in Nat /\ down \in [Tabs -> Seq(Frames)]
      /\ \A s \in Tabs : /\ buffered[s] \subseteq Known /\ cursor[s] <= reached
                         /\ committed[s] <= reached
      /\ storeCursor <= reached /\ reached <= Len(events)
  BY <1>0 DEF FeedInv, TypeOK
<1>2. down' \in [Tabs -> Seq(Frames)]
  BY <1>0, <1>1
<1>3. /\ link' \in [Tabs -> {"closed", "opening", "open"}]
      /\ syncs' \in [Tabs -> Seq(Nat)] /\ acks' \in [Tabs -> Nat]
      /\ lastSent' \in [Tabs -> Nat] /\ second' \in [Tabs -> BOOLEAN]
      /\ announced' \in [Tabs -> BOOLEAN] /\ \A s \in Tabs : acks'[s] <= reached
  BY CloseTypes DEF Reload
<1>4. /\ cursor' \in [Tabs -> Nat] /\ buffered' \in [Tabs -> SUBSET Nat]
      /\ applying' \in [Tabs -> Nat] /\ committed' \in [Tabs -> Nat]
      /\ target' \in [Tabs -> Nat] /\ watermark' \in [Tabs -> Nat]
      /\ state' \in [Tabs -> States]
  BY <1>0 DEF NewAdapter, TypeOK, States
<1>5. /\ asked' \in [Tabs -> BOOLEAN] /\ complete' \in [Tabs -> BOOLEAN]
      /\ advanced' \in [Tabs -> BOOLEAN]
  BY <1>0 DEF NewAdapter, TypeOK
<1>6. TypeOK'
  BY <1>0, <1>2, <1>3, <1>4, <1>5, FramesAreEnvelopes DEF TypeOK, Envelope
<1>7. \A s \in Tabs : /\ buffered'[s] \subseteq Known /\ cursor'[s] <= reached
                      /\ committed'[s] <= reached
  BY <1>0, <1>1 DEF NewAdapter, TypeOK
<1>8. reached <= reached' /\ storeCursor' <= reached' /\ reached' <= Len(events)
      /\ reached' = reached
  BY <1>0, <1>1
<1>9. FeedInv'
  BY <1>0, <1>2, <1>3, <1>6, <1>7, <1>8, Kept
<1> QED BY <1>0, <1>9 DEF TheFeed!vars

LEMMA FailureKeeps ==
    ASSUME FeedInv, Failure
    PROVE  FeedInv' /\ UNCHANGED TheFeed!vars
<1>0. TypeOK /\ faults \in Nat
  BY DEF FeedInv, TypeOK
<1>1. CASE Crash
  <2>1. faults' \in Nat
    BY <1>0, <1>1 DEF Crash, Fault
  <2>2. outbox' \in Seq(Outbox) /\ Len(outbox') = Len(outbox)
    <3>1. outbox \in Seq(Outbox) /\ Len(outbox) = Len(events) /\ Len(events) \in Nat
      BY <1>0 DEF TypeOK
    <3>2. outbox' = [i \in 1..Len(outbox) |-> IF outbox[i] = "processing" THEN "stuck" ELSE outbox[i]]
      BY <1>1, <3>1 DEF Crash, SetRows, Known
    <3>3. \A i \in 1..Len(outbox) : outbox[i] \in Outbox
      BY <3>1
    <3>4. outbox' \in [1..Len(outbox) -> Outbox]
      BY <3>2, <3>3 DEF Outbox
    <3> QED BY <3>1, <3>2, <3>4, SeqDef
  <2> DEFINE T == {t \in Tabs : link[t] # "closed"}
  <2>3. T \in SUBSET Tabs /\ Close(T)
    BY <1>1 DEF Crash
  <2>4. UNCHANGED <<events, acked, applying, committed, advanced>>
    BY <1>1 DEF Crash
  <2> HIDE DEF T
  <2> QED BY <2>1, <2>2, <2>3, <2>4, CloseKeeps
<1>2. ASSUME NEW i \in Seqs, PublishFails(i), UNCHANGED clientVars
      PROVE  FeedInv' /\ UNCHANGED TheFeed!vars
  BY <1>2, WorkerKeeps
<1>3. ASSUME NEW t \in Tabs, Lose(t) PROVE FeedInv' /\ UNCHANGED TheFeed!vars
  <2>1. faults' \in Nat
    BY <1>0, <1>3 DEF Lose, Fault
  <2>2. Close({t}) /\ UNCHANGED <<dbVars, applying, committed, advanced>>
    BY <1>3 DEF Lose
  <2>3. outbox' \in Seq(Outbox) /\ Len(outbox') = Len(outbox)
    BY <1>0, <2>2 DEF TypeOK, dbVars
  <2> QED BY <2>1, <2>2, <2>3, CloseKeeps DEF dbVars
<1>4. ASSUME NEW t \in Tabs, ConnectFails(t), UNCHANGED serverVars
      PROVE  FeedInv' /\ UNCHANGED TheFeed!vars
  <2>1. UNCHANGED <<events, outbox, acked, lastSent, second, announced>>
    BY <1>4, ServerKept
  <2>2. faults' \in Nat /\ state' \in [Tabs -> States]
    BY <1>0, <1>4 DEF ConnectFails, Fault, TypeOK, States
  <2>3. UNCHANGED <<storeVars, cursor, buffered, asked, complete, target, watermark, applying,
                    committed, advanced, link, syncs, acks, down>>
    BY <1>4 DEF ConnectFails
  <2>4. TypeOK'
    BY <1>0, <2>1, <2>2, <2>3 DEF TypeOK, storeVars
  <2>5. FeedInv'
    BY <2>1, <2>3, <2>4, Quiet DEF FeedInv, storeVars
  <2> QED BY <2>1, <2>3, <2>5 DEF TheFeed!vars, storeVars
<1> QED BY <1>1, <1>2, <1>3, <1>4, StoreFailsKeeps, ReloadKeeps DEF Failure

-----------------------------------------------------------------------------
(* The theorems.                                                           *)

LEMMA StepKeeps ==
    ASSUME FeedInv, [Next]_vars
    PROVE  FeedInv' /\ [TheFeed!Next]_(TheFeed!vars)
<1>1. CASE UNCHANGED vars
  <2>1. UNCHANGED <<wireVars, serverVars, clientVars>>
    BY <1>1 DEF vars
  <2>2. UNCHANGED <<link, syncs, acks, down, faults, events, outbox, acked, lastSent, second,
                    announced, storeCursor, reached, cleared, state, cursor, buffered, asked,
                    complete, target, watermark, applying, committed, advanced>>
    BY <2>1 DEF wireVars, serverVars, dbVars, sessionVars, clientVars, storeVars, tabVars
  <2>3. TypeOK'
    BY <2>2 DEF FeedInv, TypeOK
  <2>4. FeedInv'
    BY <2>2, <2>3, Quiet DEF FeedInv, storeVars
  <2> QED BY <2>2, <2>4 DEF TheFeed!vars
<1>2. ASSUME NEW t \in Tabs, ClearHistory(t), UNCHANGED serverVars
      PROVE  FeedInv' /\ [TheFeed!Next]_(TheFeed!vars)
  BY <1>2, ClearKeeps DEF TheFeed!Next
<1>3. CASE WorkerStep
  BY <1>3, WorkerKeeps DEF WorkerStep
<1>4. CASE Failure
  BY <1>4, FailureKeeps
<1> QED BY <1>1, <1>2, <1>3, <1>4, ClientKeeps, SessionKeeps, WritersKeep DEF Next

LEMMA Starts ==
    ASSUME Init PROVE FeedInv /\ TheFeed!Init
<1>1. TypeOK
  <2>1. /\ link \in [Tabs -> {"closed", "opening", "open"}]
        /\ syncs \in [Tabs -> Seq(Nat)] /\ acks \in [Tabs -> Nat] /\ faults \in Nat
        /\ down \in [Tabs -> Seq(Envelope)]
    BY DEF Init, WireInit
  <2>2. /\ events \in Seq(Kinds) /\ outbox \in Seq(Outbox) /\ Len(outbox) = Len(events)
        /\ lastSent \in [Tabs -> Nat] /\ acked \in Nat
        /\ second \in [Tabs -> BOOLEAN] /\ announced \in [Tabs -> BOOLEAN]
    BY DEF Init, ServerInit
  <2>3. /\ storeCursor \in Nat /\ reached \in Nat /\ cleared \in BOOLEAN
        /\ state \in [Tabs -> States] /\ cursor \in [Tabs -> Nat]
        /\ buffered \in [Tabs -> SUBSET Nat] /\ asked \in [Tabs -> BOOLEAN]
        /\ complete \in [Tabs -> BOOLEAN] /\ advanced \in [Tabs -> BOOLEAN]
        /\ target \in [Tabs -> Nat] /\ watermark \in [Tabs -> Nat]
        /\ applying \in [Tabs -> Nat] /\ committed \in [Tabs -> Nat]
    BY DEF Init, ClientInit, States
  <2> QED BY <2>1, <2>2, <2>3 DEF TypeOK, Envelope
<1>2. down \in [Tabs -> Seq(Frames)]
  BY DEF Init, WireInit
<1>3. events = <<>> /\ Len(events) = 0
  BY DEF Init, ServerInit
<1>4. FeedInv
  BY <1>1, <1>2, <1>3 DEF Init, WireInit, ServerInit, ClientInit, FeedInv
<1> QED BY <1>3, <1>4 DEF Init, ServerInit, ClientInit, TheFeed!Init

\* Every event that a frame, a buffer or a drain names is in the mailbox, and neither
\* a cursor nor an acknowledgement, of a tab, on its way or in im_device_cursors, is
\* ahead of what the store has had.
THEOREM FeedInvariant == Spec => []FeedInv
<1>1. Init => FeedInv
  BY Starts
<1>2. FeedInv /\ [Next]_vars => FeedInv'
  BY StepKeeps
<1> QED BY <1>1, <1>2, PTL DEF Spec

\* The store takes the events of the mailbox one by one in their order, whichever tab
\* applies them and whatever is lost, and acknowledges none that it has not had:
\* server, wire and tabs implement Feed.
THEOREM FeedImplemented == Spec => ImplementsFeed
<1>1. Init => TheFeed!Init
  BY Starts
<1>2. FeedInv /\ [Next]_vars => [TheFeed!Next]_(TheFeed!vars)
  BY StepKeeps
<1> QED BY <1>1, <1>2, FeedInvariant, PTL DEF Spec, ImplementsFeed, TheFeed!Spec

-----------------------------------------------------------------------------
(* Nothing is skipped.                                                     *)

\* A tab that is not linked owes nothing, and one that asks from where it is neither.
LEMMA SkipUnlinked ==
    ASSUME NEW s \in Tabs, ~Linked(s)' PROVE SkipTab(s)'
BY DEF SkipTab

LEMMA SkipAsks ==
    ASSUME FeedInv, FeedInv', NEW s \in Tabs, syncs'[s] = Append(syncs[s], cursor'[s])
    PROVE  SkipTab(s)'
<1>1. syncs[s] \in Seq(Nat) /\ cursor'[s] \in Nat
  BY DEF FeedInv, TypeOK
<1>2. syncs'[s] # <<>> /\ syncs'[s][Len(syncs'[s])] = cursor'[s]
  BY <1>1, AppendProperties
<1> QED BY <1>1, <1>2 DEF SkipTab

\* What is coming stays so, while the cursor moves forward.
LEMMA SkipAdvances ==
    ASSUME FeedInv, FeedInv', NEW s \in Tabs, SkipTab(s),
           link'[s] = link[s], lastSent'[s] = lastSent[s], cursor'[s] >= cursor[s],
           \A i \in Nat : i > cursor'[s] /\ Coming(s, i) => Coming(s, i)',
           syncs'[s] = syncs[s] \/ syncs'[s] = Append(syncs[s], cursor'[s])
    PROVE  SkipTab(s)'
<1>1. /\ cursor[s] \in Nat /\ cursor'[s] \in Nat /\ lastSent[s] \in Nat
      /\ syncs[s] \in Seq(Nat)
  BY DEF FeedInv, TypeOK
<1>2. CASE syncs'[s] = Append(syncs[s], cursor'[s])
  BY <1>2, SkipAsks
<1>3. CASE syncs'[s] = syncs[s] /\ Linked(s)
  <2>1. CASE syncs[s] # <<>>
    <3>1. syncs[s][Len(syncs[s])] \in Nat /\ syncs[s][Len(syncs[s])] <= cursor[s]
      BY <1>1, <1>3, <2>1 DEF SkipTab
    <3> QED BY <1>1, <1>3, <2>1, <3>1 DEF SkipTab
  <2>2. CASE syncs[s] = <<>>
    <3>1. \A i \in (cursor'[s] + 1)..lastSent'[s] : Coming(s, i)'
      <4> TAKE i \in (cursor'[s] + 1)..lastSent'[s]
      <4>1. i \in Nat /\ i > cursor'[s] /\ i \in (cursor[s] + 1)..lastSent[s]
        BY <1>1
      <4>2. Coming(s, i)
        BY <1>3, <2>2, <4>1 DEF SkipTab
      <4> QED BY <4>1, <4>2
    <3> QED BY <1>3, <2>2, <3>1 DEF SkipTab
  <2> QED BY <2>1, <2>2
<1>4. CASE ~Linked(s)
  BY <1>4, SkipUnlinked DEF Linked
<1> QED BY <1>2, <1>3, <1>4

LEMMA SkipSame ==
    ASSUME NEW s \in Tabs, SkipTab(s),
           link'[s] = link[s], lastSent'[s] = lastSent[s], cursor'[s] = cursor[s],
           syncs'[s] = syncs[s], buffered'[s] = buffered[s], down'[s] = down[s]
    PROVE  SkipTab(s)'
BY DEF SkipTab, Linked, Coming

\* What was coming is still coming when a frame that is not it has been handled.
LEMMA TailComing ==
    ASSUME FeedInv, NEW s \in Tabs, NEW i \in Nat, Coming(s, i), down[s] # <<>>,
           Head(down[s]) # Frame("event", i) \/ i \in buffered'[s],
           down'[s] = Tail(down[s]), i \in buffered[s] => i \in buffered'[s]
    PROVE  Coming(s, i)'
<1>1. down[s] \in Seq(Frames)
  BY DEF FeedInv
<1>2. CASE i \in buffered'[s]
  BY <1>2 DEF Coming
<1>3. CASE i \notin buffered'[s]
  <2>1. PICK k \in 1..Len(down[s]) : down[s][k] = Frame("event", i)
    BY <1>3 DEF Coming
  <2>2. k # 1
    BY <1>1, <1>3, <2>1
  <2>3. k - 1 \in 1..Len(Tail(down[s])) /\ Tail(down[s])[k - 1] = down[s][k]
    BY <1>1, <2>1, <2>2
  <2> QED BY <2>1, <2>3 DEF Coming
<1> QED BY <1>2, <1>3

\* A drain moves the cursor forward and keeps all that is ahead of it.
LEMMA DrainSkips ==
    ASSUME FeedInv, FeedInv', SkipInv, UNCHANGED serverVars, NEW t \in Tabs,
           NEW cur \in Nat, cur >= cursor[t], NEW buf, NEW some \in BOOLEAN,
           Drain(t, cur, buf, some),
           \A s \in Tabs \ {t} : down'[s] = down[s],
           \A i \in Nat : i > cur /\ Coming(t, i) => Coming(t, i)'
    PROVE  SkipInv'
<1>0. TypeOK /\ lastSent' = lastSent
  BY DEF FeedInv, serverVars, sessionVars
<1>1. cursor' = [cursor EXCEPT ![t] = cur] /\ buffered' = [buffered EXCEPT ![t] = buf]
  BY DEF Drain
<1>2. /\ link' = link
      /\ syncs' = syncs \/ syncs' = [syncs EXCEPT ![t] = Append(@, cur)]
  BY DEF Drain, ApplyEvent, EndDrain
<1>3. SkipTab(t)'
  BY <1>0, <1>1, <1>2, SkipAdvances DEF TypeOK, SkipInv
<1>4. ASSUME NEW s \in Tabs \ {t} PROVE SkipTab(s)'
  BY <1>0, <1>1, <1>2, SkipSame DEF TypeOK, SkipInv
<1> QED BY <1>3, <1>4 DEF SkipInv

\* A pass that has not failed has sent every event that it counts.
LEMMA PassSends ==
    ASSUME FeedInv, NEW a \in Nat, NEW i \in (a+1)..SentThrough(a, Len(events))
    PROVE  /\ Sends(a, Len(events)) \in Seq(Frames)
           /\ \E k \in 1..Len(Sends(a, Len(events))) : Sends(a, Len(events))[k] = Frame("event", i)
<1> DEFINE n == Len(events)  c == Cardinality(Sendable(a, n))
<1>1. n \in Nat /\ Sends(a, n) \in Seq(Frames)
  BY SendsFrames DEF FeedInv, TypeOK
<1>2. n > a /\ SentThrough(a, n) = n /\ \A j \in (a+1)..n : Deliverable(j)
  BY <1>1 DEF SentThrough
<1>3. Sendable(a, n) = (a+1)..n
  BY <1>1, <1>2 DEF Sendable
<1>4. c = n - a
  <2>1. a + 1 \in Int /\ n \in Int
    BY <1>1
  <2>2. Cardinality((a+1)..n) = IF a + 1 > n THEN 0 ELSE n - (a+1) + 1
    <3> HIDE DEF n
    <3> QED BY <2>1, FS_Interval, Zenon
  <2>3. Cardinality((a+1)..n) = n - a
    <3> HIDE DEF n
    <3> QED BY <1>1, <1>2, <2>2
  <2> QED BY <1>3, <2>3
<1>5. Sends(a, n) = [k \in 1..(n - a) |-> Frame("event", a + k)]
  BY <1>4 DEF Sends
<1>6. Len(Sends(a, n)) = n - a
  BY <1>1, <1>2, <1>5
<1>7. i - a \in 1..(n - a) /\ a + (i - a) = i
  BY <1>1, <1>2
<1>8. Sends(a, n)[i - a] = Frame("event", i)
  BY <1>5, <1>7
<1> QED BY <1>1, <1>6, <1>7, <1>8

\* What a pass appends comes after what was on its way.
LEMMA PassComes ==
    ASSUME FeedInv, NEW t \in Tabs, NEW a \in Nat,
           NEW before \in Seq(Frames), NEW after \in Seq(Frames),
           Pass(t, a, before, after), UNCHANGED buffered, NEW i \in Nat,
           Coming(t, i) \/ i \in (a+1)..SentThrough(a, Len(events))
    PROVE  Coming(t, i)'
<1> DEFINE new == Sends(a, Len(events))
<1>1. down[t] \in Seq(Frames) /\ new \in Seq(Frames)
  BY SendsFrames DEF FeedInv
<1>2. down'[t] = down[t] \o before \o new \o after
  BY DEF Pass, FeedInv
<1> HIDE DEF new
<1>3. CASE i \in buffered[t]
  BY <1>3 DEF Coming
<1>4. ASSUME NEW k \in 1..Len(down[t]), down[t][k] = Frame("event", i)
      PROVE  Coming(t, i)'
  <2>1. k \in 1..Len(down'[t]) /\ down'[t][k] = down[t][k]
    BY <1>1, <1>2, ConcatProperties
  <2> QED BY <1>4, <2>1 DEF Coming
<1>5. ASSUME NEW k \in 1..Len(new), new[k] = Frame("event", i)
      PROVE  Coming(t, i)'
  <2> DEFINE d == down[t] \o before
  <2>1. d \in Seq(Frames) /\ d \o new \in Seq(Frames)
    BY <1>1, ConcatProperties
  <2>2. Len(d) + k \in 1..Len(d \o new) /\ (d \o new)[Len(d) + k] = new[k]
    BY <1>1, <2>1, ConcatProperties
  <2>3. Len(d) + k \in 1..Len((d \o new) \o after) /\ ((d \o new) \o after)[Len(d) + k] = new[k]
    BY <1>1, <2>1, <2>2, ConcatProperties
  <2> QED BY <1>2, <1>5, <2>3 DEF Coming
<1>6. CASE i \in (a+1)..SentThrough(a, Len(events))
  BY <1>5, <1>6, PassSends DEF new
<1> QED BY <1>3, <1>4, <1>5, <1>6 DEF Coming

LEMMA LastOfTail ==
    ASSUME NEW s \in Seq(Nat), s # <<>>, Tail(s) # <<>>
    PROVE  Tail(s)[Len(Tail(s))] = s[Len(s)]
<1> DEFINE r == Tail(s)  n == Len(s)
<1>1. n \in Nat \ {0} /\ r \in Seq(Nat) /\ Len(r) = n - 1
  BY HeadTailProperties, EmptySeq
<1>2. Len(r) \in Nat \ {0}
  BY <1>1, EmptySeq
<1>3. \A k \in 1..(n - 1) : r[k] = s[k + 1]
  OBVIOUS
<1> HIDE DEF r, n
<1>4. n - 1 \in 1..(n - 1) /\ (n - 1) + 1 = n
  BY <1>1, <1>2
<1>5. r[n - 1] = s[n]
  BY <1>3, <1>4
<1> QED BY <1>1, <1>5 DEF r, n

\* A session sends what it counts, and a request begins no further than the cursor.
LEMMA SessionSkips ==
    ASSUME FeedInv, FeedInv', SkipInv, NEW t \in Tabs, SessionStep(t)
    PROVE  SkipInv'
<1> USE DEF dbVars, sessionVars
<1>0. TypeOK /\ UNCHANGED <<cursor, buffered>>
  BY DEF FeedInv, SessionStep, clientVars, tabVars
<1>1. ASSUME NEW a \in Nat, NEW before \in Seq(Frames), NEW after \in Seq(Frames),
             Pass(t, a, before, after), UNCHANGED link,
             \A s \in Tabs \ {t} : syncs'[s] = syncs[s],
             Linked(t) /\ syncs'[t] # <<>> => syncs'[t][Len(syncs'[t])] <= cursor[t],
             Linked(t) /\ syncs'[t] = <<>> =>
                a <= cursor[t] \/ \A i \in (cursor[t] + 1)..a : Coming(t, i)
      PROVE  SkipInv'
  <2>1. ASSUME NEW s \in Tabs \ {t} PROVE SkipTab(s)'
    <3>1. down'[s] = down[s] /\ lastSent'[s] = lastSent[s]
      BY <1>0, <1>1 DEF Pass, TypeOK
    <3> QED BY <1>0, <1>1, <3>1, SkipSame DEF SkipInv
  <2>2. SkipTab(t)'
    <3>1. lastSent'[t] = SentThrough(a, Len(events)) /\ cursor[t] \in Nat /\ lastSent'[t] \in Nat
      BY <1>0, <1>1, SentThroughType, ServerLengths DEF Pass, TypeOK
    <3>2. ASSUME Linked(t), syncs'[t] = <<>>, NEW i \in (cursor[t] + 1)..lastSent'[t]
          PROVE  Coming(t, i)'
      <4>1. i \in Nat /\ (i \in (a+1)..SentThrough(a, Len(events)) \/ i <= a)
        BY <3>1
      <4>2. i \in (a+1)..SentThrough(a, Len(events)) \/ i \in (cursor[t] + 1)..a
        BY <3>1, <4>1
      <4>3. CASE i \in (a+1)..SentThrough(a, Len(events))
        BY <1>0, <1>1, <4>1, <4>3, PassComes
      <4>4. CASE i \in (cursor[t] + 1)..a
        <5>1. Coming(t, i)
          BY <1>1, <3>1, <3>2, <4>4
        <5> QED BY <1>0, <1>1, <4>1, <5>1, PassComes
      <4> QED BY <4>2, <4>3, <4>4
    <3> QED BY <1>0, <1>1, <3>1, <3>2 DEF SkipTab, Linked
  <2> QED BY <2>1, <2>2 DEF SkipInv
<1>2. <<>> \in Seq(Frames) /\ Len(events) \in Nat
  BY <1>0, ServerLengths
<1>3. CASE HandleSync(t)
  <2>1. syncs[t] \in Seq(Nat) /\ syncs[t] # <<>> /\ Linked(t) /\ cursor[t] \in Nat
    BY <1>0, <1>3 DEF HandleSync, TypeOK
  <2>2. Head(syncs[t]) \in Nat /\ syncs'[t] = Tail(syncs[t])
        /\ \A s \in Tabs \ {t} : syncs'[s] = syncs[s]
    BY <1>0, <1>3, <2>1 DEF HandleSync, TypeOK
  <2>3. syncs[t][Len(syncs[t])] <= cursor[t]
    BY <2>1 DEF SkipInv, SkipTab
  <2>4. CASE Tail(syncs[t]) = <<>>
    <3>1. Len(Tail(syncs[t])) = 0 /\ Len(Tail(syncs[t])) = Len(syncs[t]) - 1
      BY <2>1, <2>4, HeadTailProperties
    <3>2. Len(syncs[t]) = 1 /\ Head(syncs[t]) = syncs[t][Len(syncs[t])]
      BY <2>1, <3>1
    <3> QED BY <1>1, <1>2, <1>3, <2>2, <2>3, <2>4, <3>2, OtherFrames DEF HandleSync
  <2>5. CASE Tail(syncs[t]) # <<>>
    <3>1. Tail(syncs[t])[Len(Tail(syncs[t]))] = syncs[t][Len(syncs[t])]
      BY <2>1, <2>5, LastOfTail
    <3> QED BY <1>1, <1>2, <1>3, <2>2, <2>3, <2>5, <3>1, OtherFrames DEF HandleSync
  <2> QED BY <2>4, <2>5
<1>4. lastSent[t] \in Nat /\ SentThrough(lastSent[t], Len(events)) \in Nat
  BY <1>0, <1>2, SentThroughType DEF TypeOK
<1>5. ASSUME UNCHANGED <<link, syncs>>,
             NEW after \in Seq(Frames), Pass(t, lastSent[t], <<>>, after)
      PROVE  SkipInv'
  BY <1>0, <1>1, <1>2, <1>4, <1>5 DEF SkipInv, SkipTab
<1>6. CASE CompleteSync(t)
  <2>1. <<Frame("completed", SentThrough(lastSent[t], Len(events)))>> \in Seq(Frames)
    BY <1>4, OtherFrames
  <2> QED BY <1>5, <1>6, <2>1 DEF CompleteSync
<1>7. CASE HandleAnnouncement(t)
  BY <1>2, <1>5, <1>7 DEF HandleAnnouncement
<1>8. CASE HandleAck(t)
  BY <1>0, <1>8, SkipSame DEF HandleAck, SkipInv
<1> QED BY <1>3, <1>6, <1>7, <1>8 DEF SessionStep

\* A drain goes on with the event after its cursor, and only moves the cursor up to it.
LEMMA DrainStaysAhead ==
    ASSUME FeedInv, DrainInv, [Next]_vars PROVE DrainInv'
<1>0. TypeOK /\ \A s \in Tabs : applying[s] \in Nat /\ cursor[s] \in Nat
  BY DEF FeedInv, TypeOK
<1>1. ASSUME UNCHANGED <<applying, cursor>> PROVE DrainInv'
  BY <1>1 DEF DrainInv
<1>2. ASSUME NEW t \in Tabs,
             \A s \in Tabs \ {t} : applying'[s] = applying[s] /\ cursor'[s] = cursor[s],
             applying'[t] # 0 => applying'[t] > cursor'[t]
      PROVE  DrainInv'
  BY <1>2 DEF DrainInv
<1>3. ASSUME NEW t \in Tabs, ClientStep(t) PROVE DrainInv'
  <2>1. CASE Connect(t)
    BY <1>0, <1>2, <2>1 DEF Connect, MayConnect, TypeOK
  <2>2. CASE Open(t) \/ SnapshotStarted(t) \/ SnapshotCompleted(t)
    BY <1>1, <2>2 DEF Open, SnapshotStarted, SnapshotCompleted
  <2>3. ASSUME NEW cur \in Nat, NEW buf, NEW some, Drain(t, cur, buf, some) PROVE DrainInv'
    <3>1. cursor' = [cursor EXCEPT ![t] = cur]
          /\ (applying' = [applying EXCEPT ![t] = cur + 1] \/ applying' = [applying EXCEPT ![t] = 0])
      BY <2>3 DEF Drain, ApplyEvent, EndDrain
    <3> QED BY <1>0, <1>2, <3>1 DEF TypeOK
  <2>4. CASE MailboxEvent(t)
    BY <1>0, <1>1, <2>3, <2>4 DEF MailboxEvent, clientVars, tabVars
  <2>5. CASE Applied(t)
    BY <1>0, <2>3, <2>5 DEF Applied, TypeOK
  <2>6. CASE StoreBehind(t)
    BY <1>0, <1>2, <2>6 DEF StoreBehind, EndDrain, TypeOK
  <2> QED BY <1>3, <2>1, <2>2, <2>4, <2>5, <2>6 DEF ClientStep
<1>4. CASE \E t \in Tabs : SessionStep(t)
  BY <1>1, <1>4 DEF SessionStep, clientVars, tabVars
<1>5. CASE WorkerStep \/ Others
  BY <1>1, <1>5 DEF WorkerStep, Others, clientVars, tabVars
<1>6. CASE Failure
  <2>1. CASE Crash \/ \E t \in Tabs : Lose(t) \/ ConnectFails(t)
    BY <1>1, <2>1 DEF Crash, Lose, Close, ConnectFails
  <2>2. CASE \E i \in Seqs : PublishFails(i) /\ UNCHANGED clientVars
    BY <1>1, <2>2 DEF clientVars, tabVars
  <2>3. ASSUME NEW t \in Tabs, StoreFails(t) PROVE DrainInv'
    <3>1. /\ \E cur : cursor' = [cursor EXCEPT ![t] = cur]
          /\ applying' = [applying EXCEPT ![t] = 0]
      BY <2>3 DEF StoreFails, MailboxEventFails, AppliedFails, DrainFails
    <3> QED BY <1>0, <1>2, <3>1 DEF TypeOK
  <2>4. ASSUME NEW t \in Tabs, Reload(t) PROVE DrainInv'
    BY <1>0, <1>2, <2>4 DEF Reload, NewAdapter, TypeOK
  <2> QED BY <1>6, <2>1, <2>2, <2>3, <2>4 DEF Failure
<1>7. ASSUME NEW t \in Tabs, ClearHistory(t) PROVE DrainInv'
  BY <1>0, <1>2, <1>7 DEF ClearHistory, DrainInv, TypeOK
<1>8. CASE UNCHANGED vars
  BY <1>1, <1>8 DEF vars, clientVars, tabVars
<1> QED BY <1>3, <1>4, <1>5, <1>6, <1>7, <1>8 DEF Next

\* A tab drops only frames that it is past, and keeps what is ahead of it.
LEMMA ClientSkips ==
    ASSUME FeedInv, FeedInv', DrainInv, SkipInv, NEW t \in Tabs, ClientStep(t)
    PROVE  SkipInv'
<1>0. /\ TypeOK /\ UNCHANGED serverVars /\ lastSent' = lastSent
      /\ down[t] \in Seq(Frames)
      /\ \A s \in Tabs : cursor[s] \in Nat /\ buffered[s] \subseteq Nat
  BY ServerKept DEF ClientStep, FeedInv, TypeOK
<1>1. ASSUME UNCHANGED <<link, syncs, cursor, buffered>>, NEW type, type # "event", Handle(t, type)
      PROVE  SkipInv'
  <2>1. ASSUME NEW s \in Tabs \ {t} PROVE SkipTab(s)'
    BY <1>0, <1>1, <2>1, SkipSame DEF SkipInv, Handle, TypeOK
  <2>2. ASSUME NEW i \in Nat, Coming(t, i) PROVE Coming(t, i)'
    <3>1. Head(down[t]) # Frame("event", i) /\ down'[t] = Tail(down[t]) /\ down[t] # <<>>
      BY <1>0, <1>1 DEF Handle, Frame, TypeOK
    <3> QED BY <1>1, <2>2, <3>1, TailComing
  <2>3. SkipTab(t)'
    BY <1>0, <1>1, <2>2, SkipAdvances DEF SkipInv
  <2> QED BY <2>1, <2>3 DEF SkipInv
<1>2. CASE Connect(t)
  <2>1. ASSUME NEW s \in Tabs \ {t} PROVE SkipTab(s)'
    BY <1>0, <1>2, <2>1, SkipSame DEF SkipInv, Connect, TypeOK
  <2>2. SkipTab(t)'
    BY <1>0, <1>2, SkipUnlinked DEF Connect, TypeOK, Linked
  <2> QED BY <2>1, <2>2 DEF SkipInv
<1>3. CASE Open(t)
  <2>1. ASSUME NEW s \in Tabs \ {t} PROVE SkipTab(s)'
    BY <1>0, <1>3, <2>1, SkipSame DEF SkipInv, Open, TypeOK
  <2>2. SkipTab(t)'
    BY <1>0, <1>3, SkipAsks DEF Open, TypeOK
  <2> QED BY <2>1, <2>2 DEF SkipInv
<1>4. CASE SnapshotStarted(t)
  BY <1>1, <1>4 DEF SnapshotStarted
<1>5. CASE SnapshotCompleted(t)
  BY <1>1, <1>5 DEF SnapshotCompleted
<1>6. CASE MailboxEvent(t)
  <2> DEFINE seq == Head(down[t]).seq
  <2>1. /\ Handle(t, "event") /\ down[t] # <<>> /\ down'[t] = Tail(down[t])
        /\ \A s \in Tabs \ {t} : down'[s] = down[s]
    BY <1>0, <1>6 DEF MailboxEvent, Handle, TypeOK
  <2>2. seq \in Nat
    BY <1>0, <2>1, HandleFrames DEF Frames
  <2>3. CASE Drain(t, cursor[t], buffered[t] \cup {seq}, FALSE)
    <3>1. buffered'[t] = buffered[t] \cup {seq}
      BY <1>0, <2>3 DEF Drain, TypeOK
    <3>2. \A i \in Nat : Coming(t, i) => Coming(t, i)'
      <4> TAKE i \in Nat
      <4>1. Head(down[t]) # Frame("event", i) \/ i \in buffered'[t]
        BY <3>1 DEF Frame
      <4> QED BY <2>1, <3>1, <4>1, TailComing
    <3>3. cursor[t] \in Nat /\ cursor[t] >= cursor[t]
      BY <1>0
    <3> QED BY <1>0, <2>1, <2>3, <3>2, <3>3, DrainSkips
  <2>4. CASE seq <= cursor[t] /\ UNCHANGED <<clientVars, link, syncs, acks, faults>>
    <3>1. UNCHANGED <<cursor, buffered, link, syncs>>
      BY <2>4 DEF clientVars, tabVars
    <3>2. \A i \in Nat : i > cursor'[t] /\ Coming(t, i) => Coming(t, i)'
      <4> SUFFICES ASSUME NEW i \in Nat, i > cursor'[t], Coming(t, i) PROVE Coming(t, i)'
        OBVIOUS
      <4>1. cursor[t] \in Nat /\ i # seq
        BY <1>0, <2>2, <2>4, <3>1
      <4>2. Head(down[t]) # Frame("event", i)
        BY <4>1 DEF Frame
      <4> QED BY <2>1, <3>1, <4>2, TailComing
    <3>3. SkipTab(t)'
      BY <1>0, <3>1, <3>2, SkipAdvances DEF SkipInv
    <3>4. ASSUME NEW s \in Tabs \ {t} PROVE SkipTab(s)'
      BY <1>0, <2>1, <3>1, <3>4, SkipSame DEF SkipInv
    <3> QED BY <3>3, <3>4 DEF SkipInv
  <2> QED BY <1>6, <2>3, <2>4 DEF MailboxEvent
<1>7. CASE Applied(t)
  <2> DEFINE buf == {i \in buffered[t] : i > committed[t]}
  <2>1. Drain(t, committed[t], buf, TRUE) /\ UNCHANGED down /\ committed[t] \in Nat
    BY <1>0, <1>7 DEF Applied, TypeOK
  <2>2. CASE committed[t] >= cursor[t]
    <3>1. buffered'[t] = buf
      BY <1>0, <2>1 DEF Drain, TypeOK
    <3>2. \A i \in Nat : i > committed[t] /\ Coming(t, i) => Coming(t, i)'
      BY <2>1, <3>1 DEF Coming
    <3> HIDE DEF buf
    <3> QED BY <1>0, <2>1, <2>2, <3>2, DrainSkips
  <2>3. committed[t] >= cursor[t]
    <3>1. applying[t] \in Nat /\ cursor[t] \in Nat /\ committed[t] \in Nat
      BY <1>0 DEF TypeOK
    <3> QED BY <1>7, <3>1 DEF Applied, DrainInv
  <2> QED BY <2>2, <2>3
<1>8. CASE StoreBehind(t)
  <2>1. /\ UNCHANGED <<cursor, buffered, down, link>>
        /\ syncs' = syncs \/ syncs' = [syncs EXCEPT ![t] = Append(@, cursor[t])]
    BY <1>8 DEF StoreBehind, EndDrain
  <2>2. \A i \in Nat : Coming(t, i) => Coming(t, i)'
    BY <2>1 DEF Coming
  <2>3. SkipTab(t)'
    <3>1. syncs'[t] = syncs[t] \/ syncs'[t] = Append(syncs[t], cursor'[t])
      BY <1>0, <2>1 DEF TypeOK
    <3>2. cursor'[t] >= cursor[t] /\ link'[t] = link[t] /\ lastSent'[t] = lastSent[t]
      BY <1>0, <2>1
    <3> QED BY <2>2, <3>1, <3>2, SkipAdvances DEF SkipInv
  <2>4. ASSUME NEW s \in Tabs \ {t} PROVE SkipTab(s)'
    BY <1>0, <2>1, <2>4, SkipSame DEF SkipInv, TypeOK
  <2> QED BY <2>3, <2>4 DEF SkipInv
<1> QED BY <1>2, <1>3, <1>4, <1>5, <1>6, <1>7, <1>8 DEF ClientStep

\* A connection that is lost takes with it what was counted as sent.
LEMMA FailureSkips ==
    ASSUME FeedInv, FeedInv', SkipInv, Failure
    PROVE  SkipInv'
<1>0. TypeOK
  BY DEF FeedInv
<1>1. ASSUME NEW T \in SUBSET Tabs, Close(T) PROVE SkipInv'
  <2>1. ASSUME NEW s \in T PROVE SkipTab(s)'
    BY <1>1, <2>1, SkipUnlinked DEF Close, Disconnect, Linked
  <2>2. ASSUME NEW s \in Tabs \ T PROVE SkipTab(s)'
    BY <1>1, <2>2, SkipSame DEF Close, Disconnect, LoseFrames, EndSessions, SkipInv
  <2> QED BY <2>1, <2>2 DEF SkipInv
<1>2. CASE Crash
  <2> DEFINE T == {t \in Tabs : link[t] # "closed"}
  <2>1. T \in SUBSET Tabs /\ Close(T)
    BY <1>2 DEF Crash
  <2> HIDE DEF T
  <2> QED BY <1>1, <2>1
<1>3. ASSUME NEW t \in Tabs, Lose(t) PROVE SkipInv'
  BY <1>1, <1>3 DEF Lose
<1>4. ASSUME NEW i \in Seqs, PublishFails(i), UNCHANGED clientVars PROVE SkipInv'
  <2>1. UNCHANGED <<link, lastSent, cursor, syncs, buffered, down>>
    BY <1>4 DEF PublishFails, clientVars, tabVars
  <2> QED BY <2>1, SkipSame DEF SkipInv
<1>5. ASSUME NEW t \in Tabs, ConnectFails(t), UNCHANGED serverVars PROVE SkipInv'
  <2>1. UNCHANGED <<link, lastSent, cursor, syncs, buffered, down>>
    BY <1>5 DEF ConnectFails, serverVars, sessionVars
  <2> QED BY <2>1, SkipSame DEF SkipInv
<1>6. ASSUME NEW t \in Tabs, StoreFails(t) PROVE SkipInv'
  <2>1. /\ \E cur, buf : cursor' = [cursor EXCEPT ![t] = cur] /\ buffered' = [buffered EXCEPT ![t] = buf]
        /\ \E rest : down' = [down EXCEPT ![t] = rest]
    BY <1>6 DEF StoreFails, MailboxEventFails, AppliedFails, DrainFails
  <2>2. \A s \in Tabs \ {t} : link'[s] = link[s] /\ syncs'[s] = syncs[s] /\ lastSent'[s] = lastSent[s]
    BY <1>0, <1>6 DEF StoreFails, Disconnect, EndSessions, sessionVars
  <2>3. ~Linked(t)'
    BY <1>0, <1>6 DEF StoreFails, Disconnect, Linked
  <2>4. ASSUME NEW s \in Tabs \ {t} PROVE SkipTab(s)'
    BY <1>0, <2>1, <2>2, <2>4, SkipSame DEF SkipInv, TypeOK
  <2> QED BY <2>3, <2>4, SkipUnlinked DEF SkipInv
<1>7. ASSUME NEW t \in Tabs, Reload(t) PROVE SkipInv'
  <2>1. ASSUME NEW s \in Tabs \ {t} PROVE SkipTab(s)'
    BY <1>0, <1>7, <2>1, SkipSame DEF Reload, Disconnect, EndSessions, NewAdapter, SkipInv, TypeOK
  <2>2. ~Linked(t)'
    BY <1>7 DEF Reload, Disconnect, Linked
  <2> QED BY <2>1, <2>2, SkipUnlinked DEF SkipInv
<1> QED BY <1>2, <1>3, <1>4, <1>5, <1>6, <1>7 DEF Failure

LEMMA StepSkips ==
    ASSUME FeedInv, DrainInv, SkipInv, [Next]_vars PROVE SkipInv'
<1>0. FeedInv' /\ TypeOK
  BY StepKeeps DEF FeedInv
<1>1. ASSUME UNCHANGED <<link, lastSent, cursor, syncs, buffered, down>> PROVE SkipInv'
  BY <1>1, SkipSame DEF SkipInv
<1>2. CASE UNCHANGED vars
  BY <1>1, <1>2 DEF vars, wireVars, serverVars, sessionVars, clientVars, tabVars
<1>3. CASE WorkerStep
  BY <1>1, <1>3 DEF WorkerStep, ClaimOutbox, RecoverOutbox, Publish, wireVars, sessionVars,
                    clientVars, tabVars
<1>4. CASE Others
  BY <1>1, <1>4 DEF Others, PersistMessage, SystemCard, RecallMessage, DeleteMessage, RecordEvent,
                    wireVars, sessionVars, clientVars, tabVars
<1>5. ASSUME NEW t \in Tabs, ClearHistory(t), UNCHANGED serverVars PROVE SkipInv'
  <2>1. /\ UNCHANGED <<link, down, lastSent>> /\ cursor' = [cursor EXCEPT ![t] = 0]
        /\ buffered' = [buffered EXCEPT ![t] = {}]
        /\ syncs' = IF Linked(t) THEN [syncs EXCEPT ![t] = Append(@, 0)] ELSE syncs
    BY <1>5 DEF ClearHistory, serverVars, sessionVars
  <2>2. ASSUME NEW s \in Tabs \ {t} PROVE SkipTab(s)'
    BY <1>0, <2>1, <2>2, SkipSame DEF SkipInv, TypeOK
  <2>3. SkipTab(t)'
    BY <1>0, <2>1, SkipAsks, SkipUnlinked DEF TypeOK, Linked
  <2> QED BY <2>2, <2>3 DEF SkipInv
<1>6. CASE Failure
  BY <1>0, <1>6, FailureSkips
<1> QED BY <1>0, <1>2, <1>3, <1>4, <1>5, <1>6, ClientSkips, SessionSkips DEF Next

\* Every event that a session counts as sent is behind the tab's cursor, in its buffer or
\* on its way to it, unless the tab has asked for it again: through lost connections,
\* failed transactions, several tabs and a history that is cleared, no event is skipped.
THEOREM NoneSkipped == Spec => []NothingSkipped
<1>1. Init => DrainInv /\ SkipInv
  BY DEF Init, WireInit, ClientInit, DrainInv, SkipInv, SkipTab, Linked
<1>2. FeedInv /\ DrainInv /\ SkipInv /\ [Next]_vars => DrainInv' /\ SkipInv'
  BY DrainStaysAhead, StepSkips
<1>3. FeedInv /\ SkipInv => NothingSkipped
  <2> SUFFICES ASSUME FeedInv, SkipInv, NEW t \in Tabs, Linked(t), syncs[t] = <<>>,
                      NEW i \in Known, cursor[t] < i, i <= lastSent[t]
               PROVE  Coming(t, i)
    BY DEF NothingSkipped
  <2>1. cursor[t] \in Nat /\ lastSent[t] \in Nat /\ i \in Nat
    BY DEF FeedInv, TypeOK, Known
  <2> QED BY <2>1 DEF SkipInv, SkipTab
<1> QED BY <1>1, <1>2, <1>3, FeedInvariant, PTL DEF Spec

-----------------------------------------------------------------------------
(* A snapshot is complete: what holds of the frames on their way.          *)

\* It stays so when fewer marks can be reached and more events are there.
LEMMA CoversMore ==
    ASSUME NEW d, NEW w, NEW n, w <= n, NEW k \in Nat, NEW seq, NEW S, NEW T,
           \A j \in 1..(k-1) : d[j].type = "started" => d[j].seq <= n,
           \A v \in T : v <= n => v \in S, Covers(d, w, k, seq, S)
    PROVE  Covers(d, w, k, seq, T)
<1> SUFFICES ASSUME NEW j \in 0..(k-1), Begins(d, j, k), MarkAt(d, w, j) \in T
             PROVE  MarkAt(d, w, j) <= seq
  BY DEF Covers
<1>1. MarkAt(d, w, j) <= n
  BY DEF Begins, MarkAt
<1> QED BY <1>1 DEF Covers

LEMMA MarkedMore ==
    ASSUME NEW d \in Seq(Envelope), NEW w \in Nat, NEW S, NEW T, NEW n \in Nat, NEW m \in Nat, n <= m,
           \A v \in T : v <= n => v \in S, Marked(d, w, S, n)
    PROVE  /\ Marked(d, w, T, m)
           /\ \A seq : Covers(d, w, Len(d) + 1, seq, S) => Covers(d, w, Len(d) + 1, seq, T)
<1>1. w <= n /\ Len(d) \in Nat /\ \A k \in 1..Len(d) : d[k].type = "started" => d[k].seq <= n
  BY DEF Marked
<1>2. ASSUME NEW k \in 1..Len(d)
      PROVE  /\ d[k].type = "started" => d[k].seq <= m
             /\ d[k].type = "completed" => Covers(d, w, k, d[k].seq, T)
  <2>1. d[k] \in Envelope
    BY <1>2
  <2>2. d[k].seq \in Nat
    BY <2>1 DEF Envelope
  <2>3. k \in Nat /\ \A j \in 1..(k-1) : d[j].type = "started" => d[j].seq <= n
    BY <1>1, <1>2
  <2>4. d[k].type = "completed" => Covers(d, w, k, d[k].seq, S)
    BY <1>2 DEF Marked
  <2>5. d[k].type = "completed" => Covers(d, w, k, d[k].seq, T)
    BY <1>1, <2>3, <2>4, CoversMore
  <2> QED BY <1>1, <1>2, <2>2, <2>5
<1>3. ASSUME NEW seq, Covers(d, w, Len(d) + 1, seq, S)
      PROVE  Covers(d, w, Len(d) + 1, seq, T)
  <2>1. Len(d) + 1 \in Nat /\ \A j \in 1..((Len(d) + 1) - 1) : d[j].type = "started" => d[j].seq <= n
    BY <1>1
  <2> QED BY <1>1, <1>3, <2>1, CoversMore
<1>4. w <= m
  BY <1>1
<1> QED BY <1>2, <1>3, <1>4 DEF Marked

\* What Covers says of frame k depends on the frames before it.
LEMMA CoversLocal ==
    ASSUME NEW d, NEW e, NEW w, NEW k \in Nat, NEW seq, NEW S,
           \A j \in 1..(k-1) : e[j] = d[j], Covers(d, w, k, seq, S)
    PROVE  Covers(e, w, k, seq, S)
<1> SUFFICES ASSUME NEW j \in 0..(k-1), Begins(e, j, k), MarkAt(e, w, j) \in S
             PROVE  MarkAt(e, w, j) <= seq
  BY DEF Covers
<1>1. MarkAt(d, w, j) = MarkAt(e, w, j)
  BY DEF MarkAt
<1>2. Begins(d, j, k)
  BY DEF Begins
<1> QED BY <1>1, <1>2 DEF Covers

LEMMA CoversTail ==
    ASSUME NEW d \in Seq(Envelope), d # <<>>, NEW w, NEW k \in 1..Len(d), NEW seq, NEW S,
           Covers(d, w, k + 1, seq, S)
    PROVE  Covers(Tail(d), IF Head(d).type = "started" THEN Head(d).seq ELSE w, k, seq, S)
<1> DEFINE e == Tail(d)  v == IF Head(d).type = "started" THEN Head(d).seq ELSE w
<1>1. Len(d) \in Nat /\ k \in Nat /\ Head(d) = d[1]
  OBVIOUS
<1>2. \A j \in 1..(k-1) : e[j] = d[j + 1]
  BY <1>1
<1> HIDE DEF e, v
<1> SUFFICES ASSUME NEW j \in 0..(k-1), Begins(e, j, k), MarkAt(e, v, j) \in S
             PROVE  MarkAt(e, v, j) <= seq
  BY DEF Covers, e, v
<1>3. CASE j # 0
  <2>1. MarkAt(e, v, j) = MarkAt(d, w, j + 1)
    BY <1>2, <1>3 DEF MarkAt
  <2>2. Begins(d, j + 1, k + 1)
    <3>1. d[j + 1].type = "started"
      BY <1>1, <1>2, <1>3 DEF Begins
    <3>2. ASSUME NEW m \in (j + 2)..k PROVE d[m].type # "started"
      <4>1. m - 1 \in (j+1)..(k-1) /\ e[m - 1] = d[m]
        BY <1>1, <1>2, <1>3
      <4> QED BY <4>1 DEF Begins
    <3> QED BY <1>1, <3>1, <3>2 DEF Begins
  <2>3. j + 1 \in 0..((k + 1) - 1)
    BY <1>1
  <2> QED BY <2>1, <2>2, <2>3 DEF Covers
<1>4. CASE j = 0
  <2>1. \A m \in 2..k : d[m].type # "started"
    <3> TAKE m \in 2..k
    <3>1. m - 1 \in 1..(k-1) /\ e[m - 1] = d[m]
      BY <1>1, <1>2
    <3> QED BY <1>4, <3>1 DEF Begins
  <2>2. CASE Head(d).type = "started"
    <3>1. Begins(d, 1, k + 1) /\ MarkAt(d, w, 1) = MarkAt(e, v, j)
      BY <1>1, <1>4, <2>1, <2>2 DEF Begins, MarkAt, v
    <3>2. 1 \in 0..((k + 1) - 1)
      BY <1>1
    <3> QED BY <3>1, <3>2 DEF Covers
  <2>3. CASE Head(d).type # "started"
    <3>1. \A m \in 1..k : d[m].type # "started"
      BY <1>1, <2>1, <2>3
    <3>2. Begins(d, 0, k + 1) /\ MarkAt(d, w, 0) = MarkAt(e, v, j)
      BY <1>1, <1>4, <2>3, <3>1 DEF Begins, MarkAt, v
    <3>3. 0 \in 0..((k + 1) - 1)
      BY <1>1
    <3> QED BY <3>2, <3>3 DEF Covers
  <2> QED BY <2>2, <2>3
<1> QED BY <1>3, <1>4

LEMMA MarkedTail ==
    ASSUME NEW d \in Seq(Envelope), d # <<>>, NEW w \in Nat, NEW S, NEW n \in Nat,
           Marked(d, w, S, n)
    PROVE  Marked(Tail(d), IF Head(d).type = "started" THEN Head(d).seq ELSE w, S, n)
<1> DEFINE e == Tail(d)  v == IF Head(d).type = "started" THEN Head(d).seq ELSE w
<1>1. Len(d) \in Nat /\ Len(e) = Len(d) - 1 /\ Head(d) = d[1] /\ 1 \in 1..Len(d)
  BY HeadTailProperties, EmptySeq
<1>2. \A k \in 1..Len(e) : e[k] = d[k + 1] /\ k + 1 \in 1..Len(d)
  BY <1>1
<1>3. v <= n
  BY <1>1 DEF Marked
<1>4. ASSUME NEW k \in 1..Len(e)
      PROVE  /\ e[k].type = "started" => e[k].seq <= n
             /\ e[k].type = "completed" => Covers(e, v, k, e[k].seq, S)
  <2>1. /\ d[k + 1].type = "started" => d[k + 1].seq <= n
        /\ d[k + 1].type = "completed" => Covers(d, w, k + 1, d[k + 1].seq, S)
    BY <1>2, <1>4 DEF Marked
  <2>2. k \in 1..Len(d)
    BY <1>1
  <2>3. d[k + 1].type = "completed" => Covers(e, v, k, d[k + 1].seq, S)
    BY <2>1, <2>2, CoversTail
  <2> QED BY <1>2, <1>4, <2>1, <2>3
<1> HIDE DEF e, v
<1>5. Marked(e, v, S, n)
  BY <1>3, <1>4 DEF Marked
<1> QED BY <1>5 DEF e, v

LEMMA MarkedCut ==
    ASSUME NEW d \in Seq(Envelope), NEW w \in Nat, NEW S, NEW n \in Nat, Marked(d, w, S, n),
           NEW m \in 0..Len(d)
    PROVE  Marked(SubSeq(d, 1, m), w, S, n)
<1> DEFINE e == SubSeq(d, 1, m)
<1>1. Len(d) \in Nat /\ Len(e) = m /\ \A k \in 1..m : e[k] = d[k] /\ k \in 1..Len(d)
  BY SubSeqProperties
<1> HIDE DEF e
<1>2. ASSUME NEW k \in 1..Len(e)
      PROVE  /\ e[k].type = "started" => e[k].seq <= n
             /\ e[k].type = "completed" => Covers(e, w, k, e[k].seq, S)
  <2>1. /\ d[k].type = "started" => d[k].seq <= n
        /\ d[k].type = "completed" => Covers(d, w, k, d[k].seq, S)
    BY <1>1, <1>2 DEF Marked
  <2>2. k \in Nat /\ \A j \in 1..(k-1) : e[j] = d[j]
    BY <1>1, <1>2
  <2>3. d[k].type = "completed" => Covers(e, w, k, d[k].seq, S)
    BY <2>1, <2>2, CoversLocal
  <2> QED BY <1>1, <1>2, <2>1, <2>3
<1> QED BY <1>2 DEF Marked, e

\* Forgetting the mark asks nothing more.
LEMMA CoversZero ==
    ASSUME NEW d, NEW w, NEW k, NEW seq \in Nat, NEW S, Covers(d, w, k, seq, S)
    PROVE  Covers(d, 0, k, seq, S)
BY DEF Covers, MarkAt

LEMMA MarkedZero ==
    ASSUME NEW d \in Seq(Envelope), NEW w, NEW S, NEW n \in Nat, Marked(d, w, S, n)
    PROVE  Marked(d, 0, S, n)
<1>1. ASSUME NEW k \in 1..Len(d), d[k].type = "completed"
      PROVE  Covers(d, 0, k, d[k].seq, S)
  <2>1. d[k] \in Envelope /\ Covers(d, w, k, d[k].seq, S)
    BY <1>1 DEF Marked
  <2>2. d[k].seq \in Nat
    BY <2>1 DEF Envelope
  <2> QED BY <2>1, <2>2, CoversZero
<1> QED BY <1>1 DEF Marked

\* Appending events changes nothing.
LEMMA MarkedEvents ==
    ASSUME NEW d \in Seq(Envelope), NEW ev \in Seq(Envelope), NEW w \in Nat, NEW S, NEW n \in Nat,
           \A k \in 1..Len(ev) : ev[k].type = "event", Marked(d, w, S, n)
    PROVE  /\ Marked(d \o ev, w, S, n)
           /\ \A seq \in Nat : Covers(d, w, Len(d) + 1, seq, S)
                                  => Covers(d \o ev, w, Len(d \o ev) + 1, seq, S)
<1> DEFINE e == d \o ev  l == Len(d)  o == Len(ev)
<1>1. l \in Nat /\ o \in Nat /\ e \in Seq(Envelope) /\ Len(e) = l + o
      /\ (\A k \in 1..l : e[k] = d[k]) /\ (\A k \in (l+1)..(l+o) : e[k] = ev[k - l] /\ k - l \in 1..o)
  BY ConcatProperties
<1>2. \A k \in (l+1)..(l+o) : e[k].type = "event"
  BY <1>1
<1> HIDE DEF e, l, o
<1>3. ASSUME NEW k \in 1..Len(e)
      PROVE  /\ e[k].type = "started" => e[k].seq <= n
             /\ e[k].type = "completed" => Covers(e, w, k, e[k].seq, S)
  <2>1. CASE k \in 1..l
    <3>1. /\ d[k].type = "started" => d[k].seq <= n
          /\ d[k].type = "completed" => Covers(d, w, k, d[k].seq, S)
      BY <2>1 DEF Marked, l
    <3>2. k \in Nat /\ \A j \in 1..(k-1) : e[j] = d[j]
      BY <1>1, <2>1
    <3>3. d[k].type = "completed" => Covers(e, w, k, d[k].seq, S)
      BY <3>1, <3>2, CoversLocal
    <3> QED BY <1>1, <2>1, <3>1, <3>3
  <2>2. CASE k \notin 1..l
    <3>1. k \in (l+1)..(l+o)
      BY <1>1, <1>3, <2>2
    <3> QED BY <1>2, <3>1
  <2> QED BY <2>1, <2>2
<1>4. Marked(e, w, S, n)
  BY <1>3 DEF Marked
<1>5. ASSUME NEW seq \in Nat, Covers(d, w, l + 1, seq, S)
      PROVE  Covers(e, w, Len(e) + 1, seq, S)
  <2> SUFFICES ASSUME NEW j \in 0..Len(e), Begins(e, j, Len(e) + 1), MarkAt(e, w, j) \in S
               PROVE  MarkAt(e, w, j) <= seq
    BY <1>1 DEF Covers
  <2>1. j \in 0..l
    <3>1. j # 0 => e[j].type = "started"
      BY DEF Begins
    <3> QED BY <1>1, <1>2, <3>1
  <2>2. \A m \in (j+1)..l : e[m].type # "started"
    BY <1>1, <2>1 DEF Begins
  <2>3. \A m \in (j+1)..l : d[m].type # "started"
    BY <1>1, <2>1, <2>2
  <2>4. Begins(d, j, l + 1) /\ MarkAt(d, w, j) = MarkAt(e, w, j)
    BY <1>1, <2>1, <2>3 DEF Begins, MarkAt
  <2>5. j \in 0..((l + 1) - 1)
    BY <1>1, <2>1
  <2> QED BY <1>5, <2>4, <2>5 DEF Covers
<1> QED BY <1>4, <1>5 DEF e, l

\* The frame that begins a snapshot.
LEMMA MarkedStart ==
    ASSUME NEW d \in Seq(Envelope), NEW w \in Nat, NEW S, NEW n \in Nat, Marked(d, w, S, n)
    PROVE  /\ Marked(d \o <<Frame("started", n)>>, w, S, n)
           /\ \A seq \in Nat : (n \in S => n <= seq)
                => Covers(d \o <<Frame("started", n)>>, w, Len(d \o <<Frame("started", n)>>) + 1, seq, S)
<1> DEFINE e == d \o <<Frame("started", n)>>  l == Len(d)
<1>1. l \in Nat /\ Len(e) = l + 1 /\ (\A k \in 1..l : e[k] = d[k]) /\ e[l + 1] = Frame("started", n)
  BY ConcatProperties
<1> HIDE DEF e, l
<1>2. e[l + 1].type = "started" /\ e[l + 1].seq = n
  BY <1>1 DEF Frame
<1>3. ASSUME NEW k \in 1..Len(e)
      PROVE  /\ e[k].type = "started" => e[k].seq <= n
             /\ e[k].type = "completed" => Covers(e, w, k, e[k].seq, S)
  <2>1. CASE k \in 1..l
    <3>1. /\ d[k].type = "started" => d[k].seq <= n
          /\ d[k].type = "completed" => Covers(d, w, k, d[k].seq, S)
      BY <2>1 DEF Marked, l
    <3>2. k \in Nat /\ \A j \in 1..(k-1) : e[j] = d[j]
      BY <1>1, <2>1
    <3>3. d[k].type = "completed" => Covers(e, w, k, d[k].seq, S)
      BY <3>1, <3>2, CoversLocal
    <3> QED BY <1>1, <2>1, <3>1, <3>3
  <2>2. CASE k \notin 1..l
    BY <1>1, <1>2, <1>3, <2>2
  <2> QED BY <2>1, <2>2
<1>4. Marked(e, w, S, n)
  BY <1>3 DEF Marked
<1>5. ASSUME NEW seq \in Nat, n \in S => n <= seq
      PROVE  Covers(e, w, Len(e) + 1, seq, S)
  <2> SUFFICES ASSUME NEW j \in 0..(l + 1), Begins(e, j, l + 2), MarkAt(e, w, j) \in S
               PROVE  MarkAt(e, w, j) <= seq
    BY <1>1 DEF Covers
  <2>1. j = l + 1
    BY <1>1, <1>2 DEF Begins
  <2>2. MarkAt(e, w, j) = n
    BY <1>1, <1>2, <2>1 DEF MarkAt
  <2> QED BY <1>5, <2>2
<1> QED BY <1>4, <1>5 DEF e

\* The frame that ends one.
LEMMA MarkedEnd ==
    ASSUME NEW d \in Seq(Envelope), NEW w \in Nat, NEW S, NEW n \in Nat, Marked(d, w, S, n),
           NEW g \in Nat, Covers(d, w, Len(d) + 1, g, S)
    PROVE  Marked(d \o <<Frame("completed", g)>>, w, S, n)
<1> DEFINE e == d \o <<Frame("completed", g)>>  l == Len(d)
<1>1. l \in Nat /\ Len(e) = l + 1 /\ (\A k \in 1..l : e[k] = d[k]) /\ e[l + 1] = Frame("completed", g)
  BY ConcatProperties
<1> HIDE DEF e, l
<1>2. e[l + 1].type = "completed" /\ e[l + 1].seq = g
  BY <1>1 DEF Frame
<1>3. ASSUME NEW k \in 1..Len(e)
      PROVE  /\ e[k].type = "started" => e[k].seq <= n
             /\ e[k].type = "completed" => Covers(e, w, k, e[k].seq, S)
  <2>0. k \in Nat /\ \A j \in 1..(k-1) : e[j] = d[j]
    BY <1>1, <1>3
  <2>1. CASE k \in 1..l
    <3>1. /\ d[k].type = "started" => d[k].seq <= n
          /\ d[k].type = "completed" => Covers(d, w, k, d[k].seq, S)
      BY <2>1 DEF Marked, l
    <3>2. d[k].type = "completed" => Covers(e, w, k, d[k].seq, S)
      BY <2>0, <3>1, CoversLocal
    <3> QED BY <1>1, <2>1, <3>1, <3>2
  <2>2. CASE k = l + 1
    <3>1. Covers(e, w, k, g, S)
      BY <2>0, <2>2, CoversLocal DEF l
    <3> QED BY <1>2, <2>2, <3>1
  <2> QED BY <1>1, <1>3, <2>1, <2>2
<1> QED BY <1>3 DEF Marked, e

-----------------------------------------------------------------------------
(* A snapshot is complete: the steps.                                      *)

\* What is known of a tab's frames and numbers.
LEMMA TabTypes ==
    ASSUME FeedInv, NEW s \in Tabs
    PROVE  /\ down[s] \in Seq(Envelope) /\ Len(down[s]) \in Nat /\ Len(events) \in Nat
           /\ watermark[s] \in Nat /\ lastSent[s] \in Nat /\ target[s] \in Nat
           /\ cursor[s] \in Nat /\ applying[s] \in Nat /\ committed[s] \in Nat
           /\ second[s] \in BOOLEAN /\ complete[s] \in BOOLEAN /\ link[s] \in {"closed", "opening", "open"}
<1>1. TypeOK /\ down \in [Tabs -> Seq(Envelope)]
  BY FramesAreEnvelopes DEF FeedInv
<1> QED BY <1>1, ServerLengths DEF TypeOK

\* Messages that come and go make no watermark sound that was there and was not.
LEMMA SoundShrinks ==
    ASSUME FeedInv, Others
    PROVE  Len(events') >= Len(events) /\ \A v \in Sound' : v <= Len(events) => v \in Sound
<1>0. events \in Seq(Kinds) /\ Len(events) \in Nat
  BY DEF FeedInv, TypeOK
<1>1. ASSUME NEW kind \in Kinds, RecordEvent(kind)
      PROVE  Len(events') >= Len(events) /\ \A i \in 1..Len(events) : Deliverable(i)' => Deliverable(i)
  <2>1. Len(events') = Len(events) + 1 /\ \A i \in 1..Len(events) : events'[i] = events[i]
    BY <1>0, <1>1 DEF RecordEvent
  <2> QED BY <1>0, <2>1 DEF Deliverable
<1>2. ASSUME NEW i \in Seqs, DeleteMessage(i)
      PROVE  Len(events') >= Len(events) /\ \A j \in 1..Len(events) : Deliverable(j)' => Deliverable(j)
  <2>1. Len(events') = Len(events)
        /\ \A j \in 1..Len(events) : events'[j] = events[j] \/ events'[j] = "gone"
    BY <1>0, <1>2 DEF DeleteMessage, Known
  <2> QED BY <1>0, <2>1 DEF Deliverable
<1>3. Len(events') >= Len(events) /\ \A i \in 1..Len(events) : Deliverable(i)' => Deliverable(i)
  BY <1>1, <1>2 DEF Others, PersistMessage, SystemCard, RecallMessage, Kinds
<1> QED BY <1>0, <1>3 DEF Sound

\* A tab that is left alone, as the mailbox grows and messages are deleted.
LEMMA MarksStay ==
    ASSUME FeedInv, FeedInv', NEW s \in Tabs, MarkedFrames(s), MarkedTab(s),
           Len(events') >= Len(events), \A v \in Sound' : v <= Len(events) => v \in Sound,
           down'[s] = down[s], watermark'[s] = watermark[s], second'[s] = second[s],
           lastSent'[s] = lastSent[s], complete'[s] = complete[s], target'[s] = target[s],
           state'[s] = state[s], link'[s] = link[s], cursor'[s] = cursor[s]
    PROVE  MarkedFrames(s)' /\ MarkedTab(s)'
<1>1. /\ down[s] \in Seq(Envelope) /\ Len(events) \in Nat /\ Len(events') \in Nat
      /\ watermark[s] \in Nat /\ watermark[s] <= Len(events)
  BY TabTypes, ServerLengths DEF FeedInv, MarkedFrames, Marked
<1>2. Marked(down[s], watermark[s], Sound', Len(events'))
      /\ (second[s] => Covers(down[s], watermark[s], Len(down[s]) + 1, lastSent[s], Sound'))
  <2> DEFINE S == Sound  T == Sound'  n == Len(events)  m == Len(events')
  <2>1. Marked(down[s], watermark[s], S, n) /\ n <= m /\ n \in Nat /\ m \in Nat
    BY <1>1 DEF MarkedFrames
  <2>2. \A v \in T : v <= n => v \in S
    OBVIOUS
  <2>3. second[s] => Covers(down[s], watermark[s], Len(down[s]) + 1, lastSent[s], S)
    BY DEF MarkedFrames
  <2> HIDE DEF S, T, n, m
  <2>4. Marked(down[s], watermark[s], T, m)
        /\ (second[s] => Covers(down[s], watermark[s], Len(down[s]) + 1, lastSent[s], T))
    BY <1>1, <2>1, <2>2, <2>3, MarkedMore
  <2> QED BY <2>4 DEF T, m
<1>3. MarkedFrames(s)'
  BY <1>2 DEF MarkedFrames
<1>4. watermark[s] \in Sound' => watermark[s] \in Sound
  BY <1>1
<1> QED BY <1>3, <1>4 DEF MarkedTab, SnapshotComplete, Linked

\* ... as other tabs and the server's other parts go on.
LEMMA MarksSame ==
    ASSUME FeedInv, FeedInv', NEW s \in Tabs, MarkedFrames(s), MarkedTab(s), UNCHANGED events,
           down'[s] = down[s], watermark'[s] = watermark[s], second'[s] = second[s],
           lastSent'[s] = lastSent[s], complete'[s] = complete[s], target'[s] = target[s],
           state'[s] = state[s], link'[s] = link[s], cursor'[s] = cursor[s]
    PROVE  MarkedFrames(s)' /\ MarkedTab(s)'
<1>1. Sound' = Sound
  BY DEF Sound, Deliverable
<1>2. Len(events) \in Nat
  BY ServerLengths DEF FeedInv
<1> QED BY <1>1, <1>2, MarksStay

\* The session brackets a snapshot: it has sent all up to the watermark, if they can be
\* sent, before the frame that ends it.
LEMMA SessionMarks ==
    ASSUME FeedInv, FeedInv', MarkInv, NEW t \in Tabs, SessionStep(t)
    PROVE  MarkInv'
<1> USE DEF dbVars, sessionVars
<1> DEFINE d == down[t]  w == watermark[t]  n == Len(events)
<1>0. /\ TypeOK /\ UNCHANGED <<cursor, watermark, complete, target, state, link, events>>
      /\ Sound' = Sound
  <2>1. TypeOK /\ UNCHANGED <<cursor, watermark, complete, target, state, link, events>>
    BY DEF FeedInv, SessionStep, clientVars, tabVars, HandleSync, CompleteSync, HandleAnnouncement,
           HandleAck
  <2> QED BY <2>1 DEF Sound, Deliverable
<1>1. /\ d \in Seq(Envelope) /\ w \in Nat /\ n \in Nat /\ Len(d) \in Nat /\ lastSent[t] \in Nat
      /\ Marked(d, w, Sound, n)
  BY TabTypes DEF MarkInv, MarkedFrames
<1>2. ASSUME NEW a \in Nat
      PROVE  /\ Sends(a, n) \in Seq(Envelope)
             /\ \A k \in 1..Len(Sends(a, n)) : Sends(a, n)[k].type = "event"
  <2>1. Sends(a, n) \in Seq(Frames) /\ Frames \subseteq Envelope
    BY SendsFrames DEF Frames, Envelope
  <2>2. Sends(a, n) \in Seq(Envelope)
    BY <2>1, SeqMonotonic
  <2>3. \A k \in 1..Len(Sends(a, n)) : Sends(a, n)[k] = Frame("event", a + k)
    BY <2>2, LenProperties DEF Sends
  <2>4. \A k : Frame("event", k).type = "event"
    BY DEF Frame
  <2> HIDE DEF n
  <2> QED BY <2>2, <2>3, <2>4
<1>3. MarkedTab(t)'
  BY <1>0 DEF MarkInv, MarkedTab, SnapshotComplete, Linked
<1>4. ASSUME \A s \in Tabs \ {t} : /\ down'[s] = down[s] /\ second'[s] = second[s]
                                   /\ lastSent'[s] = lastSent[s],
             MarkedFrames(t)'
      PROVE  MarkInv'
  BY <1>0, <1>3, <1>4, MarksSame DEF MarkInv
<1>5. ASSUME NEW a, NEW before, NEW after, Pass(t, a, before, after)
      PROVE  /\ down'[t] = d \o before \o Sends(a, n) \o after
             /\ lastSent'[t] = SentThrough(a, n)
             /\ \A s \in Tabs \ {t} : down'[s] = down[s] /\ lastSent'[s] = lastSent[s]
  BY <1>0, <1>5 DEF Pass, TypeOK
<1>6. CASE HandleSync(t)
  <2> DEFINE a == Head(syncs[t])  e == d \o <<Frame("started", n)>>  new == Sends(a, n)
  <2>1. a \in Nat
    BY <1>0, <1>6, HeadTailProperties DEF HandleSync, TypeOK
  <2>2. /\ down'[t] = e \o new \o <<>> /\ lastSent'[t] = SentThrough(a, n) /\ second'[t] = TRUE
        /\ \A s \in Tabs \ {t} : /\ down'[s] = down[s] /\ second'[s] = second[s]
                                 /\ lastSent'[s] = lastSent[s]
    BY <1>0, <1>5, <1>6 DEF HandleSync, TypeOK
  <2>3. n \in Sound => n <= SentThrough(a, n)
    BY <1>1, <2>1 DEF SentThrough, Sound
  <2>4. SentThrough(a, n) \in Nat
    BY <1>1, <2>1, SentThroughType
  <2>5. e \in Seq(Envelope) /\ new \in Seq(Envelope) /\ e \o new \in Seq(Envelope)
    <3>1. <<Frame("started", n)>> \in Seq(Envelope)
      BY <1>1 DEF Frame, Envelope
    <3>2. new \in Seq(Envelope)
      BY <1>2, <2>1
    <3>3. e \in Seq(Envelope)
      BY <1>1, <3>1, ConcatProperties
    <3> HIDE DEF e, new
    <3> QED BY <3>2, <3>3, ConcatProperties
  <2>6. Marked(e, w, Sound, n) /\ Covers(e, w, Len(e) + 1, SentThrough(a, n), Sound)
    BY <1>1, <2>3, <2>4, MarkedStart
  <2>7. \A k \in 1..Len(new) : new[k].type = "event"
    BY <1>2, <2>1
  <2> HIDE DEF e, new, n, w
  <2>8. Marked(e \o new, w, Sound, n)
        /\ Covers(e \o new, w, Len(e \o new) + 1, SentThrough(a, n), Sound)
    BY <1>1, <2>4, <2>5, <2>6, <2>7, MarkedEvents
  <2>9. down'[t] = e \o new
    BY <2>2, <2>5, ConcatEmptySeq
  <2>10. MarkedFrames(t)'
    BY <1>0, <2>2, <2>8, <2>9 DEF MarkedFrames, n, w
  <2> QED BY <1>4, <2>2, <2>10
<1>7. CASE CompleteSync(t)
  <2> DEFINE a == lastSent[t]  g == SentThrough(a, n)  new == Sends(a, n)
  <2>1. g \in Nat /\ a <= g /\ <<>> \in Seq(Envelope)
    BY <1>1, SentThroughType DEF SentThrough
  <2>2. /\ down'[t] = d \o <<>> \o new \o <<Frame("completed", g)>> /\ second'[t] = FALSE
        /\ \A s \in Tabs \ {t} : /\ down'[s] = down[s] /\ second'[s] = second[s]
                                 /\ lastSent'[s] = lastSent[s]
    <3>1. Pass(t, a, <<>>, <<Frame("completed", g)>>) /\ second' = [second EXCEPT ![t] = FALSE]
      BY <1>7 DEF CompleteSync
    <3>2. \A s \in Tabs : second'[s] = IF s = t THEN FALSE ELSE second[s]
      BY <1>0, <3>1 DEF TypeOK
    <3> HIDE DEF a, g, n, d, w
    <3>3. /\ down'[t] = d \o <<>> \o Sends(a, n) \o <<Frame("completed", g)>>
          /\ \A s \in Tabs \ {t} : down'[s] = down[s] /\ lastSent'[s] = lastSent[s]
      BY <1>5, <3>1
    <3> QED BY <3>2, <3>3
  <2>3. Covers(d, w, Len(d) + 1, a, Sound)
    BY <1>7 DEF CompleteSync, MarkInv, MarkedFrames
  <2>4. \A j \in 0..Len(d) : MarkAt(d, w, j) \in Nat
    <3>1. \A j \in 1..Len(d) : d[j] \in Envelope
      BY <1>1
    <3> QED BY <1>1, <3>1 DEF MarkAt, Envelope
  <2>5. Covers(d, w, Len(d) + 1, g, Sound)
    <3> HIDE DEF d, w, g, n
    <3> QED BY <1>1, <2>1, <2>3, <2>4 DEF Covers
  <2>6. new \in Seq(Envelope) /\ \A k \in 1..Len(new) : new[k].type = "event"
    BY <1>1, <1>2
  <2> HIDE DEF d, w, n, g, new
  <2>7. Marked(d \o new, w, Sound, n) /\ Covers(d \o new, w, Len(d \o new) + 1, g, Sound)
        /\ d \o new \in Seq(Envelope)
    BY <1>1, <2>1, <2>5, <2>6, MarkedEvents, ConcatProperties
  <2>8. Marked((d \o new) \o <<Frame("completed", g)>>, w, Sound, n)
    BY <1>1, <2>1, <2>7, MarkedEnd
  <2>9. down'[t] = (d \o new) \o <<Frame("completed", g)>>
    BY <1>1, <2>2, ConcatEmptySeq
  <2>10. MarkedFrames(t)'
    BY <1>0, <2>2, <2>8, <2>9 DEF MarkedFrames, n, w
  <2> QED BY <1>4, <2>2, <2>10
<1>8. CASE HandleAnnouncement(t)
  <2> DEFINE a == lastSent[t]  new == Sends(a, n)
  <2>1. /\ down'[t] = d \o <<>> \o new \o <<>> /\ second'[t] = FALSE
        /\ \A s \in Tabs \ {t} : /\ down'[s] = down[s] /\ second'[s] = second[s]
                                 /\ lastSent'[s] = lastSent[s]
    <3>1. Pass(t, a, <<>>, <<>>) /\ ~second[t] /\ second' = second
      BY <1>8 DEF HandleAnnouncement
    <3>2. second'[t] = FALSE
      BY <3>1, TabTypes
    <3> HIDE DEF a, n, d, w
    <3>3. /\ down'[t] = d \o <<>> \o Sends(a, n) \o <<>>
          /\ \A s \in Tabs \ {t} : down'[s] = down[s] /\ lastSent'[s] = lastSent[s]
      BY <1>5, <3>1
    <3> QED BY <3>1, <3>2, <3>3
  <2>2. new \in Seq(Envelope) /\ \A k \in 1..Len(new) : new[k].type = "event"
    BY <1>1, <1>2
  <2> HIDE DEF d, w, n, new
  <2>3. Marked(d \o new, w, Sound, n) /\ d \o new \in Seq(Envelope)
    BY <1>1, <2>2, MarkedEvents, ConcatProperties
  <2>4. down'[t] = d \o new
    BY <1>1, <2>1, <2>3, ConcatEmptySeq
  <2>5. MarkedFrames(t)'
    BY <1>0, <2>1, <2>3, <2>4 DEF MarkedFrames, n, w
  <2> QED BY <1>4, <2>1, <2>5
<1>9. CASE HandleAck(t)
  <2>1. UNCHANGED <<down, second, lastSent>>
    BY <1>9 DEF HandleAck
  <2> QED BY <1>0, <2>1, MarksSame DEF MarkInv
<1> QED BY <1>6, <1>7, <1>8, <1>9 DEF SessionStep

\* A step of one tab leaves the other tabs as they are.
LEMMA OneTabMarks ==
    ASSUME FeedInv, FeedInv', MarkInv, NEW t \in Tabs, UNCHANGED events,
           \A s \in Tabs \ {t} :
              /\ down'[s] = down[s] /\ watermark'[s] = watermark[s] /\ second'[s] = second[s]
              /\ lastSent'[s] = lastSent[s] /\ complete'[s] = complete[s] /\ target'[s] = target[s]
              /\ state'[s] = state[s] /\ link'[s] = link[s] /\ cursor'[s] = cursor[s],
           MarkedFrames(t)', MarkedTab(t)'
    PROVE  MarkInv'
<1>1. ASSUME NEW s \in Tabs \ {t} PROVE MarkedFrames(s)' /\ MarkedTab(s)'
  <2>1. MarkedFrames(s) /\ MarkedTab(s)
    BY DEF MarkInv
  <2> QED BY <2>1, MarksSame
<1> QED BY <1>1 DEF MarkInv

\* A tab that has handled a frame knows the watermark that the frame tells.
LEMMA HandlingMarks ==
    ASSUME FeedInv, MarkInv, NEW t \in Tabs, UNCHANGED <<events, second, lastSent>>,
           down[t] # <<>>, down'[t] = Tail(down[t]),
           watermark'[t] = IF Head(down[t]).type = "started" THEN Head(down[t]).seq ELSE watermark[t]
    PROVE  MarkedFrames(t)'
<1> DEFINE d == down[t]  w == watermark[t]  S == Sound  n == Len(events)
           v == IF Head(d).type = "started" THEN Head(d).seq ELSE w
<1>1. /\ d \in Seq(Envelope) /\ w \in Nat /\ n \in Nat /\ Len(d) \in Nat /\ Marked(d, w, S, n)
      /\ second[t] => Covers(d, w, Len(d) + 1, lastSent[t], S)
  BY TabTypes DEF MarkInv, MarkedFrames
<1>2. Sound' = Sound
  BY DEF Sound, Deliverable
<1>3. Len(Tail(d)) + 1 = Len(d) /\ Len(d) \in 1..Len(d)
  BY <1>1, HeadTailProperties, EmptySeq
<1>4. Marked(Tail(d), v, S, n)
  BY <1>1, MarkedTail
<1>5. second[t] => Covers(Tail(d), v, Len(Tail(d)) + 1, lastSent[t], S)
  BY <1>1, <1>3, CoversTail
<1> QED BY <1>2, <1>4, <1>5 DEF MarkedFrames

\* A cursor that moves forward, and a tab that is online once it is at its target.
LEMMA AdvanceMarks ==
    ASSUME FeedInv, FeedInv', MarkInv, NEW t \in Tabs, UNCHANGED events, cursor'[t] >= cursor[t],
           watermark'[t] = watermark[t], complete'[t] = complete[t], target'[t] = target[t],
           link'[t] = link[t],
           state'[t] = "online" => state[t] = "online" \/ (complete[t] /\ cursor'[t] >= target[t])
    PROVE  MarkedTab(t)'
<1>1. Sound' = Sound /\ MarkedTab(t)
  BY DEF Sound, Deliverable, MarkInv
<1>2. /\ watermark[t] \in Nat /\ target[t] \in Nat /\ cursor[t] \in Nat /\ cursor'[t] \in Nat
  BY TabTypes DEF FeedInv, TypeOK
<1> QED BY <1>1, <1>2 DEF MarkedTab, SnapshotComplete, Linked

\* The tab's drain.
LEMMA DrainMarks ==
    ASSUME FeedInv, FeedInv', MarkInv, NEW t \in Tabs, UNCHANGED serverVars,
           NEW cur \in Nat, cur >= cursor[t], NEW buf, NEW some, Drain(t, cur, buf, some),
           \A s \in Tabs \ {t} : down'[s] = down[s], MarkedFrames(t)'
    PROVE  MarkInv'
<1>1. UNCHANGED <<events, second, lastSent>> /\ TypeOK
  BY DEF serverVars, dbVars, sessionVars, FeedInv
<1>2. /\ cursor' = [cursor EXCEPT ![t] = cur]
      /\ UNCHANGED <<watermark, complete, target, link>>
      /\ \/ state' = state
         \/ \E x : /\ state' = [state EXCEPT ![t] = x]
                   /\ x = "online" => state[t] = "online" \/ (complete[t] /\ cur >= target[t])
  <2>1. CASE ApplyEvent(t, cur + 1)
    BY <2>1 DEF Drain, ApplyEvent
  <2>2. CASE EndDrain(t, cur, buf, some)
    BY <2>2 DEF Drain, EndDrain
  <2> QED BY <2>1, <2>2 DEF Drain
<1>3. \A s \in Tabs \ {t} : cursor'[s] = cursor[s] /\ state'[s] = state[s]
  BY <1>1, <1>2 DEF TypeOK
<1>4. MarkedTab(t)'
  BY <1>1, <1>2, AdvanceMarks DEF TypeOK
<1> QED BY <1>1, <1>2, <1>3, <1>4, OneTabMarks

\* A tab shows itself as online no sooner than it is at the end of its snapshot.
LEMMA ClientMarks ==
    ASSUME FeedInv, FeedInv', DrainInv, MarkInv, NEW t \in Tabs, ClientStep(t)
    PROVE  MarkInv'
<1> DEFINE w == watermark[t]
<1>0. /\ TypeOK /\ UNCHANGED serverVars /\ UNCHANGED <<events, second, lastSent>> /\ Sound' = Sound
      /\ down[t] \in Seq(Frames) /\ w \in Nat /\ cursor[t] \in Nat
      /\ MarkedFrames(t) /\ MarkedTab(t)
  <2>1. TypeOK /\ UNCHANGED serverVars /\ UNCHANGED <<events, second, lastSent>> /\ down[t] \in Seq(Frames)
    BY DEF FeedInv, ClientStep, serverVars, dbVars, sessionVars
  <2> QED BY <2>1, TabTypes DEF MarkInv, Sound, Deliverable
<1>1. ASSUME UNCHANGED <<down, watermark>> PROVE MarkedFrames(t)'
  BY <1>0, <1>1 DEF MarkedFrames
<1>2. CASE Connect(t)
  <2>1. UNCHANGED <<down, watermark, complete, target>> /\ ~Linked(t)'
    BY <1>0, <1>2 DEF Connect, TypeOK, Linked
  <2>2. MarkedTab(t)'
    BY <1>0, <2>1 DEF MarkedTab, SnapshotComplete
  <2>3. \A s \in Tabs \ {t} : link'[s] = link[s] /\ cursor'[s] = cursor[s] /\ state'[s] = state[s]
    BY <1>0, <1>2 DEF Connect, TypeOK
  <2> QED BY <1>0, <1>1, <2>1, <2>2, <2>3, OneTabMarks
<1>3. CASE Open(t)
  <2>1. /\ UNCHANGED <<down, watermark, cursor>> /\ complete'[t] = FALSE /\ state'[t] = "syncing"
    BY <1>0, <1>3 DEF Open, TypeOK
  <2>2. MarkedTab(t)'
    BY <2>1 DEF MarkedTab, SnapshotComplete
  <2>3. \A s \in Tabs \ {t} : /\ link'[s] = link[s] /\ complete'[s] = complete[s]
                              /\ target'[s] = target[s] /\ state'[s] = state[s]
    BY <1>0, <1>3 DEF Open, TypeOK
  <2> QED BY <1>0, <1>1, <2>1, <2>2, <2>3, OneTabMarks
<1>4. ASSUME NEW type, Handle(t, type)
      PROVE  /\ down[t] # <<>> /\ Head(down[t]).type = type /\ down'[t] = Tail(down[t])
             /\ \A s \in Tabs \ {t} : down'[s] = down[s]
  BY <1>0, <1>4 DEF Handle, TypeOK
<1>5. CASE SnapshotStarted(t)
  <2>1. Handle(t, "started")
    BY <1>5 DEF SnapshotStarted
  <2>2. /\ watermark'[t] = Head(down[t]).seq /\ complete'[t] = FALSE /\ state'[t] = "syncing"
        /\ \A s \in Tabs \ {t} : /\ watermark'[s] = watermark[s] /\ complete'[s] = complete[s]
                                 /\ state'[s] = state[s]
        /\ UNCHANGED <<target, link, cursor>>
    BY <1>0, <1>5 DEF SnapshotStarted, TypeOK
  <2>3. MarkedFrames(t)'
    BY <1>0, <1>4, <2>1, <2>2, HandlingMarks
  <2>4. MarkedTab(t)'
    BY <2>2 DEF MarkedTab, SnapshotComplete
  <2> QED BY <1>0, <1>4, <2>1, <2>2, <2>3, <2>4, OneTabMarks
<1>6. CASE SnapshotCompleted(t)
  <2> DEFINE goal == Head(down[t]).seq
  <2>1. Handle(t, "completed")
    BY <1>6 DEF SnapshotCompleted
  <2>2. /\ complete'[t] = TRUE /\ target'[t] = goal
        /\ state'[t] = IF cursor[t] >= goal THEN "online" ELSE state[t]
        /\ \A s \in Tabs \ {t} : /\ target'[s] = target[s] /\ complete'[s] = complete[s]
                                 /\ state'[s] = state[s]
        /\ UNCHANGED <<watermark, link, cursor>>
    BY <1>0, <1>6 DEF SnapshotCompleted, TypeOK
  <2>3. MarkedFrames(t)'
    BY <1>0, <1>4, <2>1, <2>2, HandlingMarks
  <2>4. goal \in Nat
    BY <1>0, <1>4, <2>1, HandleFrames DEF Frames
  <2>5. w \in Sound => w <= goal
    <3>1. Head(down[t]) = down[t][1] /\ 1 \in 1..Len(down[t])
      BY <1>0, <1>4, <2>1, EmptySeq
    <3>2. Covers(down[t], w, 1, goal, Sound)
      BY <1>0, <1>4, <2>1, <3>1 DEF MarkedFrames, Marked
    <3>3. Begins(down[t], 0, 1) /\ MarkAt(down[t], w, 0) = w /\ 0 \in 0..(1-1)
      BY DEF Begins, MarkAt
    <3> QED BY <3>2, <3>3 DEF Covers
  <2>6. MarkedTab(t)'
    <3> HIDE DEF goal
    <3> QED BY <1>0, <2>2, <2>4, <2>5 DEF MarkedTab, SnapshotComplete, Linked
  <2> QED BY <1>0, <1>4, <2>1, <2>2, <2>3, <2>6, OneTabMarks
<1>7. CASE MailboxEvent(t)
  <2> DEFINE seq == Head(down[t]).seq
  <2>1. Handle(t, "event")
    BY <1>7 DEF MailboxEvent
  <2>2. watermark'[t] = w => MarkedFrames(t)'
    BY <1>0, <1>4, <2>1, HandlingMarks
  <2>3. CASE Drain(t, cursor[t], buffered[t] \cup {seq}, FALSE)
    <3>1. watermark' = watermark
      BY <2>3 DEF Drain, ApplyEvent, EndDrain
    <3>2. MarkedFrames(t)' /\ \A s \in Tabs \ {t} : down'[s] = down[s]
      BY <1>4, <2>1, <2>2, <3>1
    <3>3. cursor[t] \in Nat /\ cursor[t] >= cursor[t]
      BY <1>0
    <3> HIDE DEF seq, w
    <3> QED BY <1>0, <2>3, <3>2, <3>3, DrainMarks
  <2>4. CASE seq <= cursor[t] /\ UNCHANGED <<clientVars, link, syncs, acks, faults>>
    <3>1. UNCHANGED <<watermark, link, complete, target, state, cursor>>
      BY <2>4 DEF clientVars, tabVars
    <3>2. MarkedTab(t)'
      BY <1>0, <3>1 DEF MarkedTab, SnapshotComplete, Linked
    <3> QED BY <1>0, <1>4, <2>1, <2>2, <3>1, <3>2, OneTabMarks
  <2> QED BY <1>7, <2>3, <2>4 DEF MailboxEvent
<1>8. CASE Applied(t)
  <2>1. /\ Drain(t, committed[t], {i \in buffered[t] : i > committed[t]}, TRUE)
        /\ down' = down /\ committed[t] \in Nat
    BY <1>0, <1>8 DEF Applied, TypeOK
  <2>2. committed[t] >= cursor[t]
    <3>1. applying[t] \in Nat /\ cursor[t] \in Nat /\ committed[t] \in Nat
      BY <1>0 DEF TypeOK
    <3> QED BY <1>8, <3>1 DEF Applied, DrainInv
  <2>3. watermark' = watermark
    BY <2>1 DEF Drain, ApplyEvent, EndDrain
  <2>4. MarkedFrames(t)'
    BY <1>1, <2>1, <2>3
  <2> QED BY <1>0, <2>1, <2>2, <2>4, DrainMarks
<1>9. CASE StoreBehind(t)
  <2>1. /\ UNCHANGED <<down, cursor, watermark, complete, target, link>>
        /\ \E x : /\ state' = [state EXCEPT ![t] = x]
                  /\ x = "online" => state[t] = "online" \/ (complete[t] /\ cursor[t] >= target[t])
    <3>1. EndDrain(t, cursor[t], buffered[t], advanced[t]) /\ UNCHANGED <<cursor, down>>
      BY <1>9 DEF StoreBehind
    <3>2. UNCHANGED <<complete, target, watermark, link>>
      BY <3>1 DEF EndDrain
    <3>3. \E x : /\ state' = [state EXCEPT ![t] = x]
                 /\ x = "online" => state[t] = "online" \/ (complete[t] /\ cursor[t] >= target[t])
      <4> DEFINE x == IF (buffered[t] # {} /\ cursor[t] + 1 \notin buffered[t]
                             /\ (advanced[t] \/ ~asked[t])) /\ ~Linked(t) THEN "reconnecting"
                      ELSE IF complete[t] /\ cursor[t] >= target[t] THEN "online" ELSE state[t]
      <4>1. state' = [state EXCEPT ![t] = x]
        BY <3>1 DEF EndDrain
      <4>2. x = "online" => state[t] = "online" \/ (complete[t] /\ cursor[t] >= target[t])
        OBVIOUS
      <4> QED BY <4>1, <4>2
    <3>4. UNCHANGED <<down, cursor, watermark, complete, target, link>>
      BY <3>1, <3>2
    <3> QED BY <3>3, <3>4, Zenon
  <2>2. MarkedTab(t)'
    <3>0. state \in [Tabs -> States]
      BY <1>0 DEF TypeOK
    <3>1. state'[t] = "online" => state[t] = "online" \/ (complete[t] /\ cursor'[t] >= target[t])
      BY <2>1, <3>0
    <3>2. cursor'[t] >= cursor[t]
      BY <1>0, <2>1
    <3> QED BY <1>0, <2>1, <3>1, <3>2, AdvanceMarks
  <2>3. \A s \in Tabs \ {t} : state'[s] = state[s]
    BY <1>0, <2>1 DEF TypeOK
  <2> QED BY <1>0, <1>1, <2>1, <2>2, <2>3, OneTabMarks
<1> QED BY <1>2, <1>3, <1>5, <1>6, <1>7, <1>8, <1>9 DEF ClientStep

\* A connection that is lost takes the end of a snapshot with it: what is left of the frames
\* ends none that was not ended already.
LEMMA CutMarks ==
    ASSUME FeedInv, MarkInv, NEW t \in Tabs, UNCHANGED events,
           NEW m \in 0..Len(down[t]), down'[t] = SubSeq(down[t], 1, m),
           watermark'[t] = watermark[t], second'[t] = FALSE
    PROVE  MarkedFrames(t)'
<1>1. /\ down[t] \in Seq(Envelope) /\ watermark[t] \in Nat /\ Len(events) \in Nat
      /\ Marked(down[t], watermark[t], Sound, Len(events))
  BY TabTypes DEF MarkInv, MarkedFrames
<1>2. Sound' = Sound
  BY DEF Sound, Deliverable
<1>3. Marked(SubSeq(down[t], 1, m), watermark[t], Sound, Len(events))
  BY <1>1, MarkedCut
<1> QED BY <1>2, <1>3 DEF MarkedFrames

LEMMA CloseMarks ==
    ASSUME FeedInv, FeedInv', MarkInv, NEW T \in SUBSET Tabs, Close(T), UNCHANGED events
    PROVE  MarkInv'
<1>0. TypeOK
  BY DEF FeedInv
<1>1. ASSUME NEW s \in Tabs \ T PROVE MarkedFrames(s)' /\ MarkedTab(s)'
  <2>1. /\ down'[s] = down[s] /\ second'[s] = second[s] /\ lastSent'[s] = lastSent[s]
        /\ link'[s] = link[s] /\ state'[s] = state[s]
        /\ UNCHANGED <<cursor, complete, target, watermark>>
    <3>1. second'[s] = (second[s] /\ TRUE) /\ second[s] \in BOOLEAN
      BY <1>0, <1>1 DEF Close, EndSessions, TypeOK
    <3> QED BY <1>1, <3>1 DEF Close, Disconnect, LoseFrames, EndSessions
  <2>2. MarkedFrames(s) /\ MarkedTab(s)
    BY DEF MarkInv
  <2> QED BY <2>1, <2>2, MarksSame
<1>2. ASSUME NEW s \in T PROVE MarkedFrames(s)' /\ MarkedTab(s)'
  <2>1. /\ second'[s] = FALSE /\ ~Linked(s)' /\ UNCHANGED <<complete, target, watermark>>
        /\ \E m \in 0..Len(down[s]) : down'[s] = SubSeq(down[s], 1, m)
    <3>1. second'[s] = FALSE /\ link'[s] = "closed" /\ UNCHANGED <<complete, target, watermark>>
      BY <1>2 DEF Close, EndSessions, Disconnect
    <3>2. PICK kept \in [T -> UNION {0..Len(down[t]) : t \in T}] :
             /\ \A t \in T : kept[t] <= Len(down[t])
             /\ down' = [t \in Tabs |-> IF t \in T THEN SubSeq(down[t], 1, kept[t]) ELSE down[t]]
      BY DEF Close, LoseFrames
    <3>3. kept[s] \in Nat /\ kept[s] <= Len(down[s]) /\ Len(down[s]) \in Nat
      <4>1. PICK t \in T : kept[s] \in 0..Len(down[t])
        BY <1>2, <3>2
      <4>2. Len(down[t]) \in Nat /\ Len(down[s]) \in Nat
        BY <1>2, TabTypes
      <4>3. kept[s] \in Nat
        BY <4>1, <4>2
      <4> QED BY <1>2, <3>2, <4>2, <4>3
    <3>4. kept[s] \in 0..Len(down[s])
      BY <3>3
    <3>5. down'[s] = SubSeq(down[s], 1, kept[s])
      BY <1>2, <3>2
    <3> QED BY <3>1, <3>4, <3>5 DEF Linked
  <2>2. MarkedFrames(s)'
    BY <1>2, <2>1, CutMarks
  <2>3. MarkedTab(s)'
    <3>1. Sound' = Sound /\ MarkedTab(s)
      BY <1>2 DEF Sound, Deliverable, MarkInv
    <3> QED BY <2>1, <3>1 DEF MarkedTab, SnapshotComplete
  <2> QED BY <2>2, <2>3
<1> QED BY <1>1, <1>2 DEF MarkInv

\* A store that fails closes its own tab's connection.
LEMMA StoreFailsMarks ==
    ASSUME FeedInv, FeedInv', MarkInv, NEW t \in Tabs, StoreFails(t)
    PROVE  MarkInv'
<1>0. /\ TypeOK /\ UNCHANGED events /\ Sound' = Sound /\ MarkedTab(t)
      /\ down[t] \in Seq(Envelope) /\ Len(down[t]) \in Nat
      /\ UNCHANGED <<complete, target, watermark>>
      /\ state' = [state EXCEPT ![t] = "reconnecting"]
      /\ \E cur : cursor' = [cursor EXCEPT ![t] = cur]
  <2>1. UNCHANGED events
    BY DEF StoreFails, dbVars
  <2>2. /\ UNCHANGED <<complete, target, watermark>>
        /\ \E cur : cursor' = [cursor EXCEPT ![t] = cur]
    BY DEF StoreFails, MailboxEventFails, AppliedFails, DrainFails
  <2>3. state' = [state EXCEPT ![t] = "reconnecting"]
    BY DEF StoreFails
  <2> QED BY <2>1, <2>2, <2>3, TabTypes DEF FeedInv, Sound, Deliverable, MarkInv
<1>1. /\ \A s \in Tabs \ {t} : /\ link'[s] = link[s] /\ second'[s] = second[s]
                               /\ lastSent'[s] = lastSent[s] /\ down'[s] = down[s]
                               /\ state'[s] = state[s] /\ cursor'[s] = cursor[s]
      /\ state'[t] = "reconnecting"
  <2>1. \E d : down' = [down EXCEPT ![t] = d]
    BY DEF StoreFails
  <2>2. \A s \in Tabs \ {t} : link'[s] = link[s] /\ second'[s] = second[s] /\ lastSent'[s] = lastSent[s]
    <3>1. CASE Linked(t)
      <4>1. Disconnect({t}) /\ EndSessions({t})
        BY <3>1 DEF StoreFails
      <4>2. ASSUME NEW s \in Tabs \ {t} PROVE link'[s] = link[s] /\ lastSent'[s] = lastSent[s]
        BY <4>1, <4>2 DEF Disconnect, EndSessions
      <4>3. ASSUME NEW s \in Tabs \ {t} PROVE second'[s] = second[s]
        <5>1. second'[s] = (second[s] /\ TRUE) /\ second[s] \in BOOLEAN
          BY <1>0, <4>1, <4>3 DEF EndSessions, TypeOK
        <5> QED BY <5>1
      <4> QED BY <4>2, <4>3
    <3>2. CASE ~Linked(t)
      BY <3>2 DEF StoreFails, sessionVars
    <3> QED BY <3>1, <3>2
  <2> QED BY <1>0, <2>1, <2>2 DEF TypeOK
<1>2. MarkedTab(t)'
  BY <1>0, <1>1 DEF MarkedTab, SnapshotComplete
<1>3. ASSUME NEW frames \in Seq(Envelope), NEW m \in 0..Len(frames), Linked(t) \/ m = Len(frames),
             Marked(frames, watermark[t], Sound, Len(events)),
             second[t] => Covers(frames, watermark[t], Len(frames) + 1, lastSent[t], Sound),
             down'[t] = SubSeq(frames, 1, m)
      PROVE  MarkedFrames(t)'
  <2>1. watermark[t] \in Nat /\ Len(events) \in Nat
    BY TabTypes
  <2>2. Marked(SubSeq(frames, 1, m), watermark[t], Sound, Len(events))
    BY <1>3, <2>1, MarkedCut
  <2>3. CASE Linked(t)
    <3>1. second'[t] = FALSE
      BY <2>3 DEF StoreFails, EndSessions
    <3> QED BY <1>0, <1>3, <2>2, <3>1 DEF MarkedFrames
  <2>4. CASE ~Linked(t)
    <3>1. UNCHANGED <<second, lastSent>>
      BY <2>4 DEF StoreFails, sessionVars
    <3>2. SubSeq(frames, 1, m) = frames
      BY <1>3, <2>4, SubSeqFull
    <3> QED BY <1>0, <1>3, <2>2, <3>1, <3>2 DEF MarkedFrames
  <2> QED BY <2>3, <2>4
<1>4. MarkedFrames(t)'
  <2> DEFINE d == down[t]  w == watermark[t]  n == Len(events)
  <2>1. /\ d \in Seq(Envelope) /\ Len(d) \in Nat /\ w \in Nat /\ n \in Nat /\ Marked(d, w, Sound, n)
        /\ second[t] => Covers(d, w, Len(d) + 1, lastSent[t], Sound)
    BY TabTypes DEF MarkInv, MarkedFrames
  <2>2. CASE /\ MailboxEventFails(t)
             /\ \E m \in 0..Len(Tail(d)) : /\ Linked(t) \/ m = Len(Tail(d))
                                           /\ down' = [down EXCEPT ![t] = SubSeq(Tail(d), 1, m)]
    <3>1. d # <<>> /\ Head(d).type # "started"
      BY <2>2 DEF MailboxEventFails
    <3>2. Tail(d) \in Seq(Envelope) /\ Len(Tail(d)) + 1 = Len(d) /\ Len(d) \in 1..Len(d)
      BY <2>1, <3>1, HeadTailProperties, EmptySeq
    <3>3. Marked(Tail(d), w, Sound, n)
      BY <2>1, <3>1, MarkedTail
    <3>4. second[t] => Covers(Tail(d), w, Len(Tail(d)) + 1, lastSent[t], Sound)
      BY <2>1, <3>1, <3>2, CoversTail
    <3>5. PICK m \in 0..Len(Tail(d)) : /\ Linked(t) \/ m = Len(Tail(d))
                                       /\ down'[t] = SubSeq(Tail(d), 1, m)
      BY <1>0, <2>2 DEF TypeOK
    <3> QED BY <1>3, <3>2, <3>3, <3>4, <3>5
  <2>3. CASE \E m \in 0..Len(d) : /\ Linked(t) \/ m = Len(d)
                                  /\ down' = [down EXCEPT ![t] = SubSeq(d, 1, m)]
    <3>1. PICK m \in 0..Len(d) : (Linked(t) \/ m = Len(d)) /\ down'[t] = SubSeq(d, 1, m)
      BY <1>0, <2>3 DEF TypeOK
    <3> QED BY <1>3, <2>1, <3>1
  <2> QED BY <2>2, <2>3 DEF StoreFails
<1> QED BY <1>0, <1>1, <1>2, <1>4, OneTabMarks

LEMMA ReloadMarks ==
    ASSUME FeedInv, FeedInv', MarkInv, NEW t \in Tabs, Reload(t)
    PROVE  MarkInv'
<1>0. TypeOK /\ UNCHANGED events /\ Sound' = Sound /\ Len(events) \in Nat
  <2>1. TypeOK /\ UNCHANGED events
    BY DEF FeedInv, Reload, dbVars
  <2> QED BY <2>1, ServerLengths DEF Sound, Deliverable
<1>1. /\ down'[t] = <<>> /\ watermark'[t] = 0 /\ second'[t] = FALSE /\ complete'[t] = FALSE
      /\ state'[t] = "idle"
  BY <1>0 DEF Reload, NewAdapter, EndSessions, TypeOK
<1>2. MarkedFrames(t)'
  BY <1>0, <1>1, EmptySeq DEF MarkedFrames, Marked
<1>3. MarkedTab(t)'
  BY <1>1 DEF MarkedTab, SnapshotComplete
<1>4. \A s \in Tabs \ {t} : /\ second'[s] = second[s] /\ lastSent'[s] = lastSent[s]
                            /\ link'[s] = link[s] /\ down'[s] = down[s]
  BY <1>0 DEF Reload, EndSessions, Disconnect, TypeOK
<1>5. \A s \in Tabs \ {t} : /\ watermark'[s] = watermark[s] /\ complete'[s] = complete[s]
                            /\ target'[s] = target[s] /\ state'[s] = state[s] /\ cursor'[s] = cursor[s]
  BY <1>0 DEF Reload, NewAdapter, TypeOK
<1> QED BY <1>0, <1>2, <1>3, <1>4, <1>5, OneTabMarks

\* A history that is cleared forgets its watermark.
LEMMA ClearMarks ==
    ASSUME FeedInv, FeedInv', MarkInv, NEW t \in Tabs, ClearHistory(t), UNCHANGED serverVars
    PROVE  MarkInv'
<1>0. /\ TypeOK /\ UNCHANGED <<events, second, lastSent, down, state, target, link>> /\ Sound' = Sound
      /\ Len(events) \in Nat
  <2>1. TypeOK /\ UNCHANGED <<events, second, lastSent, down, state, target, link>>
    BY DEF FeedInv, serverVars, dbVars, sessionVars, ClearHistory
  <2> QED BY <2>1, ServerLengths DEF Sound, Deliverable
<1>1. /\ cursor'[t] = 0 /\ watermark'[t] = 0 /\ complete'[t] = FALSE
      /\ \A s \in Tabs \ {t} : /\ cursor'[s] = cursor[s] /\ watermark'[s] = watermark[s]
                               /\ complete'[s] = complete[s]
  BY <1>0 DEF ClearHistory, TypeOK
<1>2. MarkedFrames(t)'
  <2>1. /\ down[t] \in Seq(Envelope) /\ lastSent[t] \in Nat /\ MarkedFrames(t)
    BY TabTypes DEF MarkInv
  <2>2. Marked(down[t], 0, Sound, Len(events))
    BY <1>0, <2>1, MarkedZero DEF MarkedFrames
  <2>3. second[t] => Covers(down[t], 0, Len(down[t]) + 1, lastSent[t], Sound)
    BY <2>1, CoversZero DEF MarkedFrames
  <2> QED BY <1>0, <1>1, <2>2, <2>3 DEF MarkedFrames
<1>3. MarkedTab(t)'
  BY <1>1 DEF MarkedTab, SnapshotComplete
<1> QED BY <1>0, <1>1, <1>2, <1>3, OneTabMarks

LEMMA StepMarks ==
    ASSUME FeedInv, DrainInv, MarkInv, [Next]_vars PROVE MarkInv'
<1>0. FeedInv' /\ TypeOK
  BY StepKeeps DEF FeedInv
<1>1. ASSUME UNCHANGED <<down, watermark, second, lastSent, complete, target, state, link, cursor, events>>
      PROVE  MarkInv'
  BY <1>0, <1>1, MarksSame DEF MarkInv
<1>2. CASE UNCHANGED vars
  BY <1>1, <1>2 DEF vars, wireVars, serverVars, dbVars, sessionVars, clientVars, tabVars
<1>3. CASE WorkerStep
  BY <1>1, <1>3 DEF WorkerStep, ClaimOutbox, RecoverOutbox, Publish, wireVars, sessionVars,
                    clientVars, tabVars
<1>4. CASE Others
  <2>1. UNCHANGED <<down, watermark, second, lastSent, complete, target, state, link, cursor>>
    BY <1>4 DEF Others, PersistMessage, SystemCard, RecallMessage, DeleteMessage, RecordEvent,
                wireVars, sessionVars, clientVars, tabVars
  <2> QED BY <1>0, <1>4, <2>1, SoundShrinks, MarksStay DEF MarkInv
<1>5. CASE Failure
  <2>1. CASE Crash
    <3> DEFINE T == {t \in Tabs : link[t] # "closed"}
    <3>1. T \in SUBSET Tabs /\ Close(T) /\ UNCHANGED events
      BY <2>1 DEF Crash
    <3> HIDE DEF T
    <3> QED BY <1>0, <3>1, CloseMarks
  <2>2. ASSUME NEW i \in Seqs, PublishFails(i), UNCHANGED clientVars PROVE MarkInv'
    BY <1>1, <2>2 DEF PublishFails, clientVars, tabVars
  <2>3. ASSUME NEW t \in Tabs, Lose(t) PROVE MarkInv'
    <3>1. {t} \in SUBSET Tabs /\ Close({t}) /\ UNCHANGED events
      BY <2>3 DEF Lose, dbVars
    <3> QED BY <1>0, <3>1, CloseMarks
  <2>4. ASSUME NEW t \in Tabs, ConnectFails(t), UNCHANGED serverVars PROVE MarkInv'
    <3>1. /\ UNCHANGED <<down, watermark, second, lastSent, complete, target, link, cursor, events>>
          /\ state' = [state EXCEPT ![t] = "failed"]
      BY <2>4 DEF ConnectFails, serverVars, dbVars, sessionVars
    <3>2. MarkedTab(t)' /\ MarkedFrames(t)'
      <4>1. Sound' = Sound /\ MarkedTab(t) /\ MarkedFrames(t) /\ state'[t] = "failed"
        BY <1>0, <3>1 DEF Sound, Deliverable, MarkInv, TypeOK
      <4> QED BY <3>1, <4>1 DEF MarkedTab, MarkedFrames, SnapshotComplete
    <3>3. \A s \in Tabs \ {t} : state'[s] = state[s]
      BY <1>0, <3>1 DEF TypeOK
    <3> QED BY <1>0, <3>1, <3>2, <3>3, OneTabMarks
  <2> QED BY <1>0, <1>5, <2>1, <2>2, <2>3, <2>4, StoreFailsMarks, ReloadMarks DEF Failure
<1> QED BY <1>0, <1>2, <1>3, <1>4, <1>5, ClientMarks, SessionMarks, ClearMarks DEF Next

\* A tab that shows itself as online has stored every event there was when its snapshot
\* began, if each of them can still be sent: whatever came in between the two passes of
\* the session, and whatever was lost, reloaded or cleared since.
THEOREM SnapshotsCovered == Spec => []SnapshotUnlessBroken
<1>1. ASSUME Init PROVE DrainInv /\ MarkInv
  <2>1. DrainInv
    BY <1>1 DEF Init, ClientInit, DrainInv
  <2>2. ASSUME NEW t \in Tabs PROVE MarkedFrames(t) /\ MarkedTab(t)
    <3>1. /\ down[t] = <<>> /\ watermark[t] = 0 /\ events = <<>> /\ second[t] = FALSE
          /\ complete[t] = FALSE /\ state[t] = "idle"
      BY <1>1 DEF Init, WireInit, ServerInit, ClientInit
    <3> QED BY <3>1, EmptySeq DEF MarkedFrames, Marked, MarkedTab, SnapshotComplete
  <2> QED BY <2>1, <2>2 DEF MarkInv
<1>2. FeedInv /\ DrainInv /\ MarkInv /\ [Next]_vars => DrainInv' /\ MarkInv'
  BY DrainStaysAhead, StepMarks
<1>3. FeedInv /\ MarkInv => SnapshotUnlessBroken
  <2> SUFFICES ASSUME FeedInv, MarkInv, NEW t \in Tabs, \A i \in 1..watermark[t] : Deliverable(i)
               PROVE  SnapshotComplete(t)
    BY DEF SnapshotUnlessBroken
  <2>1. watermark[t] \in Nat /\ watermark[t] <= Len(events)
    BY TabTypes DEF MarkInv, MarkedFrames, Marked
  <2>2. watermark[t] \in Sound
    BY <2>1, ServerLengths DEF Sound, FeedInv
  <2> QED BY <2>2 DEF MarkInv, MarkedTab
<1> QED BY <1>1, <1>2, <1>3, FeedInvariant, PTL DEF Spec
=============================================================================
