-------------------------- MODULE SendQueueProofs ---------------------------
(***************************************************************************)
(* The send queue and its conversation, for any users, tabs, requests and  *)
(* any number of messages, failures and role changes.                      *)
(***************************************************************************)
EXTENDS SendQueue, TLAPS

QueueSteps == {"arrive", "persist", "accepted", "refused"}

\* A request that carries a message of the queue.
Sends(r) == r.at \in QueueSteps /\ r.num # NoLocal

\* w messages have been written and n have been stored.
GoodRequest(r, w, n) ==
    /\ r \in Requests
    /\ r.at # "idle" => r.by \in Users
    /\ r.at \in {"arrive", "accepted", "refused"} => r.num # NoLocal
    /\ Sends(r) => r.by = Me /\ r.num <= w
    /\ r.at = "note" => r.num <= n

Message == [from : Users, local : Nat, status : {"active", "recalled"}]
MailEvent == [kind : {"created", "recalled"}, seq : Nat, local : Nat]

GroupInv ==
    /\ open \in BOOLEAN /\ lastSeq \in Nat /\ work \in Nat /\ faults \in Nat
    /\ DOMAIN messages \subseteq 1..lastSeq
    /\ messages \in [DOMAIN messages -> Message]
    /\ role \in [Users -> Roles] /\ read \in [Users -> Nat] /\ joined \in [Users -> Nat]
    /\ mailbox \in [Users -> Seq(MailEvent)]
    /\ overtaken \subseteq Handlers /\ contested \in BOOLEAN /\ untold \subseteq Nat

RequestInv ==
    /\ req \in [Handlers -> Requests]
    /\ \A h \in Handlers : GoodRequest(req[h], written, lastSeq)

StoreInv ==
    /\ written \in Nat /\ author \in Seq(Tabs) /\ Len(author) = written
    /\ pending \subseteq Written
    /\ cursor \in Nat /\ cleared \in 0..written

TabInv ==
    /\ online \in [Tabs -> BOOLEAN] /\ asked \in [Tabs -> BOOLEAN] /\ gaveUp \in [Tabs -> BOOLEAN]
    /\ drain \in [Tabs -> {"idle", "reading", "next", "sending"}]
    /\ batch \in [Tabs -> SUBSET Written] /\ submitted \in [Tabs -> SUBSET Written]
    /\ call \in [Tabs -> Handlers \union {NoCall}]

\* Two tabs never wait for the same request.
CallInv ==
    \A t \in Tabs :
        /\ drain[t] = "sending" => call[t] \in Handlers /\ Sends(req[call[t]])
        /\ drain[t] # "sending" => call[t] = NoCall
        /\ \A u \in Tabs : call[t] = call[u] /\ call[t] # NoCall => t = u

BaseInv == GroupInv /\ RequestInv /\ StoreInv /\ TabInv /\ CallInv

-----------------------------------------------------------------------------
(* Requests and messages.                                                  *)

LEMMA RequestShape ==
    ASSUME NEW at, NEW u, NEW a, NEW w, NEW n
    PROVE  /\ Request(at, u, a, w, n).at = at
           /\ Request(at, u, a, w, n).by = u
           /\ Request(at, u, a, w, n).adds = a
           /\ Request(at, u, a, w, n).whom = w
           /\ Request(at, u, a, w, n).num = n
           /\ (at \in Steps /\ u \in Users \union {NoUser} /\ a \in SUBSET Users
                 /\ w \in SUBSET Users /\ n \in Nat) => Request(at, u, a, w, n) \in Requests
  BY DEF Request, Requests

LEMMA RequestFields ==
    ASSUME NEW r \in Requests
    PROVE  /\ r.at \in Steps /\ r.by \in Users \union {NoUser}
           /\ r.adds \in SUBSET Users /\ r.whom \in SUBSET Users /\ r.num \in Nat
  BY DEF Requests

LEMMA NoRequestShape ==
    /\ NoRequest \in Requests /\ NoRequest.at = "idle" /\ NoRequest.by = NoUser
    /\ NoRequest.num = 0 /\ ~Sends(NoRequest)
<1>1. NoRequest.at = "idle" /\ NoRequest.by = NoUser /\ NoRequest.num = 0
  BY RequestShape DEF NoRequest
<1>2. NoRequest \in Requests
  BY DEF NoRequest, Request, Requests, Steps
<1> QED BY <1>1, <1>2 DEF Sends, QueueSteps

LEMMA RowShape ==
    ASSUME NEW u, NEW l, NEW s
    PROVE  /\ Row(u, l, s).from = u /\ Row(u, l, s).local = l /\ Row(u, l, s).status = s
           /\ (u \in Users /\ l \in Nat /\ s \in {"active", "recalled"}) => Row(u, l, s) \in Message
  BY DEF Row, Message

LEMMA MessageFields ==
    ASSUME NEW m \in Message
    PROVE  m.from \in Users /\ m.local \in Nat /\ m.status \in {"active", "recalled"}
  BY DEF Message

LEMMA EventShape ==
    ASSUME NEW k, NEW s, NEW l
    PROVE  /\ Event(k, s, l).kind = k /\ Event(k, s, l).seq = s /\ Event(k, s, l).local = l
           /\ (k \in {"created", "recalled"} /\ s \in Nat /\ l \in Nat) => Event(k, s, l) \in MailEvent
  BY DEF Event, MailEvent

LEMMA MailFields ==
    ASSUME NEW e \in MailEvent
    PROVE  e.kind \in {"created", "recalled"} /\ e.seq \in Nat /\ e.local \in Nat
  BY DEF MailEvent

LEMMA LargerIs ==
    ASSUME NEW a \in Int, NEW b \in Int
    PROVE  Larger(a, b) \in {a, b} /\ Larger(a, b) >= a /\ Larger(a, b) >= b
  BY DEF Larger

-----------------------------------------------------------------------------
(* What a step of the server does to its requests.                         *)

\* Request h becomes r, which still sends what h sent.
Turns(h, r) ==
    /\ req' = [req EXCEPT ![h] = r]
    /\ GoodRequest(r, written', lastSeq')
    /\ Sends(req[h]) => Sends(r) /\ r.num = req[h].num

LEMMA GoodStays ==
    ASSUME NEW r, NEW w \in Nat, NEW n \in Nat, NEW x \in Nat, NEW y \in Nat,
           GoodRequest(r, w, n), w <= x, n <= y
    PROVE  GoodRequest(r, x, y)
<1>1. r.num \in Nat
  BY RequestFields DEF GoodRequest
<1> QED BY <1>1 DEF GoodRequest, Sends

LEMMA NoRequestIsGood == ASSUME NEW x, NEW y PROVE GoodRequest(NoRequest, x, y)
  BY NoRequestShape DEF GoodRequest

\* A step that is none of sending and is not told to note anything.
LEMMA OtherIsGood ==
    ASSUME NEW at \in Steps \ (QueueSteps \union {"note"}), NEW u \in Users,
           NEW a \in SUBSET Users, NEW w \in SUBSET Users, NEW n \in Nat, NEW x, NEW y
    PROVE  GoodRequest(Request(at, u, a, w, n), x, y)
<1> DEFINE r == Request(at, u, a, w, n)
<1>1. r \in Requests /\ r.at = at /\ r.by = u
  BY RequestShape
<1> HIDE DEF r
<1>2. GoodRequest(r, x, y)
  BY <1>1 DEF GoodRequest, Sends, QueueSteps
<1> QED BY <1>2 DEF r

LEMMA TurnsKeeps ==
    ASSUME RequestInv, NEW h \in Handlers, NEW r, Turns(h, r),
           written \in Nat, written' \in Nat, written <= written',
           lastSeq \in Nat, lastSeq' \in Nat, lastSeq <= lastSeq'
    PROVE  RequestInv'
<1>1. r \in Requests
  BY DEF Turns, GoodRequest
<1>2. ASSUME NEW g \in Handlers PROVE GoodRequest(req'[g], written', lastSeq')
  <2>1. CASE g = h
    <3>1. req'[g] = r
      BY <2>1 DEF Turns, RequestInv
    <3> QED BY <3>1 DEF Turns
  <2>2. CASE g # h
    <3>1. req'[g] = req[g] /\ GoodRequest(req[g], written, lastSeq)
      BY <2>2 DEF Turns, RequestInv
    <3> QED BY <3>1, GoodStays
  <2> QED BY <2>1, <2>2
<1> QED BY <1>1, <1>2 DEF RequestInv, Turns

\* What waits for a request still does.
LEMMA TurnsSends ==
    ASSUME RequestInv, NEW h \in Handlers, NEW r, Turns(h, r), NEW g \in Handlers, Sends(req[g])
    PROVE  Sends(req'[g]) /\ req'[g].num = req[g].num
<1>1. CASE g = h
  BY <1>1 DEF Turns, RequestInv
<1>2. CASE g # h
  <2>1. req'[g] = req[g]
    BY <1>2 DEF Turns, RequestInv
  <2> QED BY <2>1
<1> QED BY <1>1, <1>2

-----------------------------------------------------------------------------
(* What a step of the server does to the group.                            *)

LEMMA PersistKeeps ==
    ASSUME GroupInv, NEW u \in Users, NEW l \in Nat, Persist(u, l)
    PROVE  /\ lastSeq' = lastSeq + 1
           /\ DOMAIN messages' = DOMAIN messages \union {lastSeq + 1}
           /\ lastSeq + 1 \notin DOMAIN messages
           /\ messages'[lastSeq + 1] = Row(u, l, "active")
           /\ \A s \in DOMAIN messages : messages'[s] = messages[s]
           /\ messages' \in [DOMAIN messages' -> Message]
           /\ DOMAIN messages' \subseteq 1..lastSeq'
           /\ mailbox' \in [Users -> Seq(MailEvent)]
           /\ \A v \in Members : mailbox'[v] = Append(mailbox[v], Event("created", lastSeq + 1, l))
           /\ \A v \in Users \ Members : mailbox'[v] = mailbox[v]
           /\ read' \in [Users -> Nat]
           /\ \A v \in Users \ {u} : read'[v] = read[v]
           /\ read'[u] \in {read[u], lastSeq + 1} /\ read'[u] >= read[u]
<1>1. lastSeq \in Nat /\ DOMAIN messages \subseteq 1..lastSeq /\ read \in [Users -> Nat]
      /\ messages \in [DOMAIN messages -> Message] /\ mailbox \in [Users -> Seq(MailEvent)]
  BY DEF GroupInv
<1>2. /\ lastSeq' = lastSeq + 1
      /\ messages' = [s \in DOMAIN messages \union {lastSeq + 1} |->
                          IF s = lastSeq + 1 THEN Row(u, l, "active") ELSE messages[s]]
      /\ mailbox' = [v \in Users |-> IF v \in Members
                                     THEN Append(mailbox[v], Event("created", lastSeq + 1, l))
                                     ELSE mailbox[v]]
      /\ read' = [read EXCEPT ![u] = IF u \in Members THEN Larger(@, lastSeq + 1) ELSE @]
  BY DEF Persist
<1>3. lastSeq + 1 \notin DOMAIN messages
  BY <1>1
<1>4. /\ DOMAIN messages' = DOMAIN messages \union {lastSeq + 1}
      /\ messages'[lastSeq + 1] = Row(u, l, "active")
      /\ \A s \in DOMAIN messages : messages'[s] = messages[s]
      /\ DOMAIN messages' \subseteq 1..lastSeq'
  BY <1>1, <1>2, <1>3
<1>5. messages' \in [DOMAIN messages' -> Message]
  <2>1. Row(u, l, "active") \in Message
    BY RowShape
  <2> QED BY <1>1, <1>2, <2>1
<1>6. mailbox' \in [Users -> Seq(MailEvent)]
  <2>1. Event("created", lastSeq + 1, l) \in MailEvent
    BY EventShape, <1>1
  <2> QED BY <1>1, <1>2, <2>1
<1>7. /\ \A v \in Members : mailbox'[v] = Append(mailbox[v], Event("created", lastSeq + 1, l))
      /\ \A v \in Users \ Members : mailbox'[v] = mailbox[v]
  BY <1>2 DEF Members
<1>8. /\ read' \in [Users -> Nat]
      /\ \A v \in Users \ {u} : read'[v] = read[v]
      /\ read'[u] \in {read[u], lastSeq + 1} /\ read'[u] >= read[u]
  <2>1. read[u] \in Nat /\ lastSeq + 1 \in Nat
    BY <1>1
  <2>2. Larger(read[u], lastSeq + 1) \in {read[u], lastSeq + 1}
        /\ Larger(read[u], lastSeq + 1) >= read[u]
    BY <2>1, LargerIs
  <2> QED BY <1>1, <1>2, <2>1, <2>2
<1> QED BY <1>2, <1>3, <1>4, <1>5, <1>6, <1>7, <1>8

\* The five things that a step can do to messages and mailboxes.
Quiet == UNCHANGED <<lastSeq, messages, mailbox>>

StoresFor(h) ==
    \E u \in Users, l \in Nat :
        /\ open /\ Persist(u, l) /\ UNCHANGED <<role, joined>>
        /\ l # NoLocal => /\ u = Me /\ ~Stored(Me, l)
                          /\ req[h].at = "persist" /\ req[h].num = l

Marks(h) ==
    /\ req[h].at = "mark" /\ req[h].num \in DOMAIN messages
    /\ messages' = [messages EXCEPT ![req[h].num] = Row(@.from, @.local, "recalled")]
    /\ UNCHANGED <<lastSeq, mailbox>>

Tells(h) ==
    /\ req[h].at = "tell"
    /\ mailbox' = [v \in Users |-> IF v \in req[h].whom
                                   THEN Append(mailbox[v], Event("recalled", req[h].num, NoLocal))
                                   ELSE mailbox[v]]
    /\ UNCHANGED <<lastSeq, messages, role, joined>>

Empties == messages' = <<>> /\ UNCHANGED <<lastSeq, mailbox>>

Effect(h) == Quiet \/ StoresFor(h) \/ Marks(h) \/ Tells(h) \/ Empties

LEMMA EffectKeeps ==
    ASSUME GroupInv, RequestInv, NEW h \in Handlers, Effect(h)
    PROVE  /\ lastSeq' \in Nat /\ lastSeq <= lastSeq'
           /\ DOMAIN messages' \subseteq 1..lastSeq'
           /\ messages' \in [DOMAIN messages' -> Message]
           /\ mailbox' \in [Users -> Seq(MailEvent)]
<1>1. lastSeq \in Nat /\ DOMAIN messages \subseteq 1..lastSeq
      /\ messages \in [DOMAIN messages -> Message] /\ mailbox \in [Users -> Seq(MailEvent)]
  BY DEF GroupInv
<1>2. CASE Quiet
  BY <1>1, <1>2 DEF Quiet
<1>3. CASE StoresFor(h)
  <2> PICK u \in Users, l \in Nat : Persist(u, l)
    BY <1>3 DEF StoresFor
  <2> QED BY <1>1, PersistKeeps
<1>4. CASE Marks(h)
  <2> DEFINE s == req[h].num
             new == Row(messages[s].from, messages[s].local, "recalled")
  <2>1. s \in DOMAIN messages /\ messages' = [messages EXCEPT ![s] = new]
        /\ UNCHANGED <<lastSeq, mailbox>>
    BY <1>4 DEF Marks
  <2>2. new \in Message
    BY <1>1, <2>1, MessageFields, RowShape
  <2> HIDE DEF s, new
  <2> QED BY <1>1, <2>1, <2>2
<1>5. CASE Tells(h)
  <2> DEFINE e == Event("recalled", req[h].num, NoLocal)
  <2>1. req[h].num \in Nat
    BY RequestFields DEF RequestInv
  <2>2. e \in MailEvent
    BY <2>1, EventShape DEF NoLocal
  <2>3. mailbox' = [v \in Users |-> IF v \in req[h].whom THEN Append(mailbox[v], e) ELSE mailbox[v]]
        /\ UNCHANGED <<lastSeq, messages>>
    BY <1>5 DEF Tells
  <2> HIDE DEF e
  <2> QED BY <1>1, <2>2, <2>3
<1>6. CASE Empties
  <2>1. DOMAIN messages' = {} /\ messages' \in [{} -> Message]
    BY <1>6 DEF Empties
  <2> QED BY <1>1, <1>6, <2>1 DEF Empties
<1> QED BY <1>2, <1>3, <1>4, <1>5, <1>6 DEF Effect

RowsTyped ==
    /\ open \in BOOLEAN /\ work \in Nat /\ faults \in Nat
    /\ role \in [Users -> Roles] /\ read \in [Users -> Nat] /\ joined \in [Users -> Nat]
    /\ overtaken \subseteq Handlers /\ contested \in BOOLEAN /\ untold \subseteq Nat

\* What is known of every step of the server.
Served(h) == Effect(h) /\ RowsTyped' /\ \E r : Turns(h, r)

LEMMA GroupRows == GroupInv => RowsTyped
  BY DEF GroupInv, RowsTyped

LEMMA BeginServes ==
    ASSUME BaseInv, NEW h \in Handlers, NEW r, GoodRequest(r, written, lastSeq), Begin(h, r),
           UNCHANGED queueVars
    PROVE  Served(h)
<1>1. UNCHANGED <<groupVars, faults, historyVars>> /\ work' = work + 1 /\ req[h].at = "idle"
      /\ req' = [req EXCEPT ![h] = r]
  BY DEF Begin, Becomes
<1>2. Effect(h) /\ RowsTyped'
  BY <1>1, GroupRows DEF BaseInv, RowsTyped, Effect, Quiet, groupVars, historyVars
<1>3. Turns(h, r)
  <2>1. written' = written /\ lastSeq' = lastSeq
    BY <1>1 DEF queueVars, storeVars, groupVars
  <2> QED BY <1>1, <2>1 DEF Turns, Sends, QueueSteps
<1> QED BY <1>2, <1>3 DEF Served

\* Nothing of the conversation but its requests and its bounds changes.
LEMMA QuietServes ==
    ASSUME BaseInv, NEW h \in Handlers, UNCHANGED groupVars, UNCHANGED queueVars,
           NEW r, GoodRequest(r, written, lastSeq), Becomes(h, r),
           Sends(req[h]) => Sends(r) /\ r.num = req[h].num,
           work' \in Nat, faults' \in Nat, overtaken' \subseteq Handlers,
           contested' \in BOOLEAN, untold' \subseteq Nat
    PROVE  Served(h)
<1>1. UNCHANGED <<open, lastSeq, messages, role, read, joined, mailbox, written>>
  BY DEF groupVars, queueVars, storeVars
<1>2. Effect(h) /\ RowsTyped'
  BY <1>1, GroupRows DEF BaseInv, RowsTyped, Effect, Quiet
<1>3. Turns(h, r)
  BY <1>1 DEF Turns, Becomes
<1> QED BY <1>2, <1>3 DEF Served

LEMMA GivesUpServes ==
    ASSUME BaseInv, NEW h \in Handlers, ~Sends(req[h]), GivesUp(h), UNCHANGED queueVars
    PROVE  Served(h)
<1>1. /\ UNCHANGED <<groupVars, work, faults, contested, untold>>
      /\ Becomes(h, NoRequest) /\ overtaken' = overtaken \ {h}
  BY DEF GivesUp, Ends
<1>2. /\ work \in Nat /\ faults \in Nat /\ overtaken \subseteq Handlers /\ contested \in BOOLEAN
      /\ untold \subseteq Nat
  BY DEF BaseInv, GroupInv
<1> QED BY <1>1, <1>2, QuietServes, NoRequestIsGood

LEMMA RolesTyped ==
    ASSUME GroupInv, NEW h \in Handlers, NEW new \in [Users -> Roles], NEW last \in BOOLEAN,
           SetRoles(h, new, last)
    PROVE  /\ role' \in [Users -> Roles] /\ contested' \in BOOLEAN
           /\ overtaken' \subseteq Handlers /\ untold' \subseteq Nat
<1>1. /\ role' = new /\ untold' = untold
      /\ contested' = (contested \/ h \in overtaken)
      /\ overtaken' = (overtaken \union (IF new = role THEN {} ELSE Busy \ {h}))
                         \ (IF last THEN {h} ELSE {})
  BY DEF SetRoles
<1>2. overtaken \subseteq Handlers /\ untold \subseteq Nat
  BY DEF GroupInv
<1>3. Busy \subseteq Handlers
  BY DEF Busy
<1>4. overtaken' \subseteq Handlers
  BY <1>1, <1>2, <1>3
<1>5. contested' \in BOOLEAN
  BY <1>1
<1> QED BY <1>1, <1>2, <1>4, <1>5

\* Nothing but roles changes, and where members come in, what they have read.
LEMMA RolesServe ==
    ASSUME BaseInv, NEW h \in Handlers, UNCHANGED queueVars, ~Sends(req[h]),
           NEW new \in [Users -> Roles], NEW last \in BOOLEAN, SetRoles(h, new, last),
           UNCHANGED <<lastSeq, mailbox, work, faults>>,
           messages' \in {messages, <<>>}, open' \in BOOLEAN,
           read' \in [Users -> Nat], joined' \in [Users -> Nat],
           NEW r, GoodRequest(r, written, lastSeq), Becomes(h, r)
    PROVE  Served(h)
<1>1. /\ role' \in [Users -> Roles] /\ contested' \in BOOLEAN
      /\ overtaken' \subseteq Handlers /\ untold' \subseteq Nat
  BY RolesTyped DEF BaseInv
<1>2. work' \in Nat /\ faults' \in Nat
  BY DEF BaseInv, GroupInv
<1>3. RowsTyped'
  BY <1>1, <1>2 DEF RowsTyped
<1>4. Effect(h)
  BY DEF Effect, Quiet, Empties
<1>5. Turns(h, r)
  BY DEF Turns, Becomes, queueVars, storeVars
<1> QED BY <1>3, <1>4, <1>5 DEF Served

LEMMA AnnouncesServes ==
    ASSUME BaseInv, NEW h \in Handlers, req[h].at # "idle", ~Sends(req[h]), UNCHANGED queueVars,
           NEW next, \A x, y : GoodRequest(next, x, y), Announces(h, next)
    PROVE  Served(h)
<1>1. CASE GivesUp(h)
  BY <1>1, GivesUpServes
<1>2. CASE open /\ Persist(req[h].by, NoLocal) /\ Becomes(h, next)
           /\ overtaken' = (IF next = NoRequest THEN overtaken \ {h} ELSE overtaken)
           /\ UNCHANGED <<open, role, joined, work, faults, contested, untold>>
  <2>1. req[h].by \in Users /\ NoLocal \in Nat
    BY DEF BaseInv, RequestInv, GoodRequest, NoLocal
  <2>2. read' \in [Users -> Nat] /\ GroupInv
    BY <1>2, <2>1, PersistKeeps DEF BaseInv
  <2>3. RowsTyped'
    BY <1>2, <2>2 DEF GroupInv, RowsTyped
  <2>4. StoresFor(h)
    BY <1>2, <2>1 DEF StoresFor
  <2>5. Turns(h, next)
    BY <1>2 DEF Turns, Becomes
  <2> QED BY <2>3, <2>4, <2>5 DEF Served, Effect
<1> QED BY <1>1, <1>2 DEF Announces

-----------------------------------------------------------------------------
(* Every step of the server does so.                                       *)

LEMMA PlainSendIsGood ==
    ASSUME NEW u \in Users, NEW x, NEW y
    PROVE  GoodRequest(Request("persist", u, {}, {}, NoLocal), x, y)
<1> DEFINE r == Request("persist", u, {}, {}, NoLocal)
<1>1. r \in Requests /\ r.at = "persist" /\ r.by = u /\ r.num = NoLocal
  BY DEF Request, Requests, NoLocal, Steps
<1> HIDE DEF r
<1>2. GoodRequest(r, x, y)
  BY <1>1 DEF GoodRequest, Sends
<1> QED BY <1>2 DEF r

LEMMA NotingIsGood ==
    ASSUME NEW u \in Users, NEW s \in Nat, NEW x, NEW y, s <= y
    PROVE  GoodRequest(Request("note", u, {}, {}, s), x, y)
<1> DEFINE r == Request("note", u, {}, {}, s)
<1>1. r \in Requests /\ r.at = "note" /\ r.by = u /\ r.num = s
  BY DEF Request, Requests, Steps
<1> HIDE DEF r
<1>2. GoodRequest(r, x, y)
  BY <1>1 DEF GoodRequest, Sends, QueueSteps
<1> QED BY <1>2 DEF r

LEMMA QueuedIsGood ==
    ASSUME NEW at \in QueueSteps, NEW n \in Nat \ {0}, NEW x, NEW y, n <= x, Me \in Users
    PROVE  GoodRequest(Request(at, Me, {}, {}, n), x, y)
<1> DEFINE r == Request(at, Me, {}, {}, n)
<1>1. r \in Requests /\ r.at = at /\ r.by = Me /\ r.num = n
  BY DEF Request, Requests, QueueSteps, Steps
<1> HIDE DEF r
<1>2. GoodRequest(r, x, y)
  BY <1>1 DEF GoodRequest, Sends, QueueSteps, NoLocal
<1> QED BY <1>2 DEF r

LEMMA BeginRequestServes ==
    ASSUME BaseInv, NEW h \in Handlers, BeginRequest(h), UNCHANGED queueVars
    PROVE  Served(h)
<1>0. lastSeq \in Nat /\ DOMAIN messages \subseteq 1..lastSeq
      /\ messages \in [DOMAIN messages -> Message]
  BY DEF BaseInv, GroupInv
<1>1. CASE Send(h)
  <2> PICK u \in Users : Begin(h, Request("persist", u, {}, {}, NoLocal))
    BY <1>1 DEF Send
  <2> QED BY PlainSendIsGood, BeginServes
<1>2. CASE Reedit(h)
  <2> PICK s \in DOMAIN messages :
        Begin(h, Request("persist", messages[s].from, {}, {}, NoLocal))
    BY <1>2 DEF Reedit
  <2>1. messages[s].from \in Users
    BY <1>0, MessageFields
  <2> QED BY <2>1, PlainSendIsGood, BeginServes
<1>3. CASE Recall(h)
  <2> PICK s \in DOMAIN messages : Begin(h, Request("mark", messages[s].from, {}, {}, s))
    BY <1>3 DEF Recall
  <2>1. messages[s].from \in Users /\ s \in Nat
    BY <1>0, MessageFields
  <2>2. GoodRequest(Request("mark", messages[s].from, {}, {}, s), written, lastSeq)
    BY <2>1, OtherIsGood DEF Steps, QueueSteps
  <2> QED BY <2>2, BeginServes
<1>4. CASE MarkRead(h)
  <2> PICK u \in Users, s \in 0..lastSeq : Begin(h, Request("note", u, {}, {}, s))
    BY <1>4 DEF MarkRead
  <2>1. GoodRequest(Request("note", u, {}, {}, s), written, lastSeq)
    BY <1>0, NotingIsGood
  <2> QED BY <2>1, BeginServes
<1>5. CASE UpdateGroup(h)
  <2> PICK u \in Owners, new \in {{}} \union {{v} : v \in Users}, out \in {{}} \union {{v} : v \in Users} :
        Begin(h, Request("update", u, new \ Members, out, 0))
    BY <1>5 DEF UpdateGroup
  <2>1. u \in Users /\ new \ Members \in SUBSET Users /\ out \in SUBSET Users
    BY DEF Owners
  <2>2. GoodRequest(Request("update", u, new \ Members, out, 0), written, lastSeq)
    BY <2>1, OtherIsGood DEF Steps, QueueSteps
  <2> QED BY <2>2, BeginServes
<1>6. CASE Transfer(h)
  <2> PICK u \in Owners : \E v \in Members \ {u} :
        Begin(h, Request("announce transfer", u, {}, {v}, 0))
    BY <1>6 DEF Transfer
  <2> PICK v \in Members \ {u} : Begin(h, Request("announce transfer", u, {}, {v}, 0))
    OBVIOUS
  <2>1. u \in Users /\ {v} \in SUBSET Users
    BY DEF Owners, Members
  <2>2. GoodRequest(Request("announce transfer", u, {}, {v}, 0), written, lastSeq)
    BY <2>1, OtherIsGood DEF Steps, QueueSteps
  <2> QED BY <2>2, BeginServes
<1>7. CASE Leave(h)
  <2> PICK u \in Members \ Owners : Begin(h, Request("announce leave", u, {}, {}, 0))
    BY <1>7 DEF Leave
  <2>1. GoodRequest(Request("announce leave", u, {}, {}, 0), written, lastSeq)
    BY OtherIsGood DEF Steps, QueueSteps, Members
  <2> QED BY <2>1, BeginServes
<1>8. CASE Dissolve(h)
  <2> PICK u \in Owners : Begin(h, Request("wipe", u, {}, {}, 0))
    BY <1>8 DEF Dissolve
  <2>1. GoodRequest(Request("wipe", u, {}, {}, 0), written, lastSeq)
    BY OtherIsGood DEF Steps, QueueSteps, Owners
  <2> QED BY <2>1, BeginServes
<1> QED BY <1>1, <1>2, <1>3, <1>4, <1>5, <1>6, <1>7, <1>8 DEF BeginRequest

\* The answer to a request of the queue, or the end of any other.
LEMMA AnswersIs ==
    ASSUME RequestInv, StoreInv, NEW h \in Handlers, req[h].at \in QueueSteps,
           NEW answer \in {"accepted", "refused"}, Answers(h, answer)
    PROVE  \E r : /\ Becomes(h, r) /\ \A y : GoodRequest(r, written, y)
                  /\ Sends(req[h]) => Sends(r) /\ r.num = req[h].num
                  /\ r.at \in {"idle", answer} /\ r.num \in {0, req[h].num}
                  /\ r.at = answer => Sends(req[h])
<1>1. req[h].num \in Nat /\ GoodRequest(req[h], written, lastSeq)
  BY RequestFields DEF RequestInv
<1>2. CASE req[h].num = NoLocal
  <2>1. Becomes(h, NoRequest)
    BY <1>2 DEF Answers
  <2>2. ~Sends(req[h])
    BY <1>2 DEF Sends
  <2> QED BY <2>1, <2>2, NoRequestIsGood, NoRequestShape
<1>3. CASE req[h].num # NoLocal
  <2> DEFINE r == Request(answer, req[h].by, {}, {}, req[h].num)
  <2>1. Becomes(h, r)
    BY <1>3 DEF Answers
  <2>2. Sends(req[h])
    BY <1>3 DEF Sends
  <2>3. req[h].by = Me /\ req[h].num <= written /\ req[h].num # 0
    BY <1>1, <1>3, <2>2 DEF GoodRequest, NoLocal
  <2>4. \A y : GoodRequest(r, written, y)
    BY <1>1, <2>3, QueuedIsGood, QueueAssumption DEF QueueSteps
  <2>5. r.at = answer /\ r.num = req[h].num
    BY RequestShape
  <2> HIDE DEF r
  <2>6. Sends(r)
    BY <2>5, <1>3 DEF Sends, QueueSteps
  <2> QED BY <2>1, <2>2, <2>4, <2>5, <2>6
<1> QED BY <1>2, <1>3

LEMMA SendingServes ==
    ASSUME BaseInv, NEW h \in Handlers, CheckSend(h) \/ PersistMessage(h), UNCHANGED queueVars
    PROVE  Served(h)
<1>0. /\ RequestInv /\ StoreInv /\ written' = written
      /\ req[h] \in Requests /\ GoodRequest(req[h], written, lastSeq)
      /\ work \in Nat /\ faults \in Nat /\ overtaken \subseteq Handlers /\ contested \in BOOLEAN
      /\ untold \subseteq Nat /\ GroupInv
  BY DEF BaseInv, RequestInv, GroupInv, queueVars, storeVars
<1>1. CASE CheckSend(h)
  <2>1. req[h].at = "arrive" /\ UNCHANGED <<groupVars, work, faults, historyVars>>
    BY <1>1 DEF CheckSend
  <2>2. UNCHANGED <<work, faults, overtaken, contested, untold>>
    BY <2>1 DEF historyVars
  <2>3. CASE Answers(h, "refused") \/ Answers(h, "accepted")
    <3> PICK answer \in {"accepted", "refused"} : Answers(h, answer)
      BY <2>3
    <3>1. req[h].at \in QueueSteps
      BY <2>1 DEF QueueSteps
    <3> PICK r : /\ Becomes(h, r) /\ GoodRequest(r, written, lastSeq)
                 /\ Sends(req[h]) => Sends(r) /\ r.num = req[h].num
      BY <1>0, <3>1, AnswersIs
    <3> QED BY <1>0, <2>1, <2>2, QuietServes
  <2>4. CASE Becomes(h, Request("persist", req[h].by, {}, {}, req[h].num))
    <3> DEFINE r == Request("persist", req[h].by, {}, {}, req[h].num)
    <3>1. req[h].num # 0 /\ Sends(req[h])
      BY <1>0, <2>1 DEF GoodRequest, Sends, QueueSteps, NoLocal
    <3>2. req[h].by = Me /\ req[h].num <= written /\ req[h].num \in Nat
      BY <1>0, <3>1, RequestFields DEF GoodRequest
    <3>3. GoodRequest(r, written, lastSeq)
      BY <3>1, <3>2, QueuedIsGood, QueueAssumption DEF QueueSteps
    <3>4. r.at = "persist" /\ r.num = req[h].num
      BY RequestShape
    <3> HIDE DEF r
    <3>5. Sends(r)
      BY <3>1, <3>4 DEF Sends, QueueSteps, NoLocal
    <3>6. Becomes(h, r)
      BY <2>4 DEF r
    <3> QED BY <1>0, <2>1, <2>2, <3>3, <3>4, <3>5, <3>6, QuietServes
  <2> QED BY <1>1, <2>3, <2>4 DEF CheckSend
<1>2. CASE PersistMessage(h)
  <2>1. /\ req[h].at = "persist" /\ req[h].at \in QueueSteps
        /\ UNCHANGED <<work, faults, contested, untold>> /\ overtaken' = overtaken \ {h}
    BY <1>2 DEF PersistMessage, QueueSteps
  <2>2. CASE Answers(h, "refused") /\ UNCHANGED groupVars
    <3> PICK r : /\ Becomes(h, r) /\ GoodRequest(r, written, lastSeq)
                 /\ Sends(req[h]) => Sends(r) /\ r.num = req[h].num
      BY <1>0, <2>1, <2>2, AnswersIs
    <3> QED BY <1>0, <2>1, <2>2, QuietServes
  <2>3. CASE /\ open /\ MayInsert(req[h].by, req[h].num)
             /\ Persist(req[h].by, req[h].num)
             /\ Answers(h, "accepted")
             /\ UNCHANGED <<open, role, joined>>
    <3>1. req[h].by \in Users /\ req[h].num \in Nat
      BY <1>0, <2>1, RequestFields DEF GoodRequest
    <3>2. read' \in [Users -> Nat]
      BY <1>0, <2>3, <3>1, PersistKeeps
    <3>3. RowsTyped'
      BY <1>0, <2>1, <2>3, <3>2 DEF GroupInv, RowsTyped
    <3>4. req[h].num # NoLocal => req[h].by = Me /\ ~Stored(Me, req[h].num)
      BY <1>0, <2>1, <2>3 DEF GoodRequest, Sends, MayInsert
    <3>5. StoresFor(h)
      BY <2>1, <2>3, <3>1, <3>4 DEF StoresFor
    <3> PICK r : /\ Becomes(h, r) /\ GoodRequest(r, written, lastSeq')
                 /\ Sends(req[h]) => Sends(r) /\ r.num = req[h].num
      BY <1>0, <2>1, <2>3, AnswersIs
    <3>6. Turns(h, r)
      BY <1>0 DEF Turns, Becomes
    <3> QED BY <3>3, <3>5, <3>6 DEF Served, Effect
  <2> QED BY <1>2, <2>2, <2>3 DEF PersistMessage
<1> QED BY <1>1, <1>2

LEMMA RecallingServes ==
    ASSUME BaseInv, NEW h \in Handlers, MarkRecalled(h) \/ AimRecall(h) \/ TellRecall(h),
           UNCHANGED queueVars
    PROVE  Served(h)
<1>0. /\ written' = written
      /\ req[h] \in Requests /\ GoodRequest(req[h], written, lastSeq)
      /\ work \in Nat /\ faults \in Nat /\ overtaken \subseteq Handlers /\ contested \in BOOLEAN
      /\ untold \subseteq Nat /\ GroupInv
  BY DEF BaseInv, RequestInv, GroupInv, queueVars, storeVars
<1>1. req[h].at \in {"mark", "aim", "tell"} /\ ~Sends(req[h])
  BY DEF MarkRecalled, AimRecall, TellRecall, Sends, QueueSteps
<1>2. req[h].by \in Users /\ req[h].num \in Nat
  BY <1>0, <1>1, RequestFields DEF GoodRequest
<1>3. CASE MarkRecalled(h)
  <2>1. CASE GivesUp(h)
    BY <1>1, <2>1, GivesUpServes
  <2>2. CASE ~GivesUp(h)
    <3> DEFINE r == Request("aim", req[h].by, {}, {}, req[h].num)
    <3>1. /\ Marks(h) /\ Becomes(h, r)
          /\ UNCHANGED <<open, lastSeq, role, read, joined, work, faults, historyVars>>
      BY <1>3, <2>2 DEF MarkRecalled, Marks
    <3>2. GoodRequest(r, written', lastSeq')
      BY <1>2, OtherIsGood DEF Steps, QueueSteps
    <3> HIDE DEF r
    <3>3. Turns(h, r)
      BY <1>1, <3>1, <3>2 DEF Turns, Becomes
    <3>4. RowsTyped'
      BY <1>0, <3>1 DEF GroupInv, RowsTyped, historyVars
    <3> QED BY <3>1, <3>3, <3>4 DEF Served, Effect
  <2> QED BY <2>1, <2>2
<1>4. CASE AimRecall(h)
  <2> DEFINE r == Request("tell", req[h].by, {}, Members, req[h].num)
  <2>1. Becomes(h, r) /\ UNCHANGED <<groupVars, work, faults, historyVars>>
    BY <1>4 DEF AimRecall
  <2>2. GoodRequest(r, written, lastSeq)
    BY <1>2, OtherIsGood DEF Steps, QueueSteps, Members
  <2> HIDE DEF r
  <2> QED BY <1>0, <1>1, <2>1, <2>2, QuietServes DEF historyVars
<1>5. CASE TellRecall(h)
  <2>1. /\ Tells(h) /\ Becomes(h, NoRequest) /\ overtaken' = overtaken \ {h}
        /\ UNCHANGED <<open, role, read, joined, work, faults, contested, untold>>
    BY <1>5 DEF TellRecall, Tells, Ends
  <2>2. Turns(h, NoRequest)
    BY <1>1, <2>1, NoRequestIsGood DEF Turns, Becomes
  <2>3. RowsTyped'
    BY <1>0, <2>1 DEF GroupInv, RowsTyped
  <2> QED BY <2>1, <2>2, <2>3 DEF Served, Effect
<1> QED BY <1>3, <1>4, <1>5

LEMMA NotingServes ==
    ASSUME BaseInv, NEW h \in Handlers, NoteRead(h), UNCHANGED queueVars
    PROVE  Served(h)
<1>0. /\ req[h] \in Requests /\ overtaken \subseteq Handlers /\ GroupInv /\ req[h].num \in Nat
  BY RequestFields DEF BaseInv, RequestInv, GroupInv
<1>1. /\ req[h].at = "note" /\ Becomes(h, NoRequest) /\ overtaken' = overtaken \ {h}
      /\ read' = [read EXCEPT ![req[h].by] = IF req[h].by \in Members THEN Larger(@, req[h].num) ELSE @]
      /\ UNCHANGED <<open, lastSeq, messages, role, joined, mailbox, work, faults, contested, untold>>
  BY DEF NoteRead, Ends
<1>2. ~Sends(req[h])
  BY <1>1 DEF Sends, QueueSteps
<1>3. read' \in [Users -> Nat]
  <2>1. \A u \in Users : Larger(read[u], req[h].num) \in Nat
    BY <1>0 DEF GroupInv, Larger
  <2> QED BY <1>0, <1>1, <2>1 DEF GroupInv
<1>4. RowsTyped'
  BY <1>0, <1>1, <1>3 DEF GroupInv, RowsTyped
<1>5. Turns(h, NoRequest)
  BY <1>1, <1>2, NoRequestIsGood DEF Turns, Becomes
<1> QED BY <1>1, <1>4, <1>5 DEF Served, Effect, Quiet

LEMMA UpdatingServes ==
    ASSUME BaseInv, NEW h \in Handlers, UNCHANGED queueVars,
           InsertMember(h) \/ RemoveMember(h) \/ AnnounceUpdate(h)
    PROVE  Served(h)
<1>0. /\ req[h] \in Requests /\ GoodRequest(req[h], written, lastSeq) /\ GroupInv
      /\ role \in [Users -> Roles] /\ read \in [Users -> Nat] /\ joined \in [Users -> Nat]
      /\ open \in BOOLEAN /\ lastSeq \in Nat
  BY DEF BaseInv, RequestInv, GroupInv
<1>1. req[h].at = "update" /\ ~Sends(req[h])
  BY DEF InsertMember, RemoveMember, AnnounceUpdate, Sends, QueueSteps
<1>2. req[h].by \in Users /\ req[h].adds \in SUBSET Users /\ req[h].whom \in SUBSET Users
  BY <1>0, <1>1, RequestFields DEF GoodRequest
<1>3. CASE GivesUp(h)
  BY <1>1, <1>3, GivesUpServes
<1>4. CASE InsertMember(h) /\ ~GivesUp(h)
  <2> PICK v \in req[h].adds :
        /\ SetRoles(h, [role EXCEPT ![v] = "member"], FALSE)
        /\ read' = [read EXCEPT ![v] = 0]
        /\ joined' = [joined EXCEPT ![v] = lastSeq]
        /\ Becomes(h, Request("update", req[h].by, req[h].adds \ {v}, req[h].whom, 0))
        /\ UNCHANGED <<open, lastSeq, messages, mailbox, work, faults>>
    BY <1>4 DEF InsertMember
  <2>1. [role EXCEPT ![v] = "member"] \in [Users -> Roles]
    BY <1>0 DEF Roles
  <2>2. read' \in [Users -> Nat] /\ joined' \in [Users -> Nat]
    BY <1>0
  <2>3. GoodRequest(Request("update", req[h].by, req[h].adds \ {v}, req[h].whom, 0),
                    written, lastSeq)
    BY <1>2, OtherIsGood DEF Steps, QueueSteps
  <2> QED BY <1>0, <1>1, <2>1, <2>2, <2>3, RolesServe
<1>5. CASE RemoveMember(h) /\ ~GivesUp(h)
  <2> PICK v \in req[h].whom :
        /\ SetRoles(h, [role EXCEPT ![v] = "none"], FALSE)
        /\ Becomes(h, Request("update", req[h].by, {}, req[h].whom \ {v}, 0))
        /\ UNCHANGED <<open, lastSeq, messages, read, joined, mailbox, work, faults>>
    BY <1>5 DEF RemoveMember
  <2>1. [role EXCEPT ![v] = "none"] \in [Users -> Roles]
    BY <1>0 DEF Roles
  <2>2. GoodRequest(Request("update", req[h].by, {}, req[h].whom \ {v}, 0), written, lastSeq)
    BY <1>2, OtherIsGood DEF Steps, QueueSteps
  <2> QED BY <1>0, <1>1, <2>1, <2>2, RolesServe
<1>6. CASE AnnounceUpdate(h)
  BY <1>1, <1>6, NoRequestIsGood, AnnouncesServes DEF AnnounceUpdate
<1> QED BY <1>3, <1>4, <1>5, <1>6

LEMMA TransferringServes ==
    ASSUME BaseInv, NEW h \in Handlers, UNCHANGED queueVars,
           AnnounceTransfer(h) \/ Demote(h) \/ Promote(h) \/ AnnounceLeave(h) \/ Go(h)
    PROVE  Served(h)
<1>0. /\ req[h] \in Requests /\ GoodRequest(req[h], written, lastSeq) /\ GroupInv
      /\ role \in [Users -> Roles] /\ read \in [Users -> Nat] /\ joined \in [Users -> Nat]
      /\ open \in BOOLEAN
  BY DEF BaseInv, RequestInv, GroupInv
<1>1. /\ req[h].at \in {"announce transfer", "demote", "promote", "announce leave", "go"}
      /\ ~Sends(req[h])
  BY DEF AnnounceTransfer, Demote, Promote, AnnounceLeave, Go, Sends, QueueSteps
<1>2. req[h].by \in Users /\ req[h].whom \in SUBSET Users
  BY <1>0, <1>1, RequestFields DEF GoodRequest
<1>3. \A users, r : r \in Roles => WithRole(users, r) \in [Users -> Roles]
  BY <1>0 DEF WithRole
<1>4. CASE AnnounceTransfer(h)
  <2>1. \A x, y : GoodRequest(Request("demote", req[h].by, {}, req[h].whom, 0), x, y)
    BY <1>2, OtherIsGood DEF Steps, QueueSteps
  <2> QED BY <1>1, <1>4, <2>1, AnnouncesServes DEF AnnounceTransfer
<1>5. CASE Demote(h)
  <2>1. GoodRequest(Request("promote", req[h].by, {}, req[h].whom, 0), written, lastSeq)
    BY <1>2, OtherIsGood DEF Steps, QueueSteps
  <2>2. WithRole({req[h].by}, "member") \in [Users -> Roles]
    BY <1>3 DEF Roles
  <2> QED BY <1>0, <1>1, <1>5, <2>1, <2>2, RolesServe DEF Demote
<1>6. CASE Promote(h)
  <2>1. WithRole(req[h].whom, "owner") \in [Users -> Roles]
    BY <1>3 DEF Roles
  <2> QED BY <1>0, <1>1, <1>6, <2>1, NoRequestIsGood, RolesServe DEF Promote
<1>7. CASE AnnounceLeave(h)
  <2>1. \A x, y : GoodRequest(Request("go", req[h].by, {}, {}, 0), x, y)
    BY <1>2, OtherIsGood DEF Steps, QueueSteps
  <2> QED BY <1>1, <1>7, <2>1, AnnouncesServes DEF AnnounceLeave
<1>8. CASE Go(h)
  <2>1. [role EXCEPT ![req[h].by] = "none"] \in [Users -> Roles]
    BY <1>0 DEF Roles
  <2> QED BY <1>0, <1>1, <1>8, <2>1, NoRequestIsGood, RolesServe DEF Go
<1> QED BY <1>4, <1>5, <1>6, <1>7, <1>8

LEMMA DissolvingServes ==
    ASSUME BaseInv, NEW h \in Handlers, UNCHANGED queueVars, Wipe(h) \/ Expel(h) \/ Close(h)
    PROVE  Served(h)
<1>0. /\ req[h] \in Requests /\ GoodRequest(req[h], written, lastSeq) /\ GroupInv
      /\ read \in [Users -> Nat] /\ joined \in [Users -> Nat] /\ open \in BOOLEAN
  BY DEF BaseInv, RequestInv, GroupInv
<1>1. req[h].at \in {"wipe", "expel", "close"} /\ ~Sends(req[h])
  BY DEF Wipe, Expel, Close, Sends, QueueSteps
<1>2. req[h].by \in Users
  BY <1>0, <1>1 DEF GoodRequest
<1>3. [u \in Users |-> "none"] \in [Users -> Roles]
  BY DEF Roles
<1>4. CASE Wipe(h)
  <2> DEFINE r == Request("expel", req[h].by, {}, {}, 0)
  <2>1. /\ messages' = <<>> /\ Becomes(h, r)
        /\ UNCHANGED <<open, lastSeq, role, read, joined, mailbox, work, faults, historyVars>>
    BY <1>4 DEF Wipe
  <2>2. GoodRequest(r, written', lastSeq')
    BY <1>2, OtherIsGood DEF Steps, QueueSteps
  <2> HIDE DEF r
  <2>3. Turns(h, r)
    BY <1>1, <2>1, <2>2 DEF Turns, Becomes
  <2>4. RowsTyped'
    BY <1>0, <2>1 DEF GroupInv, RowsTyped, historyVars
  <2> QED BY <2>1, <2>3, <2>4 DEF Served, Effect, Empties
<1>5. CASE Expel(h)
  <2>1. GoodRequest(Request("close", req[h].by, {}, {}, 0), written, lastSeq)
    BY <1>2, OtherIsGood DEF Steps, QueueSteps
  <2> QED BY <1>0, <1>1, <1>3, <1>5, <2>1, RolesServe DEF Expel
<1>6. CASE Close(h)
  BY <1>0, <1>1, <1>3, <1>6, NoRequestIsGood, RolesServe DEF Close
<1> QED BY <1>4, <1>5, <1>6

LEMMA DropServes ==
    ASSUME BaseInv, NEW h \in Handlers, Drop(h), UNCHANGED queueVars
    PROVE  Served(h)
<1>0. /\ RequestInv /\ StoreInv
      /\ req[h] \in Requests /\ GoodRequest(req[h], written, lastSeq)
      /\ work \in Nat /\ faults \in Nat /\ overtaken \subseteq Handlers /\ contested \in BOOLEAN
      /\ untold \subseteq Nat /\ req[h].num \in Nat
  BY RequestFields DEF BaseInv, RequestInv, GroupInv
<1>1. /\ req[h].at \notin {"idle", "accepted", "refused"} /\ faults' = faults + 1
      /\ IF FromQueue(h) THEN Answers(h, "refused") ELSE Becomes(h, NoRequest)
      /\ overtaken' = overtaken \ {h} /\ contested' = (contested \/ Halfway(h))
      /\ untold' = IF req[h].at \in {"aim", "tell"} THEN untold \union {req[h].num} ELSE untold
      /\ UNCHANGED <<groupVars, work>>
  BY DEF Drop
<1>2. contested' \in BOOLEAN
  BY <1>1
<1>3. /\ work' \in Nat /\ faults' \in Nat /\ overtaken' \subseteq Handlers /\ untold' \subseteq Nat
  <2>1. work' = work /\ faults' = faults + 1 /\ overtaken' = overtaken \ {h}
    BY <1>1
  <2>2. untold' \in {untold, untold \union {req[h].num}}
    BY <1>1
  <2> QED BY <1>0, <2>1, <2>2
<1>4. CASE FromQueue(h)
  <2>1. req[h].at \in QueueSteps
    BY <1>4 DEF FromQueue, QueueSteps
  <2> PICK r : /\ Becomes(h, r) /\ GoodRequest(r, written, lastSeq)
               /\ Sends(req[h]) => Sends(r) /\ r.num = req[h].num
    BY <1>0, <1>1, <1>4, <2>1, AnswersIs
  <2> QED BY <1>1, <1>2, <1>3, QuietServes
<1>5. CASE ~FromQueue(h)
  <2>1. ~Sends(req[h])
    BY <1>1, <1>5 DEF FromQueue, Sends, QueueSteps
  <2> QED BY <1>1, <1>2, <1>3, <1>5, <2>1, NoRequestIsGood, QuietServes
<1> QED BY <1>4, <1>5

LEMMA ServerServes ==
    ASSUME BaseInv, NEW h \in Handlers, ServerStep(h), UNCHANGED queueVars
    PROVE  Served(h)
<1>1. CASE BeginRequest(h)
  BY <1>1, BeginRequestServes
<1>2. CASE RunRequest(h)
  BY <1>2, SendingServes, RecallingServes, NotingServes, UpdatingServes, TransferringServes,
     DissolvingServes DEF RunRequest
<1>3. CASE Drop(h)
  BY <1>3, DropServes
<1> QED BY <1>1, <1>2, <1>3 DEF ServerStep

LEMMA ServerKeepsBase ==
    ASSUME BaseInv, NEW h \in Handlers, ServerStep(h), UNCHANGED queueVars
    PROVE  BaseInv'
<1>0. Effect(h) /\ RowsTyped' /\ \E r : Turns(h, r)
  BY ServerServes DEF Served
<1> PICK r : Turns(h, r)
  BY <1>0
<1>1. GroupInv'
  BY <1>0, EffectKeeps DEF BaseInv, RowsTyped, GroupInv
<1>2. UNCHANGED <<written, author, pending, cursor, cleared>>
      /\ UNCHANGED <<online, asked, drain, batch, call, submitted, gaveUp>>
  BY DEF queueVars, storeVars, tabVars
<1>3. RequestInv'
  <2>1. lastSeq \in Nat /\ lastSeq' \in Nat /\ lastSeq <= lastSeq'
    BY <1>0, EffectKeeps DEF BaseInv, GroupInv
  <2> QED BY <1>2, <2>1, TurnsKeeps DEF BaseInv, StoreInv
<1>4. StoreInv'
  BY <1>2 DEF BaseInv, StoreInv, Written
<1>5. TabInv'
  BY <1>2 DEF BaseInv, TabInv, Written
<1>6. CallInv'
  <2>1. \A g \in Handlers : Sends(req[g]) => Sends(req'[g])
    BY TurnsSends DEF BaseInv
  <2> QED BY <1>2, <2>1 DEF BaseInv, CallInv
<1> QED BY <1>1, <1>3, <1>4, <1>5, <1>6 DEF BaseInv

-----------------------------------------------------------------------------
(* Steps of the tabs and of the store.                                     *)

LEMMA GroupStays ==
    ASSUME GroupInv, UNCHANGED <<groupVars, historyVars>>, work' \in Nat, faults' \in Nat
    PROVE  GroupInv'
  BY DEF GroupInv, groupVars, historyVars

LEMMA RequestsStay ==
    ASSUME RequestInv, UNCHANGED req, lastSeq' = lastSeq, lastSeq \in Nat,
           written \in Nat, written' \in Nat, written <= written'
    PROVE  RequestInv'
  BY GoodStays DEF RequestInv

\* A request that no tab waits for is replaced.
LEMMA RequestReplaced ==
    ASSUME RequestInv, NEW h \in Handlers, NEW r, GoodRequest(r, written, lastSeq), Becomes(h, r),
           lastSeq' = lastSeq, written' = written
    PROVE  /\ RequestInv'
           /\ req'[h] = r
           /\ \A g \in Handlers \ {h} : req'[g] = req[g]
<1>1. req' = [req EXCEPT ![h] = r] /\ req \in [Handlers -> Requests] /\ r \in Requests
  BY DEF Becomes, RequestInv, GoodRequest
<1>2. req'[h] = r /\ (\A g \in Handlers \ {h} : req'[g] = req[g]) /\ req' \in [Handlers -> Requests]
  BY <1>1
<1>3. \A g \in Handlers : GoodRequest(req'[g], written', lastSeq')
  BY <1>2 DEF RequestInv
<1> QED BY <1>2, <1>3 DEF RequestInv

\* A tab whose drain is not, or no longer, waiting.
Rests(t) ==
    /\ \E d \in {"idle", "reading", "next"} : drain' = [drain EXCEPT ![t] = d]
    /\ call' = [call EXCEPT ![t] = NoCall]

LEMMA RestsKeepsCalls ==
    ASSUME TabInv, CallInv, NEW t \in Tabs, Rests(t),
           \A g \in Handlers : Sends(req[g]) /\ g # call[t] => Sends(req'[g])
    PROVE  CallInv'
<1>1. PICK d \in {"idle", "reading", "next"} : drain' = [drain EXCEPT ![t] = d]
  BY DEF Rests
<1>2. /\ drain \in [Tabs -> {"idle", "reading", "next", "sending"}]
      /\ call \in [Tabs -> Handlers \union {NoCall}] /\ call' = [call EXCEPT ![t] = NoCall]
      /\ NoCall \notin Handlers
  BY QueueAssumption DEF TabInv, Rests
<1>3. drain'[t] # "sending" /\ call'[t] = NoCall
  BY <1>1, <1>2
<1>4. \A u \in Tabs \ {t} : drain'[u] = drain[u] /\ call'[u] = call[u]
  BY <1>1, <1>2
<1>5. ASSUME NEW u \in Tabs \ {t}, drain[u] = "sending"
      PROVE  call[u] \in Handlers /\ Sends(req'[call[u]])
  <2>1. call[u] \in Handlers /\ Sends(req[call[u]]) /\ call[u] # NoCall
    BY <1>2, <1>5 DEF CallInv
  <2>2. call[u] # call[t]
    BY <1>5, <2>1 DEF CallInv
  <2> QED BY <2>1, <2>2
<1>6. ASSUME NEW u \in Tabs
      PROVE  /\ drain'[u] = "sending" => call'[u] \in Handlers /\ Sends(req'[call'[u]])
             /\ drain'[u] # "sending" => call'[u] = NoCall
             /\ \A v \in Tabs : call'[u] = call'[v] /\ call'[u] # NoCall => u = v
  <2>1. CASE u = t
    BY <1>3, <2>1
  <2>2. CASE u # t
    <3>1. drain'[u] = drain[u] /\ call'[u] = call[u]
      BY <1>4, <2>2
    <3>2. \A v \in Tabs : call'[u] = call'[v] /\ call'[u] # NoCall => u = v
      BY <1>3, <1>4, <3>1 DEF CallInv
    <3>3. drain[u] # "sending" => call[u] = NoCall
      BY DEF CallInv
    <3> QED BY <1>5, <2>2, <3>1, <3>2, <3>3
  <2> QED BY <2>1, <2>2
<1> QED BY <1>6 DEF CallInv

LEMMA SendsNextKeeps ==
    ASSUME BaseInv, NEW t \in Tabs, drain[t] # "sending", NEW items \in SUBSET Written,
           SendsNext(t, items),
           UNCHANGED <<groupVars, work, faults, historyVars, storeVars>>
    PROVE  /\ RequestInv' /\ CallInv'
           /\ drain' \in [Tabs -> {"idle", "reading", "next", "sending"}]
           /\ batch' \in [Tabs -> SUBSET Written]
           /\ call' \in [Tabs -> Handlers \union {NoCall}]
<1> PICK h \in Handlers, l \in items :
        /\ req[h].at = "idle" /\ Becomes(h, Request("arrive", Me, {}, {}, l))
        /\ drain' = [drain EXCEPT ![t] = "sending"]
        /\ batch' = [batch EXCEPT ![t] = items]
        /\ call' = [call EXCEPT ![t] = h]
  BY DEF SendsNext
<1> DEFINE r == Request("arrive", Me, {}, {}, l)
<1>1. /\ written \in Nat /\ lastSeq' = lastSeq /\ written' = written /\ RequestInv
      /\ drain \in [Tabs -> {"idle", "reading", "next", "sending"}]
      /\ batch \in [Tabs -> SUBSET Written] /\ call \in [Tabs -> Handlers \union {NoCall}]
      /\ NoCall \notin Handlers /\ CallInv
  BY QueueAssumption DEF BaseInv, StoreInv, TabInv, groupVars, storeVars
<1>2. l \in Nat \ {0} /\ l <= written
  BY <1>1 DEF Written
<1>3. GoodRequest(r, written, lastSeq)
  BY <1>2, QueuedIsGood, QueueAssumption DEF QueueSteps
<1>4. r.at = "arrive" /\ r.num = l
  BY RequestShape
<1> HIDE DEF r
<1>5. Sends(r)
  BY <1>2, <1>4 DEF Sends, QueueSteps, NoLocal
<1>6. Becomes(h, r)
  BY DEF r
<1>7. RequestInv' /\ req'[h] = r /\ \A g \in Handlers \ {h} : req'[g] = req[g]
  BY <1>1, <1>3, <1>6, RequestReplaced
<1>8. ~Sends(req[h])
  BY DEF Sends, QueueSteps
<1>9. /\ drain'[t] = "sending" /\ call'[t] = h
      /\ \A u \in Tabs \ {t} : drain'[u] = drain[u] /\ call'[u] = call[u]
  BY <1>1
<1>10. \A u \in Tabs : call[u] # h
  BY <1>1, <1>8 DEF CallInv
<1>11. ASSUME NEW u \in Tabs
       PROVE  /\ drain'[u] = "sending" => call'[u] \in Handlers /\ Sends(req'[call'[u]])
              /\ drain'[u] # "sending" => call'[u] = NoCall
              /\ \A v \in Tabs : call'[u] = call'[v] /\ call'[u] # NoCall => u = v
  <2>1. CASE u = t
    BY <1>5, <1>7, <1>9, <1>10, <2>1
  <2>2. CASE u # t
    <3>1. drain'[u] = drain[u] /\ call'[u] = call[u] /\ call[u] # h
      BY <1>9, <1>10, <2>2
    <3>2. \A v \in Tabs : call'[u] = call'[v] /\ call'[u] # NoCall => u = v
      BY <1>1, <1>9, <3>1 DEF CallInv
    <3>3. /\ drain[u] = "sending" => call[u] \in Handlers /\ Sends(req[call[u]])
          /\ drain[u] # "sending" => call[u] = NoCall
      BY <1>1 DEF CallInv
    <3>4. call[u] \in Handlers => req'[call[u]] = req[call[u]]
      BY <1>7, <3>1
    <3> QED BY <3>1, <3>2, <3>3, <3>4
  <2> QED BY <2>1, <2>2
<1>12. CallInv'
  BY <1>11 DEF CallInv
<1> QED BY <1>1, <1>7, <1>12

\* What a drain changes of its tab.
LEMMA GoesOnKeeps ==
    ASSUME BaseInv, NEW t \in Tabs, drain[t] # "sending", NEW items \in SUBSET Written,
           GoesOn(t, items),
           UNCHANGED <<groupVars, work, faults, historyVars, storeVars, online, submitted, gaveUp>>
    PROVE  BaseInv'
<1>0. /\ GroupInv /\ RequestInv /\ StoreInv /\ TabInv /\ CallInv
      /\ UNCHANGED <<lastSeq, written, author, pending, cursor, cleared>>
  BY DEF BaseInv, groupVars, storeVars
<1>1. GroupInv' /\ StoreInv'
  BY <1>0, GroupStays DEF GroupInv, StoreInv, Written
<1>2. CASE SendsNext(t, items) /\ UNCHANGED asked
  <2>1. /\ RequestInv' /\ CallInv'
        /\ drain' \in [Tabs -> {"idle", "reading", "next", "sending"}]
        /\ batch' \in [Tabs -> SUBSET Written] /\ call' \in [Tabs -> Handlers \union {NoCall}]
    BY <1>2, SendsNextKeeps
  <2>2. TabInv'
    BY <1>0, <1>2, <2>1 DEF TabInv, Written
  <2> QED BY <1>1, <2>1, <2>2 DEF BaseInv
<1>3. CASE UNCHANGED req /\ ((Stops(t) /\ UNCHANGED asked) \/ ReadsAgain(t))
  <2>1. /\ \E d \in {"idle", "reading"} : drain' = [drain EXCEPT ![t] = d]
        /\ batch' = [batch EXCEPT ![t] = {}] /\ call' = [call EXCEPT ![t] = NoCall]
        /\ asked' \in {asked, [asked EXCEPT ![t] = FALSE]}
    BY <1>3 DEF Stops, ReadsAgain
  <2>2. RequestInv'
    BY <1>0, <1>3, RequestsStay DEF GroupInv, StoreInv
  <2>3. CallInv'
    <3>1. Rests(t)
      BY <2>1 DEF Rests
    <3> QED BY <1>0, <1>3, <3>1, RestsKeepsCalls
  <2>4. TabInv'
    <3>1. asked' \in [Tabs -> BOOLEAN]
      BY <1>0, <2>1 DEF TabInv
    <3>2. drain' \in [Tabs -> {"idle", "reading", "next", "sending"}]
      BY <1>0, <2>1 DEF TabInv
    <3>3. batch' \in [Tabs -> SUBSET Written] /\ call' \in [Tabs -> Handlers \union {NoCall}]
      BY <1>0, <2>1 DEF TabInv
    <3> QED BY <1>0, <3>1, <3>2, <3>3 DEF TabInv, Written
  <2> QED BY <1>1, <2>2, <2>3, <2>4 DEF BaseInv
<1> QED BY <1>2, <1>3 DEF GoesOn

LEMMA ReadPendingKeeps ==
    ASSUME BaseInv, NEW t \in Tabs, ReadPending(t) PROVE BaseInv'
<1>1. pending \ submitted[t] \in SUBSET Written
  BY DEF BaseInv, StoreInv
<1> QED BY <1>1, GoesOnKeeps DEF ReadPending

LEMMA SendNextKeeps ==
    ASSUME BaseInv, NEW t \in Tabs, SendNext(t) PROVE BaseInv'
<1>1. batch[t] \ submitted[t] \in SUBSET Written
  BY DEF BaseInv, TabInv
<1> QED BY <1>1, GoesOnKeeps DEF SendNext

\* The request that a tab waits for.
LEMMA SentIs ==
    ASSUME BaseInv, NEW t \in Tabs, drain[t] = "sending"
    PROVE  call[t] \in Handlers /\ Sends(req[call[t]]) /\ Sent(t) \in Written
<1>1. call[t] \in Handlers /\ Sends(req[call[t]])
  BY DEF BaseInv, CallInv
<1>2. req[call[t]].num \in Nat /\ req[call[t]].num # 0 /\ req[call[t]].num <= written
  BY <1>1, RequestFields DEF BaseInv, RequestInv, GoodRequest, Sends, NoLocal
<1> QED BY <1>1, <1>2 DEF Sent, Written, BaseInv, StoreInv

LEMMA AnsweredKeeps ==
    ASSUME BaseInv, NEW t \in Tabs, Accepted(t) \/ Refused(t)
    PROVE  BaseInv'
<1>0. /\ GroupInv /\ RequestInv /\ StoreInv /\ TabInv /\ CallInv
      /\ call[t] \in Handlers /\ Sent(t) \in Written
  BY SentIs DEF BaseInv, Accepted, Refused
<1>1. /\ Becomes(call[t], NoRequest)
      /\ UNCHANGED <<groupVars, work, faults, historyVars, storeVars, online>>
      /\ \E d \in {"idle", "next"} : drain' = [drain EXCEPT ![t] = d]
      /\ call' = [call EXCEPT ![t] = NoCall]
  BY DEF Accepted, Refused, Fails, Stops
<1>2. UNCHANGED <<lastSeq, written, author, pending, cursor, cleared>>
  BY <1>1 DEF groupVars, storeVars
<1>3. GroupInv' /\ StoreInv'
  BY <1>0, <1>1, <1>2, GroupStays DEF GroupInv, StoreInv, Written
<1>4. RequestInv' /\ \A g \in Handlers \ {call[t]} : req'[g] = req[g]
  BY <1>0, <1>1, <1>2, NoRequestIsGood, RequestReplaced
<1>5. CallInv'
  <2>1. Rests(t)
    BY <1>1 DEF Rests
  <2> QED BY <1>0, <1>4, <2>1, RestsKeepsCalls
<1>6. /\ asked' \in {asked, [asked EXCEPT ![t] = FALSE]}
      /\ gaveUp' \in {gaveUp, [gaveUp EXCEPT ![t] = TRUE]}
      /\ batch' \in {[batch EXCEPT ![t] = {}], [batch EXCEPT ![t] = @ \ {Sent(t)}]}
      /\ submitted' \in {submitted, [submitted EXCEPT ![t] = @ \union {Sent(t)}]}
  BY DEF Accepted, Refused, Fails, Stops
<1>7. asked' \in [Tabs -> BOOLEAN]
  BY <1>0, <1>6 DEF TabInv
<1>8. gaveUp' \in [Tabs -> BOOLEAN]
  BY <1>0, <1>6 DEF TabInv
<1>9. batch' \in [Tabs -> SUBSET Written]
  BY <1>0, <1>6 DEF TabInv
<1>10. submitted' \in [Tabs -> SUBSET Written]
  BY <1>0, <1>6 DEF TabInv
<1>11. /\ drain' \in [Tabs -> {"idle", "reading", "next", "sending"}]
       /\ call' \in [Tabs -> Handlers \union {NoCall}]
  BY <1>0, <1>1 DEF TabInv
<1>12. TabInv'
  BY <1>0, <1>1, <1>2, <1>7, <1>8, <1>9, <1>10, <1>11 DEF TabInv, Written
<1> QED BY <1>3, <1>4, <1>5, <1>12 DEF BaseInv

LEMMA AnswerLostKeeps ==
    ASSUME BaseInv, NEW t \in Tabs, AnswerLost(t)
    PROVE  BaseInv'
<1>0. GroupInv /\ RequestInv /\ StoreInv /\ TabInv /\ CallInv
  BY DEF BaseInv
<1>1. /\ UNCHANGED <<groupVars, req, work, historyVars, storeVars, online, submitted>>
      /\ faults' = faults + 1
      /\ drain' = [drain EXCEPT ![t] = "idle"] /\ call' = [call EXCEPT ![t] = NoCall]
      /\ batch' = [batch EXCEPT ![t] = {}]
      /\ asked' = [asked EXCEPT ![t] = FALSE] /\ gaveUp' = [gaveUp EXCEPT ![t] = TRUE]
  BY DEF AnswerLost, Fails, Stops
<1>2. UNCHANGED <<lastSeq, written, author, pending, cursor, cleared>>
  BY <1>1 DEF groupVars, storeVars
<1>3. GroupInv' /\ StoreInv' /\ RequestInv'
  BY <1>0, <1>1, <1>2, GroupStays, RequestsStay DEF GroupInv, StoreInv, Written
<1>4. CallInv'
  <2>1. Rests(t)
    BY <1>1 DEF Rests
  <2> QED BY <1>0, <1>1, <2>1, RestsKeepsCalls
<1>5. TabInv'
  BY <1>0, <1>1, <1>2 DEF TabInv, Written
<1> QED BY <1>3, <1>4, <1>5 DEF BaseInv

LEMMA DiscardKeeps ==
    ASSUME BaseInv, NEW h \in Handlers, Discard(h)
    PROVE  BaseInv'
<1>0. GroupInv /\ RequestInv /\ StoreInv /\ TabInv /\ CallInv
  BY DEF BaseInv
<1>1. /\ UNCHANGED <<groupVars, work, faults, historyVars>> /\ Becomes(h, NoRequest)
      /\ \A t \in Tabs : call[t] # h
      /\ UNCHANGED <<written, author, pending, cursor, cleared>>
      /\ UNCHANGED <<online, asked, drain, batch, call, submitted, gaveUp>>
  BY DEF Discard, queueVars, storeVars, tabVars
<1>2. lastSeq' = lastSeq
  BY <1>1 DEF groupVars
<1>3. GroupInv' /\ StoreInv'
  BY <1>0, <1>1, GroupStays DEF GroupInv, StoreInv, Written
<1>4. RequestInv' /\ \A g \in Handlers \ {h} : req'[g] = req[g]
  BY <1>0, <1>1, <1>2, NoRequestIsGood, RequestReplaced
<1>5. TabInv'
  BY <1>0, <1>1 DEF TabInv, Written
<1>6. CallInv'
  <2>1. \A t \in Tabs : drain[t] = "sending" => req'[call[t]] = req[call[t]]
    BY <1>0, <1>1, <1>4 DEF CallInv
  <2>2. \A t \in Tabs : drain[t] = "sending" => Sends(req'[call[t]])
    BY <1>0, <2>1 DEF CallInv
  <2> QED BY <1>0, <1>1, <2>2 DEF CallInv
<1> QED BY <1>3, <1>4, <1>5, <1>6 DEF BaseInv

LEMMA FlushKeeps ==
    ASSUME TabInv, CallInv, NEW t \in Tabs, UNCHANGED req,
           Flush(t) \/ UNCHANGED <<asked, drain, batch, call, gaveUp>>
    PROVE  /\ CallInv'
           /\ asked' \in [Tabs -> BOOLEAN] /\ gaveUp' \in [Tabs -> BOOLEAN]
           /\ drain' \in [Tabs -> {"idle", "reading", "next", "sending"}]
           /\ batch' \in [Tabs -> SUBSET Written] /\ call' \in [Tabs -> Handlers \union {NoCall}]
<1>1. CASE UNCHANGED <<drain, batch, call, gaveUp>> /\ asked' \in {asked, [asked EXCEPT ![t] = TRUE]}
  <2>1. asked' \in [Tabs -> BOOLEAN]
    BY <1>1 DEF TabInv
  <2>2. CallInv'
    BY <1>1 DEF CallInv
  <2> QED BY <1>1, <2>1, <2>2 DEF TabInv
<1>2. CASE ReadsAgain(t) /\ gaveUp' = [gaveUp EXCEPT ![t] = FALSE]
  <2>1. /\ drain' = [drain EXCEPT ![t] = "reading"] /\ batch' = [batch EXCEPT ![t] = {}]
        /\ call' = [call EXCEPT ![t] = NoCall] /\ asked' = [asked EXCEPT ![t] = FALSE]
    BY <1>2 DEF ReadsAgain
  <2>2. Rests(t)
    BY <2>1 DEF Rests
  <2>3. CallInv'
    BY <2>2, RestsKeepsCalls
  <2>4. drain' \in [Tabs -> {"idle", "reading", "next", "sending"}]
    BY <2>1 DEF TabInv
  <2>5. asked' \in [Tabs -> BOOLEAN] /\ gaveUp' \in [Tabs -> BOOLEAN]
    BY <1>2, <2>1 DEF TabInv
  <2>6. batch' \in [Tabs -> SUBSET Written] /\ call' \in [Tabs -> Handlers \union {NoCall}]
    BY <2>1 DEF TabInv
  <2> QED BY <2>3, <2>4, <2>5, <2>6
<1> QED BY <1>1, <1>2 DEF Flush

LEMMA WriteMessageKeeps ==
    ASSUME BaseInv, NEW t \in Tabs, WriteMessage(t)
    PROVE  BaseInv'
<1>0. GroupInv /\ RequestInv /\ StoreInv /\ TabInv /\ CallInv
  BY DEF BaseInv
<1>1. /\ work' = work + (IF written = 0 THEN 2 ELSE 1)
      /\ written' = written + 1 /\ author' = Append(author, t)
      /\ pending' = pending \union {written + 1}
      /\ Flush(t) \/ UNCHANGED <<asked, drain, batch, call, gaveUp>>
      /\ UNCHANGED <<groupVars, req, faults, historyVars, cursor, cleared, online, submitted>>
  BY DEF WriteMessage
<1>2. lastSeq' = lastSeq
  BY <1>1 DEF groupVars
<1>3. GroupInv'
  <2>1. work' \in Nat
    BY <1>0, <1>1 DEF GroupInv
  <2> QED BY <1>0, <1>1, <2>1, GroupStays DEF GroupInv
<1>4. Written \subseteq Written' /\ written + 1 \in Written' /\ written' \in Nat
  BY <1>0, <1>1 DEF Written, StoreInv
<1>5. StoreInv'
  <2>1. author' \in Seq(Tabs) /\ Len(author') = written'
    BY <1>0, <1>1 DEF StoreInv
  <2>2. pending' \subseteq Written'
    BY <1>0, <1>1, <1>4 DEF StoreInv
  <2>3. cursor' \in Nat /\ cleared' \in 0..written'
    BY <1>0, <1>1 DEF StoreInv
  <2> QED BY <1>4, <2>1, <2>2, <2>3 DEF StoreInv
<1>6. RequestInv'
  <2>1. written <= written' /\ written \in Nat
    BY <1>0, <1>1 DEF StoreInv
  <2> QED BY <1>0, <1>1, <1>2, <1>4, <2>1, RequestsStay DEF GroupInv
<1>7. /\ CallInv'
      /\ asked' \in [Tabs -> BOOLEAN] /\ gaveUp' \in [Tabs -> BOOLEAN]
      /\ drain' \in [Tabs -> {"idle", "reading", "next", "sending"}]
      /\ batch' \in [Tabs -> SUBSET Written] /\ call' \in [Tabs -> Handlers \union {NoCall}]
  BY <1>0, <1>1, FlushKeeps
<1>8. TabInv'
  BY <1>0, <1>1, <1>4, <1>7 DEF TabInv
<1> QED BY <1>3, <1>5, <1>6, <1>7, <1>8 DEF BaseInv

LEMMA ConnectingKeeps ==
    ASSUME BaseInv, NEW t \in Tabs, Retry(t) \/ GoOnline(t) \/ GoOffline(t)
    PROVE  BaseInv'
<1>0. GroupInv /\ RequestInv /\ StoreInv /\ TabInv /\ CallInv
  BY DEF BaseInv
<1>1. /\ UNCHANGED <<groupVars, req, work, historyVars, storeVars>>
      /\ faults' \in {faults, faults + 1}
      /\ online' \in {online, [online EXCEPT ![t] = TRUE], [online EXCEPT ![t] = FALSE]}
      /\ submitted' \in {submitted, [submitted EXCEPT ![t] = {}]}
      /\ Flush(t) \/ UNCHANGED <<asked, drain, batch, call, gaveUp>>
  BY DEF Retry, GoOnline, GoOffline, serverVars
<1>2. UNCHANGED <<lastSeq, written, author, pending, cursor, cleared>>
  BY <1>1 DEF groupVars, storeVars
<1>3. GroupInv' /\ StoreInv' /\ RequestInv'
  BY <1>0, <1>1, <1>2, GroupStays, RequestsStay DEF GroupInv, StoreInv, Written
<1>4. /\ CallInv'
      /\ asked' \in [Tabs -> BOOLEAN] /\ gaveUp' \in [Tabs -> BOOLEAN]
      /\ drain' \in [Tabs -> {"idle", "reading", "next", "sending"}]
      /\ batch' \in [Tabs -> SUBSET Written] /\ call' \in [Tabs -> Handlers \union {NoCall}]
  BY <1>0, <1>1, FlushKeeps
<1>5. online' \in [Tabs -> BOOLEAN]
  BY <1>0, <1>1 DEF TabInv
<1>6. submitted' \in [Tabs -> SUBSET Written]
  BY <1>0, <1>1 DEF TabInv
<1>7. TabInv'
  BY <1>2, <1>4, <1>5, <1>6 DEF TabInv, Written
<1> QED BY <1>3, <1>4, <1>7 DEF BaseInv

LEMMA StoreStepKeeps ==
    ASSUME BaseInv, ApplyEvent \/ \E t \in Tabs : ClearHistory(t)
    PROVE  BaseInv'
<1>0. GroupInv /\ RequestInv /\ StoreInv /\ TabInv /\ CallInv
  BY DEF BaseInv
<1>1. /\ UNCHANGED <<groupVars, req, faults, historyVars, written, author>>
      /\ work' \in {work, work + 1}
      /\ cursor' \in {cursor + 1, 0} /\ cleared' \in {cleared, written}
      /\ pending' \subseteq pending
      /\ UNCHANGED <<online, asked, drain, batch, call, gaveUp>>
      /\ submitted' = submitted \/ \E t \in Tabs : submitted' = [submitted EXCEPT ![t] = {}]
  BY DEF ApplyEvent, ClearHistory, serverVars, tabVars
<1>2. lastSeq' = lastSeq
  BY <1>1 DEF groupVars
<1>3. GroupInv' /\ RequestInv'
  BY <1>0, <1>1, <1>2, GroupStays, RequestsStay DEF GroupInv, StoreInv
<1>4. StoreInv'
  BY <1>0, <1>1 DEF StoreInv, Written
<1>5. submitted' \in [Tabs -> SUBSET Written]
  BY <1>0, <1>1 DEF TabInv
<1>6. TabInv'
  BY <1>0, <1>1, <1>5 DEF TabInv, Written
<1>7. CallInv'
  BY <1>0, <1>1 DEF CallInv
<1> QED BY <1>3, <1>4, <1>6, <1>7 DEF BaseInv

LEMMA BaseStays ==
    ASSUME BaseInv, [Next]_vars
    PROVE  BaseInv'
<1>1. ASSUME NEW h \in Handlers, (ServerStep(h) /\ UNCHANGED queueVars) \/ Discard(h)
      PROVE  BaseInv'
  BY <1>1, ServerKeepsBase, DiscardKeeps
<1>2. ASSUME NEW t \in Tabs, TabStep(t)
      PROVE  BaseInv'
  BY <1>2, ReadPendingKeeps, SendNextKeeps, AnsweredKeeps, AnswerLostKeeps, WriteMessageKeeps,
     ConnectingKeeps, StoreStepKeeps DEF TabStep
<1>3. CASE ApplyEvent
  BY <1>3, StoreStepKeeps
<1>4. CASE UNCHANGED vars
  BY <1>4 DEF vars, serverVars, groupVars, historyVars, queueVars, storeVars, tabVars, BaseInv,
              GroupInv, RequestInv, StoreInv, TabInv, CallInv, Written
<1> QED BY <1>1, <1>2, <1>3, <1>4 DEF Next

LEMMA BaseStarts == Init => BaseInv
<1> SUFFICES ASSUME Init PROVE BaseInv
  OBVIOUS
<1>1. /\ open = TRUE /\ lastSeq = 0 /\ messages = <<>>
      /\ \E creator \in Users, invited \in SUBSET Users :
            role = [u \in Users |-> IF u = creator THEN "owner"
                                    ELSE IF u \in invited THEN "member" ELSE "none"]
      /\ read = [u \in Users |-> 0] /\ joined = [u \in Users |-> 0]
      /\ mailbox = [u \in Users |-> <<>>]
      /\ req = [h \in Handlers |-> NoRequest]
      /\ work = 0 /\ faults = 0
      /\ overtaken = {} /\ contested = FALSE /\ untold = {}
  BY DEF Init, ServerInit
<1>2. GroupInv
  <2>1. role \in [Users -> Roles]
    BY <1>1 DEF Roles
  <2>2. DOMAIN messages = {} /\ messages \in [{} -> Message]
    BY <1>1
  <2>3. mailbox \in [Users -> Seq(MailEvent)]
    BY <1>1
  <2> QED BY <1>1, <2>1, <2>2, <2>3 DEF GroupInv
<1>3. RequestInv
  BY <1>1, NoRequestShape, NoRequestIsGood DEF RequestInv
<1>4. StoreInv
  BY DEF Init, StoreInv
<1>5. TabInv
  BY DEF Init, TabInv
<1>6. CallInv
  BY DEF Init, CallInv
<1> QED BY <1>2, <1>3, <1>4, <1>5, <1>6 DEF BaseInv

LEMMA BaseInvariant == Spec => []BaseInv
  BY BaseStarts, BaseStays, PTL DEF Spec

\* The variables keep their types: a request that a tab waits for is there, and no number
\* of messages, requests or failures takes a sequence or a set of local ids out of range.
THEOREM TypeCorrect == Spec => []TypeOK
<1>1. BaseInv => TypeOK
  <2> SUFFICES ASSUME BaseInv PROVE TypeOK
    OBVIOUS
  <2>1. GroupInv /\ RequestInv /\ StoreInv /\ TabInv
    BY DEF BaseInv
  <2>2. author \in [Written -> Tabs]
    BY <2>1 DEF StoreInv, Written
  <2> QED BY <2>1, <2>2 DEF TypeOK, GroupInv, RequestInv, StoreInv, TabInv, Message, MailEvent
<1> QED BY <1>1, BaseInvariant, PTL

-----------------------------------------------------------------------------
(* Members: who comes in, and what they have read.                         *)

\* A number that was read is read still, unless the member's row is new.
ReadStep ==
    \A u \in Users :
        \/ read'[u] >= read[u] /\ read'[u] <= Larger(read[u], lastSeq')
        \/ role[u] = "none" /\ read'[u] = 0

MembersStep ==
    \A u \in Users :
        role'[u] # "none" => \/ role[u] # "none" /\ joined'[u] = joined[u]
                             \/ joined'[u] = lastSeq /\ lastSeq' = lastSeq

LEMMA NothingRead ==
    ASSUME GroupInv, read' = read, lastSeq' \in Nat
    PROVE  ReadStep
<1>1. \A u \in Users : read[u] \in Nat
  BY DEF GroupInv
<1> QED BY <1>1 DEF ReadStep, Larger

LEMMA PersistReads ==
    ASSUME GroupInv, NEW u \in Users, NEW l \in Nat, Persist(u, l), UNCHANGED <<role, joined>>
    PROVE  ReadStep /\ MembersStep
<1>1. \A v \in Users : read[v] \in Nat
  BY DEF GroupInv
<1>2. lastSeq \in Nat
  BY DEF GroupInv
<1>3. /\ lastSeq' = lastSeq + 1 /\ \A v \in Users \ {u} : read'[v] = read[v]
      /\ read'[u] \in {read[u], lastSeq + 1} /\ read'[u] >= read[u]
  BY PersistKeeps
<1>4. ASSUME NEW v \in Users
      PROVE  read'[v] >= read[v] /\ read'[v] <= Larger(read[v], lastSeq')
  BY <1>1, <1>2, <1>3 DEF Larger
<1> QED BY <1>4 DEF ReadStep, MembersStep

LEMMA NobodyComes ==
    ASSUME joined' = joined, \A u \in Users : role'[u] # "none" => role[u] # "none"
    PROVE  MembersStep
  BY DEF MembersStep

LEMMA AnnouncesReads ==
    ASSUME BaseInv, NEW h \in Handlers, req[h].at # "idle", NEW next, Announces(h, next)
    PROVE  ReadStep /\ MembersStep
<1>0. GroupInv /\ req[h].by \in Users /\ NoLocal \in Nat
  BY DEF BaseInv, RequestInv, GoodRequest, NoLocal
<1>1. CASE GivesUp(h)
  <2>1. UNCHANGED <<read, role, joined, lastSeq>>
    BY <1>1 DEF GivesUp, groupVars
  <2> QED BY <1>0, <2>1, NothingRead, NobodyComes DEF GroupInv
<1>2. CASE Persist(req[h].by, NoLocal) /\ UNCHANGED <<open, role, joined>>
  BY <1>0, <1>2, PersistReads
<1> QED BY <1>1, <1>2 DEF Announces

LEMMA ServerReads ==
    ASSUME BaseInv, NEW h \in Handlers, ServerStep(h)
    PROVE  ReadStep /\ MembersStep
<1>0. /\ GroupInv /\ GoodRequest(req[h], written, lastSeq) /\ req[h] \in Requests
      /\ lastSeq \in Nat /\ role \in [Users -> Roles]
      /\ read \in [Users -> Nat] /\ joined \in [Users -> Nat]
  BY DEF BaseInv, RequestInv, GroupInv
<1>1. CASE UNCHANGED <<read, role, joined, lastSeq>>
  BY <1>0, <1>1, NothingRead, NobodyComes
<1>2. CASE BeginRequest(h)
  <2>1. UNCHANGED groupVars
    BY <1>2 DEF BeginRequest, Send, Reedit, Recall, MarkRead, UpdateGroup, Transfer, Leave,
                Dissolve, Begin
  <2> QED BY <1>1, <2>1 DEF groupVars
<1>3. CASE CheckSend(h) \/ MarkRecalled(h) \/ AimRecall(h) \/ TellRecall(h) \/ Wipe(h) \/ Drop(h)
  <2>1. UNCHANGED <<read, role, joined, lastSeq>>
    BY <1>3 DEF CheckSend, MarkRecalled, GivesUp, AimRecall, TellRecall, Wipe, Drop, groupVars
  <2> QED BY <1>1, <2>1
<1>4. CASE PersistMessage(h)
  <2>1. CASE UNCHANGED groupVars
    BY <1>1, <2>1 DEF groupVars
  <2>2. CASE Persist(req[h].by, req[h].num) /\ UNCHANGED <<open, role, joined>>
    <3>1. req[h].by \in Users /\ req[h].num \in Nat
      BY <1>0, <1>4, RequestFields DEF PersistMessage, GoodRequest
    <3> QED BY <1>0, <2>2, <3>1, PersistReads
  <2> QED BY <1>4, <2>1, <2>2 DEF PersistMessage
<1>5. CASE NoteRead(h)
  <2>1. /\ req[h].at = "note" /\ UNCHANGED <<lastSeq, role, joined>>
        /\ read' = [read EXCEPT ![req[h].by] = IF req[h].by \in Members THEN Larger(@, req[h].num)
                                               ELSE @]
    BY <1>5 DEF NoteRead
  <2>2. req[h].num \in Nat /\ req[h].num <= lastSeq
    BY <1>0, <2>1, RequestFields DEF GoodRequest
  <2>3. ASSUME NEW u \in Users
        PROVE  read'[u] >= read[u] /\ read'[u] <= Larger(read[u], lastSeq')
    <3>1. read[u] \in Nat /\ read'[u] \in {read[u], Larger(read[u], req[h].num)}
      BY <1>0, <2>1
    <3> QED BY <1>0, <2>1, <2>2, <3>1 DEF Larger
  <2> QED BY <2>1, <2>3, NobodyComes DEF ReadStep
<1>6. CASE InsertMember(h)
  <2>1. CASE GivesUp(h)
    BY <1>1, <2>1 DEF GivesUp, groupVars
  <2>2. CASE ~GivesUp(h)
    <3> PICK v \in req[h].adds :
          /\ v \notin Members
          /\ role' = [role EXCEPT ![v] = "member"]
          /\ read' = [read EXCEPT ![v] = 0]
          /\ joined' = [joined EXCEPT ![v] = lastSeq]
          /\ UNCHANGED lastSeq
      BY <1>6, <2>2 DEF InsertMember, SetRoles
    <3>1. v \in Users
      BY <1>0, RequestFields
    <3>2. role[v] = "none"
      BY <3>1 DEF Members
    <3>3. ReadStep
      BY <1>0, <3>2 DEF ReadStep, Larger
    <3>4. MembersStep
      BY <1>0, <3>1 DEF MembersStep
    <3> QED BY <3>3, <3>4
  <2> QED BY <2>1, <2>2
<1>7. CASE RemoveMember(h)
  <2>1. CASE GivesUp(h)
    BY <1>1, <2>1 DEF GivesUp, groupVars
  <2>2. CASE ~GivesUp(h)
    <3> PICK v \in req[h].whom : /\ role' = [role EXCEPT ![v] = "none"]
                                 /\ UNCHANGED <<read, joined, lastSeq>>
      BY <1>7, <2>2 DEF RemoveMember, SetRoles
    <3>1. \A u \in Users : role'[u] # "none" => role[u] # "none"
      BY <1>0
    <3> QED BY <1>0, <3>1, NothingRead, NobodyComes
  <2> QED BY <2>1, <2>2
<1>8. CASE AnnounceUpdate(h) \/ AnnounceTransfer(h) \/ AnnounceLeave(h)
  BY <1>8, AnnouncesReads DEF AnnounceUpdate, AnnounceTransfer, AnnounceLeave
<1>9. CASE Demote(h) \/ Promote(h) \/ Go(h) \/ Expel(h) \/ Close(h)
  <2>1. UNCHANGED <<read, joined, lastSeq>>
    BY <1>9 DEF Demote, Promote, Go, Expel, Close
  <2>2. \/ \E users, r : role' = WithRole(users, r)
        \/ \E u : role' = [role EXCEPT ![u] = "none"]
        \/ role' = [u \in Users |-> "none"]
    BY <1>9 DEF Demote, Promote, Go, Expel, Close, SetRoles
  <2>3. \A u \in Users : role'[u] # "none" => role[u] # "none"
    BY <1>0, <2>2 DEF WithRole, Members
  <2> QED BY <1>0, <2>1, <2>3, NothingRead, NobodyComes
<1> QED BY <1>2, <1>3, <1>4, <1>5, <1>6, <1>7, <1>8, <1>9 DEF ServerStep, RunRequest

\* A step that the server does not take leaves the group alone, and of the requests
\* it touches only those that are not under way.
ElsewhereStep ==
    /\ UNCHANGED <<groupVars, historyVars>>
    /\ \A g \in Handlers : \/ req'[g] = req[g]
                           \/ /\ req[g].at \in {"idle", "accepted", "refused"}
                              /\ req'[g].at \in {"idle", "arrive"}

LEMMA StepIs ==
    ASSUME BaseInv, [Next]_vars
    PROVE  ElsewhereStep \/ \E h \in Handlers : ServerStep(h) /\ UNCHANGED queueVars
<1>0. req \in [Handlers -> Requests] /\ NoRequest.at = "idle"
  BY NoRequestShape DEF BaseInv, RequestInv
<1>1. ASSUME NEW h \in Handlers, NEW r, r.at \in {"idle", "arrive"}, Becomes(h, r),
             req[h].at \in {"idle", "accepted", "refused"}, UNCHANGED <<groupVars, historyVars>>
      PROVE  ElsewhereStep
  BY <1>0, <1>1 DEF Becomes, ElsewhereStep
<1>2. UNCHANGED <<groupVars, req, historyVars>> => ElsewhereStep
  BY DEF ElsewhereStep
<1>3. ASSUME NEW t \in Tabs, NEW items, GoesOn(t, items), UNCHANGED <<groupVars, historyVars>>
      PROVE  ElsewhereStep
  <2>1. CASE UNCHANGED req
    BY <1>2, <1>3, <2>1
  <2>2. CASE SendsNext(t, items)
    <3> PICK h \in Handlers, l \in items :
          req[h].at = "idle" /\ Becomes(h, Request("arrive", Me, {}, {}, l))
      BY <2>2 DEF SendsNext
    <3>1. Request("arrive", Me, {}, {}, l).at = "arrive"
      BY RequestShape
    <3> QED BY <1>1, <1>3, <3>1
  <2> QED BY <1>3, <2>1, <2>2 DEF GoesOn
<1>4. ASSUME NEW t \in Tabs, TabStep(t)
      PROVE  ElsewhereStep
  <2>1. CASE ReadPending(t) \/ SendNext(t)
    BY <1>3, <2>1 DEF ReadPending, SendNext
  <2>2. CASE Accepted(t) \/ Refused(t)
    <3>1. /\ call[t] \in Handlers /\ Becomes(call[t], NoRequest)
          /\ req[call[t]].at \in {"idle", "accepted", "refused"}
          /\ UNCHANGED <<groupVars, historyVars>>
      BY <2>2, SentIs DEF Accepted, Refused
    <3> QED BY <1>0, <1>1, <3>1
  <2>3. CASE AnswerLost(t) \/ WriteMessage(t) \/ GoOffline(t) \/ ClearHistory(t)
    BY <1>2, <2>3 DEF AnswerLost, WriteMessage, GoOffline, ClearHistory
  <2>4. CASE Retry(t) \/ GoOnline(t)
    BY <1>2, <2>4 DEF Retry, GoOnline, serverVars
  <2> QED BY <1>4, <2>1, <2>2, <2>3, <2>4 DEF TabStep
<1>5. ASSUME NEW h \in Handlers, Discard(h)
      PROVE  ElsewhereStep
  BY <1>0, <1>1, <1>5 DEF Discard
<1>6. CASE ApplyEvent \/ UNCHANGED vars
  BY <1>2, <1>6 DEF ApplyEvent, vars, serverVars
<1> QED BY <1>4, <1>5, <1>6 DEF Next

ReadInv == BaseInv /\ \A u \in Users : read[u] <= lastSeq

LEMMA ReadStays ==
    ASSUME ReadInv, [Next]_vars
    PROVE  /\ ReadInv'
           /\ \A u \in Users : role[u] # "none" /\ role'[u] # "none"
                                  => read[u] <= read'[u] /\ read'[u] <= lastSeq'
<1>1. BaseInv' /\ BaseInv
  BY BaseStays DEF ReadInv
<1>2. /\ lastSeq \in Nat /\ lastSeq' \in Nat
      /\ \A u \in Users : read[u] \in Nat /\ read'[u] \in Nat /\ read[u] <= lastSeq
  BY <1>1 DEF BaseInv, GroupInv, ReadInv
<1>3. CASE ElsewhereStep
  BY <1>1, <1>2, <1>3 DEF ElsewhereStep, groupVars, ReadInv
<1>4. ASSUME NEW h \in Handlers, ServerStep(h), UNCHANGED queueVars
      PROVE  /\ \A u \in Users : read'[u] <= lastSeq'
             /\ \A u \in Users : role[u] # "none" => read[u] <= read'[u]
  <2>1. ReadStep
    BY <1>1, <1>4, ServerReads
  <2>2. lastSeq <= lastSeq'
    BY <1>1, <1>4, ServerServes, EffectKeeps DEF Served, BaseInv
  <2> QED BY <1>2, <2>1, <2>2 DEF ReadStep, Larger
<1> QED BY <1>1, <1>3, <1>4, StepIs DEF ReadInv

\* However the requests of a member's devices interleave with messages, removals and new
\* invitations, what a member who stays has read never falls back and never runs ahead.
THEOREM ReadsMoveForward == Spec => ReadMovesForward
<1>1. Init => ReadInv
  <2>1. Init => BaseInv
    BY BaseStarts
  <2>2. Init => lastSeq = 0 /\ read = [u \in Users |-> 0]
    BY DEF Init, ServerInit
  <2> QED BY <2>1, <2>2 DEF ReadInv
<1>2. ReadInv /\ [Next]_vars => ReadInv'
  BY ReadStays
<1>3. ASSUME ReadInv, [Next]_vars
      PROVE  [\A u \in Users : role[u] # "none" /\ role'[u] # "none"
                 => read[u] <= read'[u] /\ read'[u] <= lastSeq']_vars
  BY <1>3, ReadStays
<1> QED BY <1>1, <1>2, <1>3, PTL DEF Spec, ReadMovesForward

-----------------------------------------------------------------------------
(* Messages are stored once.                                               *)

SentInv ==
    /\ BaseInv
    /\ \A s \in DOMAIN messages : messages[s].local # NoLocal => messages[s].from = Me
    /\ SentOnce

LEMMA MarksChange ==
    ASSUME GroupInv, NEW h \in Handlers, Marks(h)
    PROVE  /\ DOMAIN messages' = DOMAIN messages
           /\ \A s \in DOMAIN messages : /\ messages'[s].from = messages[s].from
                                         /\ messages'[s].local = messages[s].local
           /\ \A s \in DOMAIN messages \ {req[h].num} : messages'[s] = messages[s]
<1> DEFINE n == req[h].num
           new == Row(messages[n].from, messages[n].local, "recalled")
<1>1. n \in DOMAIN messages /\ messages' = [messages EXCEPT ![n] = new]
  BY DEF Marks
<1>2. new.from = messages[n].from /\ new.local = messages[n].local
  BY RowShape
<1>3. messages \in [DOMAIN messages -> Message]
  BY DEF GroupInv
<1> HIDE DEF n, new
<1>4. /\ DOMAIN messages' = DOMAIN messages
      /\ \A s \in DOMAIN messages : /\ messages'[s].from = messages[s].from
                                    /\ messages'[s].local = messages[s].local
      /\ \A s \in DOMAIN messages \ {n} : messages'[s] = messages[s]
  BY <1>1, <1>2, <1>3
<1> QED BY <1>4 DEF n

LEMMA SentStays ==
    ASSUME SentInv, NEW h \in Handlers, Effect(h)
    PROVE  /\ \A s \in DOMAIN messages' : messages'[s].local # NoLocal => messages'[s].from = Me
           /\ SentOnce'
<1>0. GroupInv /\ messages \in [DOMAIN messages -> Message]
  BY DEF SentInv, BaseInv, GroupInv
<1>1. CASE Quiet \/ Tells(h)
  BY <1>1 DEF Quiet, Tells, SentInv, SentOnce
<1>2. CASE Empties
  BY <1>2 DEF Empties, SentOnce
<1>3. CASE Marks(h)
  <2>1. /\ DOMAIN messages' = DOMAIN messages
        /\ \A s \in DOMAIN messages : /\ messages'[s].from = messages[s].from
                                      /\ messages'[s].local = messages[s].local
    BY <1>0, <1>3, MarksChange
  <2> QED BY <2>1 DEF SentInv, SentOnce
<1>4. CASE StoresFor(h)
  <2> PICK u \in Users, l \in Nat :
        Persist(u, l) /\ (l # NoLocal => u = Me /\ ~Stored(Me, l))
    BY <1>4 DEF StoresFor
  <2>1. /\ DOMAIN messages' = DOMAIN messages \union {lastSeq + 1}
        /\ lastSeq + 1 \notin DOMAIN messages
        /\ messages'[lastSeq + 1] = Row(u, l, "active")
        /\ \A s \in DOMAIN messages : messages'[s] = messages[s]
    BY <1>0, PersistKeeps
  <2>2. messages'[lastSeq + 1].from = u /\ messages'[lastSeq + 1].local = l
    BY <2>1, RowShape
  <2>3. \A s \in DOMAIN messages : messages[s].local # NoLocal => messages[s].local # l
    BY DEF SentInv, Stored
  <2> QED BY <2>1, <2>2, <2>3 DEF SentInv, SentOnce
<1> QED BY <1>1, <1>2, <1>3, <1>4 DEF Effect

LEMMA SentStep ==
    ASSUME SentInv, [Next]_vars
    PROVE  SentInv'
<1>1. BaseInv /\ BaseInv'
  BY BaseStays DEF SentInv
<1>2. CASE ElsewhereStep
  BY <1>1, <1>2 DEF ElsewhereStep, groupVars, SentInv, SentOnce
<1>3. ASSUME NEW h \in Handlers, ServerStep(h), UNCHANGED queueVars
      PROVE  SentInv'
  <2>1. Effect(h)
    BY <1>1, <1>3, ServerServes DEF Served
  <2> QED BY <1>1, <2>1, SentStays DEF SentInv
<1> QED BY <1>1, <1>2, <1>3, StepIs

LEMMA SentStarts == Init => SentInv
<1>1. Init => BaseInv
  BY BaseStarts
<1>2. Init => DOMAIN messages = {}
  BY DEF Init, ServerInit
<1> QED BY <1>1, <1>2 DEF SentInv, SentOnce

\* However often a message is sent again, by however many tabs, it is stored once.
THEOREM StoredOnce == Spec => []SentOnce
<1>1. SentInv => SentOnce
  BY DEF SentInv
<1> QED BY <1>1, SentStarts, SentStep, PTL DEF Spec

-----------------------------------------------------------------------------
(* Mailboxes.                                                              *)

MailGrows ==
    \A u \in Users : \A i \in DOMAIN mailbox[u] :
        i \in DOMAIN mailbox'[u] /\ mailbox'[u][i] = mailbox[u][i]

LEMMA AppendGrows ==
    ASSUME NEW S, NEW s \in Seq(S), NEW e \in S
    PROVE  /\ \A i \in DOMAIN s : i \in DOMAIN Append(s, e) /\ Append(s, e)[i] = s[i]
           /\ \E i \in DOMAIN Append(s, e) : Append(s, e)[i] = e
<1>1. /\ DOMAIN s = 1..Len(s) /\ Len(s) \in Nat
      /\ DOMAIN Append(s, e) = 1..Len(s) + 1
      /\ Append(s, e)[Len(s) + 1] = e
      /\ \A i \in 1..Len(s) : Append(s, e)[i] = s[i]
  OBVIOUS
<1> QED BY <1>1

LEMMA EffectGrows ==
    ASSUME GroupInv, RequestInv, NEW h \in Handlers, Effect(h)
    PROVE  MailGrows
<1>0. mailbox \in [Users -> Seq(MailEvent)] /\ lastSeq \in Nat /\ req[h].num \in Nat
  BY RequestFields DEF GroupInv, RequestInv
<1>1. CASE Quiet \/ Marks(h) \/ Empties
  BY <1>1 DEF Quiet, Marks, Empties, MailGrows
<1>2. ASSUME NEW e \in MailEvent, \A v \in Users : mailbox'[v] \in {mailbox[v], Append(mailbox[v], e)}
      PROVE  MailGrows
  BY <1>0, <1>2, AppendGrows DEF MailGrows
<1>3. CASE Tells(h)
  <2>1. Event("recalled", req[h].num, NoLocal) \in MailEvent
    BY <1>0, EventShape DEF NoLocal
  <2> QED BY <1>2, <1>3, <2>1 DEF Tells
<1>4. CASE StoresFor(h)
  <2> PICK u \in Users, l \in Nat : Persist(u, l)
    BY <1>4 DEF StoresFor
  <2>1. Event("created", lastSeq + 1, l) \in MailEvent
    BY <1>0, EventShape
  <2> QED BY <1>2, <2>1, PersistKeeps DEF Members
<1> QED BY <1>1, <1>3, <1>4 DEF Effect

IsTold(u, s) ==
    \E i \in DOMAIN mailbox[u] : mailbox[u][i].kind = "created" /\ mailbox[u][i].seq = s

LEMMA ToldStays ==
    ASSUME BaseInv, EveryoneIsTold, NEW h \in Handlers, ServerStep(h), UNCHANGED queueVars
    PROVE  EveryoneIsTold'
<1>0. /\ GroupInv /\ RequestInv /\ Effect(h) /\ MailGrows /\ MembersStep
      /\ mailbox \in [Users -> Seq(MailEvent)] /\ lastSeq \in Nat
      /\ role \in [Users -> Roles] /\ joined \in [Users -> Nat]
  BY ServerServes, ServerReads, EffectGrows DEF BaseInv, Served, GroupInv
<1>1. SUFFICES ASSUME NEW u \in Users, role'[u] # "none", NEW s \in (joined'[u] + 1)..lastSeq'
               PROVE  IsTold(u, s)'
  BY DEF EveryoneIsTold, Members, IsTold
<1>2. role[u] # "none" /\ s \in (joined[u] + 1)..lastSeq => IsTold(u, s)'
  BY <1>0 DEF EveryoneIsTold, Members, IsTold, MailGrows
<1>3. CASE lastSeq' = lastSeq
  <2>1. CASE role[u] # "none" /\ joined'[u] = joined[u]
    BY <1>2, <1>3, <2>1
  <2>2. CASE joined'[u] = lastSeq
    BY <1>0, <1>3, <2>2
  <2> QED BY <1>0, <1>1, <2>1, <2>2 DEF MembersStep
<1>4. CASE StoresFor(h)
  <2> PICK v \in Users, l \in Nat : Persist(v, l) /\ UNCHANGED <<role, joined>>
    BY <1>4 DEF StoresFor
  <2>1. lastSeq' = lastSeq + 1
        /\ mailbox'[u] = Append(mailbox[u], Event("created", lastSeq + 1, l))
    BY <1>0, <1>1, PersistKeeps DEF Members
  <2>2. CASE s = lastSeq + 1
    <3>1. Event("created", lastSeq + 1, l) \in MailEvent
      BY <1>0, EventShape
    <3>2. \E i \in DOMAIN mailbox'[u] : mailbox'[u][i] = Event("created", lastSeq + 1, l)
      <4> DEFINE e == Event("created", lastSeq + 1, l)
      <4>1. mailbox[u] \in Seq(MailEvent) /\ mailbox'[u] = Append(mailbox[u], e)
        BY <1>0, <2>1
      <4> HIDE DEF e
      <4>2. e \in MailEvent
        BY <3>1 DEF e
      <4>3. \E i \in DOMAIN Append(mailbox[u], e) : Append(mailbox[u], e)[i] = e
        BY <4>1, <4>2, AppendGrows
      <4>4. \E i \in DOMAIN mailbox'[u] : mailbox'[u][i] = e
        BY <4>1, <4>3
      <4> QED BY <4>4 DEF e
    <3>3. /\ Event("created", lastSeq + 1, l).kind = "created"
          /\ Event("created", lastSeq + 1, l).seq = lastSeq + 1
      BY EventShape
    <3>4. \E i \in DOMAIN mailbox'[u] :
            mailbox'[u][i].kind = "created" /\ mailbox'[u][i].seq = s
      BY <2>2, <3>2, <3>3
    <3> QED BY <3>4 DEF IsTold
  <2>3. CASE s # lastSeq + 1
    BY <1>0, <1>1, <1>2, <2>1, <2>3
  <2> QED BY <2>2, <2>3
<1> QED BY <1>0, <1>3, <1>4 DEF Effect, Quiet, Marks, Tells, Empties

\* Whatever messages, invitations, departures and dissolutions interleave, the mailbox of
\* a member has every message sent since they joined.
THEOREM EveryoneTold == Spec => []EveryoneIsTold
<1> DEFINE Inv == BaseInv /\ EveryoneIsTold
<1>1. Init => Inv
  <2>1. Init => BaseInv
    BY BaseStarts
  <2>2. Init => lastSeq = 0 /\ joined = [u \in Users |-> 0]
    BY DEF Init, ServerInit
  <2> QED BY <2>1, <2>2 DEF EveryoneIsTold, Members
<1>2. ASSUME Inv, [Next]_vars PROVE Inv'
  <2>1. BaseInv'
    BY <1>2, BaseStays
  <2>2. CASE ElsewhereStep
    BY <1>2, <2>1, <2>2 DEF ElsewhereStep, groupVars, EveryoneIsTold, Members
  <2> QED BY <1>2, <2>1, <2>2, StepIs, ToldStays
<1> HIDE DEF Inv
<1>3. Inv => EveryoneIsTold
  BY DEF Inv
<1> QED BY <1>1, <1>2, <1>3, PTL DEF Spec

-----------------------------------------------------------------------------
(* Recalls.                                                                *)

Aims(s) == \E h \in Handlers : req[h].at = "aim" /\ req[h].num = s

HasRecall(u, s) ==
    \/ \E i \in DOMAIN mailbox[u] : mailbox[u][i] = Event("recalled", s, NoLocal)
    \/ \E h \in Handlers : req[h].at = "tell" /\ req[h].num = s /\ u \in req[h].whom

\* A recall is aimed at nobody yet, or everyone who has been there has it or is aimed at.
RecallReaches(s) ==
    messages[s].status = "recalled" /\ s \notin untold =>
        Aims(s) \/ \A u \in Users : role[u] # "none" /\ joined[u] < s => HasRecall(u, s)

RecallInv == BaseInv /\ \A s \in DOMAIN messages : RecallReaches(s)

LEMMA ServerRecalls ==
    ASSUME BaseInv, NEW h \in Handlers, ServerStep(h), UNCHANGED queueVars
    PROVE  \/ /\ Marks(h) /\ req'[h] = Request("aim", req[h].by, {}, {}, req[h].num)
              /\ UNCHANGED <<role, joined, untold>>
           \/ /\ req[h].at = "aim" /\ UNCHANGED <<groupVars, untold>>
              /\ req'[h] = Request("tell", req[h].by, {}, Members, req[h].num)
           \/ Tells(h) /\ UNCHANGED untold
           \/ /\ req[h].at \in {"aim", "tell"} /\ UNCHANGED groupVars
              /\ untold' = untold \union {req[h].num}
           \/ /\ req[h].at \notin {"aim", "tell"} /\ UNCHANGED untold
              /\ Quiet \/ StoresFor(h) \/ Empties
<1>0. req \in [Handlers -> Requests] /\ Effect(h)
  BY ServerServes DEF BaseInv, RequestInv, Served
<1>1. CASE MarkRecalled(h)
  <2>1. CASE GivesUp(h)
    BY <1>1, <2>1 DEF MarkRecalled, GivesUp, groupVars, Quiet
  <2>2. CASE ~GivesUp(h)
    BY <1>0, <1>1, <2>2 DEF MarkRecalled, Marks, Becomes, historyVars
  <2> QED BY <2>1, <2>2
<1>2. CASE AimRecall(h)
  BY <1>0, <1>2 DEF AimRecall, Becomes, historyVars
<1>3. CASE TellRecall(h)
  BY <1>3 DEF TellRecall, Tells
<1>4. CASE Drop(h)
  <2>1. CASE req[h].at \in {"aim", "tell"}
    BY <1>4, <2>1 DEF Drop
  <2>2. CASE req[h].at \notin {"aim", "tell"}
    BY <1>4, <2>2 DEF Drop, groupVars, Quiet
  <2> QED BY <2>1, <2>2
<1>5. CASE req[h].at \notin {"mark", "aim", "tell"} /\ UNCHANGED untold
  BY <1>0, <1>5 DEF Effect, Marks, Tells
<1>6. CASE BeginRequest(h)
  <2>1. req[h].at = "idle" /\ untold' = untold
    BY <1>6 DEF BeginRequest, Send, Reedit, Recall, MarkRead, UpdateGroup, Transfer, Leave,
                Dissolve, Begin, historyVars
  <2> QED BY <1>5, <2>1
<1>7. CASE CheckSend(h) \/ PersistMessage(h) \/ NoteRead(h) \/ Wipe(h)
  <2>1. req[h].at \in {"arrive", "persist", "note", "wipe"} /\ untold' = untold
    BY <1>7 DEF CheckSend, PersistMessage, NoteRead, Wipe, historyVars
  <2> QED BY <1>5, <2>1
<1>8. CASE InsertMember(h) \/ RemoveMember(h) \/ AnnounceUpdate(h) \/ AnnounceTransfer(h)
           \/ AnnounceLeave(h)
  <2>1. req[h].at \in {"update", "announce transfer", "announce leave"} /\ untold' = untold
    BY <1>8 DEF InsertMember, RemoveMember, AnnounceUpdate, AnnounceTransfer, AnnounceLeave,
                Announces, GivesUp, SetRoles
  <2> QED BY <1>5, <2>1
<1>9. CASE Demote(h) \/ Promote(h) \/ Go(h) \/ Expel(h) \/ Close(h)
  <2>1. req[h].at \in {"demote", "promote", "go", "expel", "close"} /\ untold' = untold
    BY <1>9 DEF Demote, Promote, Go, Expel, Close, SetRoles
  <2> QED BY <1>5, <2>1
<1> QED BY <1>1, <1>2, <1>3, <1>4, <1>6, <1>7, <1>8, <1>9 DEF ServerStep, RunRequest

LEMMA RecallsGoOn ==
    ASSUME NEW s, NEW S \in SUBSET Handlers, MailGrows,
           \A g \in S : req'[g] = req[g],
           \A g \in Handlers \ S : ~(req[g].at \in {"aim", "tell"} /\ req[g].num = s)
    PROVE  /\ Aims(s) => Aims(s)'
           /\ \A u \in Users : HasRecall(u, s) => HasRecall(u, s)'
<1>1. Aims(s) => Aims(s)'
  BY DEF Aims
<1>2. ASSUME NEW u \in Users, HasRecall(u, s) PROVE HasRecall(u, s)'
  <2>1. Event("recalled", s, NoLocal)' = Event("recalled", s, NoLocal)
    BY DEF Event, NoLocal
  <2>2. CASE \E i \in DOMAIN mailbox[u] : mailbox[u][i] = Event("recalled", s, NoLocal)
    BY <2>2 DEF MailGrows, HasRecall
  <2>3. CASE \E g \in Handlers : req[g].at = "tell" /\ req[g].num = s /\ u \in req[g].whom
    BY <2>3 DEF HasRecall
  <2> QED BY <1>2, <2>2, <2>3 DEF HasRecall
<1> QED BY <1>1, <1>2

LEMMA RecallStays ==
    ASSUME RecallInv, NEW h \in Handlers, ServerStep(h), UNCHANGED queueVars,
           NEW s \in DOMAIN messages'
    PROVE  RecallReaches(s)'
<1>0. /\ BaseInv /\ GroupInv /\ RequestInv /\ Effect(h) /\ MailGrows /\ MembersStep
      /\ mailbox \in [Users -> Seq(MailEvent)] /\ lastSeq \in Nat
      /\ DOMAIN messages \subseteq 1..lastSeq /\ req[h].num \in Nat
  BY ServerServes, ServerReads, EffectGrows, RequestFields
     DEF RecallInv, BaseInv, Served, GroupInv, RequestInv
<1>1. /\ \A g \in Handlers \ {h} : req'[g] = req[g]
      /\ \A r : req' = [req EXCEPT ![h] = r] => req'[h] = r
  BY <1>0, ServerServes DEF Served, Turns, RequestInv
<1>2. ASSUME messages'[s].status = "recalled", s \notin untold',
             s \in DOMAIN messages, messages[s].status = "recalled", s \notin untold,
             ~(req[h].at \in {"aim", "tell"} /\ req[h].num = s)
      PROVE  RecallReaches(s)'
  <2>1. /\ Aims(s) => Aims(s)'
        /\ \A u \in Users : HasRecall(u, s) => HasRecall(u, s)'
    <3>1. \A g \in Handlers \ (Handlers \ {h}) : ~(req[g].at \in {"aim", "tell"} /\ req[g].num = s)
      BY <1>2
    <3> QED BY <1>0, <1>1, <3>1, RecallsGoOn
  <2>2. Aims(s) \/ \A u \in Users : role[u] # "none" /\ joined[u] < s => HasRecall(u, s)
    BY <1>2 DEF RecallInv, RecallReaches
  <2>3. ASSUME NEW u \in Users, role'[u] # "none", joined'[u] < s
        PROVE  role[u] # "none" /\ joined[u] < s
    <3>1. s \in Nat /\ s <= lastSeq
      BY <1>0, <1>2
    <3> QED BY <1>0, <2>3, <3>1 DEF MembersStep
  <2> HIDE DEF Aims, HasRecall
  <2> QED BY <2>1, <2>2, <2>3 DEF RecallReaches
<1>3. CASE /\ req[h].at \notin {"aim", "tell"} /\ UNCHANGED untold
           /\ Quiet \/ StoresFor(h) \/ Empties
  <2>1. CASE messages' = messages
    BY <1>2, <1>3, <2>1 DEF RecallReaches
  <2>2. CASE StoresFor(h)
    <3> PICK u \in Users, l \in Nat : Persist(u, l)
      BY <2>2 DEF StoresFor
    <3>1. /\ DOMAIN messages' = DOMAIN messages \union {lastSeq + 1}
          /\ messages'[lastSeq + 1] = Row(u, l, "active")
          /\ \A r \in DOMAIN messages : messages'[r] = messages[r]
      BY <1>0, PersistKeeps
    <3>2. messages'[lastSeq + 1].status = "active"
      BY <3>1, RowShape
    <3> QED BY <1>2, <1>3, <3>1, <3>2 DEF RecallReaches
  <2>3. CASE Empties
    BY <2>3 DEF Empties
  <2> QED BY <1>3, <2>1, <2>2, <2>3 DEF Quiet
<1>4. CASE req[h].at \in {"aim", "tell"} /\ UNCHANGED groupVars /\ untold' = untold \union {req[h].num}
  BY <1>2, <1>4 DEF groupVars, RecallReaches
<1>5. CASE Tells(h) /\ UNCHANGED untold
  <2>1. /\ req[h].at = "tell" /\ UNCHANGED <<messages, role, joined>>
        /\ mailbox' = [v \in Users |->
              IF v \in req[h].whom THEN Append(mailbox[v], Event("recalled", req[h].num, NoLocal))
              ELSE mailbox[v]]
    BY <1>5 DEF Tells
  <2>2. CASE req[h].num # s
    BY <1>2, <1>5, <2>1, <2>2 DEF RecallReaches
  <2>3. CASE req[h].num = s
    <3>1. Aims(s) => Aims(s)'
      BY <1>1, <2>1 DEF Aims
    <3>2. ASSUME NEW u \in Users, HasRecall(u, s)
          PROVE  HasRecall(u, s)'
      <4> DEFINE e == Event("recalled", s, NoLocal)
      <4>1. e \in MailEvent
        BY <1>0, <2>3, EventShape DEF NoLocal
      <4>2. mailbox[u] \in Seq(MailEvent) /\ e' = e
        BY <1>0 DEF Event, NoLocal
      <4>3. CASE \E i \in DOMAIN mailbox[u] : mailbox[u][i] = e
        BY <1>0, <4>2, <4>3 DEF MailGrows, HasRecall
      <4>4. CASE \E g \in Handlers \ {h} : req[g].at = "tell" /\ req[g].num = s /\ u \in req[g].whom
        BY <1>1, <4>4 DEF HasRecall
      <4>5. CASE u \in req[h].whom
        <5>1. mailbox'[u] = Append(mailbox[u], e)
          BY <2>1, <2>3, <4>5
        <5> HIDE DEF e
        <5>2. \E i \in DOMAIN Append(mailbox[u], e) : Append(mailbox[u], e)[i] = e
          BY <4>1, <4>2, AppendGrows
        <5>3. \E i \in DOMAIN mailbox'[u] : mailbox'[u][i] = e
          BY <5>1, <5>2
        <5> QED BY <4>2, <5>3 DEF HasRecall, e
      <4> QED BY <3>2, <4>3, <4>4, <4>5 DEF HasRecall
    <3> HIDE DEF Aims, HasRecall
    <3> QED BY <1>5, <2>1, <3>1, <3>2 DEF RecallInv, RecallReaches
  <2> QED BY <2>2, <2>3
<1>6. CASE /\ req[h].at = "aim" /\ UNCHANGED <<groupVars, untold>>
           /\ req'[h] = Request("tell", req[h].by, {}, Members, req[h].num)
  <2>1. UNCHANGED <<messages, role, joined>>
    BY <1>6 DEF groupVars
  <2>2. CASE req[h].num # s
    BY <1>2, <1>6, <2>1, <2>2 DEF RecallReaches
  <2>3. CASE req[h].num = s
    <3>1. req'[h].at = "tell" /\ req'[h].num = s /\ req'[h].whom = Members
      BY <1>6, <2>3, RequestShape
    <3>2. \A u \in Users : role'[u] # "none" => HasRecall(u, s)'
      BY <2>1, <3>1 DEF HasRecall, Members
    <3> QED BY <3>2 DEF RecallReaches
  <2> QED BY <2>2, <2>3
<1>7. CASE /\ Marks(h) /\ req'[h] = Request("aim", req[h].by, {}, {}, req[h].num)
           /\ UNCHANGED <<role, joined, untold>>
  <2>1. /\ req[h].at = "mark" /\ DOMAIN messages' = DOMAIN messages
        /\ \A r \in DOMAIN messages \ {req[h].num} : messages'[r] = messages[r]
    BY <1>0, <1>7, MarksChange DEF Marks
  <2>2. CASE req[h].num # s
    BY <1>2, <1>7, <2>1, <2>2 DEF RecallReaches
  <2>3. CASE req[h].num = s
    <3>1. req'[h].at = "aim" /\ req'[h].num = s
      BY <1>7, <2>3, RequestShape
    <3>2. Aims(s)'
      BY <3>1 DEF Aims
    <3> QED BY <3>2 DEF RecallReaches
  <2> QED BY <2>2, <2>3
<1> QED BY <1>0, <1>3, <1>4, <1>5, <1>6, <1>7, ServerRecalls

\* Once a recall has gone through, every member since before the message has been told,
\* whoever came, left or recalled the same message meanwhile.
THEOREM RecallsTold == Spec => []RecallsAreTold
<1>1. Init => RecallInv
  <2>1. Init => BaseInv
    BY BaseStarts
  <2>2. Init => DOMAIN messages = {}
    BY DEF Init, ServerInit
  <2> QED BY <2>1, <2>2 DEF RecallInv
<1>2. ASSUME RecallInv, [Next]_vars PROVE RecallInv'
  <2>1. BaseInv /\ BaseInv'
    BY <1>2, BaseStays DEF RecallInv
  <2>2. CASE ElsewhereStep
    <3>1. /\ UNCHANGED <<messages, role, joined, mailbox, untold>>
          /\ \A g \in Handlers : req[g].at \in {"aim", "tell"} => req'[g] = req[g]
      BY <2>2 DEF ElsewhereStep, groupVars, historyVars
    <3>2. ASSUME NEW s \in DOMAIN messages PROVE RecallReaches(s)'
      <4> DEFINE S == {g \in Handlers : req[g].at \in {"aim", "tell"}}
      <4>1. /\ Aims(s) => Aims(s)'
            /\ \A u \in Users : HasRecall(u, s) => HasRecall(u, s)'
        <5>1. MailGrows
          BY <3>1 DEF MailGrows
        <5>2. S \in SUBSET Handlers /\ \A g \in S : req'[g] = req[g]
          BY <3>1
        <5>3. \A g \in Handlers \ S : ~(req[g].at \in {"aim", "tell"} /\ req[g].num = s)
          OBVIOUS
        <5> HIDE DEF S
        <5> QED BY <5>1, <5>2, <5>3, RecallsGoOn
      <4> QED BY <1>2, <3>1, <4>1 DEF RecallInv, RecallReaches
    <3> QED BY <2>1, <3>1, <3>2 DEF RecallInv
  <2>3. ASSUME NEW h \in Handlers, ServerStep(h), UNCHANGED queueVars
        PROVE  RecallInv'
    BY <1>2, <2>1, <2>3, RecallStays DEF RecallInv
  <2> QED BY <1>2, <2>1, <2>2, <2>3, StepIs
<1>3. RecallInv => RecallsAreTold
  BY DEF RecallInv, RecallReaches, RecallsAreTold, Members, Aims, HasRecall
<1> QED BY <1>1, <1>2, <1>3, PTL DEF Spec

-----------------------------------------------------------------------------
(* The owner.                                                              *)

\* What a request that nobody has overtaken knows of the roles it has read.
Fits(r, roles) ==
    /\ r.at \in {"update", "announce transfer", "demote", "wipe", "expel"} => roles[r.by] = "owner"
    /\ r.at \in {"announce transfer", "demote", "promote"} =>
           \E v \in Users : r.whom = {v} /\ v # r.by /\ roles[v] # "none"
    /\ r.at \in {"announce leave", "go"} => roles[r.by] = "member"

OneOwner == \E u \in Users : Owners = {u}

Between ==
    /\ Owners = {}
    /\ \E h \in Handlers : Halfway(h) /\ \A g \in Handlers \ {h} : ~Halfway(g)

Orderly ==
    /\ \A h \in Handlers \ overtaken : Fits(req[h], role)
    /\ (OneOwner /\ \A h \in Handlers : ~Halfway(h)) \/ Between

OwnerInv == open /\ ~contested => Orderly

ManagingSteps ==
    {"update", "announce transfer", "demote", "promote", "announce leave", "go",
     "wipe", "expel", "close"}

LEMMA OtherFits ==
    ASSUME NEW r, NEW roles, r.at \notin ManagingSteps
    PROVE  Fits(r, roles)
  BY DEF Fits, ManagingSteps

LEMMA OwnerQuiet ==
    ASSUME OwnerInv, NEW h \in Handlers, UNCHANGED <<open, role, contested>>,
           overtaken' \in {overtaken, overtaken \ {h}},
           \A g \in Handlers \ {h} : req'[g] = req[g],
           ~Halfway(h), req'[h].at \notin {"promote", "close"},
           open /\ ~contested /\ Orderly /\ h \notin overtaken' => Fits(req'[h], role)
    PROVE  OwnerInv'
<1> SUFFICES ASSUME open, ~contested PROVE Orderly'
  BY DEF OwnerInv
<1>1. Orderly
  BY DEF OwnerInv
<1>2. \A g \in Handlers : Halfway(g)' = Halfway(g)
  BY DEF Halfway
<1>3. Owners' = Owners
  BY DEF Owners
<1>4. \A g \in Handlers \ overtaken' : Fits(req'[g], role')
  BY <1>1 DEF Orderly
<1>5. (OneOwner /\ \A g \in Handlers : ~Halfway(g))' \/ Between'
  <2> HIDE DEF Halfway
  <2> QED BY <1>1, <1>2, <1>3 DEF Orderly, OneOwner, Between
<1> QED BY <1>4, <1>5 DEF Orderly

LEMMA BeginOwner ==
    ASSUME BaseInv, OwnerInv, NEW h \in Handlers, BeginRequest(h)
    PROVE  OwnerInv'
<1>0. req \in [Handlers -> Requests]
  BY DEF BaseInv, RequestInv
<1>1. ASSUME NEW r, Begin(h, r), r.at \notin {"promote", "close"}, Fits(r, role)
      PROVE  OwnerInv'
  <2>1. /\ req[h].at = "idle" /\ req' = [req EXCEPT ![h] = r]
        /\ UNCHANGED <<open, role, contested, overtaken>>
    BY <1>1 DEF Begin, Becomes, groupVars, historyVars
  <2>2. req'[h] = r /\ \A g \in Handlers \ {h} : req'[g] = req[g]
    BY <1>0, <2>1
  <2>3. ~Halfway(h)
    BY <2>1 DEF Halfway
  <2> QED BY <1>1, <2>1, <2>2, <2>3, OwnerQuiet
<1>2. ASSUME NEW at \in {"persist", "mark", "note"}, NEW u, NEW n,
             Begin(h, Request(at, u, {}, {}, n))
      PROVE  OwnerInv'
  <2> DEFINE r == Request(at, u, {}, {}, n)
  <2>1. r.at = at /\ Begin(h, r)
    BY <1>2, RequestShape
  <2> HIDE DEF r
  <2>2. r.at \notin ManagingSteps /\ r.at \notin {"promote", "close"}
    BY <2>1 DEF ManagingSteps
  <2> QED BY <1>1, <2>1, <2>2, OtherFits
<1>3. ASSUME NEW at \in {"update", "wipe"}, NEW u \in Owners, NEW new, NEW out,
             Begin(h, Request(at, u, new, out, 0))
      PROVE  OwnerInv'
  <2> DEFINE r == Request(at, u, new, out, 0)
  <2>1. r.at = at /\ r.by = u /\ Begin(h, r)
    BY <1>3, RequestShape
  <2>2. role[u] = "owner"
    BY DEF Owners
  <2> HIDE DEF r
  <2>3. Fits(r, role)
    BY <2>1, <2>2 DEF Fits
  <2> QED BY <1>1, <2>1, <2>3
<1>4. CASE Transfer(h)
  <2> PICK u \in Owners : \E v \in Members \ {u} :
        Begin(h, Request("announce transfer", u, {}, {v}, 0))
    BY <1>4 DEF Transfer
  <2> PICK v \in Members \ {u} : Begin(h, Request("announce transfer", u, {}, {v}, 0))
    OBVIOUS
  <2> DEFINE r == Request("announce transfer", u, {}, {v}, 0)
  <2>1. r.at = "announce transfer" /\ r.by = u /\ r.whom = {v}
    BY DEF Request
  <2>2. role[u] = "owner" /\ v \in Users /\ role[v] # "none"
    BY DEF Owners, Members
  <2>3. Begin(h, r)
    OBVIOUS
  <2> HIDE DEF r
  <2>4. Fits(r, role)
    BY <2>1, <2>2 DEF Fits
  <2> QED BY <1>1, <2>1, <2>3, <2>4
<1>5. CASE Leave(h)
  <2> PICK u \in Members \ Owners : Begin(h, Request("announce leave", u, {}, {}, 0))
    BY <1>5 DEF Leave
  <2> DEFINE r == Request("announce leave", u, {}, {}, 0)
  <2>1. r.at = "announce leave" /\ r.by = u
    BY DEF Request
  <2>2. role[u] = "member"
    BY DEF Owners, Members, BaseInv, GroupInv, Roles
  <2>3. Begin(h, r)
    OBVIOUS
  <2> HIDE DEF r
  <2>4. Fits(r, role)
    BY <2>1, <2>2 DEF Fits
  <2> QED BY <1>1, <2>1, <2>3, <2>4
<1>6. CASE Send(h) \/ Reedit(h) \/ Recall(h) \/ MarkRead(h)
  BY <1>2, <1>6 DEF Send, Reedit, Recall, MarkRead
<1>7. CASE UpdateGroup(h) \/ Dissolve(h)
  BY <1>3, <1>7 DEF UpdateGroup, Dissolve
<1> QED BY <1>4, <1>5, <1>6, <1>7 DEF BeginRequest

\* A request that is not managing the group, or no longer, goes on.
LEMMA OtherOwner ==
    ASSUME BaseInv, OwnerInv, NEW h \in Handlers, NEW r, Becomes(h, r),
           r.at \notin ManagingSteps, ~Halfway(h),
           UNCHANGED <<open, role, contested>>, overtaken' \in {overtaken, overtaken \ {h}}
    PROVE  OwnerInv'
<1>1. req'[h] = r /\ \A g \in Handlers \ {h} : req'[g] = req[g]
  BY DEF Becomes, BaseInv, RequestInv
<1>2. r.at \notin {"promote", "close"}
  BY DEF ManagingSteps
<1> QED BY <1>1, <1>2, OtherFits, OwnerQuiet

\* A request goes on to its next step, by the same user and about the same others.
LEMMA NextOwner ==
    ASSUME BaseInv, OwnerInv, NEW h \in Handlers, NEW at, NEW a, NEW w, NEW n,
           Becomes(h, Request(at, req[h].by, a, w, n)),
           \/ req[h].at = "announce transfer" /\ at = "demote" /\ w = req[h].whom
           \/ req[h].at = "announce leave" /\ at = "go"
           \/ req[h].at = "wipe" /\ at = "expel",
           UNCHANGED <<open, role, contested, overtaken>>
    PROVE  OwnerInv'
<1> DEFINE r == Request(at, req[h].by, a, w, n)
<1>1. r.at = at /\ r.by = req[h].by /\ r.whom = w /\ Becomes(h, r)
  BY DEF Request
<1> HIDE DEF r
<1>2. req'[h] = r /\ \A g \in Handlers \ {h} : req'[g] = req[g]
  BY <1>1 DEF Becomes, BaseInv, RequestInv
<1>3. ~Halfway(h) /\ at \notin {"promote", "close"}
  BY DEF Halfway
<1>4. ASSUME h \notin overtaken', Orderly
      PROVE  Fits(r, role)
  <2>1. Fits(req[h], role)
    BY <1>4 DEF Orderly
  <2> QED BY <1>1, <2>1 DEF Fits
<1> QED BY <1>1, <1>2, <1>3, <1>4, OwnerQuiet

LEMMA AnnouncesOwner ==
    ASSUME BaseInv, OwnerInv, NEW h \in Handlers,
           AnnounceUpdate(h) \/ AnnounceTransfer(h) \/ AnnounceLeave(h)
    PROVE  OwnerInv'
<1>0. NoRequest.at \notin ManagingSteps
  BY NoRequestShape DEF ManagingSteps
<1>1. ~Halfway(h)
  BY DEF AnnounceUpdate, AnnounceTransfer, AnnounceLeave, Halfway
<1>2. CASE GivesUp(h)
  <2>1. /\ Becomes(h, NoRequest) /\ UNCHANGED <<open, role, contested>>
        /\ overtaken' = overtaken \ {h}
    BY <1>2 DEF GivesUp, Ends, groupVars
  <2> QED BY <1>0, <1>1, <2>1, OtherOwner
<1>3. CASE AnnounceUpdate(h) /\ ~GivesUp(h)
  <2>1. /\ Becomes(h, NoRequest) /\ UNCHANGED <<open, role, contested>>
        /\ overtaken' = overtaken \ {h}
    BY <1>3 DEF AnnounceUpdate, Announces
  <2> QED BY <1>0, <1>1, <2>1, OtherOwner
<1>4. CASE AnnounceTransfer(h) /\ ~GivesUp(h)
  <2>1. Request("demote", req[h].by, {}, req[h].whom, 0) # NoRequest
    BY RequestShape, NoRequestShape
  <2>2. /\ req[h].at = "announce transfer"
        /\ Becomes(h, Request("demote", req[h].by, {}, req[h].whom, 0))
        /\ UNCHANGED <<open, role, contested, overtaken>>
    BY <1>4, <2>1 DEF AnnounceTransfer, Announces
  <2> QED BY <2>2, NextOwner
<1>5. CASE AnnounceLeave(h) /\ ~GivesUp(h)
  <2>1. Request("go", req[h].by, {}, {}, 0) # NoRequest
    <3>1. Request("go", req[h].by, {}, {}, 0).at = "go"
      BY DEF Request
    <3> QED BY <3>1, NoRequestShape
  <2>2. /\ req[h].at = "announce leave"
        /\ Becomes(h, Request("go", req[h].by, {}, {}, 0))
        /\ UNCHANGED <<open, role, contested, overtaken>>
    BY <1>5, <2>1 DEF AnnounceLeave, Announces
  <2> QED BY <2>2, NextOwner
<1> QED BY <1>2, <1>3, <1>4, <1>5

LEMMA TalkingOwner ==
    ASSUME BaseInv, OwnerInv, NEW h \in Handlers,
           CheckSend(h) \/ PersistMessage(h) \/ MarkRecalled(h) \/ AimRecall(h) \/ TellRecall(h)
               \/ NoteRead(h) \/ Wipe(h)
    PROVE  OwnerInv'
<1>0. NoRequest.at \notin ManagingSteps
  BY NoRequestShape DEF ManagingSteps
<1>1. ~Halfway(h)
  BY DEF CheckSend, PersistMessage, MarkRecalled, AimRecall, TellRecall, NoteRead, Wipe, Halfway
<1>2. ASSUME NEW r, Becomes(h, r), r.at \notin ManagingSteps, UNCHANGED <<open, role, contested>>,
             overtaken' \in {overtaken, overtaken \ {h}}
      PROVE  OwnerInv'
  BY <1>1, <1>2, OtherOwner
<1>3. ASSUME NEW answer \in {"accepted", "refused"}, Answers(h, answer),
             UNCHANGED <<open, role, contested>>, overtaken' \in {overtaken, overtaken \ {h}}
      PROVE  OwnerInv'
  <2> DEFINE r == Request(answer, req[h].by, {}, {}, req[h].num)
  <2>1. r.at \notin ManagingSteps
    <3>1. r.at = answer
      BY DEF Request
    <3> QED BY <3>1 DEF ManagingSteps
  <2>2. Becomes(h, NoRequest) \/ Becomes(h, r)
    BY <1>3 DEF Answers
  <2> HIDE DEF r
  <2> QED BY <1>0, <1>2, <1>3, <2>1, <2>2
<1>4. ASSUME NEW at \in {"persist", "aim", "tell"}, NEW u, NEW w, NEW n,
             Becomes(h, Request(at, u, {}, w, n)), UNCHANGED <<open, role, contested>>,
             overtaken' \in {overtaken, overtaken \ {h}}
      PROVE  OwnerInv'
  <2> DEFINE r == Request(at, u, {}, w, n)
  <2>1. r.at \notin ManagingSteps
    <3>1. r.at = at
      BY DEF Request
    <3> QED BY <3>1 DEF ManagingSteps
  <2>2. Becomes(h, r)
    BY <1>4
  <2> HIDE DEF r
  <2> QED BY <1>2, <1>4, <2>1, <2>2
<1>5. CASE CheckSend(h)
  <2>1. UNCHANGED <<open, role, contested, overtaken>>
    BY <1>5 DEF CheckSend, groupVars, historyVars
  <2>2. \/ Answers(h, "refused") \/ Answers(h, "accepted")
        \/ Becomes(h, Request("persist", req[h].by, {}, {}, req[h].num))
    BY <1>5 DEF CheckSend
  <2> QED BY <1>3, <1>4, <2>1, <2>2
<1>6. CASE PersistMessage(h)
  <2>1. UNCHANGED <<open, role, contested>> /\ overtaken' = overtaken \ {h}
    BY <1>6 DEF PersistMessage, groupVars
  <2>2. Answers(h, "refused") \/ Answers(h, "accepted")
    BY <1>6 DEF PersistMessage
  <2> QED BY <1>3, <2>1, <2>2
<1>7. CASE MarkRecalled(h)
  <2>1. /\ UNCHANGED <<open, role, contested>> /\ overtaken' \in {overtaken, overtaken \ {h}}
        /\ Becomes(h, NoRequest) \/ Becomes(h, Request("aim", req[h].by, {}, {}, req[h].num))
    BY <1>7 DEF MarkRecalled, GivesUp, Ends, groupVars, historyVars
  <2> QED BY <1>0, <1>2, <1>4, <2>1
<1>8. CASE AimRecall(h)
  <2>1. /\ UNCHANGED <<open, role, contested, overtaken>>
        /\ Becomes(h, Request("tell", req[h].by, {}, Members, req[h].num))
    BY <1>8 DEF AimRecall, groupVars, historyVars
  <2> QED BY <1>4, <2>1
<1>9. CASE TellRecall(h) \/ NoteRead(h)
  <2>1. /\ UNCHANGED <<open, role, contested>> /\ overtaken' = overtaken \ {h}
        /\ Becomes(h, NoRequest)
    BY <1>9 DEF TellRecall, NoteRead, Ends
  <2> QED BY <1>0, <1>2, <2>1
<1>10. CASE Wipe(h)
  <2>1. /\ req[h].at = "wipe" /\ Becomes(h, Request("expel", req[h].by, {}, {}, 0))
        /\ UNCHANGED <<open, role, contested, overtaken>>
    BY <1>10 DEF Wipe, historyVars
  <2> QED BY <2>1, NextOwner
<1> QED BY <1>5, <1>6, <1>7, <1>8, <1>9, <1>10

LEMMA DropOwner ==
    ASSUME BaseInv, OwnerInv, NEW h \in Handlers, Drop(h)
    PROVE  OwnerInv'
<1>1. CASE Halfway(h)
  <2>1. contested' = TRUE
    BY <1>1 DEF Drop
  <2> QED BY <2>1 DEF OwnerInv
<1>2. CASE ~Halfway(h)
  <2>1. /\ UNCHANGED <<open, role>> /\ contested' = (contested \/ Halfway(h))
        /\ overtaken' = overtaken \ {h}
        /\ Answers(h, "refused") \/ Becomes(h, NoRequest)
    BY DEF Drop, groupVars
  <2>2. contested' = contested
    BY <1>2, <2>1 DEF BaseInv, GroupInv
  <2> DEFINE r == Request("refused", req[h].by, {}, {}, req[h].num)
  <2>3. r.at \notin ManagingSteps
    <3>1. r.at = "refused"
      BY DEF Request
    <3> QED BY <3>1 DEF ManagingSteps
  <2>4. Becomes(h, NoRequest) \/ Becomes(h, r)
    BY <2>1 DEF Answers
  <2>5. NoRequest.at \notin ManagingSteps
    BY NoRequestShape DEF ManagingSteps
  <2> HIDE DEF r
  <2> QED BY <1>2, <2>1, <2>2, <2>3, <2>4, <2>5, OtherOwner
<1> QED BY <1>1, <1>2

\* After a request has written roles it is the only one of the old ones that may still fit.
LEMMA OthersFit ==
    ASSUME Orderly, NEW h \in Handlers, NEW new, NEW last, SetRoles(h, new, last),
           \A g \in Handlers \ {h} : req'[g] = req[g]
    PROVE  \A g \in Handlers \ {h} : g \notin overtaken' => Fits(req'[g], role')
<1> SUFFICES ASSUME NEW g \in Handlers \ {h}, g \notin overtaken' PROVE Fits(req'[g], role')
  OBVIOUS
<1>1. /\ role' = new /\ g \notin overtaken /\ req'[g] = req[g]
      /\ new = role \/ g \notin Busy
  BY DEF SetRoles
<1>2. CASE new = role
  BY <1>1, <1>2 DEF Orderly
<1>3. CASE g \notin Busy
  <2>1. req[g].at \notin ManagingSteps
    BY <1>3 DEF Busy, ManagingSteps
  <2> QED BY <1>1, <2>1, OtherFits
<1> QED BY <1>1, <1>2, <1>3

\* The request that writes roles is not overtaken, or the group is contested.
LEMMA RolesOwner ==
    ASSUME BaseInv, OwnerInv, NEW h \in Handlers, NEW new, NEW last, SetRoles(h, new, last),
           NEW r, Becomes(h, r), open' = open,
           open /\ ~contested /\ Orderly /\ h \notin overtaken
               => /\ Fits(r, new)
                  /\ \/ /\ OneOwner' /\ r.at \notin {"promote", "close"}
                        /\ \A g \in Handlers \ {h} : ~Halfway(g)
                     \/ /\ Owners' = {} /\ r.at \in {"promote", "close"}
                        /\ \A g \in Handlers \ {h} : ~Halfway(g)
    PROVE  OwnerInv'
<1> SUFFICES ASSUME open', ~contested' PROVE Orderly'
  BY DEF OwnerInv
<1>1. h \notin overtaken /\ ~contested /\ role' = new
  BY DEF SetRoles
<1>2. Orderly
  BY <1>1 DEF OwnerInv
<1>3. req'[h] = r /\ \A g \in Handlers \ {h} : req'[g] = req[g]
  BY DEF Becomes, BaseInv, RequestInv
<1>4. \A g \in Handlers \ overtaken' : Fits(req'[g], role')
  <2>1. \A g \in Handlers \ {h} : g \notin overtaken' => Fits(req'[g], role')
    BY <1>2, <1>3, OthersFit
  <2>2. Fits(req'[h], role')
    BY <1>1, <1>2, <1>3
  <2> QED BY <2>1, <2>2
<1>5. \A g \in Handlers \ {h} : Halfway(g)' = Halfway(g)
  BY <1>3 DEF Halfway
<1>6. Halfway(h)' <=> r.at \in {"promote", "close"}
  BY <1>3 DEF Halfway
<1>7. (OneOwner /\ \A g \in Handlers : ~Halfway(g))' \/ Between'
  <2> HIDE DEF Halfway
  <2> QED BY <1>1, <1>2, <1>5, <1>6 DEF Between
<1> QED BY <1>4, <1>7 DEF Orderly

LEMMA UpdatingOwner ==
    ASSUME BaseInv, OwnerInv, NEW h \in Handlers, InsertMember(h) \/ RemoveMember(h)
    PROVE  OwnerInv'
<1>0. role \in [Users -> Roles] /\ req[h] \in Requests /\ req[h].by \in Users
  BY DEF BaseInv, GroupInv, RequestInv, GoodRequest, InsertMember, RemoveMember
<1>1. req[h].at = "update" /\ ~Halfway(h)
  BY DEF InsertMember, RemoveMember, Halfway
<1>2. CASE GivesUp(h)
  <2>1. /\ Becomes(h, NoRequest) /\ UNCHANGED <<open, role, contested>>
        /\ overtaken' = overtaken \ {h}
    BY <1>2 DEF GivesUp, Ends, groupVars
  <2>2. NoRequest.at \notin ManagingSteps
    BY NoRequestShape DEF ManagingSteps
  <2> QED BY <1>1, <2>1, <2>2, OtherOwner
<1>3. ASSUME open, ~contested, Orderly, h \notin overtaken
      PROVE  /\ role[req[h].by] = "owner" /\ Owners = {req[h].by}
             /\ \A g \in Handlers : ~Halfway(g)
  <2>1. role[req[h].by] = "owner"
    BY <1>1, <1>3 DEF Orderly, Fits
  <2>2. req[h].by \in Owners
    BY <1>0, <2>1 DEF Owners
  <2> HIDE DEF Owners, Halfway
  <2> QED BY <1>3, <2>1, <2>2 DEF Orderly, OneOwner, Between
<1>4. ASSUME NEW v \in Users, NEW c \in {"member", "none"}, NEW a, NEW w,
             role[v] # "owner" \/ v # req[h].by, role[v] = "none" \/ v # req[h].by,
             SetRoles(h, [role EXCEPT ![v] = c], FALSE),
             Becomes(h, Request("update", req[h].by, a, w, 0)), open' = open
      PROVE  OwnerInv'
  <2> DEFINE new == [role EXCEPT ![v] = c]
             r == Request("update", req[h].by, a, w, 0)
  <2>1. r.at = "update" /\ r.by = req[h].by
    BY DEF Request
  <2>2. SetRoles(h, new, FALSE) /\ Becomes(h, r) /\ role' = new
    BY <1>4 DEF SetRoles
  <2>3. ASSUME open, ~contested, Orderly, h \notin overtaken
        PROVE  /\ Fits(r, new)
               /\ OneOwner' /\ r.at \notin {"promote", "close"}
               /\ \A g \in Handlers \ {h} : ~Halfway(g)
    <3>1. role[req[h].by] = "owner" /\ Owners = {req[h].by} /\ \A g \in Handlers : ~Halfway(g)
      BY <1>3, <2>3
    <3>2. v # req[h].by /\ role[v] # "owner"
      BY <1>4, <3>1 DEF Owners
    <3>3. new[req[h].by] = "owner"
      BY <1>0, <3>1, <3>2
    <3>4. Fits(r, new)
      <4> HIDE DEF r, new
      <4> QED BY <2>1, <3>3 DEF Fits
    <3>5. \A u \in Users : new[u] = "owner" <=> role[u] = "owner"
      BY <1>0, <1>4, <3>2
    <3>6. Owners' = {req[h].by}
      <4> HIDE DEF new
      <4> QED BY <2>2, <3>1, <3>5 DEF Owners
    <3>7. OneOwner'
      BY <1>0, <3>6 DEF OneOwner
    <3> HIDE DEF r, new
    <3> QED BY <2>1, <3>1, <3>4, <3>7
  <2> HIDE DEF r, new
  <2> QED BY <1>4, <2>2, <2>3, RolesOwner
<1>5. CASE InsertMember(h) /\ ~GivesUp(h)
  <2> PICK v \in req[h].adds :
        /\ v \notin Members
        /\ SetRoles(h, [role EXCEPT ![v] = "member"], FALSE)
        /\ Becomes(h, Request("update", req[h].by, req[h].adds \ {v}, req[h].whom, 0))
        /\ open' = open
    BY <1>5 DEF InsertMember
  <2>1. v \in Users
    BY <1>0, RequestFields
  <2>2. role[v] = "none"
    BY <2>1 DEF Members
  <2> QED BY <1>4, <2>1, <2>2
<1>6. CASE RemoveMember(h) /\ ~GivesUp(h)
  <2> PICK v \in req[h].whom :
        /\ req[h].by \notin req[h].whom
        /\ SetRoles(h, [role EXCEPT ![v] = "none"], FALSE)
        /\ Becomes(h, Request("update", req[h].by, {}, req[h].whom \ {v}, 0))
        /\ open' = open
    BY <1>6 DEF RemoveMember
  <2>1. v \in Users /\ v # req[h].by
    BY <1>0, RequestFields
  <2> QED BY <1>4, <2>1
<1> QED BY <1>2, <1>5, <1>6

LEMMA HandingOwner ==
    ASSUME BaseInv, OwnerInv, NEW h \in Handlers, Demote(h) \/ Promote(h) \/ Go(h)
    PROVE  OwnerInv'
<1>0. /\ role \in [Users -> Roles] /\ req[h] \in Requests /\ req[h].by \in Users
      /\ NoRequest.at = "idle"
  BY NoRequestShape DEF BaseInv, GroupInv, RequestInv, GoodRequest, Demote, Promote, Go
<1>1. NoRequest.at \notin ManagingSteps /\ NoRequest.at \notin {"promote", "close"}
  BY <1>0 DEF ManagingSteps
<1>2. CASE Demote(h)
  <2> DEFINE new == WithRole({req[h].by}, "member")
             r == Request("promote", req[h].by, {}, req[h].whom, 0)
  <2>1. /\ req[h].at = "demote" /\ SetRoles(h, new, FALSE) /\ Becomes(h, r) /\ open' = open
        /\ role' = new
    BY <1>2 DEF Demote, SetRoles
  <2>2. r.at = "promote" /\ r.by = req[h].by /\ r.whom = req[h].whom
    BY DEF Request
  <2>3. ASSUME open, ~contested, Orderly, h \notin overtaken
        PROVE  /\ Fits(r, new) /\ Owners' = {}
               /\ \A g \in Handlers \ {h} : ~Halfway(g)
    <3>1. Fits(req[h], role)
      BY <2>3 DEF Orderly
    <3>2. role[req[h].by] = "owner"
      BY <2>1, <3>1 DEF Fits
    <3>3. PICK v \in Users : req[h].whom = {v} /\ v # req[h].by /\ role[v] # "none"
      BY <2>1, <3>1 DEF Fits
    <3>4. req[h].by \in Owners
      BY <1>0, <3>2 DEF Owners
    <3>5. Owners = {req[h].by} /\ \A g \in Handlers : ~Halfway(g)
      <4> HIDE DEF Owners, Halfway
      <4> QED BY <2>3, <3>4 DEF Orderly, OneOwner, Between
    <3>6. new[v] = role[v]
      BY <3>3 DEF WithRole
    <3>7. \A u \in Users : new[u] # "owner"
      BY <1>0, <3>2, <3>5 DEF WithRole, Members, Owners
    <3> HIDE DEF r, new
    <3>8. Fits(r, new)
      BY <2>2, <3>3, <3>6 DEF Fits
    <3>9. Owners' = {}
      BY <2>1, <3>7 DEF Owners
    <3> QED BY <3>5, <3>8, <3>9
  <2> HIDE DEF r, new
  <2> QED BY <2>1, <2>2, <2>3, RolesOwner
<1>3. CASE Promote(h)
  <2> DEFINE new == WithRole(req[h].whom, "owner")
  <2>1. /\ req[h].at = "promote" /\ SetRoles(h, new, TRUE) /\ Becomes(h, NoRequest)
        /\ open' = open /\ role' = new
    BY <1>3 DEF Promote, SetRoles
  <2>2. ASSUME open, ~contested, Orderly, h \notin overtaken
        PROVE  /\ OneOwner'
               /\ \A g \in Handlers \ {h} : ~Halfway(g)
    <3>1. Halfway(h)
      BY <2>1 DEF Halfway
    <3>2. Owners = {} /\ \A g \in Handlers \ {h} : ~Halfway(g)
      <4> HIDE DEF Halfway, Owners
      <4> QED BY <2>2, <3>1 DEF Orderly, Between
    <3>3. PICK v \in Users : req[h].whom = {v} /\ role[v] # "none"
      BY <2>1, <2>2 DEF Orderly, Fits
    <3>4. \A u \in Users : new[u] = "owner" <=> u = v
      BY <3>2, <3>3 DEF WithRole, Members, Owners
    <3> HIDE DEF new
    <3>5. Owners' = {v}
      BY <2>1, <3>4 DEF Owners
    <3> QED BY <3>2, <3>5 DEF OneOwner
  <2> HIDE DEF new
  <2> QED BY <1>1, <2>1, <2>2, OtherFits, RolesOwner
<1>4. CASE Go(h)
  <2> DEFINE new == [role EXCEPT ![req[h].by] = "none"]
  <2>1. /\ req[h].at = "go" /\ SetRoles(h, new, TRUE) /\ Becomes(h, NoRequest)
        /\ open' = open /\ role' = new
    BY <1>4 DEF Go, SetRoles
  <2>2. req'[h] = NoRequest /\ \A g \in Handlers \ {h} : req'[g] = req[g]
    BY <2>1 DEF Becomes, BaseInv, RequestInv
  <2> SUFFICES ASSUME open', ~contested' PROVE Orderly'
    BY DEF OwnerInv
  <2>3. Orderly /\ h \notin overtaken
    BY <2>1 DEF SetRoles, OwnerInv
  <2>4. role[req[h].by] = "member"
    BY <2>1, <2>3 DEF Orderly, Fits
  <2>5. \A u \in Users : new[u] = "owner" <=> role[u] = "owner"
    BY <1>0, <2>4
  <2>6. Owners' = Owners
    <3> HIDE DEF new
    <3> QED BY <2>1, <2>5 DEF Owners
  <2>7. \A g \in Handlers : Halfway(g)' = Halfway(g)
    BY <1>1, <2>1, <2>2 DEF Halfway
  <2>8. (OneOwner /\ \A g \in Handlers : ~Halfway(g))' \/ Between'
    <3> HIDE DEF Halfway, Owners
    <3> QED BY <2>3, <2>6, <2>7 DEF Orderly, OneOwner, Between
  <2>9. \A g \in Handlers \ overtaken' : Fits(req'[g], role')
    <3> HIDE DEF new
    <3>1. \A g \in Handlers \ {h} : g \notin overtaken' => Fits(req'[g], role')
      BY <2>1, <2>2, <2>3, OthersFit
    <3> QED BY <1>1, <2>2, <3>1, OtherFits
  <2> QED BY <2>8, <2>9 DEF Orderly
<1> QED BY <1>2, <1>3, <1>4

LEMMA ClosingOwner ==
    ASSUME BaseInv, OwnerInv, NEW h \in Handlers, Expel(h) \/ Close(h)
    PROVE  OwnerInv'
<1>1. CASE Close(h)
  BY <1>1 DEF Close, OwnerInv
<1>2. CASE Expel(h)
  <2> DEFINE new == [u \in Users |-> "none"]
             r == Request("close", req[h].by, {}, {}, 0)
  <2>1. /\ req[h].at = "expel" /\ SetRoles(h, new, FALSE) /\ Becomes(h, r) /\ open' = open
        /\ role' = new
    BY <1>2 DEF Expel, SetRoles
  <2>2. r.at = "close"
    BY DEF Request
  <2>3. ASSUME open, ~contested, Orderly, h \notin overtaken
        PROVE  \A g \in Handlers \ {h} : ~Halfway(g)
    <3>1. role[req[h].by] = "owner"
      BY <2>1, <2>3 DEF Orderly, Fits
    <3>2. req[h].by \in Owners
      BY <2>1, <3>1 DEF Owners, BaseInv, RequestInv, GoodRequest
    <3> HIDE DEF Owners, Halfway
    <3> QED BY <2>3, <3>2 DEF Orderly, Between
  <2>4. Owners' = {}
    BY <2>1 DEF Owners
  <2> HIDE DEF r, new
  <2>5. Fits(r, new)
    BY <2>2 DEF Fits
  <2> QED BY <2>1, <2>2, <2>3, <2>4, <2>5, RolesOwner
<1> QED BY <1>1, <1>2

\* A group keeps one owner through transfers, departures and a dissolution, however many
\* requests there are, as long as no request acts on roles that have changed under it.
THEOREM OneOwnerStays == Spec => []OneOwnerUnlessContested
<1> DEFINE Inv == BaseInv /\ OwnerInv
<1>1. Init => Inv
  <2> SUFFICES ASSUME Init PROVE Inv
    OBVIOUS
  <2>1. BaseInv
    BY BaseStarts
  <2>2. req = [h \in Handlers |-> NoRequest] /\ NoRequest.at = "idle"
    BY NoRequestShape DEF Init, ServerInit
  <2>3. \A h \in Handlers : ~Halfway(h) /\ Fits(req[h], role)
    BY <2>2 DEF Halfway, Fits
  <2>4. OneOwner
    <3> PICK creator \in Users, invited \in SUBSET Users :
          role = [u \in Users |-> IF u = creator THEN "owner"
                                  ELSE IF u \in invited THEN "member" ELSE "none"]
      BY DEF Init, ServerInit
    <3>1. Owners = {creator}
      BY DEF Owners
    <3> QED BY <3>1 DEF OneOwner
  <2> QED BY <2>1, <2>3, <2>4 DEF OwnerInv, Orderly
<1>2. ASSUME Inv, [Next]_vars PROVE Inv'
  <2>1. BaseInv' /\ BaseInv /\ OwnerInv
    BY <1>2, BaseStays
  <2>2. CASE ElsewhereStep
    <3>1. UNCHANGED <<open, role, contested, overtaken>>
      BY <2>2 DEF ElsewhereStep, groupVars, historyVars
    <3>2. ASSUME NEW g \in Handlers
          PROVE  /\ Halfway(g)' = Halfway(g)
                 /\ Fits(req[g], role) => Fits(req'[g], role')
      <4>1. CASE req'[g] = req[g]
        BY <3>1, <4>1 DEF Halfway
      <4>2. CASE req[g].at \in {"idle", "accepted", "refused"} /\ req'[g].at \in {"idle", "arrive"}
        <5>1. req'[g].at \notin ManagingSteps
          BY <4>2 DEF ManagingSteps
        <5> QED BY <4>2, <5>1, OtherFits DEF Halfway
      <4> QED BY <2>2, <4>1, <4>2 DEF ElsewhereStep
    <3>3. Owners' = Owners
      BY <3>1 DEF Owners
    <3>4. Orderly => Orderly'
      <4> HIDE DEF Halfway, Owners, Fits
      <4> QED BY <3>1, <3>2, <3>3 DEF Orderly, OneOwner, Between
    <3> QED BY <2>1, <3>1, <3>4 DEF OwnerInv
  <2>3. ASSUME NEW h \in Handlers, ServerStep(h)
        PROVE  OwnerInv'
    BY <2>1, <2>3, BeginOwner, TalkingOwner, AnnouncesOwner, UpdatingOwner, HandingOwner,
       ClosingOwner, DropOwner DEF ServerStep, RunRequest
  <2> QED BY <1>2, <2>1, <2>2, <2>3, StepIs
<1>3. Inv => OneOwnerUnlessContested
  <2> HIDE DEF Halfway, Owners
  <2> QED BY DEF OwnerInv, Orderly, OneOwner, Between, OneOwnerUnlessContested
<1> HIDE DEF Inv
<1> QED BY <1>1, <1>2, <1>3, PTL DEF Spec

-----------------------------------------------------------------------------
(* The queue is looked after.                                              *)

\* A message waits for a drain that has read it, that will read it, or that is to look again.
LookedAfter(t) ==
    online[t] /\ ~gaveUp[t] =>
        \A l \in pending :
            author[l] = t => \/ l \in submitted[t]
                             \/ /\ drain[t] # "idle"
                                /\ asked[t] \/ drain[t] = "reading" \/ l \in batch[t]

LookInv == \A t \in Tabs : LookedAfter(t)

LEMMA OtherTabs ==
    ASSUME TabInv, NEW t \in Tabs, TabStep(t), NEW u \in Tabs \ {t}
    PROVE  /\ online'[u] = online[u] /\ gaveUp'[u] = gaveUp[u] /\ submitted'[u] = submitted[u]
           /\ drain'[u] = drain[u] /\ asked'[u] = asked[u] /\ batch'[u] = batch[u]
<1>0. /\ online \in [Tabs -> BOOLEAN] /\ asked \in [Tabs -> BOOLEAN] /\ gaveUp \in [Tabs -> BOOLEAN]
      /\ drain \in [Tabs -> {"idle", "reading", "next", "sending"}]
      /\ batch \in [Tabs -> SUBSET Written] /\ submitted \in [Tabs -> SUBSET Written]
  BY DEF TabInv
<1>1. ASSUME NEW items, GoesOn(t, items)
      PROVE  drain'[u] = drain[u] /\ asked'[u] = asked[u] /\ batch'[u] = batch[u]
  BY <1>0, <1>1 DEF GoesOn, Stops, SendsNext, ReadsAgain
<1>2. CASE ReadPending(t) \/ SendNext(t)
  BY <1>1, <1>2 DEF ReadPending, SendNext
<1>3. CASE Accepted(t)
  BY <1>0, <1>3 DEF Accepted
<1>4. CASE Refused(t) \/ AnswerLost(t)
  BY <1>0, <1>4 DEF Refused, AnswerLost, Fails, Stops
<1>5. Flush(t) => /\ drain'[u] = drain[u] /\ asked'[u] = asked[u] /\ batch'[u] = batch[u]
                  /\ gaveUp'[u] = gaveUp[u]
  BY <1>0 DEF Flush, ReadsAgain
<1>6. CASE WriteMessage(t)
  BY <1>5, <1>6 DEF WriteMessage
<1>7. CASE Retry(t) \/ GoOnline(t)
  BY <1>0, <1>5, <1>7 DEF Retry, GoOnline
<1>8. CASE GoOffline(t) \/ ClearHistory(t)
  BY <1>0, <1>8 DEF GoOffline, ClearHistory
<1> QED BY <1>2, <1>3, <1>4, <1>6, <1>7, <1>8 DEF TabStep

LEMMA FlushLooks ==
    ASSUME TabInv, NEW t \in Tabs, Flush(t)
    PROVE  drain'[t] # "idle" /\ (asked'[t] \/ drain'[t] = "reading")
<1>1. CASE drain[t] # "idle" /\ asked' = [asked EXCEPT ![t] = TRUE] /\ drain' = drain
  BY <1>1 DEF TabInv
<1>2. CASE drain' = [drain EXCEPT ![t] = "reading"]
  BY <1>2 DEF TabInv
<1> QED BY <1>1, <1>2 DEF Flush, ReadsAgain

\* A drain goes on with messages that are all of those that are not submitted yet.
LEMMA GoesOnLooks ==
    ASSUME TabInv, NEW t \in Tabs, NEW items \in SUBSET Written, GoesOn(t, items), online[t],
           NEW l, asked[t] \/ l \in items
    PROVE  drain'[t] # "idle" /\ (asked'[t] \/ drain'[t] = "reading" \/ l \in batch'[t])
<1>1. CASE SendsNext(t, items) /\ UNCHANGED asked
  BY <1>1 DEF SendsNext, TabInv
<1>2. CASE items = {} /\ asked[t] /\ ReadsAgain(t)
  BY <1>2 DEF ReadsAgain, TabInv
<1>3. CASE items = {} /\ ~asked[t]
  BY <1>3
<1> QED BY <1>1, <1>2, <1>3 DEF GoesOn

LEMMA OwnTabLooks ==
    ASSUME BaseInv, NEW t \in Tabs, LookedAfter(t), TabStep(t)
    PROVE  LookedAfter(t)'
<1>0. /\ TabInv /\ StoreInv /\ pending \subseteq Written
      /\ online \in [Tabs -> BOOLEAN] /\ asked \in [Tabs -> BOOLEAN] /\ gaveUp \in [Tabs -> BOOLEAN]
      /\ drain \in [Tabs -> {"idle", "reading", "next", "sending"}]
      /\ batch \in [Tabs -> SUBSET Written] /\ submitted \in [Tabs -> SUBSET Written]
  BY DEF BaseInv, TabInv, StoreInv
<1>1. CASE ReadPending(t) \/ SendNext(t)
  <2>1. /\ UNCHANGED <<pending, author, online, submitted, gaveUp>>
        /\ drain[t] \in {"reading", "next"}
    BY <1>1 DEF ReadPending, SendNext, storeVars
  <2> SUFFICES ASSUME online[t], ~gaveUp[t], NEW l \in pending, author[l] = t, l \notin submitted[t]
               PROVE  drain'[t] # "idle" /\ (asked'[t] \/ drain'[t] = "reading" \/ l \in batch'[t])
    BY <2>1 DEF LookedAfter
  <2>2. CASE ReadPending(t)
    <3>1. pending \ submitted[t] \in SUBSET Written /\ l \in pending \ submitted[t]
      BY <1>0
    <3> QED BY <1>0, <2>2, <3>1, GoesOnLooks DEF ReadPending
  <2>3. CASE SendNext(t)
    <3>1. drain[t] = "next" /\ (asked[t] \/ l \in batch[t])
      BY <2>3 DEF LookedAfter, SendNext
    <3>2. batch[t] \ submitted[t] \in SUBSET Written
      BY <1>0
    <3> QED BY <1>0, <2>3, <3>1, <3>2, GoesOnLooks DEF SendNext
  <2> QED BY <1>1, <2>2, <2>3
<1>2. CASE Accepted(t)
  <2> DEFINE n == Sent(t)
  <2>1. /\ UNCHANGED <<pending, author, online, asked, gaveUp>> /\ drain[t] = "sending"
        /\ submitted' = [submitted EXCEPT ![t] = @ \union {n}]
        /\ drain' = [drain EXCEPT ![t] = "next"]
        /\ batch' = [batch EXCEPT ![t] = @ \ {n}]
    BY <1>2 DEF Accepted, storeVars
  <2> HIDE DEF n
  <2>2. submitted'[t] = submitted[t] \union {n} /\ drain'[t] = "next" /\ batch'[t] = batch[t] \ {n}
    BY <1>0, <2>1
  <2> QED BY <2>1, <2>2 DEF LookedAfter
<1>3. CASE Refused(t) \/ AnswerLost(t)
  <2>1. gaveUp'[t]
    BY <1>0, <1>3 DEF Refused, AnswerLost, Fails
  <2> QED BY <2>1 DEF LookedAfter
<1>4. CASE WriteMessage(t)
  <2>1. CASE online[t]
    <3>1. Flush(t)
      BY <1>4, <2>1 DEF WriteMessage
    <3> QED BY <1>0, <3>1, FlushLooks DEF LookedAfter
  <2>2. CASE ~online[t]
    <3>1. online' = online
      BY <1>4 DEF WriteMessage
    <3> QED BY <2>2, <3>1 DEF LookedAfter
  <2> QED BY <2>1, <2>2
<1>5. CASE Retry(t) \/ GoOnline(t)
  <2>1. Flush(t)
    BY <1>5 DEF Retry, GoOnline
  <2> QED BY <1>0, <2>1, FlushLooks DEF LookedAfter
<1>6. CASE GoOffline(t)
  <2>1. ~online'[t]
    BY <1>0, <1>6 DEF GoOffline
  <2> QED BY <2>1 DEF LookedAfter
<1>7. CASE ClearHistory(t)
  <2>1. pending' = {}
    BY <1>7 DEF ClearHistory
  <2> QED BY <2>1 DEF LookedAfter
<1> QED BY <1>1, <1>2, <1>3, <1>4, <1>5, <1>6, <1>7 DEF TabStep

LEMMA QueueChanges ==
    ASSUME BaseInv, NEW t \in Tabs, TabStep(t), NEW l \in pending'
    PROVE  author'[l] = t \/ (l \in pending /\ author'[l] = author[l])
<1>1. CASE WriteMessage(t)
  <2>1. /\ written \in Nat /\ author \in Seq(Tabs) /\ Len(author) = written
        /\ pending \subseteq 1..written
    BY DEF BaseInv, StoreInv, Written
  <2>2. author' = Append(author, t) /\ pending' = pending \union {written + 1}
    BY <1>1 DEF WriteMessage
  <2>3. author'[written + 1] = t /\ \A m \in 1..written : author'[m] = author[m]
    BY <2>1, <2>2
  <2> QED BY <2>1, <2>2, <2>3
<1>2. CASE ~WriteMessage(t)
  <2>1. author' = author /\ pending' \subseteq pending
    BY <1>2 DEF TabStep, ReadPending, Accepted, SendNext, Refused, AnswerLost, Fails, Retry,
                GoOnline, GoOffline, ClearHistory, storeVars
  <2> QED BY <2>1
<1> QED BY <1>1, <1>2

\* However tabs go on- and offline, fail and are told to flush while they drain: what was
\* written in a tab that is online is on its way unless the tab has said that it gave up.
THEOREM QueueLookedAfter == Spec => []QueueIsLookedAfter
<1> DEFINE Inv == BaseInv /\ LookInv
<1>1. Init => Inv
  <2>1. Init => pending = {}
    BY DEF Init
  <2> QED BY <2>1, BaseStarts DEF LookInv, LookedAfter
<1>2. ASSUME Inv, [Next]_vars PROVE Inv'
  <2>1. BaseInv /\ BaseInv' /\ LookInv /\ TabInv
    BY <1>2, BaseStays DEF BaseInv
  <2>2. ASSUME NEW t \in Tabs, TabStep(t) PROVE LookInv'
    <3>1. ASSUME NEW u \in Tabs \ {t} PROVE LookedAfter(u)'
      <4>1. /\ online'[u] = online[u] /\ gaveUp'[u] = gaveUp[u] /\ submitted'[u] = submitted[u]
            /\ drain'[u] = drain[u] /\ asked'[u] = asked[u] /\ batch'[u] = batch[u]
        BY <2>1, <2>2, OtherTabs
      <4>2. \A l \in pending' : author'[l] = u => l \in pending /\ author[l] = u
        BY <2>1, <2>2, QueueChanges
      <4> QED BY <2>1, <4>1, <4>2 DEF LookInv, LookedAfter
    <3>2. LookedAfter(t)'
      BY <2>1, <2>2, OwnTabLooks DEF LookInv
    <3> QED BY <3>1, <3>2 DEF LookInv
  <2>3. CASE \/ \E h \in Handlers : (ServerStep(h) /\ UNCHANGED queueVars) \/ Discard(h)
             \/ ApplyEvent \/ UNCHANGED vars
    <3>1. /\ online' = online /\ asked' = asked /\ drain' = drain /\ batch' = batch
          /\ submitted' = submitted /\ gaveUp' = gaveUp /\ author' = author
          /\ pending' \subseteq pending
      BY <2>3 DEF Discard, ApplyEvent, vars, queueVars, storeVars, tabVars
    <3> QED BY <2>1, <3>1 DEF LookInv, LookedAfter
  <2> QED BY <1>2, <2>1, <2>2, <2>3 DEF Next
<1>3. Inv => QueueIsLookedAfter
  BY DEF LookInv, LookedAfter, QueueIsLookedAfter
<1> HIDE DEF Inv
<1> QED BY <1>1, <1>2, <1>3, PTL DEF Spec

-----------------------------------------------------------------------------
(* The order of the queue.                                                 *)

\* No message has been deleted.
Intact == DOMAIN messages = 1..lastSeq

IsStored(l) == \E s \in DOMAIN messages : messages[s].local = l

\* All that has been written before l, and since the queue was cleared, is stored.
AllBefore(l) == \A m \in Nat : cleared < m /\ m < l => IsStored(m)

QueueOrder ==
    /\ \A l \in Written : l > cleared => l \in pending \/ IsStored(l)
    /\ \A t \in Tabs, l \in Nat : l \in submitted[t] => IsStored(l)
    /\ \A t \in Tabs, l \in Nat : l \in batch[t] =>
           \A m \in Nat : cleared < m /\ m < l => m \in batch[t] \/ IsStored(m)

RequestOrder ==
    \A h \in Handlers, l \in Nat : req[h].num = l /\ Sends(req[h]) =>
        /\ req[h].at = "accepted" => IsStored(l)
        /\ req[h].at \in {"arrive", "persist"} => AllBefore(l)

MessageOrder ==
    /\ \A i \in DOMAIN mailbox[Me], l \in Nat \ {0} : mailbox[Me][i].local = l => IsStored(l)
    /\ \A l \in Nat : l > cleared /\ IsStored(l) => AllBefore(l)
    /\ \A r, s \in DOMAIN messages :
           r < s /\ messages[r].local > cleared /\ messages[s].local > cleared
               => messages[r].local < messages[s].local

OrderInv == Intact => QueueOrder /\ RequestOrder /\ MessageOrder

LEMMA StoredGrows ==
    ASSUME GroupInv, NEW h \in Handlers, Effect(h), Intact'
    PROVE  Intact /\ \A l \in Nat : IsStored(l) => IsStored(l)'
<1>0. lastSeq \in Nat /\ DOMAIN messages \subseteq 1..lastSeq
  BY DEF GroupInv
<1>1. CASE Quiet \/ Tells(h)
  BY <1>1 DEF Quiet, Tells, Intact, IsStored
<1>2. CASE Marks(h)
  <2>1. /\ DOMAIN messages' = DOMAIN messages /\ lastSeq' = lastSeq
        /\ \A s \in DOMAIN messages : messages'[s].local = messages[s].local
    BY <1>2, MarksChange DEF Marks
  <2> QED BY <2>1 DEF Intact, IsStored
<1>3. CASE Empties
  <2>1. 1..lastSeq = {}
    BY <1>3 DEF Empties, Intact
  <2> QED BY <1>0, <2>1 DEF Intact, IsStored
<1>4. CASE StoresFor(h)
  <2> PICK u \in Users, l \in Nat : Persist(u, l)
    BY <1>4 DEF StoresFor
  <2>1. /\ lastSeq' = lastSeq + 1
        /\ DOMAIN messages' = DOMAIN messages \union {lastSeq + 1}
        /\ lastSeq + 1 \notin DOMAIN messages
        /\ \A s \in DOMAIN messages : messages'[s] = messages[s]
    BY PersistKeeps
  <2>2. ASSUME NEW s \in 1..lastSeq PROVE s \in DOMAIN messages
    <3>1. DOMAIN messages' = 1..lastSeq'
      BY DEF Intact
    <3>2. s \in 1..lastSeq' /\ s # lastSeq + 1
      BY <1>0, <2>1
    <3>3. s \in DOMAIN messages \union {lastSeq + 1}
      BY <2>1, <3>1, <3>2
    <3> QED BY <3>2, <3>3
  <2>3. Intact
    BY <1>0, <2>2 DEF Intact
  <2> QED BY <2>1, <2>3 DEF IsStored
<1> QED BY <1>1, <1>2, <1>3, <1>4 DEF Effect

\* What the server makes of a request that sends.
LEMMA ServerSends ==
    ASSUME BaseInv, NEW h \in Handlers, ServerStep(h), UNCHANGED queueVars, Sends(req'[h])
    PROVE  /\ Sends(req[h]) /\ req'[h].num = req[h].num
           /\ req'[h].at \in {"arrive", "persist"} => req[h].at \in {"arrive", "persist"}
           /\ req'[h].at = "accepted" => \E s \in DOMAIN messages' : messages'[s].local = req[h].num
<1>0. /\ req \in [Handlers -> Requests] /\ ~Sends(NoRequest) /\ GroupInv /\ RequestInv
      /\ StoreInv /\ req[h].num \in Nat
  BY NoRequestShape, RequestFields DEF BaseInv, RequestInv
<1>1. ASSUME NEW r, Becomes(h, r) PROVE req'[h] = r
  BY <1>0, <1>1 DEF Becomes
<1>2. Becomes(h, NoRequest) => FALSE
  BY <1>0, <1>1
<1>3. ASSUME NEW at, NEW u, NEW a, NEW w, NEW n, Becomes(h, Request(at, u, a, w, n))
      PROVE  req'[h].at = at /\ req'[h].num = n
  BY <1>1, <1>3, RequestShape
<1>4. ASSUME NEW answer \in {"accepted", "refused"}, Answers(h, answer), req[h].at \in QueueSteps
      PROVE  Sends(req[h]) /\ req'[h].num = req[h].num /\ req'[h].at = answer
  <2>1. req[h].num # NoLocal /\ Becomes(h, Request(answer, req[h].by, {}, {}, req[h].num))
    BY <1>2, <1>4 DEF Answers
  <2> QED BY <1>3, <1>4, <2>1 DEF Sends
<1>5. CASE BeginRequest(h)
  <2>1. ASSUME NEW at, NEW u, NEW a, NEW w, NEW n, Begin(h, Request(at, u, a, w, n)),
               at \notin QueueSteps \/ n = NoLocal
        PROVE  FALSE
    <3>1. req'[h].at = at /\ req'[h].num = n
      BY <1>3, <2>1 DEF Begin
    <3> QED BY <2>1, <3>1 DEF Sends
  <2>2. ~Send(h) /\ ~Reedit(h)
    BY <2>1 DEF Send, Reedit
  <2>3. ~Recall(h) /\ ~MarkRead(h)
    BY <2>1 DEF Recall, MarkRead, QueueSteps
  <2>4. ~UpdateGroup(h) /\ ~Transfer(h)
    BY <2>1 DEF UpdateGroup, Transfer, QueueSteps
  <2>5. ~Leave(h) /\ ~Dissolve(h)
    BY <2>1 DEF Leave, Dissolve, QueueSteps
  <2> QED BY <1>5, <2>2, <2>3, <2>4, <2>5 DEF BeginRequest
<1>6. CASE CheckSend(h)
  <2>1. req[h].at = "arrive" /\ req[h].at \in QueueSteps /\ messages' = messages
    BY <1>6 DEF CheckSend, QueueSteps, groupVars
  <2>2. CASE Answers(h, "refused")
    BY <1>4, <2>1, <2>2
  <2>3. CASE Stored(req[h].by, req[h].num) /\ Answers(h, "accepted")
    BY <1>4, <2>1, <2>3 DEF Stored
  <2>4. CASE Becomes(h, Request("persist", req[h].by, {}, {}, req[h].num))
    <3>1. req'[h].at = "persist" /\ req'[h].num = req[h].num
      BY <1>3, <2>4
    <3> QED BY <2>1, <3>1 DEF Sends
  <2> QED BY <1>6, <2>2, <2>3, <2>4 DEF CheckSend
<1>7. CASE PersistMessage(h)
  <2>1. req[h].at = "persist" /\ req[h].at \in QueueSteps
    BY <1>7 DEF PersistMessage, QueueSteps
  <2>2. CASE Answers(h, "refused")
    BY <1>4, <2>1, <2>2
  <2>3. CASE Answers(h, "accepted") /\ Persist(req[h].by, req[h].num)
    <3>1. req[h].by \in Users
      BY <1>0, <2>1 DEF RequestInv, GoodRequest
    <3>2. /\ lastSeq + 1 \in DOMAIN messages'
          /\ messages'[lastSeq + 1] = Row(req[h].by, req[h].num, "active")
      BY <1>0, <2>3, <3>1, PersistKeeps
    <3>3. messages'[lastSeq + 1].local = req[h].num
      BY <3>2, RowShape
    <3> QED BY <1>4, <2>1, <2>3, <3>2, <3>3
  <2> QED BY <1>7, <2>2, <2>3 DEF PersistMessage
<1>8. CASE Drop(h)
  <2>1. req[h].at \in QueueSteps /\ Answers(h, "refused")
    BY <1>2, <1>8 DEF Drop, FromQueue, QueueSteps
  <2> QED BY <1>4, <2>1
<1>9. ASSUME NEW at \in Steps \ QueueSteps, NEW u, NEW a, NEW w, NEW n,
             Becomes(h, Request(at, u, a, w, n))
      PROVE  FALSE
  BY <1>3, <1>9 DEF Sends
<1>10. CASE MarkRecalled(h) \/ AimRecall(h) \/ TellRecall(h) \/ NoteRead(h)
  BY <1>2, <1>9, <1>10 DEF MarkRecalled, GivesUp, Ends, AimRecall, TellRecall, NoteRead,
                           Steps, QueueSteps
<1>11. CASE InsertMember(h) \/ RemoveMember(h)
  BY <1>2, <1>9, <1>11 DEF InsertMember, RemoveMember, GivesUp, Ends, Steps, QueueSteps
<1>12. CASE AnnounceUpdate(h) \/ AnnounceTransfer(h) \/ AnnounceLeave(h)
  BY <1>2, <1>9, <1>12 DEF AnnounceUpdate, AnnounceTransfer, AnnounceLeave, Announces, GivesUp,
                           Ends, Steps, QueueSteps
<1>13. CASE Demote(h) \/ Promote(h) \/ Go(h) \/ Wipe(h) \/ Expel(h) \/ Close(h)
  BY <1>2, <1>9, <1>13 DEF Demote, Promote, Go, Wipe, Expel, Close, Steps, QueueSteps
<1> QED BY <1>5, <1>6, <1>7, <1>8, <1>10, <1>11, <1>12, <1>13 DEF ServerStep, RunRequest

LEMMA AppendIs ==
    ASSUME NEW S, NEW s \in Seq(S), NEW e \in S, NEW i \in DOMAIN Append(s, e)
    PROVE  (i \in DOMAIN s /\ Append(s, e)[i] = s[i]) \/ Append(s, e)[i] = e
<1>1. /\ DOMAIN s = 1..Len(s) /\ Len(s) \in Nat
      /\ DOMAIN Append(s, e) = 1..Len(s) + 1
      /\ Append(s, e)[Len(s) + 1] = e
      /\ \A j \in 1..Len(s) : Append(s, e)[j] = s[j]
  OBVIOUS
<1> QED BY <1>1

\* The messages and the mailbox after a message has been stored for request h.
LEMMA StoringOrder ==
    ASSUME SentInv, OrderInv, NEW h \in Handlers, StoresFor(h), cleared' = cleared, Intact'
    PROVE  MessageOrder'
<1>0. /\ GroupInv /\ RequestInv /\ StoreInv /\ lastSeq \in Nat /\ req[h].num \in Nat
      /\ mailbox \in [Users -> Seq(MailEvent)] /\ Me \in Users /\ cleared \in Nat
      /\ messages \in [DOMAIN messages -> Message] /\ DOMAIN messages \subseteq 1..lastSeq
  BY RequestFields, QueueAssumption DEF SentInv, BaseInv, GroupInv, RequestInv, StoreInv
<1>1. Intact /\ \A l \in Nat : IsStored(l) => IsStored(l)'
  BY <1>0, StoredGrows DEF Effect
<1>2. QueueOrder /\ RequestOrder /\ MessageOrder
  BY <1>1 DEF OrderInv
<1> PICK u \in Users, l \in Nat :
      /\ Persist(u, l)
      /\ l # NoLocal => /\ u = Me /\ ~Stored(Me, l)
                        /\ req[h].at = "persist" /\ req[h].num = l
  BY DEF StoresFor
<1> DEFINE n == lastSeq + 1
           e == Event("created", n, l)
<1>3. /\ DOMAIN messages' = DOMAIN messages \union {n}
      /\ n \notin DOMAIN messages
      /\ messages'[n] = Row(u, l, "active")
      /\ \A s \in DOMAIN messages : messages'[s] = messages[s]
      /\ mailbox'[Me] \in {mailbox[Me], Append(mailbox[Me], e)}
  BY <1>0, PersistKeeps DEF Members
<1>4. messages'[n].local = l /\ e.local = l /\ e \in MailEvent /\ n \in Nat
  BY <1>0, <1>3, RowShape, EventShape
<1> HIDE DEF n, e
<1>5. IsStored(l)'
  BY <1>3, <1>4 DEF IsStored
<1>6. \A m \in Nat : AllBefore(m) => AllBefore(m)'
  BY <1>1 DEF AllBefore
<1>7. l # NoLocal => AllBefore(l) /\ ~IsStored(l)
  <2> SUFFICES ASSUME l # NoLocal PROVE AllBefore(l) /\ ~IsStored(l)
    OBVIOUS
  <2>1. Sends(req[h])
    BY DEF Sends, QueueSteps
  <2>2. AllBefore(l)
    BY <1>2, <2>1 DEF RequestOrder
  <2>3. ~IsStored(l)
    BY DEF SentInv, Stored, IsStored
  <2> QED BY <2>2, <2>3
<1>8. ASSUME NEW i \in DOMAIN mailbox'[Me], NEW m \in Nat \ {0}, mailbox'[Me][i].local = m
      PROVE  IsStored(m)'
  <2>1. mailbox[Me] \in Seq(MailEvent)
    BY <1>0
  <2>2. (i \in DOMAIN mailbox[Me] /\ mailbox'[Me][i] = mailbox[Me][i]) \/ mailbox'[Me][i] = e
    <3>1. CASE mailbox'[Me] = mailbox[Me]
      BY <3>1
    <3>2. CASE mailbox'[Me] = Append(mailbox[Me], e)
      BY <1>4, <2>1, <3>2, AppendIs
    <3> QED BY <1>3, <3>1, <3>2
  <2>3. CASE mailbox'[Me][i] = e
    BY <1>4, <1>5, <1>8, <2>3
  <2>4. CASE i \in DOMAIN mailbox[Me] /\ mailbox'[Me][i] = mailbox[Me][i]
    BY <1>1, <1>2, <1>8, <2>4 DEF MessageOrder
  <2> QED BY <2>2, <2>3, <2>4
<1>9. ASSUME NEW m \in Nat, m > cleared, IsStored(m)'
      PROVE  AllBefore(m)'
  <2>1. CASE IsStored(m)
    BY <1>2, <1>6, <1>9, <2>1 DEF MessageOrder
  <2>2. CASE ~IsStored(m)
    <3>1. m = l
      BY <1>3, <1>4, <1>9, <2>2 DEF IsStored
    <3>2. l # NoLocal
      BY <1>0, <1>9, <3>1 DEF NoLocal
    <3> QED BY <1>6, <1>7, <3>1, <3>2
  <2> QED BY <2>1, <2>2
<1>10. ASSUME NEW r \in DOMAIN messages', NEW s \in DOMAIN messages', r < s,
              messages'[r].local > cleared, messages'[s].local > cleared
       PROVE  messages'[r].local < messages'[s].local
  <2>1. CASE r \in DOMAIN messages /\ s \in DOMAIN messages
    BY <1>2, <1>3, <1>10, <2>1 DEF MessageOrder
  <2>2. CASE r = n
    BY <1>0, <1>3, <1>10, <2>2 DEF n
  <2>3. CASE r \in DOMAIN messages /\ s = n
    <3> DEFINE m == messages[r].local
    <3>1. m \in Nat /\ messages'[r].local = m /\ IsStored(m)
      BY <1>0, <1>3, <2>3, MessageFields DEF IsStored
    <3> HIDE DEF m
    <3>2. messages'[s].local = l
      BY <1>4, <2>3
    <3>3. l # NoLocal /\ l \in Nat
      BY <1>0, <1>10, <3>2 DEF NoLocal
    <3>4. AllBefore(m)
      BY <1>2, <1>10, <3>1 DEF MessageOrder
    <3>5. ~(l < m)
      BY <1>7, <1>10, <3>2, <3>3, <3>4 DEF AllBefore
    <3>6. m # l
      BY <1>7, <3>1, <3>3
    <3> QED BY <3>1, <3>2, <3>3, <3>5, <3>6
  <2> QED BY <1>3, <2>1, <2>2, <2>3
<1> QED BY <1>8, <1>9, <1>10 DEF MessageOrder

\* Rows and events that are there keep their local ids; an event that comes has none.
LEMMA SameOrder ==
    ASSUME SentInv, OrderInv, NEW h \in Handlers, Effect(h), ~StoresFor(h), cleared' = cleared, Intact'
    PROVE  MessageOrder'
<1>0. /\ GroupInv /\ RequestInv /\ lastSeq \in Nat /\ req[h].num \in Nat
      /\ mailbox \in [Users -> Seq(MailEvent)] /\ Me \in Users
      /\ DOMAIN messages \subseteq 1..lastSeq
  BY RequestFields, QueueAssumption DEF SentInv, BaseInv, GroupInv, RequestInv
<1>1. Intact /\ \A l \in Nat : IsStored(l) => IsStored(l)'
  BY <1>0, StoredGrows
<1>2. MessageOrder
  BY <1>1 DEF OrderInv
<1>3. /\ DOMAIN messages' = DOMAIN messages
      /\ \A s \in DOMAIN messages : messages'[s].local = messages[s].local
  <2>1. CASE Quiet \/ Tells(h)
    BY <2>1 DEF Quiet, Tells
  <2>2. CASE Marks(h)
    BY <1>0, <2>2, MarksChange
  <2>3. CASE Empties
    <3>1. DOMAIN messages' = {} /\ DOMAIN messages' = 1..lastSeq /\ DOMAIN messages = 1..lastSeq
      BY <1>1, <2>3 DEF Empties, Intact
    <3> QED BY <3>1
  <2> QED BY <2>1, <2>2, <2>3 DEF Effect
<1>4. \A l \in Nat : /\ IsStored(l)' = IsStored(l)
                     /\ AllBefore(l) => AllBefore(l)'
  BY <1>3 DEF IsStored, AllBefore
<1>5. ASSUME NEW i \in DOMAIN mailbox'[Me], NEW m \in Nat \ {0}, mailbox'[Me][i].local = m
      PROVE  i \in DOMAIN mailbox[Me] /\ mailbox'[Me][i] = mailbox[Me][i]
  <2> DEFINE e == Event("recalled", req[h].num, NoLocal)
  <2>1. mailbox[Me] \in Seq(MailEvent) /\ e \in MailEvent /\ e.local = 0
    BY <1>0, EventShape DEF NoLocal
  <2> HIDE DEF e
  <2>2. mailbox'[Me] \in {mailbox[Me], Append(mailbox[Me], e)}
    BY <1>0 DEF Effect, Quiet, Marks, Tells, Empties, e
  <2>3. CASE mailbox'[Me] = mailbox[Me]
    BY <2>3
  <2>4. CASE mailbox'[Me] = Append(mailbox[Me], e)
    BY <1>5, <2>1, <2>4, AppendIs
  <2> QED BY <2>2, <2>3, <2>4
<1>6. \A i \in DOMAIN mailbox'[Me], m \in Nat \ {0} : mailbox'[Me][i].local = m => IsStored(m)'
  <2> HIDE DEF IsStored
  <2> QED BY <1>2, <1>4, <1>5 DEF MessageOrder
<1>7. \A m \in Nat : m > cleared' /\ IsStored(m)' => AllBefore(m)'
  BY <1>2, <1>4 DEF MessageOrder
<1>8. \A r, s \in DOMAIN messages' :
         r < s /\ messages'[r].local > cleared /\ messages'[s].local > cleared
             => messages'[r].local < messages'[s].local
  BY <1>2, <1>3 DEF MessageOrder
<1> QED BY <1>6, <1>7, <1>8 DEF MessageOrder

LEMMA ServerOrder ==
    ASSUME SentInv, OrderInv, NEW h \in Handlers, ServerStep(h), UNCHANGED queueVars
    PROVE  OrderInv'
<1>0. /\ BaseInv /\ GroupInv /\ RequestInv /\ Effect(h)
      /\ \E r : Turns(h, r)
      /\ UNCHANGED <<written, author, pending, cursor, cleared>>
      /\ UNCHANGED <<submitted, batch>>
  BY ServerServes DEF SentInv, BaseInv, Served, queueVars, storeVars, tabVars
<1> SUFFICES ASSUME Intact' PROVE QueueOrder' /\ RequestOrder' /\ MessageOrder'
  BY DEF OrderInv
<1>1. Intact /\ \A l \in Nat : IsStored(l) => IsStored(l)'
  BY <1>0, StoredGrows
<1>2. QueueOrder /\ RequestOrder /\ \A l \in Nat : AllBefore(l) => AllBefore(l)'
  BY <1>0, <1>1 DEF OrderInv, AllBefore
<1>3. QueueOrder'
  <2>1. Written' = Written /\ Written \subseteq Nat
    BY <1>0 DEF Written
  <2> HIDE DEF IsStored
  <2> QED BY <1>0, <1>1, <1>2, <2>1 DEF QueueOrder
<1>4. RequestOrder'
  <2> SUFFICES ASSUME NEW g \in Handlers, NEW l \in Nat, req'[g].num = l, Sends(req'[g])
               PROVE  /\ req'[g].at = "accepted" => IsStored(l)'
                      /\ req'[g].at \in {"arrive", "persist"} => AllBefore(l)'
    BY DEF RequestOrder
  <2>1. CASE g = h
    <3>1. /\ Sends(req[h]) /\ req[h].num = l
          /\ req'[h].at \in {"arrive", "persist"} => req[h].at \in {"arrive", "persist"}
          /\ req'[h].at = "accepted" => \E s \in DOMAIN messages' : messages'[s].local = l
      BY <1>0, <2>1, ServerSends
    <3>2. req'[h].at \in {"arrive", "persist"} => AllBefore(l)
      BY <1>2, <3>1 DEF RequestOrder
    <3> QED BY <1>2, <2>1, <3>1, <3>2 DEF IsStored
  <2>2. CASE g # h
    <3>1. req'[g] = req[g]
      BY <1>0, <2>2 DEF Turns, RequestInv
    <3> HIDE DEF IsStored, AllBefore
    <3> QED BY <1>1, <1>2, <3>1 DEF RequestOrder
  <2> QED BY <2>1, <2>2
<1>5. MessageOrder'
  BY <1>0, StoringOrder, SameOrder
<1> QED BY <1>3, <1>4, <1>5

-----------------------------------------------------------------------------
(* Tabs keep the order.                                                    *)

\* What is still to be sent leaves out only what is stored.
Whole(items) ==
    \A l \in Nat : l \in items =>
        \A m \in Nat : cleared < m /\ m < l => m \in items \/ IsStored(m)

\* Nothing changes on the server, and no more than the queue's requests.
LEMMA SameMessages ==
    ASSUME UNCHANGED groupVars, cleared' = cleared
    PROVE  /\ Intact' = Intact
           /\ \A l \in Nat : IsStored(l)' = IsStored(l) /\ AllBefore(l)' = AllBefore(l)
           /\ MessageOrder => MessageOrder'
<1>1. /\ messages' = messages /\ lastSeq' = lastSeq /\ mailbox' = mailbox
  BY DEF groupVars
<1>2. \A l \in Nat : IsStored(l)' = IsStored(l) /\ AllBefore(l)' = AllBefore(l)
  BY <1>1 DEF IsStored, AllBefore
<1>3. Intact' = Intact
  BY <1>1 DEF Intact
<1>4. MessageOrder => MessageOrder'
  <2> HIDE DEF IsStored, AllBefore
  <2> QED BY <1>1, <1>2 DEF MessageOrder
<1> QED BY <1>2, <1>3, <1>4

\* A request that replaces one, in its order or without a message.
LEMMA ReplacedOrder ==
    ASSUME RequestInv, RequestOrder, UNCHANGED groupVars, cleared' = cleared,
           NEW h \in Handlers, NEW r, Becomes(h, r),
           Sends(r) => r.num \in Nat /\ r.at = "arrive" /\ AllBefore(r.num)
    PROVE  RequestOrder'
<1>1. req'[h] = r /\ \A g \in Handlers \ {h} : req'[g] = req[g]
  BY DEF Becomes, RequestInv
<1>2. \A l \in Nat : IsStored(l)' = IsStored(l) /\ AllBefore(l)' = AllBefore(l)
  BY SameMessages
<1> SUFFICES ASSUME NEW g \in Handlers, NEW l \in Nat, req'[g].num = l, Sends(req'[g])
             PROVE  /\ req'[g].at = "accepted" => IsStored(l)'
                    /\ req'[g].at \in {"arrive", "persist"} => AllBefore(l)'
  BY DEF RequestOrder
<1> HIDE DEF IsStored, AllBefore
<1>3. CASE g = h
  BY <1>1, <1>2, <1>3
<1>4. CASE g # h
  <2>1. req'[g] = req[g]
    BY <1>1, <1>4
  <2> QED BY <1>2, <2>1 DEF RequestOrder
<1> QED BY <1>3, <1>4

LEMMA SameRequests ==
    ASSUME RequestOrder, UNCHANGED groupVars, cleared' = cleared, UNCHANGED req
    PROVE  RequestOrder'
<1>1. \A l \in Nat : IsStored(l)' = IsStored(l) /\ AllBefore(l)' = AllBefore(l)
  BY SameMessages
<1> HIDE DEF IsStored, AllBefore
<1> QED BY <1>1 DEF RequestOrder

\* The queue is in order when the tab's batch still is, or is empty.
LEMMA BatchOrder ==
    ASSUME BaseInv, QueueOrder, UNCHANGED <<groupVars, storeVars>>, NEW t \in Tabs, NEW items,
           batch' = [batch EXCEPT ![t] = items], Whole(items),
           NEW new, submitted' = [submitted EXCEPT ![t] = new],
           \A l \in Nat : l \in new => IsStored(l)
    PROVE  QueueOrder'
<1>0. /\ batch \in [Tabs -> SUBSET Written] /\ submitted \in [Tabs -> SUBSET Written]
      /\ UNCHANGED <<written, pending, cleared>>
  BY DEF BaseInv, TabInv, storeVars
<1>1. \A l \in Nat : IsStored(l)' = IsStored(l)
  BY <1>0, SameMessages
<1>2. /\ batch'[t] = items /\ \A u \in Tabs \ {t} : batch'[u] = batch[u]
      /\ submitted'[t] = new /\ \A u \in Tabs \ {t} : submitted'[u] = submitted[u]
  BY <1>0
<1> HIDE DEF IsStored
<1>3. ASSUME NEW u \in Tabs, NEW l \in Nat, l \in submitted'[u] PROVE IsStored(l)'
  BY <1>1, <1>2, <1>3 DEF QueueOrder
<1>4. ASSUME NEW u \in Tabs, NEW l \in Nat, l \in batch'[u], NEW m \in Nat, cleared < m, m < l
      PROVE  m \in batch'[u] \/ IsStored(m)'
  <2>1. CASE u = t
    BY <1>1, <1>2, <1>4, <2>1 DEF Whole
  <2>2. CASE u # t
    BY <1>1, <1>2, <1>4, <2>2 DEF QueueOrder
  <2> QED BY <2>1, <2>2
<1>5. \A l \in Written' : l > cleared' => l \in pending' \/ IsStored(l)'
  <2>1. Written' = Written /\ Written \subseteq Nat
    BY <1>0 DEF Written
  <2> QED BY <1>0, <1>1, <2>1 DEF QueueOrder
<1> QED BY <1>0, <1>3, <1>4, <1>5 DEF QueueOrder

LEMMA GoesOnOrder ==
    ASSUME BaseInv, QueueOrder, RequestOrder, NEW t \in Tabs, NEW items \in SUBSET Written,
           Whole(items), GoesOn(t, items), UNCHANGED <<groupVars, storeVars, submitted>>
    PROVE  QueueOrder' /\ RequestOrder'
<1>0. /\ submitted \in [Tabs -> SUBSET Written] /\ RequestInv /\ written \in Nat
      /\ cleared' = cleared
  BY DEF BaseInv, TabInv, StoreInv, storeVars
<1>1. submitted' = [submitted EXCEPT ![t] = submitted[t]]
  BY <1>0
<1>2. \A l \in Nat : l \in submitted[t] => IsStored(l)
  BY DEF QueueOrder
<1>3. CASE SendsNext(t, items)
  <2> PICK h \in Handlers, l \in items :
        /\ \A m \in items : l <= m
        /\ Becomes(h, Request("arrive", Me, {}, {}, l))
        /\ batch' = [batch EXCEPT ![t] = items]
    BY <1>3 DEF SendsNext
  <2> DEFINE r == Request("arrive", Me, {}, {}, l)
  <2>1. r.at = "arrive" /\ r.num = l /\ Becomes(h, r)
    BY DEF Request
  <2>2. l \in Nat /\ items \subseteq Nat
    BY <1>0 DEF Written
  <2> HIDE DEF r
  <2>3. AllBefore(l)
    <3> SUFFICES ASSUME NEW m \in Nat, cleared < m, m < l PROVE IsStored(m)
      BY DEF AllBefore
    <3>1. m \notin items
      BY <2>2
    <3> QED BY <2>2, <3>1 DEF Whole
  <2>4. RequestOrder'
    BY <1>0, <2>1, <2>2, <2>3, ReplacedOrder
  <2>5. QueueOrder'
    BY <1>1, <1>2, BatchOrder
  <2> QED BY <2>4, <2>5
<1>4. CASE ~SendsNext(t, items)
  <2>1. UNCHANGED req /\ batch' = [batch EXCEPT ![t] = {}]
    BY <1>4 DEF GoesOn, Stops, ReadsAgain
  <2>2. Whole({})
    BY DEF Whole
  <2>3. QueueOrder'
    BY <1>1, <1>2, <2>1, <2>2, BatchOrder
  <2> QED BY <1>0, <2>1, <2>3, SameRequests
<1> QED BY <1>3, <1>4

LEMMA SendingOrder ==
    ASSUME BaseInv, QueueOrder, RequestOrder, NEW t \in Tabs,
           ReadPending(t) \/ Accepted(t) \/ SendNext(t) \/ Refused(t) \/ AnswerLost(t)
    PROVE  QueueOrder' /\ RequestOrder'
<1>0. /\ RequestInv /\ written \in Nat /\ pending \subseteq Written
      /\ batch \in [Tabs -> SUBSET Written] /\ submitted \in [Tabs -> SUBSET Written]
      /\ cleared \in Nat
  BY DEF BaseInv, TabInv, StoreInv
<1>1. UNCHANGED <<groupVars, storeVars>> /\ cleared' = cleared
  BY DEF ReadPending, Accepted, SendNext, Refused, AnswerLost, Fails, storeVars
<1>2. CASE ReadPending(t)
  <2>1. Whole(pending \ submitted[t])
    <3> SUFFICES ASSUME NEW l \in Nat, l \in pending, NEW m \in Nat, cleared < m, m < l,
                        m \notin pending \ submitted[t]
                 PROVE  IsStored(m)
      BY DEF Whole
    <3>1. m \in Written
      BY <1>0 DEF Written
    <3> QED BY <3>1 DEF QueueOrder
  <2>2. pending \ submitted[t] \in SUBSET Written
    BY <1>0
  <2> QED BY <1>1, <1>2, <2>1, <2>2, GoesOnOrder DEF ReadPending
<1>3. CASE SendNext(t)
  <2>1. Whole(batch[t] \ submitted[t])
    BY DEF QueueOrder, Whole
  <2>2. batch[t] \ submitted[t] \in SUBSET Written
    BY <1>0
  <2> QED BY <1>1, <1>3, <2>1, <2>2, GoesOnOrder DEF SendNext
<1>4. NoRequest.num \in Nat /\ ~Sends(NoRequest)
  BY NoRequestShape
<1>5. CASE Accepted(t)
  <2> DEFINE n == Sent(t)
  <2>1. call[t] \in Handlers /\ Sends(req[call[t]]) /\ n \in Written
    BY <1>5, SentIs DEF Accepted
  <2>2. /\ req[call[t]].at = "accepted" /\ Becomes(call[t], NoRequest)
        /\ batch' = [batch EXCEPT ![t] = batch[t] \ {n}]
        /\ submitted' = [submitted EXCEPT ![t] = submitted[t] \union {n}]
    BY <1>5 DEF Accepted
  <2>3. n \in Nat /\ IsStored(n)
    BY <1>0, <2>1, <2>2 DEF Written, RequestOrder, Sent
  <2> HIDE DEF n
  <2>4. Whole(batch[t] \ {n})
    BY <2>3 DEF QueueOrder, Whole
  <2>5. \A l \in Nat : l \in submitted[t] \union {n} => IsStored(l)
    BY <2>3 DEF QueueOrder
  <2>6. QueueOrder'
    BY <1>1, <2>2, <2>4, <2>5, BatchOrder
  <2> QED BY <1>0, <1>1, <1>4, <2>1, <2>2, <2>6, ReplacedOrder
<1>6. CASE Refused(t) \/ AnswerLost(t)
  <2>1. /\ batch' = [batch EXCEPT ![t] = {}] /\ submitted' = submitted
        /\ req' = req \/ (call[t] \in Handlers /\ Becomes(call[t], NoRequest))
    BY <1>6, SentIs DEF Refused, AnswerLost, Fails, Stops
  <2>2. Whole({}) /\ submitted' = [submitted EXCEPT ![t] = submitted[t]]
        /\ \A l \in Nat : l \in submitted[t] => IsStored(l)
    BY <1>0, <2>1 DEF Whole, QueueOrder
  <2>3. QueueOrder'
    BY <1>1, <2>1, <2>2, BatchOrder
  <2> QED BY <1>0, <1>1, <1>4, <2>1, <2>3, ReplacedOrder, SameRequests
<1> QED BY <1>2, <1>3, <1>5, <1>6

\* A message that is written goes to the end; a flush at most empties a batch.
LEMMA FlushOrder ==
    ASSUME BaseInv, QueueOrder, RequestOrder, UNCHANGED <<groupVars, req>>, cleared' = cleared,
           NEW t \in Tabs, batch' \in {batch, [batch EXCEPT ![t] = {}]},
           submitted' \in {submitted, [submitted EXCEPT ![t] = {}]},
           pending \subseteq pending', Written' \subseteq Written \union pending'
    PROVE  QueueOrder' /\ RequestOrder'
<1>0. /\ batch \in [Tabs -> SUBSET Written] /\ submitted \in [Tabs -> SUBSET Written]
      /\ Written \subseteq Nat
  BY DEF BaseInv, TabInv, Written
<1>1. \A l \in Nat : IsStored(l)' = IsStored(l)
  BY SameMessages
<1>2. \A u \in Tabs : batch'[u] \in {batch[u], {}} /\ submitted'[u] \in {submitted[u], {}}
  BY <1>0
<1> HIDE DEF IsStored
<1>3. \A l \in Written' : l > cleared' => l \in pending' \/ IsStored(l)'
  BY <1>0, <1>1 DEF QueueOrder
<1>4. \A u \in Tabs, l \in Nat : l \in submitted'[u] => IsStored(l)'
  BY <1>1, <1>2 DEF QueueOrder
<1>5. \A u \in Tabs, l \in Nat : l \in batch'[u] =>
          \A m \in Nat : cleared' < m /\ m < l => m \in batch'[u] \/ IsStored(m)'
  BY <1>1, <1>2 DEF QueueOrder
<1> QED BY <1>3, <1>4, <1>5, SameRequests DEF QueueOrder

LEMMA ClearOrder ==
    ASSUME BaseInv, QueueOrder, RequestOrder, MessageOrder, NEW t \in Tabs, ClearHistory(t)
    PROVE  QueueOrder' /\ RequestOrder' /\ MessageOrder'
<1>0. /\ batch \in [Tabs -> SUBSET Written] /\ submitted \in [Tabs -> SUBSET Written]
      /\ written \in Nat /\ cleared \in Nat /\ cleared <= written
      /\ messages \in [DOMAIN messages -> Message]
      /\ \A h \in Handlers : Sends(req[h]) => req[h].num <= written
  BY DEF BaseInv, TabInv, StoreInv, RequestInv, GoodRequest, GroupInv
<1>1. /\ messages' = messages /\ mailbox' = mailbox /\ req' = req /\ batch' = batch
      /\ written' = written /\ cleared' = written
      /\ submitted' = [submitted EXCEPT ![t] = {}]
  BY DEF ClearHistory, groupVars
<1>2. /\ \A l \in Nat : IsStored(l)' = IsStored(l)
      /\ \A l \in Nat : AllBefore(l) => AllBefore(l)'
      /\ \A l \in Nat : l <= written => AllBefore(l)'
  BY <1>0, <1>1 DEF IsStored, AllBefore
<1>3. \A s \in DOMAIN messages : messages[s].local \in Nat
  BY <1>0, MessageFields
<1>4. \A u \in Tabs : submitted'[u] \in {submitted[u], {}} /\ batch[u] \subseteq 1..written
  BY <1>0, <1>1 DEF Written
<1> HIDE DEF IsStored, AllBefore
<1>5. QueueOrder'
  <2>1. \A l \in Written' : ~(l > cleared')
    BY <1>0, <1>1 DEF Written
  <2>2. \A u \in Tabs, l \in Nat : l \in submitted'[u] => IsStored(l)'
    BY <1>2, <1>4 DEF QueueOrder
  <2>3. \A u \in Tabs, l \in Nat : l \in batch'[u] => \A m \in Nat : ~(cleared' < m /\ m < l)
    BY <1>0, <1>1, <1>4
  <2> QED BY <2>1, <2>2, <2>3 DEF QueueOrder
<1>6. RequestOrder'
  BY <1>0, <1>1, <1>2 DEF RequestOrder
<1>7. MessageOrder'
  <2>1. \A i \in DOMAIN mailbox'[Me], l \in Nat \ {0} : mailbox'[Me][i].local = l => IsStored(l)'
    BY <1>1, <1>2 DEF MessageOrder
  <2>2. \A l \in Nat : l > cleared' /\ IsStored(l)' => AllBefore(l)'
    BY <1>0, <1>1, <1>2 DEF MessageOrder
  <2>3. \A r, s \in DOMAIN messages' :
            r < s /\ messages'[r].local > cleared' /\ messages'[s].local > cleared'
                => messages'[r].local < messages'[s].local
    BY <1>0, <1>1, <1>3 DEF MessageOrder
  <2> QED BY <2>1, <2>2, <2>3 DEF MessageOrder
<1> QED BY <1>5, <1>6, <1>7

\* What an event takes out of the queue is stored.
LEMMA AppliedOrder ==
    ASSUME BaseInv, QueueOrder, RequestOrder, MessageOrder, ApplyEvent
    PROVE  QueueOrder' /\ RequestOrder' /\ MessageOrder'
<1>0. /\ mailbox \in [Users -> Seq(MailEvent)] /\ Me \in Users /\ cursor \in Nat
      /\ cleared \in Nat
  BY QueueAssumption DEF BaseInv, GroupInv, StoreInv
<1> DEFINE gone == mailbox[Me][cursor + 1].local
<1>1. /\ UNCHANGED <<groupVars, req>> /\ cleared' = cleared /\ written' = written
      /\ batch' = batch /\ submitted' = submitted /\ pending' = pending \ {gone}
  BY DEF ApplyEvent, serverVars, tabVars
<1>2. gone \in Nat /\ (gone # 0 => IsStored(gone))
  <2>1. mailbox[Me] \in Seq(MailEvent)
    BY <1>0
  <2>2. cursor + 1 \in DOMAIN mailbox[Me]
    BY <1>0, <2>1 DEF ApplyEvent
  <2>3. mailbox[Me][cursor + 1] \in MailEvent
    BY <2>1, <2>2
  <2>4. gone \in Nat
    BY <2>3 DEF MailEvent
  <2> HIDE DEF IsStored
  <2> QED BY <2>2, <2>4 DEF MessageOrder
<1> HIDE DEF gone
<1>3. \A l \in Nat : IsStored(l)' = IsStored(l)
  BY <1>1, SameMessages
<1> HIDE DEF IsStored
<1>4. Written' = Written /\ \A l \in Written : l \in Nat /\ l # 0
  BY <1>1 DEF Written
<1>5. \A l \in Written' : l > cleared' => l \in pending' \/ IsStored(l)'
  BY <1>1, <1>2, <1>3, <1>4 DEF QueueOrder
<1>6. QueueOrder'
  BY <1>1, <1>3, <1>5 DEF QueueOrder
<1> QED BY <1>1, <1>6, SameMessages, SameRequests

LEMMA TabOrder ==
    ASSUME BaseInv, OrderInv, NEW t \in Tabs, TabStep(t)
    PROVE  OrderInv'
<1>1. messages' = messages /\ lastSeq' = lastSeq
  BY DEF TabStep, ReadPending, Accepted, SendNext, Refused, AnswerLost, WriteMessage, Retry,
         GoOnline, GoOffline, ClearHistory, groupVars, serverVars
<1> SUFFICES ASSUME QueueOrder, RequestOrder, MessageOrder
             PROVE  QueueOrder' /\ RequestOrder' /\ MessageOrder'
  BY <1>1 DEF OrderInv, Intact
<1>2. CASE ReadPending(t) \/ Accepted(t) \/ SendNext(t) \/ Refused(t) \/ AnswerLost(t)
  <2>1. UNCHANGED groupVars /\ cleared' = cleared
    BY <1>2 DEF ReadPending, Accepted, SendNext, Refused, AnswerLost, Fails, storeVars
  <2> QED BY <1>2, <2>1, SendingOrder, SameMessages
<1>3. CASE WriteMessage(t) \/ Retry(t) \/ GoOnline(t) \/ GoOffline(t)
  <2>1. UNCHANGED <<groupVars, req>> /\ cleared' = cleared
    BY <1>3 DEF WriteMessage, Retry, GoOnline, GoOffline, serverVars, storeVars
  <2>2. /\ batch' \in {batch, [batch EXCEPT ![t] = {}]}
        /\ submitted' \in {submitted, [submitted EXCEPT ![t] = {}]}
    BY <1>3 DEF WriteMessage, Retry, GoOnline, GoOffline, Flush, ReadsAgain
  <2>3. pending \subseteq pending' /\ Written' \subseteq Written \union pending'
    <3>1. CASE WriteMessage(t)
      <4>1. written \in Nat /\ written' = written + 1 /\ pending' = pending \union {written + 1}
        BY <3>1 DEF WriteMessage, BaseInv, StoreInv
      <4> QED BY <4>1 DEF Written
    <3>2. CASE ~WriteMessage(t)
      BY <1>3, <3>2 DEF Retry, GoOnline, GoOffline, storeVars, Written
    <3> QED BY <3>1, <3>2
  <2> QED BY <2>1, <2>2, <2>3, FlushOrder, SameMessages
<1> QED BY <1>2, <1>3, ClearOrder DEF TabStep

LEMMA RestOrder ==
    ASSUME BaseInv, OrderInv,
           ApplyEvent \/ (\E h \in Handlers : Discard(h)) \/ UNCHANGED vars
    PROVE  OrderInv'
<1>1. messages' = messages /\ lastSeq' = lastSeq
  BY DEF ApplyEvent, Discard, vars, groupVars, serverVars
<1> SUFFICES ASSUME QueueOrder, RequestOrder, MessageOrder
             PROVE  QueueOrder' /\ RequestOrder' /\ MessageOrder'
  BY <1>1 DEF OrderInv, Intact
<1>2. CASE ApplyEvent
  BY <1>2, AppliedOrder
<1>3. CASE (\E h \in Handlers : Discard(h)) \/ UNCHANGED vars
  <2>1. /\ UNCHANGED groupVars /\ cleared' = cleared /\ written' = written
        /\ batch' = batch /\ submitted' = submitted /\ pending' = pending
    BY <1>3 DEF Discard, vars, serverVars, queueVars, storeVars, tabVars
  <2>2. MessageOrder' /\ \A l \in Nat : IsStored(l)' = IsStored(l)
    BY <2>1, SameMessages
  <2>3. Written' = Written /\ Written \subseteq Nat
    BY <2>1 DEF Written
  <2>4. QueueOrder'
    <3> HIDE DEF IsStored
    <3> QED BY <2>1, <2>2, <2>3 DEF QueueOrder
  <2>5. RequestOrder'
    <3>1. CASE UNCHANGED req
      BY <2>1, <3>1, SameRequests
    <3>2. ASSUME NEW h \in Handlers, Discard(h) PROVE RequestOrder'
      <4>1. Becomes(h, NoRequest) /\ ~Sends(NoRequest) /\ RequestInv
        BY <3>2, NoRequestShape DEF Discard, BaseInv
      <4> QED BY <2>1, <4>1, ReplacedOrder
    <3> QED BY <1>3, <3>1, <3>2 DEF vars, serverVars
  <2> QED BY <2>2, <2>4, <2>5
<1> QED BY <1>2, <1>3

\* What is stored, sent and still queued lies in one order, so that messages are stored as
\* they were written, through failures, retries, several tabs and lost answers.
THEOREM StoredInOrder == Spec => []InQueueOrder
<1> DEFINE Inv == SentInv /\ OrderInv
<1>1. Init => Inv
  <2> SUFFICES ASSUME Init PROVE OrderInv
    BY SentStarts
  <2>1. /\ DOMAIN messages = {} /\ Written = {}
        /\ \A t \in Tabs : submitted[t] = {} /\ batch[t] = {}
        /\ \A u \in Users : mailbox[u] = <<>>
        /\ \A h \in Handlers : req[h] = NoRequest
    BY DEF Init, ServerInit, Written
  <2>2. QueueOrder
    BY <2>1 DEF QueueOrder
  <2>3. RequestOrder
    BY <2>1, NoRequestShape DEF RequestOrder
  <2>4. MessageOrder
    BY <2>1, QueueAssumption DEF MessageOrder, IsStored
  <2> QED BY <2>2, <2>3, <2>4 DEF OrderInv
<1>2. ASSUME Inv, [Next]_vars PROVE Inv'
  <2>1. SentInv' /\ BaseInv
    BY <1>2, SentStep DEF SentInv
  <2>2. OrderInv'
    BY <1>2, <2>1, ServerOrder, TabOrder, RestOrder DEF Next
  <2> QED BY <2>1, <2>2
<1>3. Inv => InQueueOrder
  BY DEF OrderInv, Intact, MessageOrder, InQueueOrder
<1> HIDE DEF Inv
<1> QED BY <1>1, <1>2, <1>3, PTL DEF Spec
=============================================================================
