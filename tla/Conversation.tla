---------------------------- MODULE Conversation ----------------------------
(***************************************************************************)
(* One group conversation on the server: its row with the number of the    *)
(* last message, its members, its messages, and what every user's mailbox  *)
(* is told of it.  A request reads first and writes later: sending takes   *)
(* one transaction, which holds the conversation's row; managing the group *)
(* takes several statements, committed one by one.  A request that is      *)
(* refused by its first reads changes nothing and is left out, except that *)
(* a queue waits for the answer (SendQueue).                               *)
(***************************************************************************)
EXTENDS Integers, Sequences, FiniteSets

CONSTANTS
    Users, NoUser,
    Handlers,      \* requests that may be under way at one time
    MaxWork,       \* bound: requests begun and messages written, together
    MaxFaults      \* bound: requests cut off, answers and connections lost

ASSUME ConversationAssumption ==
    /\ NoUser \notin Users /\ IsFiniteSet(Users)
    /\ MaxWork \in Nat /\ MaxFaults \in Nat

VARIABLES
    open,          \* the row of im_conversations is there
    lastSeq,       \* its last_message_sequence
    messages,      \* rows of im_messages, by conversation_seq
    role,          \* member_role of every user's row, "none" when there is no row
    read,          \* last_read_sequence
    joined,        \* joined_at, as the number of the last message then
    mailbox,       \* every user's im_mailbox_events, as far as they are about this group
    req,           \* the requests under way
    work, faults,  \* how much of the bounds is used up
    overtaken,     \* history: requests under way while another one changed a role
    contested,     \* history: one of these has written roles itself, or one broke off halfway
    untold         \* history: messages whose recall broke off before mailboxes were told

groupVars == <<open, lastSeq, messages, role, read, joined, mailbox>>
historyVars == <<overtaken, contested, untold>>
serverVars == <<groupVars, req, work, faults, historyVars>>

NoLocal == 0
Roles == {"none", "member", "owner"}
Steps == {"idle", "arrive", "persist", "accepted", "refused", "mark", "aim", "tell", "note",
          "update", "announce transfer", "demote", "promote", "announce leave", "go",
          "wipe", "expel", "close"}
Members == {u \in Users : role[u] # "none"}
Owners == {u \in Users : role[u] = "owner"}

\* A number that is written as it comes.
Latest(a, b) == b

\* GREATEST
Larger(a, b) == IF a > b THEN a ELSE b

\* A request: what it does next; who makes it; the users it still has to add, and the
\* users it is otherwise about; a local id, a message, or a number of a message.
Request(at, u, new, others, n) ==
    [at |-> at, by |-> u, adds |-> new, whom |-> others, num |-> n]

NoRequest == Request("idle", NoUser, {}, {}, 0)

Busy == {h \in Handlers : req[h].at # "idle"}

Becomes(h, r) == req' = [req EXCEPT ![h] = r]

\* A row of im_messages; a recalled one has lost its text.
Row(u, local, status) == [from |-> u, local |-> local, status |-> status]

\* An event of a mailbox carries the local id under which its message was sent.
Event(kind, seq, local) == [kind |-> kind, seq |-> seq, local |-> local]

\* create_group_conversation: one transaction; the creator is the owner.
ServerInit ==
    /\ open = TRUE /\ lastSeq = 0 /\ messages = <<>>
    /\ \E creator \in Users, invited \in SUBSET Users :
          /\ invited \ {creator} # {}
          /\ role = [u \in Users |-> IF u = creator THEN "owner"
                                     ELSE IF u \in invited THEN "member" ELSE "none"]
    /\ read = [u \in Users |-> 0]
    /\ joined = [u \in Users |-> 0]
    /\ mailbox = [u \in Users |-> <<>>]
    /\ req = [h \in Handlers |-> NoRequest]
    /\ work = 0 /\ faults = 0
    /\ overtaken = {} /\ contested = FALSE /\ untold = {}

(***************************************************************************)
(* What requests share.                                                    *)
(***************************************************************************)
\* The first reads of a request have gone well.
Begin(h, r) ==
    /\ req[h].at = "idle" /\ open /\ role[r.by] # "none"
    /\ work < MaxWork /\ work' = work + 1
    /\ Becomes(h, r)
    /\ UNCHANGED <<groupVars, faults, historyVars>>

Ends(h) == Becomes(h, NoRequest) /\ overtaken' = overtaken \ {h}

GivesUp(h) ==
    /\ Ends(h)
    /\ UNCHANGED <<groupVars, work, faults, contested, untold>>

\* A statement of request h on the members' rows.  Roles that differ from those h has
\* read may have been changed for another reason, which h does not know.
SetRoles(h, new, last) ==
    /\ role' = new
    /\ contested' = (contested \/ h \in overtaken)
    /\ overtaken' = (overtaken \union (IF new = role THEN {} ELSE Busy \ {h}))
                        \ (IF last THEN {h} ELSE {})
    /\ UNCHANGED untold

\* persist_message looks a local id up before its transaction, and a unique constraint
\* on sender and local id holds in it.
Stored(u, local) == \E s \in DOMAIN messages : messages[s].from = u /\ messages[s].local = local

\* Without the constraint.
InsertsAnyway(u, local) == TRUE

MayInsert(u, local) == local = NoLocal \/ ~Stored(u, local)

\* The transaction: it takes the next number, which locks the row, stores the message,
\* reads the members, and writes one event to each one's mailbox.
Persist(u, local) ==
    LET seq == lastSeq + 1
        told == Event("created", seq, local)
    IN  /\ lastSeq' = seq
        /\ messages' = [s \in DOMAIN messages \union {seq} |->
                            IF s = seq THEN Row(u, local, "active") ELSE messages[s]]
        /\ mailbox' = [v \in Users |-> IF v \in Members THEN Append(mailbox[v], told)
                                       ELSE mailbox[v]]
        /\ read' = [read EXCEPT ![u] = IF u \in Members THEN Larger(@, seq) ELSE @]

\* The message that tells of a change is sent without a local id; without the row of the
\* conversation nothing is stored and the request ends.
Announces(h, next) ==
    \/ /\ open /\ Persist(req[h].by, NoLocal)
       /\ Becomes(h, next)
       /\ overtaken' = IF next = NoRequest THEN overtaken \ {h} ELSE overtaken
       /\ UNCHANGED <<open, role, joined, work, faults, contested, untold>>
    \/ ~open /\ GivesUp(h)

(***************************************************************************)
(* send_message and reedit_message.                                        *)
(***************************************************************************)
Send(h) == \E u \in Users : Begin(h, Request("persist", u, {}, {}, NoLocal))

\* A recalled message may be sent anew any number of times.
Reedit(h) ==
    \E s \in DOMAIN messages :
        /\ messages[s].status = "recalled"
        /\ Begin(h, Request("persist", messages[s].from, {}, {}, NoLocal))

\* A send out of a queue is a request that gets an answer.
Answers(h, answer) ==
    Becomes(h, IF req[h].num = NoLocal THEN NoRequest
               ELSE Request(answer, req[h].by, {}, {}, req[h].num))

CheckSend(h) ==
    /\ req[h].at = "arrive"
    /\ LET u == req[h].by
           local == req[h].num
       IN  \/ (~open \/ u \notin Members) /\ Answers(h, "refused")
           \/ open /\ u \in Members /\ Stored(u, local) /\ Answers(h, "accepted")
           \/ /\ open /\ u \in Members /\ ~Stored(u, local)
              /\ Becomes(h, Request("persist", u, {}, {}, local))
    /\ UNCHANGED <<groupVars, work, faults, historyVars>>

PersistMessage(h) ==
    /\ req[h].at = "persist"
    /\ \/ /\ open /\ MayInsert(req[h].by, req[h].num)
          /\ Persist(req[h].by, req[h].num)
          /\ Answers(h, "accepted")
          /\ UNCHANGED <<open, role, joined>>
       \/ /\ ~(open /\ MayInsert(req[h].by, req[h].num))
          /\ Answers(h, "refused")
          /\ UNCHANGED groupVars
    /\ overtaken' = overtaken \ {h}
    /\ UNCHANGED <<work, faults, contested, untold>>

(***************************************************************************)
(* recall_message: the message, then the members, then their mailboxes.    *)
(* How long ago it was sent decides as well; here it never does.           *)
(***************************************************************************)
Recall(h) ==
    \E s \in DOMAIN messages :
        /\ messages[s].status = "active"
        /\ Begin(h, Request("mark", messages[s].from, {}, {}, s))

\* Whether another request has recalled it meanwhile is not asked again.
MarkRecalled(h) ==
    /\ req[h].at = "mark"
    /\ \/ /\ req[h].num \in DOMAIN messages
          /\ messages' = [messages EXCEPT ![req[h].num] = Row(@.from, @.local, "recalled")]
          /\ Becomes(h, Request("aim", req[h].by, {}, {}, req[h].num))
          /\ UNCHANGED <<open, lastSeq, role, read, joined, mailbox, work, faults, historyVars>>
       \/ req[h].num \notin DOMAIN messages /\ GivesUp(h)

\* Everyone but the sender.
AimAtOthers(h) ==
    /\ req[h].at = "aim"
    /\ Becomes(h, Request("tell", req[h].by, {}, Members \ {req[h].by}, req[h].num))
    /\ UNCHANGED <<groupVars, work, faults, historyVars>>

AimRecall(h) ==
    /\ req[h].at = "aim"
    /\ Becomes(h, Request("tell", req[h].by, {}, Members, req[h].num))
    /\ UNCHANGED <<groupVars, work, faults, historyVars>>

TellRecall(h) ==
    /\ req[h].at = "tell"
    /\ mailbox' = [v \in Users |-> IF v \in req[h].whom
                                   THEN Append(mailbox[v], Event("recalled", req[h].num, NoLocal))
                                   ELSE mailbox[v]]
    /\ Ends(h)
    /\ UNCHANGED <<open, lastSeq, messages, role, read, joined, work, faults, contested, untold>>

(***************************************************************************)
(* mark_read: the number asked for is cut to the last one, as it was read. *)
(***************************************************************************)
MarkRead(h) == \E u \in Users, s \in 0..lastSeq : Begin(h, Request("note", u, {}, {}, s))

NoteRead(h) ==
    /\ req[h].at = "note"
    /\ read' = [read EXCEPT ![req[h].by] = IF req[h].by \in Members THEN Larger(@, req[h].num) ELSE @]
    /\ Ends(h)
    /\ UNCHANGED <<open, lastSeq, messages, role, joined, mailbox, work, faults, contested, untold>>

(***************************************************************************)
(* update_group_conversation: the rows one by one, then the message.       *)
(***************************************************************************)
UpdateGroup(h) ==
    \E u \in Owners, new, out \in {{}} \union {{v} : v \in Users} :
        Begin(h, Request("update", u, new \ Members, out, 0))

\* A row that has come into being meanwhile, or a conversation that is gone, is an error.
InsertMember(h) ==
    /\ req[h].at = "update"
    /\ \E v \in req[h].adds :
          \/ /\ open /\ v \notin Members
             /\ SetRoles(h, [role EXCEPT ![v] = "member"], FALSE)
             /\ read' = [read EXCEPT ![v] = 0]
             /\ joined' = [joined EXCEPT ![v] = lastSeq]
             /\ Becomes(h, Request("update", req[h].by, req[h].adds \ {v}, req[h].whom, 0))
             /\ UNCHANGED <<open, lastSeq, messages, mailbox, work, faults>>
          \/ (~open \/ v \in Members) /\ GivesUp(h)

\* Those to be removed are looked at only now; the owner is not to be one of them.
RemoveMember(h) ==
    /\ req[h].at = "update" /\ req[h].adds = {}
    /\ \/ \E v \in req[h].whom :
             /\ req[h].by \notin req[h].whom
             /\ SetRoles(h, [role EXCEPT ![v] = "none"], FALSE)
             /\ Becomes(h, Request("update", req[h].by, {}, req[h].whom \ {v}, 0))
             /\ UNCHANGED <<open, lastSeq, messages, read, joined, mailbox, work, faults>>
       \/ req[h].by \in req[h].whom /\ GivesUp(h)

AnnounceUpdate(h) ==
    /\ req[h].at = "update" /\ req[h].adds = {} /\ req[h].whom = {}
    /\ Announces(h, NoRequest)

(***************************************************************************)
(* transfer_group_owner: the message, then two statements.                 *)
(***************************************************************************)
Transfer(h) ==
    \E u \in Owners : \E v \in Members \ {u} :
        Begin(h, Request("announce transfer", u, {}, {v}, 0))

AnnounceTransfer(h) ==
    /\ req[h].at = "announce transfer"
    /\ Announces(h, Request("demote", req[h].by, {}, req[h].whom, 0))

\* An update of a row that is gone does nothing.
WithRole(users, r) == [u \in Users |-> IF u \in users /\ u \in Members THEN r ELSE role[u]]

Demote(h) ==
    /\ req[h].at = "demote"
    /\ SetRoles(h, WithRole({req[h].by}, "member"), FALSE)
    /\ Becomes(h, Request("promote", req[h].by, {}, req[h].whom, 0))
    /\ UNCHANGED <<open, lastSeq, messages, read, joined, mailbox, work, faults>>

Promote(h) ==
    /\ req[h].at = "promote"
    /\ SetRoles(h, WithRole(req[h].whom, "owner"), TRUE)
    /\ Becomes(h, NoRequest)
    /\ UNCHANGED <<open, lastSeq, messages, read, joined, mailbox, work, faults>>

(***************************************************************************)
(* leave_group_conversation: the message, then the row.                    *)
(***************************************************************************)
\* The owner may leave like everybody else.
LeaveAtWill(h) ==
    \E u \in Members : Begin(h, Request("announce leave", u, {}, {}, 0))

Leave(h) ==
    \E u \in Members \ Owners : Begin(h, Request("announce leave", u, {}, {}, 0))

AnnounceLeave(h) ==
    /\ req[h].at = "announce leave"
    /\ Announces(h, Request("go", req[h].by, {}, {}, 0))

Go(h) ==
    /\ req[h].at = "go"
    /\ SetRoles(h, [role EXCEPT ![req[h].by] = "none"], TRUE)
    /\ Becomes(h, NoRequest)
    /\ UNCHANGED <<open, lastSeq, messages, read, joined, mailbox, work, faults>>

(***************************************************************************)
(* delete_group_conversation: messages, members, conversation; the last    *)
(* statement takes with it what has been added in between.                 *)
(***************************************************************************)
Dissolve(h) == \E u \in Owners : Begin(h, Request("wipe", u, {}, {}, 0))

Wipe(h) ==
    /\ req[h].at = "wipe"
    /\ messages' = <<>>
    /\ Becomes(h, Request("expel", req[h].by, {}, {}, 0))
    /\ UNCHANGED <<open, lastSeq, role, read, joined, mailbox, work, faults, historyVars>>

Expel(h) ==
    /\ req[h].at = "expel"
    /\ SetRoles(h, [u \in Users |-> "none"], FALSE)
    /\ Becomes(h, Request("close", req[h].by, {}, {}, 0))
    /\ UNCHANGED <<open, lastSeq, messages, read, joined, mailbox, work, faults>>

Close(h) ==
    /\ req[h].at = "close"
    /\ open' = FALSE /\ messages' = <<>>
    /\ SetRoles(h, [u \in Users |-> "none"], TRUE)
    /\ Becomes(h, NoRequest)
    /\ UNCHANGED <<lastSeq, read, joined, mailbox, work, faults>>

(***************************************************************************)
(* A handler is dropped when its caller goes away, and ends when a         *)
(* statement fails; what it has committed stays.  To a queue this is a     *)
(* refusal, unless it has stopped waiting.                                 *)
(***************************************************************************)
Halfway(h) == req[h].at \in {"promote", "close"}

FromQueue(h) == req[h].at \in {"arrive", "persist"} /\ req[h].num # NoLocal

Drop(h) ==
    /\ req[h].at \notin {"idle", "accepted", "refused"}
    /\ faults < MaxFaults /\ faults' = faults + 1
    /\ IF FromQueue(h) THEN Answers(h, "refused") ELSE Becomes(h, NoRequest)
    /\ overtaken' = overtaken \ {h}
    /\ contested' = (contested \/ Halfway(h))
    /\ untold' = IF req[h].at \in {"aim", "tell"} THEN untold \union {req[h].num} ELSE untold
    /\ UNCHANGED <<groupVars, work>>

BeginRequest(h) ==
    \/ Send(h) \/ Reedit(h) \/ Recall(h) \/ MarkRead(h)
    \/ UpdateGroup(h) \/ Transfer(h) \/ Leave(h) \/ Dissolve(h)

RunRequest(h) ==
    \/ CheckSend(h) \/ PersistMessage(h)
    \/ MarkRecalled(h) \/ AimRecall(h) \/ TellRecall(h) \/ NoteRead(h)
    \/ InsertMember(h) \/ RemoveMember(h) \/ AnnounceUpdate(h)
    \/ AnnounceTransfer(h) \/ Demote(h) \/ Promote(h)
    \/ AnnounceLeave(h) \/ Go(h)
    \/ Wipe(h) \/ Expel(h) \/ Close(h)

ServerStep(h) == BeginRequest(h) \/ RunRequest(h) \/ Drop(h)
=============================================================================
