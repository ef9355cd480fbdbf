# Verification of YaYaLowCode

TLA+ models of the parts of YaYaLowCode in which several actors change the same
state: the execution service that runs automations and approvals, the record
store with its recycle bin, the approval fields of a record, the form designer
and the versions of its schemas, the automation editor and the versions of its
flows, the navigation tree of an application, group conversations with the queue
of messages that a browser sends, and the messaging mailbox between the API and
the browser. Small instances are
checked with TLC, and the invariants that matter most are proved for all
instances with TLAPS.

The models are translated from the source; paths below are relative to `src/`.
`PROJECT.json` maps every definition to the lines it stands for.

- [The system](#the-system)
- [Modules](#modules)
- [Execution](#execution)
- [RecordStore](#recordstore)
- [RecordApproval](#recordapproval)
- [The form designer](#the-form-designer)
- [The automation editor](#the-automation-editor)
- [Navigation](#navigation)
- [Conversations and the send queue](#conversations-and-the-send-queue)
- [Mailbox](#mailbox)
- [Runs](#runs)
- [Divergences found](#divergences-found)
- [Proofs](#proofs)
- [Not modelled](#not-modelled)
- [Plan](#plan)

## The system

An axum API over PostgreSQL (`api/src`), a Next.js client (`web`), an agent
harness (`agent`) and deployment scripts. Everything that lasts is in the
database; every request handler is a future that axum drops when the client
goes away. Two background workers run in the API process: the execution worker
(`automations/execution.rs:749`) and the IM delivery worker
(`communication.rs:54`). Several API processes may share one database.

| Component | State it keeps | Operations | What makes it correct |
|---|---|---|---|
| Execution service (`modules/automations/execution.rs`, `engine.rs`, `platform/automation_runs.rs`) | runs, tokens, node logs, an owner, a fence and a lease for every run | start, claim, step, human completion, recovery, retry and cancel by an administrator | an effect happens once; a run ends once, completely, and then nothing moves |
| Workflows (`modules/workflows.rs`, `workflows/execution.rs`) | instances, tasks, notifications | submit, approve, reject, pause, resume, reverse | run, instance, tasks and record tell one story |
| Record repository (`platform/records.rs`, handlers in `modules/forms.rs`) | rows of a form's table, the app's record counter | insert, update, delete, list | a unique field is unique; the counter counts |
| Recycle bin (`modules/recycle_bin.rs`) | entries of deleted records | restore, delete, empty, expire | a deleted record can be brought back |
| Forms and schemas (`modules/forms.rs`, `platform/form_storage.rs`) | a definition with its current and latest version, versions, a compiled storage plan | save, serve, restore a version, compile | versions are a log without gaps; the plan is the current version's |
| Form designer (`web/app/(protected)/(main)/designer`) | placed fields, the source text, what counts as saved, requests in flight | drag, drop, resize, paste, remove, load, save, choose a version, leave | fields do not overlap; what is saved opens again; nothing unsaved is lost |
| Flow definitions (`modules/automations.rs`, `automations/graph.rs`) | a graph, its versions, the current one | update, restore | every version that can run is an acyclic graph that reaches an approval |
| Automation editor (`web/app/(protected)/(main)/[appId]/automations`) | nodes, edges, the open palette, requests in flight | connect, insert, branches, remove, save, restore, load | edges hang on nodes; an answer shows its version |
| Navigation (`modules/navigation.rs`, parts of `modules/forms.rs`) | the items of an app with parent, number and default mark | create, update and dissolve groups, reorder, move, choose the default entry, list; create and delete forms | items form a tree; nothing is left below what is gone; a listing changes no order |
| Conversations (`modules/communication.rs`) | a group's row, members, messages, read positions | send, recall, reedit, read, update, transfer, leave, dissolve | one owner; recalls are told |
| Send queue (`web/features/communication`) | pending messages in IndexedDB, a drain per tab | write, flush, drain, retry, clear | a message is stored once, in order, and nothing is forgotten |
| Mailbox (`modules/communication.rs`, `web/features/communication`) | mailbox events, outbox; cursor and buffers in the browser | sync, acknowledge, announce, deliver | every event reaches every device, once and in order |
| Agents (`modules/agents`) | sessions with their transcripts | start, continue, cancel | (not modelled) |
| App market (`modules/app_market.rs`) | packages, installations, snapshots | install, upgrade, roll back, archive, purge | an installation is whole or absent |
| Identity, settings, files, mail, DingTalk | rows and files | CRUD, imports | checks before writes |

How they interact: a form handler writes a record and starts the automations of
its trigger, "before" ones inside the request and the others in the background.
Submitting a record starts a run bound to a workflow instance, driven by the
handler itself until it rests at a human node; an approval queues the branch
again and drives it. Nodes of a run write records through the same repository.
The designer saves a form's schema and the editor a flow; a record and a run
refer to the version they were made under by its number. Workflow notifications
become message cards in the recipients' mailboxes. All of these meet in the
database only: there is no lock in memory between a handler and a worker.

What is hard: transactions of several actors on one run interleave while one of
them is outside any transaction (an HTTP call); leases lapse and processes die
in between; handlers read rows without a lock, await something, and write them
back; saving a schema, restoring a record, moving items in the navigation, managing
and dissolving a group are several autocommitted statements; answers come while the page that asked has
been edited; sockets close with frames on their way, and tabs of one browser
share a store. The hazards, with their lines and the properties that would
catch them, are listed in `PROJECT.json`.

## Modules

| Module | What it is |
|---|---|
| `Execution` | one run: its rows, tokens, drivers, lease, tasks and instance |
| `RunLifecycle` | what a run promises; `Execution` refines it |
| `ExecutionProofs` | the inductive invariants of `Execution`, and what follows from them |
| `RecordStore` | the records of a form and the recycle bin |
| `RecordApproval` | a record's workflow fields and its instances |
| `RecordProofs` | what holds of the records of a form and of a workflow record |
| `DesignerLayout` | pure: cells, spans, placing, making room, resizing, pasting, parsing |
| `DesignerCanvas` | what can be done on the canvas with these functions |
| `LayoutTerms` | the words of `LayoutProofs`: layouts in order, and how the loops of the canvas change one |
| `LayoutProofs` | the inductive invariant of the canvas, and what follows from it |
| `FormSchemas`, `FormVersions` | schemas as the server tells them apart; saves, statement by statement |
| `DesignerTab` | one open designer: edits, requests, dialogs |
| `Designer`, `DesignerProofs` | tab and server composed; proofs |
| `FlowGraph` | pure: graphs, and the checks of the editor and of the server |
| `FlowVersions` | the flow and its versions on the server |
| `FlowCanvas` | the editor's canvas, palette and requests |
| `FlowEditor`, `FlowEditorProofs` | tab, server and others composed; proofs |
| `VersionLog` | what versions promise; `FormVersions` and `FlowVersions` refine it |
| `Navigation`, `NavigationProofs` | the navigation items of one app, statement by statement; proofs |
| `Conversation` | one group on the server, request by request |
| `SendQueue`, `SendQueueProofs` | tabs with their queue over that group; proofs |
| `MailboxWire` | the web sockets, shared by the two sides |
| `MailboxServer`, `MailboxClient` | event log, outbox, worker and sessions; tabs and their store |
| `Mailbox` | both sides composed, failures, properties |
| `Feed`, `MailboxProofs` | what a mailbox promises; `Mailbox` refines it, proved |
| `MC*` | graphs, symmetry and bounds for TLC |

Conventions: an action is a database transaction, a statement that commits by
itself, or a stretch of a handler between two awaits, with its guards. Crashes
and dropped handlers are actions of their own that may come between any two
others. Variables named as history or auxiliary in their comment are read by
properties and by no guard. A definition that is a variant of another one
(`SentToTheEnd` beside `SentThrough`) is a plausible bug at that place:
`PROJECT.json` lists which property notices it.

## Execution

One run of `automations/execution.rs`. State and code:

| Variable | In the code |
|---|---|
| `runStatus`, `owner`, `fence`, `leaseLive` | `automation_runs.status`; `execution_runs` lease owner, fencing number, `lease_expires_at` against the clock |
| `tokStatus`, `tokNode`, `parGroup`, `ntok` | rows of `execution_tokens`; `ntok` is their number |
| `log` | the node log of a token's last visit |
| `inst`, `task` | `workflow_instances.status`, `workflow_tasks.status` |
| `pc`, `cur`, `after`, `myFence`, `failed`, `inline` | the local state of one `drive_execution` call: its place, the cursors of `engine::drive`, which cursor waits for which sibling subtree |

A driver recovers expired leases, claims the run, loads the queued tokens and
moves a cursor over each. Every step is one transaction behind the guard "I own
the run, under my fence, within my lease, and it is running or paused"
(`execution.rs:195`). `CallHttp` commits the token as running and only then
sends; `HttpSucceeds`, `HttpUncertain` and `HttpFenced` are the answer's
transaction. `RecoverRun` decides what becomes of a run whose lease is over:
calls that may have been sent await an administrator, the rest is queued again;
a "before" run is ended. `FinalizeExecution` computes the verdict from the
tokens, and a handler whose drive failed calls `FailInstance` on top.

Approvals, rejections, pause, resume and the administrator's decisions are
transactions of request handlers on the same rows, with or without an inline
drive behind them (`DriveInline`: the handler may be dropped before).

Abstracted: what nodes compute (a condition selects any branch, a parallel node
any set of them), outputs and inputs, the 128-step depth limit, run comments,
copies and notifications. `MaxTokens` is as large as the graph can need and
guards only the split.

Properties. `AtMostOnceEffect`: no visit of a node has its effect more often
than once plus the repetitions an administrator accepted. `CursorAgrees`: a
driver that passes the guard holds what the rows say. `InstanceAgrees`,
`TasksMatchTokens`, `SuccessIsComplete`, `EndedIsQuiet`: run, instance, tokens,
logs and tasks agree at rest and at the end. `PausedStartsNothing` constrains
steps, and so do `EndedIsFrozen` and `BeforeDiesWithCaller`, which are proved and
in no run.
`OneBranchAtATime`: siblings of an ordinary node never overlap.
`ImplementsLifecycle`: every behaviour is one of `RunLifecycle`, an open run
that performs each visit once, may stand in doubt, and ends. `RunRests`: a
queued or running run comes to rest.

Fairness (`FairSpec`): drivers are tasks of a running process (weak fairness of
`Drive`); the worker ticks (`WorkerPick`, `RecoverTick`); time passes
(`LeaseRunsOut`, of an owner that is gone). Claiming takes the row with
`SKIP LOCKED`, so a claim may fail while another transaction holds it; strong
fairness of `ClaimRun` says that this does not happen at every attempt. No
fairness is assumed of people, nor of crashes and lapses, which are bounded.

## RecordStore

The rows of one form with one unique field, the app's `records_count`, and the
recycle bin. `Insert` and `Update` are single steps because
`RecordRepository::insert`/`update` hold the form's validation lock
(`records.rs:303`) over check and write. Deleting is a read without a lock and
a later transaction (`ReadForDelete`, `Delete`); a delete-data node lists and
then purges (`ListForPurge`, `Purge`); a restore reads the entry, clears
`deleted_at` and deletes the entry in three autocommitted statements
(`ReadEntry`, `Untrash`, `Unlist`). `Drop` ends a handler anywhere.

Properties. `UniqueUnlessRestored`: a duplicate has come out of the recycle bin.
`NeverOvercounts`: the counter never claims records that are not there (it
does undercount: a restore does not increment it, and two deletions of one
record decrement twice). `RecoverableOnce`: a deleted record that was never
restored has its entry until somebody empties the bin.

It is not true that no two records show the same unique value, nor that every
deleted record can be brought back: see [Divergences found](#divergences-found).
Detail rows (rows inside a parent's JSON array) are not modelled.

## RecordApproval

The fields `workflowApprovalStatus` and `workflowInstanceStatus` live in the
record's data. Instances write them in their own transactions (`Submit`,
`Move`); `update_form_record` and `reverse_workflow_record` read the record
without a lock and write all of it later (`Read`, `Edit`, `Reverse`). `raced`
notes that a writer wrote over fields it had not read.

Properties. `FieldsTellInstance`: without such a race the record tells what
became of its latest instance, through any number of submissions (every earlier
one was completed: `EarlierCompleted`, which the proof adds). `ApprovedWasApproved`: even with races a record shows as approved
only if an instance was completed.

## The form designer

**Layout.** `DesignerLayout` translates `designer-layout.ts`: which cells are
covered, where a field can be placed, how fields give way to one that is
inserted before, after or beside another (`PlanRow`, `PlanColumn`), how groups
grow and push what is below them (`ExpandToFit`), how fields and groups are
resized (`ResizeField`), and with `designer-clipboard.ts` and
`designer-source.ts` what is pasted, saved and accepted when it is opened again.
A field is a record of id, type, place, span and parent; properties, options and
linkages are left out. The two loops of the code are recursive functions of the
number of steps taken: `Climb`, of which as many steps are taken as there are
fields, and `Push`, which runs until its queue is empty, the code's own limit is
reached or `MaxSteps` steps are made, more than a push can take; a push cut off
there would count as too complex, as one at the limit does. `DesignerCanvas` applies these functions as the screen
does: a drag may end in every cell that is shown free, or in the room of an
insertion that the plan calls valid, and a resize takes a field to any size.
`clipboard` is `copiedFieldsRef`: a copied field, with everything in it, as it was
when it was copied. It is kept while the canvas changes and while another version
is shown (`ShowSaved`), until something else is copied or the page is loaded again
(`Reopen`), and `Paste` places it with the sizes it had (`placePastedFields`).
`stale` is auxiliary: since the canvas was blank, a rich text was pasted that was
narrower than its group had become (`Narrow`).

Properties. `NoOverlap`: two fields of one grid never cover a cell, unless the
canvas is stale; why nothing is promised then is said
[below](#divergences-found). `OpensAgain`: a canvas that the validation lets pass can be opened again.
`GroupsMoveWhole`: what stays in a group keeps its place in it when the group
moves. `EscapesOnlyWhenGrown`: a field leaves the cells of its group only in the
two ways described [below](#divergences-found).

**Versions.** `FormVersions` is `save_form_schema_definition` (`forms.rs:1929`):
read the definition and compare with the base version, insert the new version
under `latest + 1`, update the definition, compile the storage plan - one
statement each, so that saves overlap (`Saves` are requests, each used once) and
break off anywhere (`BreakOff`). `Contents` are schemas as far as they are told
apart: `Built` is what the designer writes for one, `Valid` and `Parsable` what
its checks accept. `VersionLog` is what versions promise, to forms and to flows.

**Tab.** `DesignerTab` is `DesignerScreen.tsx`: canvas, source text, what counts
as saved, the base version, every request in flight and the dialog before
leaving. Answers arrive in any order and at any time, also after edits. The way to
the form's flow (`DesignFlow`, `handleWorkflowDesign`) asks the server first, and only then
whether anything is unsaved; `opening` holds what was shown at the click, which is
what that question is about. A handler that is overtaken - the page was left
by another way, while it waited for the flow or for the save before leaving - still
pushes the router when its answer comes (`ghost`), whatever designer is open by
then. `Designer`
composes it with the server and with saves by anybody else (`SaveElsewhere`: another
tab, a rename, a copy, an agent).

Properties. `LatestOrOrphan`: the versions are numbered without a gap, with at
most one beyond the latest. `PlanFollowsCurrent`: the storage plan is the current
version's at rest, unless saves overlapped or one broke off. `FormLog`: the
versions implement `VersionLog`. `LeavesNothingUnsaved`: the page is left without
a question only if what was looked at for something unsaved can be read from the
server again: the canvas as it is, or on the way to the flow the canvas as it was at
the click. Apart from that only a handler of a designer left before (`ghost`)
closes the page unasked.

## The automation editor

`FlowGraph` holds graphs (nodes with a kind and branches; edges with a source
handle) and the two checks: the editor's before it sends
(`automation-editor-model.ts`) and the server's before it stores
(`automations/graph.rs`). `FlowVersions` is the server: `Update` and `Restore`
lock the flow's row and are one transaction each (`automations.rs:768`, `858`).
`FlowCanvas` is the page (`PageClient.tsx`): nodes and edges are two states, the
palette remembers what it was opened for, and a save, a restore and a load may
be in flight. A load shows the version's number (`LoadNumbers`), asks for the detail
forms, and then shows the graph (`LoadArrives`). `FlowEditor` composes them with `Others`, who update the nodes
alone, the edges alone or both, and restore.

Properties. `EveryVersionRuns`: every version that may be selected is acyclic,
has no edge into nothing and leads to an approval - the precondition under which
`Execution` takes its graph as a constant (`GraphAssumption`). `SentIsAccepted`:
the editor's check is as strict as the server's. `FlowLog`: the versions implement
`VersionLog`. `EdgesStayFast`: an edge comes loose only in the ways named in the
property. Proved, and in no run: `CurrentIsVersion` (what runs is what is stored
under the number shown as current) and `AnswersShowTheirVersion` (an answer shows
the graph of the version it names, and only answers change the number; a save
answered between the number and the graph of a load leaves its own number).

Abstracted: names, trigger configuration, status, positions and the order of
branches; a legacy flow without nodes; automations that are no process flow,
which go through the same handlers without the check for an approval. Assumed:
a node called `trigger-1` is a trigger. Ids are never used again while somebody
may know them. One restore is in flight at a time.

## Navigation

The rows of `app_navigation_items` of one application. `nav` holds parent,
number (`sort_order`), age (`created_at`) and default mark of every row; `forms`
and `source` which forms and detail forms are defined. There is neither a
foreign key nor a lock, and except for creating a detail form and deleting a form
no transaction: a handler reads rows, works out what to change (`req[h].todo`),
changes row by row (`Write`), and reads everything again to number the siblings
anew (`Tidy`, `normalize_navigation_orders`), which listing the navigation does,
too. `req[h]` is the local state of a handler, and `Drop` ends it between any two
statements. One action per handler begins it (`CreateGroup`, `UpdateGroup`,
`DeleteGroup`, `Reorder`, `MoveForm`, `SetDefault`, `CreateForm`, `CreateDetail`,
`ListItems`), with the checks it makes on what it reads; `Plan`, `Insert...`,
`DeleteForm` and `DeleteDetail` are the statements of `forms.rs`. `Overflow` is the
recursion over a circle of groups, which ends the process.

History: `stale` are the requests under way while another one changed a row,
`raced` notes that one of these changed a row itself.

Properties. `NestUnlessRaced`: groups do not lie below each other in a circle.
`KeptUnlessRaced`: nothing is left below a group that is gone, wherever a request
is cut off. `OrphansOnlyByRace`: no detail form outlives its form.
`DroppedUnlessSameNumber`: an item is where it was dropped. `TidyKeepsOrder`:
numbering anew changes neither parents nor order. Without overlapping requests
these hold; with them they do not, see [Divergences found](#divergences-found).

Abstracted: titles and slugs (a group whose title exists under its parent is
returned instead of created), the rewriting of the system rows before each
request, grants, and the seed rows at start-up; one system item stands for four.

## Conversations and the send queue

`Conversation` is one group on the server. A request (`req[h]`) is the local
state of one handler: what it does next and what it has read. Sending is one
transaction that takes the next number and thereby locks the conversation's row
(`Persist`); everything else is a chain of statements that commit one by one:
recalling updates the message, reads the members and tells their mailboxes;
updating inserts and deletes members and announces; transferring announces,
demotes and promotes; leaving announces and deletes; dissolving deletes messages,
members and the row. `Drop` ends a request anywhere. A request that its first
reads refuse is left out, except for sends out of a queue.

`SendQueue` adds the browser of one user, `Me`: the pending store that its tabs
share, and in each tab `flushPending` and `drainPending` of `im-client.ts`. A
message is put in the store before it is sent and leaves it with the event that
brings it back (`ApplyEvent`; how events come is `Mailbox`'s subject). A drain
sends what it has read one by one, looks again if it was asked to, and ends at
the first failure; a refused answer, a lost one and a request still under way
when the message is sent again are all there. A tab that comes online forgets
what it has submitted and flushes.

History: `contested` notes that a request changed a role after another request
had changed roles under it, or broke off half-way; `overtaken` are the requests
this may happen to; `untold` are the messages whose recall broke off before the
mailboxes were told; `cleared` is the last message written before the local
history was cleared.

Properties. `SentOnce`: however often a message is sent, it is stored once.
`InQueueOrder`: messages are stored in the order in which they were written,
through failures and retries in several tabs. `QueueIsLookedAfter`: a tab that is
online and at rest has submitted all that was written in it, or has said that it
gave up. `ReadMovesForward`, proved and in no run: read positions do not go back.
`RecallsAreTold`: a
member who was there hears of every recall that did not break off.
`OneOwnerUnlessContested`: a group has one owner.

Abstracted: titles, files, message types, the time limit of a recall; direct
conversations; the check for active users. A message's `createdAt` is taken to be
the moment of the transaction that queues it. A send is answered or not; the
store itself does not fail.

## Mailbox

One user's mailbox. `MailboxServer`: `events` is `im_mailbox_events` of the user
(the index is `mailbox_seq`; the counter is their number since counter, event
and outbox row are one transaction), `outbox` the rows of `im_delivery_outbox`.
The delivery worker claims a batch, announces row by row on the broadcast
channel and marks each; rows of an interrupted batch are taken up again
(`RecoverOutbox`). A session (`communication_websocket`) answers a sync with
`snapshot.started`, two passes over the log and `snapshot.completed`, and reads
the log from `lastSent` on when a `message.created` announcement comes. A pass
ends with an error at the first event it cannot build.

`MailboxClient`: an `ImClientAdapter` in each tab, and the IndexedDB `ImStore`
they share. `drainMailbox` applies buffered events in order, one store
transaction each; between the transaction and its answer (`applying`) other
tabs, timers and clicks get in. `Mailbox` adds lost connections, restarts,
failed store transactions, reloads.

Abstracted: payloads; batches of 100 outbox rows and 1000 events; the ten
recoveries after which an outbox row is `failed` (`MaxFaults` is smaller); the
backoff. A store transaction commits in the order in which it was asked for.
Frames of an old socket have been handled when, at least half a second later,
the tab connects anew. A message announced right after its commit is announced
in the same step or not at all. `im_device_cursors.last_acked_mailbox_seq` is
written and never read by the server; the adapter's `markRead`, which would
write a conversation's sequence into it, has no caller. `sync.reset_required`
is sent when the oldest event is gone, and nothing deletes events.

Properties. `NothingSkipped`: what the session counts as sent is applied,
buffered, on its way or asked for again. `SnapshotUnlessBroken`: a tab that
shows itself as online has everything that was there when its snapshot began,
as long as the session can send it. `ImplementsFeed`: the store takes the events
one by one in their order, whichever tab applies them, and no tab acknowledges
what was not stored. `Delivered`: through faults every event arrives once a
message follows it. A recall alone does not wake a session: `Expected` asks for
a later message on purpose.

Fairness: the worker's timer fires, and sessions and tabs go on, a closed
socket being replaced by the reconnect timer. People and failures are not fair.

## Runs

| Run | Module / cfg | Instance | Shows |
|---|---|---|---|
| `background` | `MCExecution` / `MCBackground` | a node with two successors, a condition and an HTTP call that may fail, joining in one node; two drivers, two disruptions, one accepted retry | once-only effects, sibling order, complete success, the refinement of `RunLifecycle`, `RunRests` |
| `flow` | `MCExecution` / `MCFlow` | approval by any of two, then a parallel split into approval by both and an HTTP call; two drivers, one pause, one disruption | run, instance, tokens and tasks agree and end together |
| `store` | `MCRecordStore` / `MCStore` | three records, one unique value and the blank, two handlers, two bin entries | duplicates come out of the bin only; counter; entries |
| `approval` | `MCRecordApproval` / `MCApproval` | three submissions, two handlers | the fields tell the instance; approval is earned |
| `layout` | `MCDesigner` / `MCLayout` | four ids, plain fields, groups and rich texts, three placed at a time, at most two of a kind; two columns, three rows; what is placed and copied at most two while a copy is kept | canvases stay free of overlaps and open again |
| `designer` | `MCDesignSession` / `MCDesignSession` | one tab, two saves by it or by others, one look for the flow at a time, three schemas | versions, plan, nothing unsaved lost |
| `flow_editor` | `MCFlowEditor` / `MCFlowEditor` | a trigger, an approval, one id for an inserted node, two branches; one graph of an agent; drawn changes plus twice the versions at most 6 | versions that run, answers, edges |
| `navigation` | `MCNavigation` / `MCNavigation` | two groups, two forms, one detail form, two requests at a time; four requests, one of them cut off | a tree without circles, nothing left behind, items where they were dropped, listings that change no order |
| `conversation` | `MCSendQueue` / `MCSendQueue` | three users, two of their requests at a time, two tabs; three units of work; one fault | sent once and in order, recalls, one owner |
| `mailbox` | `MCMailbox` / `MCMailbox` | one tab, two events, one unsendable, one fault | nothing skipped, snapshot, refinement of `Feed`, delivery |
| `late_approval`, `stuck_mailbox` | | | [divergences](#divergences-found) |

Why the bounds are enough to be interesting.

*Execution*: two drivers are the least that can race, and a third adds nothing
that a second under a new fence does not; two disruptions allow a takeover of a
takeover; three tokens are all the graphs can create.

*Store and approval*: two handlers overlap on any pair of read/write pairs, and a
third record is what a duplicate, its twin and a bystander need. Three
submissions let a second instance be an earlier and a later one.

*Layout*: with two columns every insertion beside a field pushes over the last
column; three rows hold a group of two rows with a field below or a group in a
group; three fields are the least in which one that gives way pushes another. A
paste may leave four, after which fields are only removed. Resizes go to any
size. With more than `MaxKept` fields, placed and copied together, what was copied
is pasted at once or not at all; two are enough to copy a rich text, remove it,
widen its group and paste it (`stale`), and on a stale canvas with three fields
nothing but a removal follows. Without its exception TLC finds `NoOverlap` violated
after that, when a field is dropped beside the pasted one. The state is seen
through `View`, as long as the canvas is not stale the set of fields: the order of
the array decides only between fields of one grid that begin in the same cell,
which `NoOverlap` excludes. The instance has 41,604 states and takes two minutes.

*Designer*: two saves are the least that overlap; the schemas are a blank one, which
is read as it is written, one that is read as another (`loose`) and one that passes
the validation and cannot be read back (`cramped`). One look for the flow is enough
to be overtaken by an edit, by a save and by another way out; the proof is for any
number. The instance takes three minutes.

*Flow editor*: the weight of 6 allows four changes of the canvas, or a second
version and two changes, or three versions. The graph from elsewhere has the
nodes and the edges that, mixed with the editor's, give each kind of stale half.

*Navigation*: two requests at a time are the least that overtake each other, and
two groups the least that can be put into each other; with four requests the
tree can be built by two and changed by two that overlap.

*Conversation*: the first message costs two units, every later one, every other
request and a clearing of the history one; so three requests, or one request and
a message, or two messages, or a message and a clearing. Two handlers are what a
transfer and a removal, or a send and its repetition, need; two tabs share the
store. An instance with one request and two messages and no fault (4.9 million
states) was checked as well.

*Mailbox*: two events are needed for order and a gap, and one fault is placed at
every point of every interleaving; that `Delivered` needs `RecoverOutbox` shows
only with `MaxEvents = 3` (a recall between two messages), where with
`MaxBroken = 0` the run takes 1,580,748 states and some minutes. Two tabs over
one store (`MaxFaults = 0`) were checked too; what several tabs do to the feed is
proved for any number of them.

`CHECK_DEADLOCK FALSE` stands where the system may really stop: a run ends, the
records, events or requests of the instance are used up. Symmetry is over
drivers, people asked in the same nodes, records, handlers, fields, branches,
saves and tabs, in runs without liveness.

## Divergences found

Two are runs that TLC finds violated by what the code does; the trace is in
TLC's output.

- `late_approval`: an approval sets the run to queued (`workflows/execution.rs:182`)
  while its driver is inside an HTTP call of a sibling branch. The call's answer
  is refused by the guard, its token stays running, and the run comes to rest
  as waiting, for nobody. Recovery skips a waiting run.
- `stuck_mailbox`: a notification card's event names no conversation
  (`communication.rs:1410`), a deleted message cannot be loaded
  (`communication.rs:1238`); every pass ends there, and the tab goes online
  without the rest.

Met while modelling. The models show these behaviours; properties are stated so
as to name the exception where there is one, and no run is spent on them.

*Execution and approval*

- An edit puts back the workflow fields it has read (`forms.rs:1728`); a
  submission in between is undone in the record, which can be submitted again
  while its first instance is open.
- `fail_instance` (`workflows.rs:1513`) lets only completed, rejected and failed
  instances alone. When one branch is uncertain and another fails, the handler
  ends as failed a run that awaits an administrator.
- An accepted retry does not look at the instance: it sets the run of a paused
  instance going. `PausedStartsNothing` therefore speaks of runs without one.
- A lease that expires between `recover_expired` and `claim` lets the claim take
  over a run whose sent call has not been put in doubt: its token stays
  running.
- An accepted retry of a "before" run is never driven: the worker leaves before
  runs alone.

*Records*

- A restore neither locks nor validates (`recycle_bin.rs:197`): a restored record
  may repeat a unique value.
- A record deleted again between a restore's two statements keeps the entry's id
  (`recycle_bin.rs:63`), which the restore then deletes: it is in no bin.
- An update finds its row by id whether deleted or not: an edit that began
  before the deletion changes the deleted record.

*Form designer*

- An undo after the history timer has fired shows the canvas as it is:
  `undoDesignerChange` (`DesignerScreen.tsx:697`) flushes first, and the flush
  (`history.ts:11`) appends the canvas even if it is the present snapshot. It also
  empties the future, so that redo finds nothing.
- What was copied is pasted with the sizes it had (`designer-clipboard.ts:17`). A
  rich text copied before its group was widened lies too narrow, a field can be
  put beside it, and the next change spreads it over that field
  (`normalizeRichTextLayouts`). From then on a drop can go wrong as a whole: the room
  that was made for it is covered by a rich text that is widened in between, the
  move is refused, and whoever made room lies on the field that was to be moved.
- The way from the designer to the form's flow asks the server for one or two
  answers (`DesignerScreen.tsx:894`) and then whether anything is unsaved, with the
  fields and the source of the click: what is edited meanwhile is lost without a
  question. So is what is edited on a designer that is open when the handler of one
  that was left before gets its answer (`DesignerScreen.tsx:841`, `903`).
- A column inserted in a full subform pushes its last child beyond the last
  column: the schema is saved and refused on load, and the designer stays blank.
  With subforms `OpensAgain` fails, which is why the palette of the run has none.
  A subform dragged out of a group stays narrow; the children of a subform have
  local columns, but moving the subform shifts them.
- A group dragged over cells of its own makes its inner group grow although the
  move is refused (`CHANGELOG.md:618` lists drops of a field onto itself as fixed).
- A group that grows inside a group pushes its siblings out of the outer one
  (`CHANGELOG.md:611`: groups extend by themselves); rich texts are not asked when
  their group is made smaller.
- A load that fails leaves a blank canvas that can be saved over the form, with
  base version 1. A save from the header twice in a row makes a superfluous
  version (`CHANGELOG.md:612` says a save without a change makes none); what is typed into the source while it is in
  flight is discarded. A drag or resize during a save writes over the answer
  (`DesignerScreen.tsx:444`, `618`).
- A save that breaks off after its insert leaves a version beyond the latest;
  from then on every save that needs a new number is refused. An unchanged save
  on an old base moves the form back to it.

*Automation editor*

- The answer to a save puts back the nodes that were sent, while edges drawn
  since stay (`PageClient.tsx:1425`): edges into nothing that are not drawn, cannot
  be removed, and keep the flow from being saved until it is loaded again.
- The palette keeps what it was opened for across loads and answers.
- A load shows the number of its version (`PageClient.tsx:430`) before it asks for the
  detail forms, and the graph after (`PageClient.tsx:447`). A save answered in
  between leaves its number over the graph of the load; a load that fails there
  leaves its number over the graph that was shown.
- An edge out of a condition without a handle is given to its first branch on
  load, whichever one was meant.
- Nothing is compared with what the writer has seen: the last update wins.
- A restore resets the flow's name (`automations.rs:491`), although
  `automations.rs:670` refuses to change it because it follows the form's name.

*Navigation*

- Two moves at once put two groups into each other: each check
  (`navigation.rs:196`) reads the tree before the other one writes. Neither group
  is shown any more, and numbering the siblings never ends.
  `CHANGELOG.md:467` has the targets of a move exclude the group's descendants so
  that there are no circles. An item dropped beside the details of a form that
  lies in it makes a circle without any race: only the target is looked at, not
  its parent.
- An item moved into a group while the group is dissolved (`navigation.rs:246`) is
  left below a parent that is gone, and not shown; `CHANGELOG.md:469` says that
  the contents move up.
- A detail form made while its form is deleted (`forms.rs:422`) stays, and its
  item below the deleted one; the comment at `forms.rs:1058` has it go with the form.
- An item that is to get the number it has is not written, and so does not
  change its parent: the copy that is compared has the new parent already
  (`navigation.rs:713`, `723`). The answer (`navigation.rs:285`) says that the order
  was changed; `CHANGELOG.md:199` lists orders that differ after a drag as fixed.
- `GroupsNest`, `ContentsKept`, `NoOrphanedForms` and `DroppedWhereAsked` say these
  without their exceptions; given as invariants with the constants of
  `MCNavigation`, TLC finds each one violated.
- Numbering the root writes the parent of an item as it was read, so that a
  listing can move an item back that was just put into a group. Children of the
  groups at the root are not numbered.
- Between the statements of `navigation.rs:370` there may be two default entries or
  none, and two forms created at once may both become it.
- `CHANGELOG.md:154` says that moves in the navigation run in transactions.
- `create_detail_form_definition` takes a second connection from the pool inside
  its transaction (`forms.rs:552`).

*Conversations and the send queue*

- A transfer that runs into the leaving or removal of its target leaves a group
  without an owner, whom nobody can appoint, and so does one that breaks off
  between its statements; two transfers at once leave two owners. The message at
  `communication.rs:584` says an owner has to transfer the group before leaving.
- A dissolution that breaks off leaves a conversation without members or messages;
  messages it has deleted are stored again when they are sent again, and told twice.
- A recall that breaks off between the message and the mailboxes is never told,
  and cannot be repeated (`communication.rs:898`). A recall alone announces
  `message.recalled`, on which no session reads the log; it arrives with the next
  message or sync.
- A message of a user who has just left is still stored. A recalled message can be
  sent anew any number of times. A local id that was used in another conversation
  returns that conversation's message.
- One message that is always refused (its conversation is gone) blocks everything
  written after it, which is shown as being sent. A flush asked for while a drain
  is failing is forgotten with the failure.
- A message queued again after its event was applied stays in the queue for
  ever: the server answers with the stored one and no new event comes.
- A drain that is under way when the local history is cleared goes on sending the
  messages that were cleared.

## Proofs

Eight proof modules; every leaf is checked by tlapm. They hold for any values of
the constants that satisfy the assumptions: `GraphAssumption` (the graph is
acyclic along `Rank`, which graph validation ensures before a version is
published), `PeopleAssumption`, `RunAssumption`, `BoundAssumption`,
`StoreAssumption` (finitely many records, a blank that is no value),
`DesignerAssumption` (a grid with columns; the ids of the canvas and of the field
to be inserted are no ids of fields),
`ApprovalAssumption`, `WireAssumption`, `ServerAssumption`, `SchemasAssumption`
(what the designer has written once it writes again unchanged, and whatever can
be parsed passes the validation), `TabAssumption`, `FlowAssumption`,
`CanvasAssumption` (the palette offers no trigger, and branches with conditions
only), `ElsewhereAssumption` (others send graphs, and name a trigger
`trigger-1`), `ConversationAssumption` and `QueueAssumption`. TLC evaluates each of them in a passing run. Type
correctness of the larger modules is proved and not run.

**`ExecutionProofs`** - `ExecutionInvariant`, `EffectsAtMostOnce`,
`CursorsAgree`, `TypeCorrect`. `AtMostOnceEffect` is not inductive: that a
queued visit has not been made depends on where the token has been and on who
moves it. `ExecutionInv` adds what carries it: a token moves along `Rank` and
leaves its visits behind (`VisitsAreBehind`), so the node it is queued at is
fresh (`QueuedIsFresh`); a running token is a sent call with a running log
(`RunningIsCall`), so recovery never queues an uncertain call again; and an
owner's cursors agree with the rows as long as the run has not ended
(`OwnerAgrees`), since a takeover raises the fence. `CursorAgrees` is the
consequence for a driver that passes the guard; the invariant speaks of owners
because a run that an approval has queued behind its owner's back may be paused,
which gives the owner the guard again.

The second half of the module proves `VerdictInvariant`, `InstanceAlwaysAgrees`,
`TasksAlwaysMatchTokens`, `SuccessAlwaysComplete`, `EndedAlwaysQuiet`,
`EndedStaysFrozen`, `PausedNeverStarts`, `BeforeEndsWithCaller`,
`BranchesOneAtATime` and `LifecycleImplemented`. They extend `ExecutionInv` by four
parts, each carried by the earlier ones. `RowsAgree`: a token's row agrees with
its log and its tasks, and counts its visits exactly - a queued visit has been
made as often as its repetition was accepted, a running or doubtful one once
more (`Counted`). `RunAgrees`: run and instance have the same verdict, an ended
run has only settled tokens, success means that all are completed, doubt that one
of them is in doubt. `HandlersAgree`: only the driver of an instance reports its
failure, and only its caller drives a before run. `Sequential`: unless some
branch comes from a parallel split, a driver's live cursors are totally ordered
by `after` and only the first is at work; a move puts the children in their
parent's place. `EndedIsFrozen` follows since nothing is left that ending a run
twice would change (`EndedRows`); the refinement, since only a guarded driver of
a running run produces an effect (`EffectStep`), no step reopens an ended run and
only `AcceptRetry` leaves doubt (`StatusStep`).

**`RecordProofs`**, rows and bin - `StoreInvariant`, `UniqueButForRestores`,
`CounterIsBounded`, `RecoverableButForRestores`. The validation lock makes check
and write one step, so only a restore can add a duplicate; every deletion
decrements at least as much as it removes; entry ids are fresh, and a restore
past its first statement has restored what its entry names
(`UnlistedIsRestored`).

**`RecordProofs`**, workflow fields - `ApprovalInvariant`, `FieldsAgree`,
`ApprovalIsEarned`. Unless a write was raced, only the latest instance moves,
because an earlier one was completed before the record could be submitted
again; an approval is put back only by a handler that has read one
(`ReadWasApproved`).

**`MailboxProofs`** - `FeedInvariant`, `FeedImplemented`, `NoneSkipped`,
`SnapshotsCovered`. Every frame, buffer
and drain names events that exist, and no cursor or acknowledgement is ahead of
what the store has had (`FeedInv`); hence every step of server, wire and tabs is
a step of `Feed` or a stutter, and `Spec => ImplementsFeed`. `NothingSkipped` needs
to know what a tab asks for: the last sync on its way begins no further than the
tab is, and an event that a drain awaits is ahead of the cursor (`DrainInv`,
`SkipInv`); a session then sends from there, and what it counts as sent is behind
the cursor or coming. `SnapshotUnlessBroken` follows the watermark along the wire
(`MarkInv`): the frame that ends a snapshot covers the frame that began it, so a
tab that has drained up to its target has reached the watermark, unless a pass
ended at an event that cannot be built.

**`DesignerProofs`** - `DesignerInv` is the conjunction of `ServerInv` (a save
that goes on knows a version that is stored, and at most one save has inserted
without having updated: `OneInserted`), `PlanInv` (the plan, while saves come one
after the other) and `TabInv` (what the tab takes for saved is stored, whatever
else it waits for). It yields
`LatestOrOrphan`, `PlanFollowsCurrent` and the refinement of `VersionLog`; and,
with what a save that is answered has stored (`SavesAreStored`),
`LeavesNothingUnsaved`.

**`LayoutProofs`** - `CanvasIsGood`, `CanvasNoOverlap`, `CanvasOpensAgain`,
`CanvasGroupsMoveWhole`, `CanvasEscapesOnlyWhenGrown`, for any number of columns,
fields, sizes and depth of groups. Their hypothesis is `Subform \notin Types`, a
palette without subforms: with them `OpensAgain` is false (see
[above](#divergences-found)), and layouts with subforms break `Scoped`. They speak of
canvases that are not stale; once a rich text was pasted too narrow there is no
order left to start from, and the other three are checked by TLC alone. `NoOverlap` is
not inductive: a group that grows pushes what lies below it, and that a group
dragged away leaves nothing behind depends on who is in it. `Good` says that
parents are groups without a cycle (`Tree`), that a field lies in the columns of
its scope and not above it (`Scoped`), that siblings do not lie on each other
and that rich texts are as wide as their scope (`Fills`). The inductive
invariant, `InOrder`, adds what is kept to be pasted (`ClipGood`): it is a field, with
all that is in it, of some layout that was `Good`, and if the canvas has the parent
it hangs on, that is a group. A paste then grafts a part of one good layout on
another one (`GraftGood`), at a free place of a grid whose columns may have changed,
which harms only a rich text that does not fill them. A cycle is a set of
fields whose parents are all in it, and descendants are the least closed set,
so that trees need no induction.

The code changes a layout by two loops, and each has a predicate that its steps
keep. A climb (`ExpandToFit`, `ClimbStates`) keeps the tree, the scopes and the
distance of siblings in every state, as each group first pushes away all that lies
below its old end; rich texts are fitted when it is over. A push (`GiveWay`,
`PushStates`) does not: while it goes on siblings overlap, but of any two that do, one
still waits in the queue at the place where it lies. When the queue is empty
nothing overlaps; when the limit is reached the caller drops the result. How a
loop turns a layout into another is said by `Keeps`: whoever's parent is not on
the way moves as its parent does, groups on the way only grow. `GroupsMoveWhole`
follows from it. Every action is then an insertion, a move, a resize, a paste or
a removal made of these two, and each has a lemma that the result is `Good`;
`CanvasOpensAgain` needs in addition that sorting the fields for the schema
only permutes them. `CanvasEscapesOnlyWhenGrown` follows the rows through the
loops: a climb that has not reached a group yet still knows the row that the
group has to reach, and nothing above that row is let go (`ClimbHolds`,
`RoomHeld`), except what a group beside it pushed.

That the recursive functions do what their equations say, and that what a step
keeps holds at the end, is proved as well: the library's induction theorem takes an
operator, so the module has one for sets of numbers (`NatSetInduction`, from the
least element of a set), and builds the iteration of a step from its prefixes
(`IterationExistsUpto`, `IterationsAgree`).

**`FlowEditorProofs`** - `EditorInv` is `FlowInv` (every version has passed the
server's checks), `DrawnInv` (the canvas is a graph in which nothing leads to the
trigger), `LoadInv`, `SaveInv` and `ShownInv` (an answer holds the graph of the
version it names). An update of the nodes alone keeps the flow sound because the
check looks at the graph that results; that the server refuses nothing the
editor lets pass (`SavesAccepted`) needs `DrawnInv`: the editor's check does not
look for edges back to the trigger.

**`NavigationProofs`** - `NavigationInvariant`, `GroupsStayNested`, `ContentsStay`,
`DetailsGoAlong`, `OrderInvariant`, `DroppedInPlace`, `TidyingKeepsOrder`. What
carries the three about the tree is `NavInv`: as long as nothing was
raced, what each request that nobody has overtaken still has to do fits the rows
as they are now - a dissolution's list names exactly the children that are left
and the group (`Dissolving`), any other list gives its items one parent that is
there, and a group never one below itself (`OneParent`). A write then keeps the
groups acyclic (`AcyclicMoved` for an item put below what does not lie below it,
`AcyclicLifted` for one lifted to the parent of its parent, `AcyclicAdded`,
`AcyclicFewer`), and a list cut off anywhere leaves no row behind since the group
goes last. A circle is a set of rows whose parents are all in it, and the
descendants of a row are the least closed set, so that none of this needs an
induction. The two about the order rest on `OrderInv`, which speaks of raced rows as
well, since whether somebody has come in between is a question for each request:
what a reorder still has to write is what is not yet numbered of one list `q`, in
which the item is where it was dropped (`Placed`), and what a renumbering still has
to write is what differs from the numbers that follow from the rows it has read
(`Numbered`). When nothing is left the numbers are those of the list, which compare
as the places do (`ListedInOrder`), or those of the old order. The number of a row is
one more for each sibling that comes before it, so that an earlier one has a smaller
number because its set of earlier siblings is smaller (`NumbersFollowOrder`): no
sorting, and no induction. `OnlyItsWriteEndsSorting` shows that no other step, and no
overflow of the stack, ends a renumbering that nothing comes in between.

**`SendQueueProofs`** - `BaseInv` is typing and who waits for what: a request
that sends knows its message, and two tabs never wait for one request. Every
step of the server has one of five effects on rows and mailboxes (`Effect`:
nothing, a recall marked, a mailbox told, a message stored, all emptied), and
every other step none; each property is then a small invariant over effects.
For the owner, `Orderly` says which owners there are by what the one request
that manages roles has still to do, and `Fits` that the others have read roles
that are still true. For the order, `OrderInv` says that nothing is skipped:
all that was written before a stored message is stored (`MessageOrder`), before
a message on its way too (`RequestOrder`), and a tab's batch leaves out only what
is stored (`QueueOrder`); a drain sends the least of its batch, so the next
message that is stored comes after all others. It needs that no message was
deleted (`Intact`), as a dissolved group would take messages again.

The inductive invariants of `Mailbox` and `Navigation` were checked with TLC on
the constants of their runs before they were proved.

Model-checked only: the liveness properties `RunRests` and `Delivered`, which are
out of the prover's reach. Every invariant, action property and refinement that
a passing run checks is also a theorem, those of the canvas for palettes without
subforms and for canvases that are not stale. Whether a push ends before `MaxSteps` is not proved; the theorems hold
either way.

## Not modelled

- Deployment, configuration, routing, logging: no state that several actors
  share.
- Identity, roles and licences: every handler checks them first; the models
  begin behind the check.
- Mail and DingTalk: third-party protocols behind network I/O; of an outgoing
  message the code keeps no state of its own.
- Apps, files, settings, models, locations: single-row CRUD.
- Expressions, queries, field formats, print layouts: pure functions of JSON.
- The views. They are most of the code (the generated client types, the record
  table, the field drawer and the settings pages alone are longer than the
  execution service, the messaging and the records together); what they keep
  between two requests is a copy of what was loaded. The share of the code
  that the models map stays small for this reason.
- The undo history of the designer, beyond what is said under the divergences. An
  undo brings back a canvas of before under a copy made since; a paste with the
  keys while a drag or a resize is under way is left out too.
- What the server does to make a form's flow again when the designer does not find
  one (`restoreProcessAutomation`): for the designer it is an answer that comes or
  fails. Between the push of the router and the end of the page the canvas could
  still be edited; leaving is one step.
- The app market: every statement on an installation compares a UUID column
  with a text parameter (`migrator.rs:949`), and nothing after the upload can run.
- Agent transactions: migration `m20260904_000057` drops `agent_transactions`
  (`migrator.rs:1004`) and none creates it again, so that creating, executing and
  cancelling one fails at its first statement.
- The dispatch of notifications and detail rows: planned, see below.

Hazards in these parts, which no property covers: a detail row is deleted by
inserting the bin entry and updating the parent in two transactions
(`forms.rs:1855`), and rows are addressed by their index in the parent's array,
read without a lock (`forms.rs:1690`); a data node holds record locks while it
waits for the form's validation lock (`platform/records.rs:358`); finalising a
run reads the record without deleted ones (`workflows.rs:1482`); a session that
lags behind the broadcast channel skips announcements (`communication.rs:1138`);
a system message locks mailbox counters in an order of its own
(`communication.rs:1667`); a connect whose store read fails schedules no other
(`im-client.ts:56`).

## Plan

Left, in this order:

1. `DetailRows`: rows in a parent's array, addressed by index, read and written
   without a lock (`forms.rs:1560`, `1683`, `1821`; `recycle_bin.rs:158`).
   Abstract specification: a set of rows of which none is lost or doubled.
2. `NotificationDispatch`: `workflows.rs:1354` with the advisory lock of
   `communication.rs:1354`: every notification becomes one card.
3. `ExecutionQueue`: the `event_key` that makes starting idempotent
   (`execution.rs:93`), the semaphore of four and the scan's limit of 32.

Theorems next: the canvas with subforms, whose children have columns of their own, for
the properties that hold there; that a push takes fewer than
`MaxSteps` steps; and the refinements of the two abstract specifications above.
