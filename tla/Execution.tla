----------------------------- MODULE Execution -----------------------------
(***************************************************************************)
(* One run of the persistent execution service                             *)
(* (api/src/modules/automations/execution.rs) together with the human      *)
(* tasks of the approval workflow bound to it (api/src/modules/workflows). *)
(*                                                                         *)
(* A run is a row with a status, an owner, a fencing number and a lease.   *)
(* Its position in the flow graph is a set of tokens, one per branch.  A   *)
(* driver claims the run, loads the queued tokens and moves a cursor over  *)
(* each of them.  Every step of a cursor is one database transaction that  *)
(* starts with the guard "I own the run, under my fence, within my lease". *)
(* The exception is the HTTP node: its call is made between two            *)
(* transactions.  Human decisions, pause and resume, administrator         *)
(* decisions, lease expiry and crashes interleave with the drivers.        *)
(*                                                                         *)
(* Kind "data" stands for every node whose handler works in the step's own *)
(* transaction: trigger, data, copy and approval-initiating nodes.  log[t] *)
(* is the log row of the token's last visit; the rows that a failure adds  *)
(* for a branch's ancestors are left out.  A failed query outside the      *)
(* handled steps ends the drive and is a Crash here.                       *)
(***************************************************************************)
EXTENDS Integers, Sequences, FiniteSets

CONSTANTS
    Nodes,          \* node ids of the flow version the run is pinned to
    Start,          \* "trigger-1"
    NoNode,         \* the empty node key of a token whose path has ended
    Kind,           \* node -> "data", "condition", "parallel", "http", "human"
    Edges,          \* node -> sequence of [to, branch], in connection order
    Rank,           \* a topological numbering of the graph
    Users,
    Assignees,      \* human node -> the users a task is created for
    AnyMode,        \* the approval nodes with approvalMode = "any"
    Policy,         \* "before", "inline" or "background"
    HasInstance,    \* is the run bound to a workflow instance?
    Drivers,        \* request handlers and worker tasks that may drive the run
    NoDriver,
    MayFail,        \* nodes whose handler may return an error
    MaxTokens,      \* the tokens the graph can create (never reached by a guard)
    MaxDisruptions, \* bound: crashes and lease expiries
    MaxRetries,     \* bound: administrator retries of an uncertain call
    MaxPauses       \* bound: pauses by the submitter

Token == 1 .. MaxTokens

ASSUME GraphAssumption ==
    /\ Start \in Nodes
    /\ NoNode \notin Nodes
    /\ Kind \in [Nodes -> {"data", "condition", "parallel", "http", "human"}]
    /\ Edges \in [Nodes -> Seq([to : Nodes, branch : STRING])]
    /\ Rank \in [Nodes -> Nat]
    /\ \A n \in Nodes : \A i \in DOMAIN Edges[n] : Rank[n] < Rank[Edges[n][i].to]
ASSUME PeopleAssumption ==
    /\ Assignees \in [Nodes -> SUBSET Users]
    /\ AnyMode \subseteq Nodes
ASSUME RunAssumption ==
    /\ Policy \in {"before", "inline", "background"}
    /\ HasInstance \in BOOLEAN
    /\ HasInstance => Policy = "inline"
    /\ MayFail \subseteq Nodes
    /\ NoDriver \notin Drivers
ASSUME BoundAssumption ==
    /\ MaxTokens \in Nat \ {0}
    /\ MaxDisruptions \in Nat /\ MaxRetries \in Nat /\ MaxPauses \in Nat

VARIABLES
    runStatus, owner, fence, leaseLive,             \* the run's two rows
    ntok, tokStatus, tokNode, parGroup, log,        \* tokens; log of a token's last visit
    effects, accepted,                              \* history: effects of a visit, retries accepted
    inst, task,                                     \* workflow instance and its human tasks
    pc, myFence, failed, inline, cur, after,        \* the drivers, volatile
    disruptions, retries, pauses                    \* how much of each bound is used

runVars   == <<runStatus, owner, fence, leaseLive>>
tokVars   == <<ntok, tokStatus, tokNode, parGroup>>
history   == <<effects, accepted>>
instVars  == <<inst, task>>
drvVars   == <<pc, myFence, failed, inline, cur, after>>
bounds    == <<disruptions, retries, pauses>>
vars == <<runVars, tokVars, log, history, instVars, drvVars, bounds>>

RunStatus  == {"queued", "running", "waiting", "paused", "needs_attention",
               "success", "failed", "cancelled", "rejected"}
Ended      == {"success", "failed", "cancelled", "rejected"}
TokStatus  == {"none", "queued", "running", "waiting", "completed",
               "failed", "cancelled", "needs_attention"}
LogStatus  == {"none", "running", "waiting", "success", "failed",
               "needs_attention", "rejected", "skipped"}
InstStatus == {"none", "running", "paused", "completed", "failed",
               "cancelled", "rejected"}
TaskStatus == {"none", "pending", "approved", "rejected", "skipped"}

\* The rows, logs and cursors hold only the states the code writes into them.
TypeOK ==
    /\ runStatus \in RunStatus
    /\ owner \in Drivers \cup {NoDriver}
    /\ fence \in Nat
    /\ leaseLive \in BOOLEAN
    /\ ntok \in Token
    /\ tokStatus \in [Token -> TokStatus]
    /\ tokNode \in [Token -> Nodes \cup {NoNode}]
    /\ parGroup \in [Token -> Token \cup {0}]
    /\ log \in [Token -> LogStatus]
    /\ effects \in [Token -> [Nodes -> Nat]]
    /\ accepted \in [Token -> [Nodes -> Nat]]
    /\ inst \in InstStatus
    /\ task \in [Token -> [Users -> TaskStatus]]
    /\ pc \in [Drivers -> {"idle", "recover", "claim", "load", "drive", "release", "fail"}]
    /\ myFence \in [Drivers -> Nat]
    /\ failed \in [Drivers -> BOOLEAN]
    /\ inline \in [Drivers -> BOOLEAN]
    /\ cur \in [Drivers -> [Token -> {"none", "todo", "ready", "http", "failing"}]]
    /\ after \in [Drivers -> [Token -> SUBSET Token]]
    /\ disruptions \in Nat /\ retries \in Nat /\ pauses \in Nat

-----------------------------------------------------------------------------
(* The graph: which targets engine::transition may return for a node.      *)

Branches(n) == {Edges[n][i].branch : i \in DOMAIN Edges[n]}

\* The branch handles that a node may select; the values that decide are abstracted.
Selections(n) ==
    CASE Kind[n] = "condition" -> {{}} \cup {{b} : b \in Branches(n)}
      [] Kind[n] = "parallel"  -> SUBSET Branches(n)
      [] OTHER                 -> {Branches(n)}

Targets(n, B) ==
    LET kept == SelectSeq(Edges[n], LAMBDA e : e.branch \in B)
    IN  [i \in 1 .. Len(kept) |-> kept[i].to]

Successors(n) == {Edges[n][i].to : i \in DOMAIN Edges[n]}
PathsOver(S, k) == UNION {[1 .. m -> S] : m \in 0 .. k}

Exits(n) == {p \in PathsOver(Successors(n), Len(Edges[n])) :
                \E B \in Selections(n) : p = Targets(n, B)}

-----------------------------------------------------------------------------
(* Tokens and cursors.                                                     *)

Live(d) == {t \in Token : cur[d][t] # "none"}
Tokens(S) == {t \in Token : tokStatus[t] \in S}
Pending(t) == {u \in Users : task[t][u] = "pending"}

Kids(path) == {k \in Token : ntok < k /\ k <= ntok + Len(path)}

\* The token's row after a node: it ends, moves on, or splits into new tokens.
EndToken(t, endStatus, endNode) ==
    /\ tokStatus' = [tokStatus EXCEPT ![t] = endStatus]
    /\ tokNode' = [tokNode EXCEPT ![t] = endNode]
    /\ UNCHANGED <<ntok, parGroup>>

SplitToken(t, path) ==
    /\ ntok + Len(path) <= MaxTokens
    /\ ntok' = ntok + Len(path)
    /\ tokStatus' = [k \in Token |-> IF k = t THEN "completed"
                                     ELSE IF k \in Kids(path) THEN "queued"
                                     ELSE tokStatus[k]]
    /\ tokNode' = [k \in Token |-> IF k \in Kids(path) THEN path[k - ntok] ELSE tokNode[k]]
    /\ parGroup' = [k \in Token |->
                       IF k \in Kids(path)
                       THEN IF Kind[tokNode[t]] = "parallel" THEN t ELSE 0
                       ELSE parGroup[k]]

MoveToken(t, path, endStatus, endNode) ==
    \/ Len(path) = 0 /\ EndToken(t, endStatus, endNode)
    \/ Len(path) = 1 /\ EndToken(t, "queued", path[1])
    \/ Len(path) > 1 /\ SplitToken(t, path)

\* The driver's cursors after the move.  The children of a parallel split run
\* together; other children one after the other, each with its whole subtree.
MoveCursor(d, t, path) ==
    LET kids == IF Len(path) > 1 THEN Kids(path) ELSE {}
        next == IF Len(path) = 1 THEN {t} ELSE kids
    IN  /\ cur' = [cur EXCEPT ![d] = [k \in Token |->
                       IF k \in kids THEN "todo"
                       ELSE IF k = t THEN IF Len(path) = 1 THEN "ready" ELSE "none"
                       ELSE cur[d][k]]]
        /\ after' = [after EXCEPT ![d] = [k \in Token |->
                       IF k \in kids
                       THEN IF Kind[tokNode[t]] = "parallel" THEN {}
                            ELSE {j \in kids : j < k}
                       ELSE IF t \in after[d][k] THEN (after[d][k] \ {t}) \cup next
                       ELSE after[d][k]]]

\* A cursor that stops without moving its token.
DropCursor(d, t) ==
    /\ cur' = [cur EXCEPT ![d][t] = "none"]
    /\ after' = [after EXCEPT ![d] = [k \in Token |-> after[d][k] \ {t}]]

SameAnyGroup(s, t, queue) ==
    \A k \in queue : (s <= k /\ k <= t) => parGroup[k] = parGroup[s]

\* Tokens of the same parallel split that are adjacent in the queue run together.
SameGroup(s, t, queue) ==
    /\ parGroup[s] # 0
    /\ \A k \in queue : (s <= k /\ k <= t) => parGroup[k] = parGroup[s]

-----------------------------------------------------------------------------
(* start_execution has committed: one queued token at the start node.  An   *)
(* inline or before run is about to be driven by the caller that made it.   *)

Idle == [d \in Drivers |-> "idle"]

Init ==
    /\ runStatus = "queued" /\ owner = NoDriver /\ fence = 0 /\ leaseLive = FALSE
    /\ ntok = 1
    /\ tokStatus = [t \in Token |-> IF t = 1 THEN "queued" ELSE "none"]
    /\ tokNode = [t \in Token |-> IF t = 1 THEN Start ELSE NoNode]
    /\ parGroup = [t \in Token |-> 0]
    /\ log = [t \in Token |-> "none"]
    /\ effects = [t \in Token |-> [n \in Nodes |-> 0]]
    /\ accepted = [t \in Token |-> [n \in Nodes |-> 0]]
    /\ inst = IF HasInstance THEN "running" ELSE "none"
    /\ task = [t \in Token |-> [u \in Users |-> "none"]]
    /\ IF Policy = "background"
       THEN pc = Idle /\ inline = [d \in Drivers |-> FALSE]
       ELSE \E d \in Drivers : /\ pc = [Idle EXCEPT ![d] = "recover"]
                               /\ inline = [e \in Drivers |-> e = d]
    /\ myFence = [d \in Drivers |-> 0]
    /\ failed = [d \in Drivers |-> FALSE]
    /\ cur = [d \in Drivers |-> [t \in Token |-> "none"]]
    /\ after = [d \in Drivers |-> [t \in Token |-> {}]]
    /\ disruptions = 0 /\ retries = 0 /\ pauses = 0

-----------------------------------------------------------------------------
(* Ending a run, as the transactions that do it write it.                  *)

SkipNoTasks(tasks) == tasks

SkipTasks(tasks) ==
    [t \in Token |-> [u \in Users |->
        IF tasks[t][u] = "pending" THEN "skipped" ELSE tasks[t][u]]]

CloseLogs(logs) ==
    [t \in Token |-> IF logs[t] \in {"running", "waiting"} THEN "skipped" ELSE logs[t]]

Retire(statuses, toks, new) ==
    [t \in Token |-> IF toks[t] \in statuses THEN new ELSE toks[t]]

EndInstanceOnly(s, tasks, logs) ==
    /\ inst' = s
    /\ tokStatus' = Retire(TokStatus \ {"none", "completed", "failed"}, tokStatus, "cancelled")
    /\ task' = SkipTasks(tasks)
    /\ log' = CloseLogs(logs)
    /\ UNCHANGED <<runStatus, ntok, tokNode, parGroup>>

\* skip_pending_tasks over the whole instance, then complete_instance for an end
\* other than "completed".  The lease is left alone: a driver may still be at work.
EndInstance(s, tasks, logs) ==
    /\ inst' = s
    /\ runStatus' = s
    /\ tokStatus' = Retire(TokStatus \ {"none", "completed", "failed"}, tokStatus, "cancelled")
    /\ task' = SkipTasks(tasks)
    /\ log' = CloseLogs(logs)
    /\ UNCHANGED <<ntok, tokNode, parGroup>>

-----------------------------------------------------------------------------
(* Leases.                                                                 *)

OwnsAnything(d) == owner # NoDriver
Owns(d)  == owner = d /\ fence = myFence[d]
Holds(d) == Owns(d) /\ leaseLive
GuardOfLease(d) == Holds(d)
Guard(d) == Holds(d) /\ runStatus \in {"running", "paused"}

Active == {"running", "waiting", "queued", "paused"}
Abandoned == owner # NoDriver /\ (myFence[owner] # fence \/ pc[owner] = "idle")

\* The owner died: nothing renews its lease.
LeaseRunsOut ==
    /\ leaseLive /\ Abandoned
    /\ leaseLive' = FALSE
    /\ UNCHANGED <<runStatus, owner, fence, tokVars, log, history, instVars, drvVars, bounds>>

\* The owner is alive, but its heartbeat came too late.
LeaseLapses ==
    /\ leaseLive /\ owner # NoDriver /\ ~Abandoned
    /\ disruptions < MaxDisruptions
    /\ disruptions' = disruptions + 1
    /\ leaseLive' = FALSE
    /\ UNCHANGED <<runStatus, owner, fence, tokVars, log, history, instVars, drvVars,
                   retries, pauses>>

InterruptedUnowned == owner = NoDriver /\ runStatus = "running"

Interrupted ==
    /\ runStatus \in {"running", "queued"}
    /\ IF owner = NoDriver THEN runStatus = "running" ELSE ~leaseLive

NothingUncertain == {}
Uncertain == {t \in Tokens({"running"}) : Kind[tokNode[t]] = "http" /\ log[t] = "running"}

\* recover_expired, for this run.
RecoverRun ==
    /\ Interrupted
    /\ owner' = NoDriver /\ leaseLive' = FALSE /\ fence' = fence + 1
    /\ \/ /\ Policy = "before"
          /\ tokStatus' = Retire(TokStatus \ {"none", "completed", "cancelled"}, tokStatus, "failed")
          /\ runStatus' = "failed"
          /\ UNCHANGED log
       \/ /\ Policy # "before"
          /\ tokStatus' = [t \in Token |-> IF t \in Uncertain THEN "needs_attention"
                                           ELSE IF tokStatus[t] = "running" THEN "queued"
                                           ELSE tokStatus[t]]
          /\ log' = [t \in Token |-> IF t \in Uncertain THEN "needs_attention" ELSE log[t]]
          /\ runStatus' = IF \E t \in Token : tokStatus'[t] = "needs_attention"
                          THEN "needs_attention" ELSE "queued"
    /\ UNCHANGED <<ntok, tokNode, parGroup, history, instVars, bounds>>

\* A worker's tick, or another run's drive_execution.
RecoverTick == RecoverRun /\ UNCHANGED drvVars

-----------------------------------------------------------------------------
(* drive_execution, from its call to the release of the lease.             *)

Goto(d, l) == pc' = [pc EXCEPT ![d] = l]
UNCHANGED_DB == UNCHANGED <<runVars, tokVars, log, history, instVars, bounds>>

Forget(d) ==
    /\ Goto(d, "idle")
    /\ myFence' = [myFence EXCEPT ![d] = 0]
    /\ failed' = [failed EXCEPT ![d] = FALSE]
    /\ inline' = [inline EXCEPT ![d] = FALSE]
    /\ cur' = [cur EXCEPT ![d] = [t \in Token |-> "none"]]
    /\ after' = [after EXCEPT ![d] = [t \in Token |-> {}]]

WorkerPickAny(d) ==
    /\ pc[d] = "idle"
    /\ runStatus \in {"queued", "running"} /\ owner = NoDriver
    /\ Goto(d, "recover")
    /\ UNCHANGED <<myFence, failed, inline, cur, after>>
    /\ UNCHANGED_DB

\* The worker's scan spawns a task for the run.
WorkerPick(d) ==
    /\ pc[d] = "idle"
    /\ Policy # "before" /\ runStatus \in {"queued", "running"} /\ owner = NoDriver
    /\ Goto(d, "recover")
    /\ UNCHANGED <<myFence, failed, inline, cur, after>>
    /\ UNCHANGED_DB

\* recover_expired skips a row that another transaction has locked.
Recover(d) ==
    /\ pc[d] = "recover"
    /\ Goto(d, "claim")
    /\ RecoverRun \/ UNCHANGED_DB
    /\ UNCHANGED <<myFence, failed, inline, cur, after>>

ClaimRun(d) ==
    /\ pc[d] = "claim"
    /\ runStatus \in {"queued", "running", "waiting"}
    /\ owner = NoDriver \/ ~leaseLive
    /\ owner' = d /\ fence' = fence + 1 /\ leaseLive' = TRUE
    /\ runStatus' = "running"
    /\ myFence' = [myFence EXCEPT ![d] = fence + 1]
    /\ Goto(d, "load")
    /\ UNCHANGED <<tokVars, log, history, instVars, failed, inline, cur, after, bounds>>

\* Someone else has the run, or has its row locked: the call returns Ok.
ClaimNothing(d) ==
    /\ pc[d] = "claim"
    /\ Forget(d)
    /\ UNCHANGED_DB

\* drive_claimed: the queued tokens, in sequence; adjacent ones of one parallel
\* split together, the others one after another.
LoadTokens(d) ==
    /\ pc[d] = "load"
    /\ Goto(d, "drive")
    /\ LET queue == Tokens({"queued"})
       IN  /\ cur' = [cur EXCEPT ![d] = [t \in Token |-> IF t \in queue THEN "todo" ELSE "none"]]
           /\ after' = [after EXCEPT ![d] =
                 [t \in Token |-> IF t \in queue
                                  THEN {s \in queue : s < t /\ ~SameGroup(s, t, queue)}
                                  ELSE {}]]
    /\ UNCHANGED <<myFence, failed, inline>>
    /\ UNCHANGED_DB

\* The definition, or a data source it uses, is no longer valid.
LoadError(d) ==
    /\ pc[d] = "load"
    /\ Goto(d, "drive")
    /\ failed' = [failed EXCEPT ![d] = TRUE]
    /\ UNCHANGED <<myFence, inline, cur, after>>
    /\ UNCHANGED_DB

-----------------------------------------------------------------------------
(* engine::drive over one cursor.                                          *)

Driving(d, t, c) == pc[d] = "drive" /\ cur[d][t] = c
SetCursor(d, t, c) == cur' = [cur EXCEPT ![d][t] = c] /\ UNCHANGED after
Log(t, s) == log' = [log EXCEPT ![t] = s]
Execute(t) == effects' = [effects EXCEPT ![t][tokNode[t]] = @ + 1]
DriverStep == UNCHANGED <<runVars, pc, myFence, inline, bounds>>

\* Runtime::claim re-reads the token under the guard.
Pull(d, t) ==
    /\ Driving(d, t, "todo") /\ after[d][t] = {}
    /\ IF Guard(d) /\ tokStatus[t] = "queued" THEN SetCursor(d, t, "ready") ELSE DropCursor(d, t)
    /\ UNCHANGED <<tokVars, log, history, instVars, failed>> /\ DriverStep

\* Runtime::finish of a token whose path a human decision has ended.
Finish(d, t) ==
    /\ Driving(d, t, "ready") /\ tokNode[t] = NoNode
    /\ tokStatus' = IF Guard(d) THEN [tokStatus EXCEPT ![t] = "completed"] ELSE tokStatus
    /\ DropCursor(d, t)
    /\ UNCHANGED <<ntok, tokNode, parGroup, log, history, instVars, failed>> /\ DriverStep

AtNode(d, t, kinds) ==
    Driving(d, t, "ready") /\ tokNode[t] # NoNode /\ Kind[tokNode[t]] \in kinds
MayStepPaused(d) == Guard(d)
MayStep(d) == Guard(d) /\ runStatus # "paused"

\* Lease lost, run taken over, ended or paused.
Stop(d, t) ==
    /\ Driving(d, t, "ready") /\ tokNode[t] # NoNode /\ ~MayStep(d)
    /\ DropCursor(d, t)
    /\ UNCHANGED <<tokVars, log, history, instVars, failed>> /\ DriverStep

\* A node whose effects and transition commit in one transaction.
RunNode(d, t) ==
    /\ AtNode(d, t, {"data", "condition", "parallel"}) /\ MayStep(d)
    /\ Execute(t) /\ Log(t, "success")
    /\ \E path \in Exits(tokNode[t]) :
          MoveToken(t, path, "completed", tokNode[t]) /\ MoveCursor(d, t, path)
    /\ UNCHANGED <<accepted, instVars, failed>> /\ DriverStep

\* The visit is committed as running, then the request is sent.
CallHttp(d, t) ==
    /\ AtNode(d, t, {"http"}) /\ MayStep(d)
    /\ Execute(t) /\ Log(t, "running")
    /\ tokStatus' = [tokStatus EXCEPT ![t] = "running"]
    /\ SetCursor(d, t, "http")
    /\ UNCHANGED <<ntok, tokNode, parGroup, accepted, instVars, failed>> /\ DriverStep

HttpSucceeds(d, t) ==
    /\ Driving(d, t, "http") /\ Guard(d)
    /\ Log(t, "success")
    /\ \E path \in Exits(tokNode[t]) :
          MoveToken(t, path, "completed", tokNode[t]) /\ MoveCursor(d, t, path)
    /\ UNCHANGED <<history, instVars, failed>> /\ DriverStep

\* A timeout or transport error: the request may or may not have been served.
HttpUncertain(d, t) ==
    /\ Driving(d, t, "http") /\ Guard(d)
    /\ tokNode[t] \in MayFail
    /\ Log(t, "needs_attention")
    /\ tokStatus' = [tokStatus EXCEPT ![t] = "needs_attention"]
    /\ DropCursor(d, t)
    /\ UNCHANGED <<ntok, tokNode, parGroup, history, instVars, failed>> /\ DriverStep

\* The answer arrives too late: lease lost, or the run is no longer running.
HttpFenced(d, t) ==
    /\ Driving(d, t, "http") /\ ~Guard(d)
    /\ DropCursor(d, t)
    /\ UNCHANGED <<tokVars, log, history, instVars, failed>> /\ DriverStep

\* execute_human_node: the tasks and the waiting token commit together.
CreateTasks(d, t) ==
    /\ AtNode(d, t, {"human"}) /\ MayStep(d)
    /\ HasInstance /\ Assignees[tokNode[t]] # {}
    /\ Execute(t) /\ Log(t, "waiting")
    /\ task' = [task EXCEPT ![t] =
                   [u \in Users |-> IF u \in Assignees[tokNode[t]] THEN "pending" ELSE "none"]]
    /\ tokStatus' = [tokStatus EXCEPT ![t] = "waiting"]
    /\ DropCursor(d, t)
    /\ UNCHANGED <<ntok, tokNode, parGroup, accepted, inst, failed>> /\ DriverStep

Unassigned(n) == Kind[n] = "human" /\ (~HasInstance \/ Assignees[n] = {})

\* The handler, or the transaction around it, fails and rolls back.
NodeError(d, t) ==
    /\ \/ /\ AtNode(d, t, {"data", "condition", "parallel", "http", "human"}) /\ MayStep(d)
          /\ tokNode[t] \in MayFail \/ Unassigned(tokNode[t])
       \/ Driving(d, t, "http") /\ tokNode[t] \in MayFail
    /\ SetCursor(d, t, "failing")
    /\ UNCHANGED <<tokVars, log, history, instVars, failed>> /\ DriverStep

\* Runtime::failed, in a transaction of its own.
RecordFailure(d, t) ==
    /\ Driving(d, t, "failing")
    /\ failed' = [failed EXCEPT ![d] = TRUE]
    /\ DropCursor(d, t)
    /\ \/ ~Guard(d) /\ UNCHANGED <<tokStatus, log>>
       \/ /\ Guard(d) /\ t \in Uncertain
          /\ tokStatus' = [tokStatus EXCEPT ![t] = "needs_attention"]
          /\ Log(t, "needs_attention")
       \/ /\ Guard(d) /\ t \notin Uncertain
          /\ tokStatus' = [tokStatus EXCEPT ![t] =
                 IF @ \in {"completed", "cancelled", "needs_attention"} THEN @ ELSE "failed"]
          /\ Log(t, "failed")
    /\ UNCHANGED <<ntok, tokNode, parGroup, history, instVars>> /\ DriverStep

-----------------------------------------------------------------------------
(* The end of a drive.                                                     *)

OutcomeAnyCompleted(d) ==
    IF Tokens({"needs_attention"}) # {} THEN "needs_attention"
    ELSE IF failed[d] \/ Tokens({"failed"}) # {} THEN "failed"
    ELSE IF Tokens({"completed"}) # {} THEN "success"
    ELSE IF Tokens({"queued"}) # {} THEN "queued"
    ELSE "waiting"

Outcome(d) ==
    IF Tokens({"needs_attention"}) # {} THEN "needs_attention"
    ELSE IF failed[d] \/ Tokens({"failed"}) # {} THEN "failed"
    ELSE IF Tokens({"completed"}) = 1 .. ntok THEN "success"
    ELSE IF Tokens({"queued"}) # {} THEN "queued"
    ELSE "waiting"

FinalizeExecution(d) ==
    /\ pc[d] = "drive" /\ Live(d) = {}
    /\ Goto(d, "release")
    /\ IF Holds(d) /\ runStatus = "running"
       THEN \/ /\ Outcome(d) = "failed" /\ HasInstance
               /\ EndInstance("failed", task, log)
            \/ /\ Outcome(d) = "failed" /\ ~HasInstance
               /\ runStatus' = "failed"
               /\ tokStatus' = Retire({"queued", "running", "waiting"}, tokStatus, "cancelled")
               /\ UNCHANGED <<ntok, tokNode, parGroup, log, instVars>>
            \/ /\ Outcome(d) # "failed"
               /\ runStatus' = Outcome(d)
               /\ inst' = IF HasInstance /\ Outcome(d) = "success" THEN "completed" ELSE inst
               /\ UNCHANGED <<tokVars, log, task>>
       ELSE UNCHANGED <<runStatus, tokVars, log, instVars>>
    /\ UNCHANGED <<owner, fence, leaseLive, history, myFence, failed, inline, cur, after, bounds>>

\* Only our own lease is released.  An error then goes to the caller.
Release(d) ==
    /\ pc[d] = "release"
    /\ IF Owns(d) THEN owner' = NoDriver /\ leaseLive' = FALSE ELSE UNCHANGED <<owner, leaseLive>>
    /\ IF failed[d] /\ inline[d] /\ HasInstance
       THEN Goto(d, "fail") /\ UNCHANGED <<myFence, failed, inline, cur, after>>
       ELSE Forget(d)
    /\ UNCHANGED <<runStatus, fence, tokVars, log, history, instVars, bounds>>

\* fail_instance, called by the handler that submitted, approved or resumed.
FailInstance(d) ==
    /\ pc[d] = "fail"
    /\ Forget(d)
    /\ IF inst \in {"completed", "rejected", "failed"}
       THEN UNCHANGED <<runStatus, tokVars, log, instVars>>
       ELSE EndInstance("failed", task, log)
    /\ UNCHANGED <<owner, fence, leaseLive, history, bounds>>

\* The process stops, or the client goes away and its handler is dropped.
Crash(d) ==
    /\ pc[d] # "idle" /\ disruptions < MaxDisruptions
    /\ disruptions' = disruptions + 1
    /\ Forget(d)
    /\ UNCHANGED <<runVars, tokVars, log, history, instVars, retries, pauses>>

-----------------------------------------------------------------------------
(* People.  Each handler is a transaction, then perhaps an inline drive.   *)

\* After its commit the handler drives the run, unless it is dropped first.
DriveInline ==
    /\ \/ \E d \in Drivers : /\ pc[d] = "idle"
                             /\ Goto(d, "recover")
                             /\ inline' = [inline EXCEPT ![d] = TRUE]
       \/ UNCHANGED <<pc, inline>>
    /\ UNCHANGED <<myFence, failed, cur, after>>

Decidable(u, t) ==
    /\ inst = "running" /\ task[t][u] = "pending"
    /\ runStatus \in {"running", "waiting", "queued"}
    /\ tokStatus[t] = "waiting"

\* The task rows of t once u has agreed; in mode "any" the others are skipped.
Agreed(u, t) ==
    [v \in Users |-> IF v = u THEN "approved"
                     ELSE IF task[t][v] = "pending" /\ tokNode[t] \in AnyMode THEN "skipped"
                     ELSE task[t][v]]

\* The last approval queues the token behind its node (queue_human_completion).
Approve(u, t) ==
    /\ Decidable(u, t)
    /\ task' = [task EXCEPT ![t] = Agreed(u, t)]
    /\ IF \E v \in Users : Agreed(u, t)[v] = "pending"
       THEN UNCHANGED <<runStatus, tokVars, log, drvVars>>
       ELSE /\ Log(t, "success")
            /\ \E path \in Exits(tokNode[t]) : MoveToken(t, path, "queued", NoNode)
            /\ runStatus' = "queued"
            /\ DriveInline
    /\ UNCHANGED <<owner, fence, leaseLive, history, inst, bounds>>

Reject(u, t) ==
    /\ Decidable(u, t)
    /\ EndInstance("rejected", [task EXCEPT ![t][u] = "rejected"], [log EXCEPT ![t] = "rejected"])
    /\ UNCHANGED <<owner, fence, leaseLive, history, drvVars, bounds>>

\* set_run_state touches only a run that has not ended and awaits no administrator.
SetRunState(s) == runStatus' = IF runStatus \in Active THEN s ELSE runStatus

Pause ==
    /\ inst = "running" /\ pauses < MaxPauses
    /\ pauses' = pauses + 1
    /\ inst' = "paused" /\ SetRunState("paused")
    /\ UNCHANGED <<owner, fence, leaseLive, tokVars, log, history, task, drvVars,
                   disruptions, retries>>

Resume ==
    /\ inst = "paused"
    /\ inst' = "running" /\ SetRunState("queued")
    /\ DriveInline
    /\ UNCHANGED <<owner, fence, leaseLive, tokVars, log, history, task, bounds>>

\* resolve_automation_execution, action "retry" with acceptDuplicateRisk.
AcceptRetry ==
    /\ runStatus = "needs_attention" /\ retries < MaxRetries
    /\ retries' = retries + 1
    /\ LET again == Tokens({"needs_attention"})
       IN  /\ tokStatus' = Retire({"needs_attention"}, tokStatus, "queued")
           /\ accepted' = [t \in Token |-> [n \in Nodes |->
                 accepted[t][n] + IF t \in again /\ n = tokNode[t] THEN 1 ELSE 0]]
    /\ runStatus' = "queued"
    /\ UNCHANGED <<owner, fence, leaseLive, ntok, tokNode, parGroup, log, effects, instVars,
                   drvVars, disruptions, pauses>>

\* ... action "cancel".
CancelRun ==
    /\ runStatus = "needs_attention"
    /\ runStatus' = "cancelled"
    /\ tokStatus' = Retire(TokStatus \ {"none", "completed"}, tokStatus, "cancelled")
    /\ IF HasInstance
       THEN inst' = "cancelled" /\ task' = SkipTasks(task) /\ log' = CloseLogs(log)
       ELSE UNCHANGED <<inst, task, log>>
    /\ UNCHANGED <<owner, fence, leaseLive, ntok, tokNode, parGroup, history, drvVars, bounds>>

-----------------------------------------------------------------------------
CursorStep(d, t) ==
    \/ Pull(d, t)         \/ Finish(d, t)        \/ Stop(d, t)
    \/ RunNode(d, t)      \/ CallHttp(d, t)      \/ CreateTasks(d, t)
    \/ HttpSucceeds(d, t) \/ HttpUncertain(d, t) \/ HttpFenced(d, t)
    \/ NodeError(d, t)    \/ RecordFailure(d, t)

Drive(d) ==
    \/ Recover(d)   \/ ClaimRun(d) \/ ClaimNothing(d)
    \/ LoadTokens(d) \/ LoadError(d)
    \/ \E t \in Token : CursorStep(d, t)
    \/ FinalizeExecution(d) \/ Release(d) \/ FailInstance(d)

Decide == \E u \in Users, t \in Token : Approve(u, t) \/ Reject(u, t)

Next ==
    \/ \E d \in Drivers : WorkerPick(d) \/ Drive(d) \/ Crash(d)
    \/ LeaseRunsOut \/ LeaseLapses \/ RecoverTick
    \/ Decide \/ Pause \/ Resume \/ AcceptRetry \/ CancelRun

Spec == Init /\ [][Next]_vars

\* Drivers go on, timeouts fire, the worker's ticks recover and pick up runs, and
\* a run's row is not locked by others at every attempt to claim it.
FairSpec ==
    /\ Spec
    /\ \A d \in Drivers : WF_vars(Drive(d)) /\ SF_vars(ClaimRun(d)) /\ WF_vars(WorkerPick(d))
    /\ WF_vars(LeaseRunsOut) /\ WF_vars(RecoverTick)

-----------------------------------------------------------------------------
(* Safety.                                                                 *)

\* A visit's external or database effect happens once, and once more for each
\* time an administrator accepted the risk of a duplicate: no crash, lease
\* takeover, late answer or race of two drivers repeats a call.
AtMostOnceEffect ==
    \A t \in Token, n \in Nodes : effects[t][n] <= 1 + accepted[t][n]

\* While a driver passes the guard nobody has moved its tokens: what a cursor
\* holds in memory is what the token's row says.
CursorAgrees ==
    \A d \in Drivers, t \in Token : Guard(d) =>
        /\ cur[d][t] = "ready" => tokStatus[t] = "queued"
        /\ cur[d][t] = "http" => tokStatus[t] = "running" /\ log[t] = "running"

\* The run and the workflow instance end together, with the same verdict.
InstanceAgrees ==
    HasInstance => runStatus = (CASE inst = "completed" -> "success"
                                  [] inst \in {"failed", "cancelled", "rejected"} -> inst
                                  [] OTHER -> IF runStatus \in Ended THEN "none" ELSE runStatus)

\* Nobody is asked to decide for a branch that is not waiting, and no branch
\* waits for a decision nobody can take.
TasksMatchTokens ==
    \A t \in Token : Pending(t) # {} <=> tokStatus[t] = "waiting"

\* Only the branches of a parallel split overlap.  The targets of any other node
\* are walked one after the other, each to the end of its path.
OneBranchAtATime ==
    \A d \in Drivers : \A s, t \in {k \in Token : cur[d][k] \in {"ready", "http", "failing"}} :
        s # t => \E k \in Token : parGroup[k] # 0

\* A run reported as successful has walked every branch to its end.
SuccessIsComplete ==
    runStatus = "success" => \A t \in 1 .. ntok : tokStatus[t] = "completed" /\ log[t] = "success"

\* Nothing is left to do, to answer or to approve once the run has ended.
EndedIsQuiet ==
    runStatus \in Ended =>
        \A t \in Token : /\ tokStatus[t] \in {"none", "completed", "failed", "cancelled"}
                         /\ Pending(t) = {}

\* A driver that outlives the end of its run changes nothing any more.
EndedIsFrozen ==
    [][(runStatus \in Ended) => UNCHANGED <<tokVars, effects, task>>]_vars

\* Between pause and resume no node runs and no request is sent, unless an
\* administrator's retry has queued the run again: AcceptRetry does not look at the
\* instance.
PausedStartsNothing ==
    [][(inst = "paused" /\ retries = 0) => UNCHANGED effects]_vars

\* A run waits only for people: some branch has reached a human node.
WaitingNeedsPeople == (runStatus = "waiting") => Tokens({"waiting"}) # {}

\* "Before executions never resume after the caller is gone": nothing of a before
\* run is executed but by the request that started it.
BeforeDiesWithCaller ==
    [][(Policy = "before" /\ \A d \in Drivers : ~inline[d]) => UNCHANGED effects]_vars

-----------------------------------------------------------------------------
(* The inductive invariant behind AtMostOnceEffect.                        *)

\* Tokens are numbered as they are inserted; one not yet inserted has no past.
Born == \A t \in Token :
    /\ t <= ntok => tokStatus[t] # "none"
    /\ t > ntok => /\ tokStatus[t] = "none"
                   /\ \A n \in Nodes : effects[t][n] = 0 /\ accepted[t][n] = 0

\* Only a sent request leaves a token running, and its log says so: recovery finds it.
RunningIsCall == \A t \in Token : tokStatus[t] = "running" =>
    tokNode[t] \in Nodes /\ Kind[tokNode[t]] = "http" /\ log[t] = "running"

WaitingIsSomewhere == \A t \in Token : tokStatus[t] = "waiting" => tokNode[t] \in Nodes

\* A token has left its visits behind it in the order of the graph.
VisitsAreBehind == \A t \in Token, n \in Nodes :
    effects[t][n] > 0 => tokNode[t] = NoNode \/ Rank[n] <= Rank[tokNode[t]]

\* A queued visit has not been made, or its repetition has been accepted.
QueuedIsFresh == \A t \in Token : tokStatus[t] = "queued" /\ tokNode[t] # NoNode =>
    effects[t][tokNode[t]] <= accepted[t][tokNode[t]]

\* CursorAgrees without the lease: an owner may regain the guard when a run that
\* was queued behind its back is paused.
OwnerAgrees == \A d \in Drivers, t \in Token : Owns(d) /\ runStatus \notin Ended =>
    /\ cur[d][t] = "ready" => tokStatus[t] = "queued"
    /\ cur[d][t] = "http" => tokStatus[t] = "running"
    /\ cur[d][t] = "failing" => tokStatus[t] \in {"queued", "running"}

\* Only a drive has cursors, and only over tokens that exist.
CursorsAreDriven == \A d \in Drivers, t \in Token :
    cur[d][t] # "none" => pc[d] = "drive" /\ t <= ntok

\* What every step of every driver, person and recovery preserves, taken together.
ExecutionInv ==
    /\ TypeOK /\ Born /\ RunningIsCall /\ WaitingIsSomewhere /\ VisitsAreBehind
    /\ QueuedIsFresh /\ OwnerAgrees /\ CursorsAreDriven /\ AtMostOnceEffect

-----------------------------------------------------------------------------
(* The execution service keeps the promise of RunLifecycle.                *)

Visits == Token \X Nodes

Phase ==
    CASE runStatus \in Ended -> "ended"
      [] runStatus = "needs_attention" -> "doubt"
      [] OTHER -> "open"

Lifecycle == INSTANCE RunLifecycle WITH
    phase <- Phase,
    performed <- [v \in Visits |-> effects[v[1]][v[2]]],
    accepted <- [v \in Visits |-> accepted[v[1]][v[2]]]

\* Every behaviour of the drivers, people, leases and crashes is one of the lifecycle.
ImplementsLifecycle == Lifecycle!Spec

-----------------------------------------------------------------------------
(* Liveness.                                                               *)

\* A queued or interrupted run does not stay so for ever: it ends, or it rests
\* where somebody is expected to act.
RunRests ==
    (runStatus \in {"queued", "running"}) ~> (runStatus \notin {"queued", "running"})
=============================================================================
