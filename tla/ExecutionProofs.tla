-------------------------- MODULE ExecutionProofs --------------------------
(***************************************************************************)
(* Theorems about Execution, for every flow graph, every set of users and  *)
(* drivers and every bound.                                                *)
(***************************************************************************)
EXTENDS Execution, SequenceTheorems, TLAPS

TokenRowsOK ==
    /\ ntok \in Token
    /\ tokStatus \in [Token -> TokStatus]
    /\ tokNode \in [Token -> Nodes \cup {NoNode}]
    /\ parGroup \in [Token -> Token \cup {0}]

CursorsOK ==
    /\ cur \in [Drivers -> [Token -> {"none", "todo", "ready", "http", "failing"}]]
    /\ after \in [Drivers -> [Token -> SUBSET Token]]

\* A path that engine::transition may return leads to nodes further down the graph.
LEMMA ExitsAhead ==
    ASSUME NEW n \in Nodes, NEW path \in Exits(n)
    PROVE  /\ path \in Seq(Nodes)
           /\ \A i \in 1 .. Len(path) : path[i] \in Nodes /\ Rank[n] < Rank[path[i]]
<1>1. PICK m \in 0 .. Len(Edges[n]) : path \in [1 .. m -> Successors(n)]
  BY DEF Exits, PathsOver
<1>2. m \in Nat
  <2>1. Len(Edges[n]) \in Nat
    BY GraphAssumption
  <2> QED BY <2>1
<1>3. Successors(n) \subseteq Nodes /\ \A k \in Successors(n) : Rank[n] < Rank[k]
  <2>1. Edges[n] \in Seq([to : Nodes, branch : STRING])
    BY GraphAssumption
  <2>2. DOMAIN Edges[n] = 1 .. Len(Edges[n])
    BY <2>1
  <2>3. \A i \in DOMAIN Edges[n] : Edges[n][i] \in [to : Nodes, branch : STRING]
    BY <2>1, <2>2, ElementOfSeq
  <2>4. \A i \in DOMAIN Edges[n] : Edges[n][i].to \in Nodes /\ Rank[n] < Rank[Edges[n][i].to]
    BY <2>3, GraphAssumption
  <2> QED BY <2>4 DEF Successors
<1>4. path \in [1 .. m -> Nodes]
  BY <1>1, <1>3
<1>5. path \in Seq(Nodes) /\ Len(path) = m
  BY <1>2, <1>4
<1> QED BY <1>1, <1>3, <1>5

\* The row of a token, and the rows of its children, stay well typed when it moves.
LEMMA MoveTokenType ==
    ASSUME TokenRowsOK, NEW t \in Token, NEW path \in Seq(Nodes),
           NEW endStatus \in TokStatus, NEW endNode \in Nodes \cup {NoNode},
           MoveToken(t, path, endStatus, endNode)
    PROVE  TokenRowsOK'
<1>1. CASE EndToken(t, endStatus, endNode)
  BY <1>1 DEF EndToken, TokenRowsOK
<1>2. CASE Len(path) = 1 /\ EndToken(t, "queued", path[1])
  <2>1. path[1] \in Nodes /\ "queued" \in TokStatus
    BY <1>2 DEF TokStatus
  <2> QED BY <1>2, <2>1 DEF EndToken, TokenRowsOK
<1>3. CASE Len(path) > 1 /\ SplitToken(t, path)
  <2>1. ntok' \in Token
    BY <1>3, BoundAssumption DEF SplitToken, TokenRowsOK, Token
  <2>2. tokStatus' \in [Token -> TokStatus]
    BY <1>3 DEF SplitToken, TokenRowsOK, TokStatus
  <2>3. \A k \in Kids(path) : path[k - ntok] \in Nodes
    BY <1>3 DEF Kids, TokenRowsOK, Token
  <2>4. tokNode' \in [Token -> Nodes \cup {NoNode}]
    BY <1>3, <2>3 DEF SplitToken, TokenRowsOK
  <2>5. parGroup' \in [Token -> Token \cup {0}]
    BY <1>3 DEF SplitToken, TokenRowsOK
  <2> QED BY <2>1, <2>2, <2>4, <2>5 DEF TokenRowsOK
<1> QED BY <1>1, <1>2, <1>3 DEF MoveToken

LEMMA MoveCursorType ==
    ASSUME CursorsOK, ntok \in Token, NEW d \in Drivers, NEW t \in Token, NEW path \in Seq(Nodes),
           MoveCursor(d, t, path)
    PROVE  CursorsOK'
BY DEF MoveCursor, CursorsOK, Kids

LEMMA DropCursorType ==
    ASSUME CursorsOK, NEW d \in Drivers, NEW t \in Token, DropCursor(d, t)
    PROVE  CursorsOK'
BY DEF DropCursor, CursorsOK

LEMMA EndInstanceType ==
    ASSUME TypeOK, NEW s \in {"failed", "cancelled", "rejected"},
           NEW tasks \in [Token -> [Users -> TaskStatus]], NEW logs \in [Token -> LogStatus],
           EndInstance(s, tasks, logs)
    PROVE  /\ TokenRowsOK' /\ runStatus' \in RunStatus /\ inst' \in InstStatus
           /\ task' \in [Token -> [Users -> TaskStatus]] /\ log' \in [Token -> LogStatus]
<1>1. tokStatus' \in [Token -> TokStatus]
  BY DEF EndInstance, Retire, TypeOK, TokStatus
<1>2. task' \in [Token -> [Users -> TaskStatus]]
  BY DEF EndInstance, SkipTasks, TaskStatus
<1>3. log' \in [Token -> LogStatus]
  BY DEF EndInstance, CloseLogs, LogStatus
<1>4. runStatus' \in RunStatus /\ inst' \in InstStatus
  BY DEF EndInstance, RunStatus, InstStatus
<1> QED BY <1>1, <1>2, <1>3, <1>4 DEF EndInstance, TokenRowsOK, TypeOK

-----------------------------------------------------------------------------
(* The type invariant.                                                     *)

\* What belongs to a driver, and the bounds, stay well typed.
DriversOK ==
    /\ pc \in [Drivers -> {"idle", "recover", "claim", "load", "drive", "release", "fail"}]
    /\ myFence \in [Drivers -> Nat]
    /\ failed \in [Drivers -> BOOLEAN]
    /\ inline \in [Drivers -> BOOLEAN]
    /\ CursorsOK

LEMMA InitType == Init => TypeOK
<1> SUFFICES ASSUME Init PROVE TypeOK
  OBVIOUS
<1>1. 1 \in Token
  BY BoundAssumption DEF Token
<1>2. /\ pc \in [Drivers -> {"idle", "recover", "claim", "load", "drive", "release", "fail"}]
      /\ inline \in [Drivers -> BOOLEAN]
  BY DEF Init, Idle
<1>3. /\ runStatus \in RunStatus /\ inst \in InstStatus
      /\ log \in [Token -> LogStatus] /\ task \in [Token -> [Users -> TaskStatus]]
      /\ tokStatus \in [Token -> TokStatus]
  BY RunAssumption DEF Init, RunStatus, InstStatus, LogStatus, TaskStatus, TokStatus
<1>4. /\ tokNode \in [Token -> Nodes \cup {NoNode}]
      /\ parGroup \in [Token -> Token \cup {0}]
  BY GraphAssumption DEF Init
<1>5. /\ effects \in [Token -> [Nodes -> Nat]]
      /\ accepted \in [Token -> [Nodes -> Nat]]
  BY DEF Init
<1>6. /\ cur \in [Drivers -> [Token -> {"none", "todo", "ready", "http", "failing"}]]
      /\ after \in [Drivers -> [Token -> SUBSET Token]]
      /\ myFence \in [Drivers -> Nat] /\ failed \in [Drivers -> BOOLEAN]
  BY DEF Init
<1> QED BY <1>1, <1>2, <1>3, <1>4, <1>5, <1>6 DEF Init, TypeOK

LEMMA ForgetType == ASSUME TypeOK, NEW d \in Drivers, Forget(d) PROVE DriversOK'
BY DEF Forget, Goto, TypeOK, DriversOK, CursorsOK

LEMMA DriveInlineType == ASSUME TypeOK, DriveInline PROVE DriversOK'
BY DEF DriveInline, Goto, TypeOK, DriversOK, CursorsOK

\* The transactions of people.
LEMMA ApproveType ==
    ASSUME ExecutionInv, NEW u \in Users, NEW t \in Token, Approve(u, t) PROVE TypeOK'
<1>0. TypeOK /\ WaitingIsSomewhere
  BY DEF ExecutionInv
<1>1. Agreed(u, t) \in [Users -> TaskStatus]
  BY <1>0 DEF Agreed, TypeOK, TaskStatus
<1>2. task' \in [Token -> [Users -> TaskStatus]]
  BY <1>0, <1>1 DEF Approve, TypeOK
<1>3. CASE UNCHANGED <<runStatus, tokVars, log, drvVars>>
  BY <1>0, <1>2, <1>3 DEF Approve, TypeOK, tokVars, drvVars, history, bounds
<1>4. CASE /\ Log(t, "success") /\ runStatus' = "queued" /\ DriveInline
           /\ \E path \in Exits(tokNode[t]) : MoveToken(t, path, "queued", NoNode)
  <2>1. tokNode[t] \in Nodes
    BY <1>0 DEF Approve, Decidable, WaitingIsSomewhere
  <2>2. PICK path \in Exits(tokNode[t]) : MoveToken(t, path, "queued", NoNode)
    BY <1>4
  <2>3. path \in Seq(Nodes)
    BY <2>1, ExitsAhead
  <2>4. TokenRowsOK'
    BY <1>0, <2>2, <2>3, MoveTokenType DEF TypeOK, TokenRowsOK, TokStatus
  <2>5. DriversOK'
    BY <1>0, <1>4, DriveInlineType
  <2>6. log' \in [Token -> LogStatus] /\ runStatus' \in RunStatus
    BY <1>0, <1>4 DEF Log, TypeOK, LogStatus, RunStatus
  <2>7. UNCHANGED <<owner, fence, leaseLive, history, inst, bounds>>
    BY DEF Approve
  <2> QED BY <1>0, <1>2, <2>4, <2>5, <2>6, <2>7
          DEF TypeOK, TokenRowsOK, DriversOK, CursorsOK, history, bounds
<1> QED BY <1>3, <1>4 DEF Approve

LEMMA RejectType ==
    ASSUME TypeOK, NEW u \in Users, NEW t \in Token, Reject(u, t) PROVE TypeOK'
<1>1. [task EXCEPT ![t][u] = "rejected"] \in [Token -> [Users -> TaskStatus]]
  BY DEF TypeOK, TaskStatus
<1>2. [log EXCEPT ![t] = "rejected"] \in [Token -> LogStatus]
  BY DEF TypeOK, LogStatus
<1>3. /\ TokenRowsOK' /\ runStatus' \in RunStatus /\ inst' \in InstStatus
      /\ task' \in [Token -> [Users -> TaskStatus]] /\ log' \in [Token -> LogStatus]
  BY <1>1, <1>2, EndInstanceType DEF Reject
<1> QED BY <1>3 DEF Reject, TypeOK, TokenRowsOK, history, drvVars, bounds

LEMMA PauseType == ASSUME TypeOK, Pause PROVE TypeOK'
BY DEF Pause, SetRunState, TypeOK, tokVars, history, drvVars, RunStatus, InstStatus

LEMMA ResumeType == ASSUME TypeOK, Resume PROVE TypeOK'
<1>1. DriversOK'
  BY DriveInlineType DEF Resume
<1> QED BY <1>1 DEF Resume, SetRunState, TypeOK, DriversOK, CursorsOK, tokVars, history, bounds,
                    RunStatus, InstStatus

LEMMA AcceptRetryType == ASSUME TypeOK, AcceptRetry PROVE TypeOK'
<1>1. tokStatus' \in [Token -> TokStatus]
  BY DEF AcceptRetry, Retire, TypeOK, TokStatus
<1>2. accepted' \in [Token -> [Nodes -> Nat]]
  BY DEF AcceptRetry, TypeOK
<1> QED BY <1>1, <1>2 DEF AcceptRetry, TypeOK, instVars, drvVars, RunStatus

LEMMA CancelRunType == ASSUME TypeOK, CancelRun PROVE TypeOK'
<1>1. tokStatus' \in [Token -> TokStatus]
  BY DEF CancelRun, Retire, TypeOK, TokStatus
<1>2. /\ SkipTasks(task) \in [Token -> [Users -> TaskStatus]]
      /\ CloseLogs(log) \in [Token -> LogStatus]
  BY DEF SkipTasks, CloseLogs, TypeOK, TaskStatus, LogStatus
<1>3. /\ task' \in [Token -> [Users -> TaskStatus]] /\ log' \in [Token -> LogStatus]
      /\ inst' \in InstStatus /\ runStatus' \in RunStatus
  BY <1>2 DEF CancelRun, TypeOK, InstStatus, RunStatus
<1> QED BY <1>1, <1>3 DEF CancelRun, TypeOK, history, drvVars, bounds

-----------------------------------------------------------------------------
\* Leases, recovery, and a driver outside its cursors.

LEMMA LeaseType == ASSUME TypeOK, LeaseRunsOut \/ LeaseLapses PROVE TypeOK'
<1>1. /\ UNCHANGED <<runStatus, owner, fence, tokVars, log, history, instVars, drvVars,
                     retries, pauses>>
      /\ leaseLive' = FALSE
  BY DEF LeaseRunsOut, LeaseLapses, bounds
<1>2. disruptions' \in Nat
  BY DEF LeaseRunsOut, LeaseLapses, TypeOK, bounds
<1> QED BY <1>1, <1>2 DEF TypeOK, tokVars, history, instVars, drvVars

\* What recover_expired may change.
RunOK ==
    /\ runStatus \in RunStatus /\ owner \in Drivers \cup {NoDriver}
    /\ fence \in Nat /\ leaseLive \in BOOLEAN
    /\ TokenRowsOK /\ log \in [Token -> LogStatus]

LEMMA RecoverRunType == ASSUME TypeOK, RecoverRun PROVE RunOK'
<1>1. tokStatus' \in [Token -> TokStatus]
  BY DEF RecoverRun, Retire, TypeOK, TokStatus
<1>2. log' \in [Token -> LogStatus] /\ runStatus' \in RunStatus
  BY DEF RecoverRun, TypeOK, LogStatus, RunStatus
<1>3. owner' \in Drivers \cup {NoDriver} /\ fence' \in Nat /\ leaseLive' \in BOOLEAN
  <2>1. owner' = NoDriver /\ leaseLive' = FALSE /\ fence' = fence + 1
    BY DEF RecoverRun
  <2>2. fence \in Nat
    BY DEF TypeOK
  <2>3. fence' \in Nat
    BY <2>1, <2>2
  <2>4. leaseLive' \in BOOLEAN
    BY <2>1
  <2> QED BY <2>1, <2>3, <2>4
<1> QED BY <1>1, <1>2, <1>3 DEF RecoverRun, TypeOK, RunOK, TokenRowsOK

LEMMA RecoverTickType == ASSUME TypeOK, RecoverTick PROVE TypeOK'
<1>1. RunOK' /\ UNCHANGED <<drvVars, history, instVars, bounds>>
  BY RecoverRunType DEF RecoverTick, RecoverRun
<1> QED BY <1>1 DEF TypeOK, RunOK, TokenRowsOK, drvVars, history, instVars, bounds

LEMMA RecoverType == ASSUME TypeOK, NEW d \in Drivers, Recover(d) PROVE TypeOK'
<1>1. RunOK' /\ UNCHANGED <<history, instVars, bounds>>
  <2>1. CASE RecoverRun
    BY <2>1, RecoverRunType DEF RecoverRun
  <2>2. CASE UNCHANGED_DB
    BY <2>2 DEF UNCHANGED_DB, TypeOK, RunOK, TokenRowsOK, runVars, tokVars
  <2> QED BY <2>1, <2>2 DEF Recover
<1>2. DriversOK'
  BY DEF Recover, Goto, TypeOK, DriversOK, CursorsOK
<1> QED BY <1>1, <1>2 DEF TypeOK, RunOK, TokenRowsOK, DriversOK, CursorsOK, history, instVars, bounds

\* A step that leaves the database alone.
LEMMA VolatileType == ASSUME TypeOK, UNCHANGED_DB, DriversOK' PROVE TypeOK'
BY DEF UNCHANGED_DB, TypeOK, DriversOK, CursorsOK, runVars, tokVars, history, instVars, bounds

LEMMA WorkerPickType == ASSUME TypeOK, NEW d \in Drivers, WorkerPick(d) PROVE TypeOK'
<1>1. DriversOK'
  BY DEF WorkerPick, Goto, TypeOK, DriversOK, CursorsOK
<1> QED BY <1>1, VolatileType DEF WorkerPick

LEMMA ClaimRunType == ASSUME TypeOK, NEW d \in Drivers, ClaimRun(d) PROVE TypeOK'
BY DEF ClaimRun, Goto, TypeOK, tokVars, history, instVars, bounds, RunStatus

LEMMA ClaimNothingType == ASSUME TypeOK, NEW d \in Drivers, ClaimNothing(d) PROVE TypeOK'
BY ForgetType, VolatileType DEF ClaimNothing

LEMMA LoadType ==
    ASSUME TypeOK, NEW d \in Drivers, LoadTokens(d) \/ LoadError(d) PROVE TypeOK'
<1>1. CASE LoadTokens(d)
  <2>1. DriversOK'
    BY <1>1 DEF LoadTokens, Goto, Tokens, TypeOK, DriversOK, CursorsOK
  <2> QED BY <1>1, <2>1, VolatileType DEF LoadTokens
<1>2. CASE LoadError(d)
  <2>1. DriversOK'
    BY <1>2 DEF LoadError, Goto, TypeOK, DriversOK, CursorsOK
  <2> QED BY <1>2, <2>1, VolatileType DEF LoadError
<1> QED BY <1>1, <1>2

LEMMA FinalizeExecutionType ==
    ASSUME TypeOK, NEW d \in Drivers, FinalizeExecution(d) PROVE TypeOK'
<1>1. DriversOK' /\ UNCHANGED <<owner, fence, leaseLive, history, bounds>>
  BY DEF FinalizeExecution, Goto, TypeOK, DriversOK, CursorsOK
<1>2. /\ TokenRowsOK' /\ runStatus' \in RunStatus /\ inst' \in InstStatus
      /\ task' \in [Token -> [Users -> TaskStatus]] /\ log' \in [Token -> LogStatus]
  <2>1. CASE EndInstance("failed", task, log)
    BY <2>1, EndInstanceType DEF TypeOK
  <2>2. CASE /\ runStatus' = "failed"
             /\ tokStatus' = Retire({"queued", "running", "waiting"}, tokStatus, "cancelled")
             /\ UNCHANGED <<ntok, tokNode, parGroup, log, instVars>>
    BY <2>2 DEF Retire, TypeOK, TokenRowsOK, TokStatus, RunStatus, instVars
  <2>3. CASE /\ runStatus' = Outcome(d)
             /\ inst' = IF HasInstance /\ Outcome(d) = "success" THEN "completed" ELSE inst
             /\ UNCHANGED <<tokVars, log, task>>
    <3>1. Outcome(d) \in RunStatus
      BY DEF Outcome, RunStatus
    <3> QED BY <2>3, <3>1 DEF TypeOK, TokenRowsOK, tokVars, InstStatus
  <2>4. CASE UNCHANGED <<runStatus, tokVars, log, instVars>>
    BY <2>4 DEF TypeOK, TokenRowsOK, tokVars, instVars
  <2> QED BY <2>1, <2>2, <2>3, <2>4 DEF FinalizeExecution
<1> QED BY <1>1, <1>2 DEF TypeOK, TokenRowsOK, DriversOK, CursorsOK, history, bounds

LEMMA ReleaseType == ASSUME TypeOK, NEW d \in Drivers, Release(d) PROVE TypeOK'
<1>1. DriversOK'
  <2>1. CASE Goto(d, "fail") /\ UNCHANGED <<myFence, failed, inline, cur, after>>
    BY <2>1 DEF Goto, TypeOK, DriversOK, CursorsOK
  <2> QED BY <2>1, ForgetType DEF Release
<1>2. owner' \in Drivers \cup {NoDriver} /\ leaseLive' \in BOOLEAN
  BY DEF Release, TypeOK
<1> QED BY <1>1, <1>2 DEF Release, TypeOK, DriversOK, CursorsOK, tokVars, history, instVars, bounds

LEMMA FailInstanceType == ASSUME TypeOK, NEW d \in Drivers, FailInstance(d) PROVE TypeOK'
<1>1. DriversOK'
  BY ForgetType DEF FailInstance
<1>2. /\ TokenRowsOK' /\ runStatus' \in RunStatus /\ inst' \in InstStatus
      /\ task' \in [Token -> [Users -> TaskStatus]] /\ log' \in [Token -> LogStatus]
  <2>1. CASE UNCHANGED <<runStatus, tokVars, log, instVars>>
    BY <2>1 DEF TypeOK, TokenRowsOK, tokVars, instVars
  <2>2. CASE EndInstance("failed", task, log)
    BY <2>2, EndInstanceType DEF TypeOK
  <2> QED BY <2>1, <2>2 DEF FailInstance
<1> QED BY <1>1, <1>2 DEF FailInstance, TypeOK, TokenRowsOK, DriversOK, CursorsOK, history, bounds

LEMMA CrashType == ASSUME TypeOK, NEW d \in Drivers, Crash(d) PROVE TypeOK'
<1>1. DriversOK' /\ disruptions' \in Nat
  BY ForgetType DEF Crash, TypeOK
<1> QED BY <1>1 DEF Crash, TypeOK, DriversOK, CursorsOK, runVars, tokVars, history, instVars

-----------------------------------------------------------------------------
\* The steps of a cursor.

\* DriverStep leaves most of the state alone; the rest is what a cursor step may touch.
LEMMA CursorStepFrame ==
    ASSUME TypeOK, DriverStep, inst' = inst, TokenRowsOK', CursorsOK',
           log' \in [Token -> LogStatus], task' \in [Token -> [Users -> TaskStatus]],
           effects' \in [Token -> [Nodes -> Nat]], accepted' = accepted,
           failed' \in [Drivers -> BOOLEAN]
    PROVE  TypeOK'
BY DEF DriverStep, TypeOK, TokenRowsOK, CursorsOK, runVars, bounds

LEMMA SetCursorType ==
    ASSUME CursorsOK, NEW d \in Drivers, NEW t \in Token,
           NEW c \in {"none", "todo", "ready", "http", "failing"}, SetCursor(d, t, c)
    PROVE  CursorsOK'
BY DEF SetCursor, CursorsOK

\* A cursor step that leaves the database alone.
LEMMA CursorOnlyType ==
    ASSUME TypeOK, NEW d \in Drivers, NEW t \in Token,
           UNCHANGED <<tokVars, log, history, instVars, failed>>, DriverStep, CursorsOK'
    PROVE  TypeOK'
BY CursorStepFrame DEF TypeOK, TokenRowsOK, tokVars, history, instVars

LEMMA TypeParts == TypeOK => TokenRowsOK /\ CursorsOK
BY DEF TypeOK, TokenRowsOK, CursorsOK

LEMMA ReadingType ==
    ASSUME TypeOK, NEW d \in Drivers, NEW t \in Token,
           Pull(d, t) \/ Stop(d, t) \/ HttpFenced(d, t) \/ NodeError(d, t)
    PROVE  TypeOK'
<1>1. UNCHANGED <<tokVars, log, history, instVars, failed>> /\ DriverStep
  BY DEF Pull, Stop, HttpFenced, NodeError
<1>2. SetCursor(d, t, "ready") \/ SetCursor(d, t, "failing") \/ DropCursor(d, t)
  BY DEF Pull, Stop, HttpFenced, NodeError
<1>3. CursorsOK'
  BY <1>2, TypeParts, SetCursorType, DropCursorType
<1> QED BY <1>1, <1>3, CursorOnlyType

LEMMA ExecuteType ==
    ASSUME TypeOK, NEW t \in Token, tokNode[t] \in Nodes, Execute(t)
    PROVE  effects' \in [Token -> [Nodes -> Nat]]
BY DEF Execute, TypeOK

LEMMA LogType ==
    ASSUME TypeOK, NEW t \in Token, NEW s \in LogStatus, Log(t, s)
    PROVE  log' \in [Token -> LogStatus]
BY DEF Log, TypeOK

LEMMA FinishType ==
    ASSUME TypeOK, NEW d \in Drivers, NEW t \in Token, Finish(d, t) PROVE TypeOK'
<1>1. CursorsOK' /\ DriverStep
  BY TypeParts, DropCursorType DEF Finish
<1>2. TokenRowsOK'
  BY DEF Finish, TypeOK, TokenRowsOK, TokStatus
<1> QED BY <1>1, <1>2, CursorStepFrame DEF Finish, TypeOK, history, instVars

LEMMA AtNodeInNodes ==
    ASSUME TypeOK, NEW d \in Drivers, NEW t \in Token, NEW kinds, AtNode(d, t, kinds)
    PROVE  tokNode[t] \in Nodes
BY DEF AtNode, TypeOK

LEMMA RunNodeType ==
    ASSUME TypeOK, NEW d \in Drivers, NEW t \in Token, RunNode(d, t) PROVE TypeOK'
<1>1. tokNode[t] \in Nodes
  BY AtNodeInNodes DEF RunNode
<1>2. PICK path \in Exits(tokNode[t]) :
         MoveToken(t, path, "completed", tokNode[t]) /\ MoveCursor(d, t, path)
  BY DEF RunNode
<1>3. path \in Seq(Nodes)
  BY <1>1, ExitsAhead
<1>4. TokenRowsOK'
  BY <1>1, <1>2, <1>3, TypeParts, MoveTokenType DEF TokStatus
<1>5. CursorsOK'
  BY <1>2, <1>3, TypeParts, MoveCursorType DEF TokenRowsOK
<1>6. effects' \in [Token -> [Nodes -> Nat]] /\ log' \in [Token -> LogStatus]
  BY <1>1, ExecuteType, LogType DEF RunNode, LogStatus
<1> QED BY <1>4, <1>5, <1>6, CursorStepFrame DEF RunNode, TypeOK, instVars

LEMMA CallHttpType ==
    ASSUME TypeOK, NEW d \in Drivers, NEW t \in Token, CallHttp(d, t) PROVE TypeOK'
<1>1. tokNode[t] \in Nodes
  BY AtNodeInNodes DEF CallHttp
<1>2. effects' \in [Token -> [Nodes -> Nat]] /\ log' \in [Token -> LogStatus]
  BY <1>1, ExecuteType, LogType DEF CallHttp, LogStatus
<1>3. TokenRowsOK'
  BY DEF CallHttp, TypeOK, TokenRowsOK, TokStatus
<1>4. CursorsOK'
  BY TypeParts, SetCursorType DEF CallHttp
<1> QED BY <1>2, <1>3, <1>4, CursorStepFrame DEF CallHttp, TypeOK, instVars

LEMMA HttpSucceedsType ==
    ASSUME ExecutionInv, NEW d \in Drivers, NEW t \in Token, HttpSucceeds(d, t) PROVE TypeOK'
<1>0. TypeOK /\ RunningIsCall /\ OwnerAgrees
  BY DEF ExecutionInv
<1>1. tokNode[t] \in Nodes
  BY <1>0 DEF HttpSucceeds, Driving, Guard, Holds, OwnerAgrees, RunningIsCall, Ended
<1>2. PICK path \in Exits(tokNode[t]) :
         MoveToken(t, path, "completed", tokNode[t]) /\ MoveCursor(d, t, path)
  BY DEF HttpSucceeds
<1>3. path \in Seq(Nodes)
  BY <1>1, ExitsAhead
<1>4. TokenRowsOK'
  BY <1>0, <1>1, <1>2, <1>3, TypeParts, MoveTokenType DEF TokStatus
<1>5. CursorsOK'
  BY <1>0, <1>2, <1>3, TypeParts, MoveCursorType DEF TokenRowsOK
<1>6. log' \in [Token -> LogStatus]
  BY <1>0, LogType DEF HttpSucceeds, LogStatus
<1> QED BY <1>0, <1>4, <1>5, <1>6, CursorStepFrame DEF HttpSucceeds, TypeOK, instVars, history

LEMMA HttpUncertainType ==
    ASSUME TypeOK, NEW d \in Drivers, NEW t \in Token, HttpUncertain(d, t) PROVE TypeOK'
<1>1. log' \in [Token -> LogStatus]
  BY LogType DEF HttpUncertain, LogStatus
<1>2. TokenRowsOK'
  BY DEF HttpUncertain, TypeOK, TokenRowsOK, TokStatus
<1>3. CursorsOK'
  BY TypeParts, DropCursorType DEF HttpUncertain
<1> QED BY <1>1, <1>2, <1>3, CursorStepFrame DEF HttpUncertain, TypeOK, instVars, history

LEMMA CreateTasksType ==
    ASSUME TypeOK, NEW d \in Drivers, NEW t \in Token, CreateTasks(d, t) PROVE TypeOK'
<1>1. tokNode[t] \in Nodes
  BY AtNodeInNodes DEF CreateTasks
<1>2. effects' \in [Token -> [Nodes -> Nat]] /\ log' \in [Token -> LogStatus]
  BY <1>1, ExecuteType, LogType DEF CreateTasks, LogStatus
<1>3. task' \in [Token -> [Users -> TaskStatus]]
  BY DEF CreateTasks, TypeOK, TaskStatus
<1>4. TokenRowsOK'
  BY DEF CreateTasks, TypeOK, TokenRowsOK, TokStatus
<1>5. CursorsOK'
  BY TypeParts, DropCursorType DEF CreateTasks
<1> QED BY <1>2, <1>3, <1>4, <1>5, CursorStepFrame DEF CreateTasks, TypeOK

LEMMA RecordFailureType ==
    ASSUME TypeOK, NEW d \in Drivers, NEW t \in Token, RecordFailure(d, t) PROVE TypeOK'
<1>1. CursorsOK' /\ failed' \in [Drivers -> BOOLEAN]
  BY TypeParts, DropCursorType DEF RecordFailure, TypeOK
<1>2. tokStatus' \in [Token -> TokStatus]
  BY DEF RecordFailure, TypeOK, TokStatus
<1>3. log' \in [Token -> LogStatus]
  BY DEF RecordFailure, Log, TypeOK, LogStatus
<1>4. TokenRowsOK'
  BY <1>2 DEF RecordFailure, TypeOK, TokenRowsOK
<1> QED BY <1>1, <1>3, <1>4, CursorStepFrame DEF RecordFailure, TypeOK, instVars, history

LEMMA TypeStep == ExecutionInv /\ [Next]_vars => TypeOK'
<1> SUFFICES ASSUME ExecutionInv, [Next]_vars PROVE TypeOK'
  OBVIOUS
<1>0. TypeOK
  BY DEF ExecutionInv
<1>1. ASSUME NEW d \in Drivers, WorkerPick(d) \/ Drive(d) \/ Crash(d) PROVE TypeOK'
  <2>1. ASSUME NEW t \in Token, CursorStep(d, t) PROVE TypeOK'
    BY <1>0, <2>1, ReadingType, FinishType, RunNodeType, CallHttpType, HttpSucceedsType,
       HttpUncertainType, CreateTasksType, RecordFailureType DEF CursorStep
  <2> QED BY <1>0, <1>1, <2>1, WorkerPickType, CrashType, RecoverType, ClaimRunType,
             ClaimNothingType, LoadType, FinalizeExecutionType, ReleaseType, FailInstanceType
          DEF Drive
<1>2. LeaseRunsOut \/ LeaseLapses \/ RecoverTick => TypeOK'
  BY <1>0, LeaseType, RecoverTickType
<1>3. Decide \/ Pause \/ Resume \/ AcceptRetry \/ CancelRun => TypeOK'
  BY <1>0, ApproveType, RejectType, PauseType, ResumeType, AcceptRetryType, CancelRunType
     DEF Decide
<1>4. CASE UNCHANGED vars
  BY <1>0, <1>4 DEF vars, TypeOK, runVars, tokVars, history, instVars, drvVars, bounds
<1> QED BY <1>1, <1>2, <1>3, <1>4 DEF Next

-----------------------------------------------------------------------------
(* The rows of the tokens, their logs and what they have done.             *)

TokensInv ==
    /\ Born /\ RunningIsCall /\ WaitingIsSomewhere
    /\ VisitsAreBehind /\ QueuedIsFresh /\ AtMostOnceEffect

LEMMA TokensUnchanged ==
    ASSUME TokensInv, UNCHANGED <<tokVars, log, history>>
    PROVE  TokensInv'
BY DEF TokensInv, Born, RunningIsCall, WaitingIsSomewhere, VisitsAreBehind, QueuedIsFresh,
       AtMostOnceEffect, Tokens, tokVars, history

\* A token may be put aside, whatever its state: nothing is claimed of such a token.
Aside == {"completed", "failed", "cancelled", "needs_attention"}

LEMMA TokensPutAside ==
    ASSUME TypeOK, TokensInv, UNCHANGED <<ntok, tokNode, history>>,
           tokStatus' \in [Token -> TokStatus],
           \A t \in Token :
              \/ tokStatus'[t] = tokStatus[t] /\ (tokStatus[t] = "running" => log'[t] = log[t])
              \/ tokStatus[t] # "none" /\ tokStatus'[t] \in Aside
    PROVE  TokensInv'
<1>1. Born'
  BY DEF TokensInv, Born, Aside, history, TypeOK, Token
<1>2. RunningIsCall' /\ WaitingIsSomewhere'
  BY DEF TokensInv, RunningIsCall, WaitingIsSomewhere, Aside
<1>3. VisitsAreBehind' /\ AtMostOnceEffect'
  BY DEF TokensInv, VisitsAreBehind, AtMostOnceEffect, history
<1>4. QueuedIsFresh'
  BY DEF TokensInv, QueuedIsFresh, Aside, history
<1> QED BY <1>1, <1>2, <1>3, <1>4 DEF TokensInv

LEMMA Numbers ==
    ASSUME TypeOK
    PROVE  /\ \A n \in Nodes : Rank[n] \in Nat /\ n # NoNode
           /\ \A t \in Token, n \in Nodes : effects[t][n] \in Nat /\ accepted[t][n] \in Nat
           /\ ntok \in Nat /\ MaxTokens \in Nat
<1>1. \A n \in Nodes : Rank[n] \in Nat /\ n # NoNode
  BY GraphAssumption
<1>2. \A t \in Token, n \in Nodes : effects[t][n] \in Nat /\ accepted[t][n] \in Nat
  BY DEF TypeOK
<1>3. MaxTokens \in Nat /\ ntok \in Nat
  BY BoundAssumption DEF TypeOK, Token
<1> QED BY <1>1, <1>2, <1>3

\* An existing token moves along an edge, ends or splits; its last visit may be new.
LEMMA TokensMove ==
    ASSUME TypeOK, TokensInv, NEW t \in Token, tokNode[t] \in Nodes, tokStatus[t] # "none",
           NEW path \in Exits(tokNode[t]),
           NEW endStatus \in {"queued", "completed"}, NEW endNode \in {tokNode[t], NoNode},
           endStatus = "queued" => endNode = NoNode,
           MoveToken(t, path, endStatus, endNode), Log(t, "success"),
           UNCHANGED effects \/ (tokStatus[t] = "queued" /\ Execute(t)), UNCHANGED accepted
    PROVE  TokensInv'
<1>1. /\ path \in Seq(Nodes)
      /\ \A i \in 1 .. Len(path) : path[i] \in Nodes /\ Rank[tokNode[t]] < Rank[path[i]]
  BY ExitsAhead
<1>2. t \in Token /\ t <= ntok
  BY DEF TokensInv, Born, TypeOK, Token
<1>3. /\ \A n \in Nodes : Rank[n] \in Nat /\ n # NoNode
      /\ \A k \in Token, n \in Nodes : effects[k][n] \in Nat /\ accepted[k][n] \in Nat
      /\ ntok \in Nat /\ MaxTokens \in Nat /\ Len(path) \in Nat
  BY <1>1, Numbers, LenProperties
<1>4. \A k \in Token, n \in Nodes :
         \/ effects'[k][n] = effects[k][n]
         \/ /\ k = t /\ n = tokNode[t] /\ effects[k][n] <= accepted[k][n]
            /\ effects'[k][n] = effects[k][n] + 1
  BY <1>3 DEF TokensInv, QueuedIsFresh, Execute, TypeOK
<1>5. AtMostOnceEffect'
  BY <1>3, <1>4 DEF TokensInv, AtMostOnceEffect
\* What is known of the visits before the token moves.
<1>6. \A k \in Token, n \in Nodes : effects'[k][n] > 0 =>
         \/ tokNode[k] = NoNode \/ Rank[n] <= Rank[tokNode[k]]
  BY <1>3, <1>4 DEF TokensInv, VisitsAreBehind
<1>7. \A k \in Token, n \in Nodes : k # t => effects'[k][n] = effects[k][n]
  BY <1>4
<1>8. CASE EndToken(t, endStatus, endNode)
  <2>1. tokStatus' = [tokStatus EXCEPT ![t] = endStatus] /\ tokNode' = [tokNode EXCEPT ![t] = endNode]
        /\ UNCHANGED <<ntok, accepted>>
    BY <1>8 DEF EndToken
  <2>2. Born'
    BY <1>2, <1>7, <2>1 DEF TokensInv, Born, TypeOK, Token
  <2>3. RunningIsCall' /\ WaitingIsSomewhere'
    BY <2>1 DEF TokensInv, RunningIsCall, WaitingIsSomewhere, Log, TypeOK
  <2>4. VisitsAreBehind'
    BY <1>6, <2>1 DEF VisitsAreBehind, TypeOK
  <2>5. QueuedIsFresh'
    BY <1>7, <2>1 DEF TokensInv, QueuedIsFresh, TypeOK
  <2> QED BY <1>5, <2>2, <2>3, <2>4, <2>5 DEF TokensInv
<1>9. CASE Len(path) = 1 /\ EndToken(t, "queued", path[1])
  <2>1. /\ tokStatus' = [tokStatus EXCEPT ![t] = "queued"]
        /\ tokNode' = [tokNode EXCEPT ![t] = path[1]]
        /\ UNCHANGED <<ntok, accepted>>
    BY <1>9 DEF EndToken
  <2>2. path[1] \in Nodes /\ Rank[tokNode[t]] < Rank[path[1]]
    BY <1>1, <1>9
  <2>3. Born'
    BY <1>2, <1>7, <2>1 DEF TokensInv, Born, TypeOK, Token
  <2>4. RunningIsCall' /\ WaitingIsSomewhere'
    BY <2>1 DEF TokensInv, RunningIsCall, WaitingIsSomewhere, Log, TypeOK
  <2>5. VisitsAreBehind'
    <3>1. \A n \in Nodes : effects'[t][n] > 0 => Rank[n] <= Rank[path[1]]
      BY <1>3, <1>6, <2>2
    <3>2. tokNode'[t] = path[1] /\ \A k \in Token : k # t => tokNode'[k] = tokNode[k]
      BY <2>1 DEF TypeOK
    <3> QED BY <1>6, <3>1, <3>2 DEF VisitsAreBehind
  <2>6. effects'[t][path[1]] = 0
    <3>1. effects'[t][path[1]] \in Nat
      BY <1>3, <1>4, <2>2
    <3>2. ~(effects'[t][path[1]] > 0)
      BY <1>3, <1>6, <2>2
    <3> QED BY <3>1, <3>2
  <2>7. QueuedIsFresh'
    BY <1>7, <2>1, <2>2, <2>6 DEF TokensInv, QueuedIsFresh, TypeOK
  <2> QED BY <1>5, <2>3, <2>4, <2>5, <2>7 DEF TokensInv
<1>10. CASE Len(path) > 1 /\ SplitToken(t, path)
  <2>1. \A k \in Kids(path) : k \in Token /\ k > ntok /\ k # t /\ path[k - ntok] \in Nodes
    <3>1. SUFFICES ASSUME NEW k \in Kids(path)
                   PROVE  k \in Token /\ k > ntok /\ k # t /\ path[k - ntok] \in Nodes
      OBVIOUS
    <3>2. k \in Token /\ k \in Nat /\ t \in Nat /\ ntok < k /\ k <= ntok + Len(path)
      BY DEF Kids, Token
    <3>3. k - ntok \in 1 .. Len(path)
      BY <1>3, <3>2
    <3> QED BY <1>1, <1>2, <1>3, <3>2, <3>3
  <2>2. \A k \in Token : k <= ntok' <=> k <= ntok \/ k \in Kids(path)
    BY <1>10 DEF SplitToken, Kids, TypeOK, Token
  <2>3. \A k \in Token : tokStatus'[k] = IF k = t THEN "completed"
                                          ELSE IF k \in Kids(path) THEN "queued" ELSE tokStatus[k]
    BY <1>10 DEF SplitToken
  <2>4. \A k \in Token : tokNode'[k] = IF k \in Kids(path) THEN path[k - ntok] ELSE tokNode[k]
    BY <1>10 DEF SplitToken
  <2>5. \A k \in Kids(path), n \in Nodes : effects'[k][n] = 0 /\ accepted'[k][n] = 0
    BY <1>7, <2>1 DEF TokensInv, Born
  <2>6. Born'
    <3>1. SUFFICES ASSUME NEW k \in Token
                   PROVE  /\ k <= ntok' => tokStatus'[k] # "none"
                          /\ ~(k <= ntok') => /\ tokStatus'[k] = "none"
                                              /\ \A n \in Nodes : effects'[k][n] = 0 /\ accepted'[k][n] = 0
      BY <1>3, <1>10 DEF Born, SplitToken, Token
    <3>2. k \in Nat
      BY DEF Token
    <3>3. CASE k = t \/ k \in Kids(path)
      BY <1>2, <2>2, <2>3, <3>3
    <3>4. CASE k # t /\ k \notin Kids(path)
      BY <1>3, <1>7, <2>2, <2>3, <3>2, <3>4 DEF TokensInv, Born
    <3> QED BY <3>3, <3>4
  <2>7. RunningIsCall' /\ WaitingIsSomewhere'
    <3>1. \A k \in Token : tokStatus'[k] \in {"running", "waiting"} =>
             /\ k # t /\ tokStatus'[k] = tokStatus[k] /\ tokNode'[k] = tokNode[k] /\ log'[k] = log[k]
      BY <2>3, <2>4 DEF Log, TypeOK
    <3> QED BY <3>1 DEF TokensInv, RunningIsCall, WaitingIsSomewhere
  <2>8. VisitsAreBehind'
    BY <1>6, <2>4, <2>5 DEF VisitsAreBehind
  <2>9. QueuedIsFresh'
    <3>1. SUFFICES ASSUME NEW k \in Token, tokStatus'[k] = "queued", tokNode'[k] # NoNode
                   PROVE  effects'[k][tokNode'[k]] <= accepted'[k][tokNode'[k]]
      BY DEF QueuedIsFresh
    <3>2. CASE k \in Kids(path)
      BY <2>1, <2>4, <2>5, <3>2
    <3>3. CASE k \notin Kids(path)
      <4>1. k # t /\ tokStatus[k] = "queued" /\ tokNode'[k] = tokNode[k] /\ tokNode[k] \in Nodes
        BY <2>3, <2>4, <3>1, <3>3 DEF TypeOK
      <4> QED BY <1>7, <3>1, <4>1 DEF TokensInv, QueuedIsFresh
    <3> QED BY <3>2, <3>3
  <2> QED BY <1>5, <2>6, <2>7, <2>8, <2>9 DEF TokensInv
<1> QED BY <1>8, <1>9, <1>10 DEF MoveToken

LEMMA InvParts == ExecutionInv <=> TypeOK /\ TokensInv /\ OwnerAgrees /\ CursorsAreDriven
BY DEF ExecutionInv, TokensInv

LEMMA EndInstanceTokens ==
    ASSUME ExecutionInv, NEW s, NEW tasks, NEW logs, EndInstance(s, tasks, logs),
           UNCHANGED history
    PROVE  TokensInv'
<1>0. TypeOK /\ TokensInv /\ OwnerAgrees /\ CursorsAreDriven
  BY InvParts
<1>1. tokStatus' \in [Token -> TokStatus]
  BY <1>0 DEF EndInstance, Retire, TypeOK, TokStatus
<1>2. \A t \in Token : \/ tokStatus'[t] = tokStatus[t] /\ tokStatus[t] # "running"
                       \/ tokStatus[t] # "none" /\ tokStatus'[t] \in Aside
  BY <1>0 DEF EndInstance, Retire, TypeOK, TokStatus, Aside
<1> QED BY <1>1, <1>2, <1>0, TokensPutAside DEF EndInstance

LEMMA RecoverRunTokens == ASSUME ExecutionInv, RecoverRun PROVE TokensInv'
<1>0. TypeOK /\ TokensInv
  BY InvParts
<1>1. tokStatus' \in [Token -> TokStatus] /\ UNCHANGED <<ntok, tokNode, history>>
  BY <1>0, RecoverRunType DEF RecoverRun, RunOK, TokenRowsOK
<1>2. \A t \in Token : tokStatus[t] = "running" => t \in Uncertain
  BY <1>0 DEF TokensInv, RunningIsCall, Uncertain, Tokens
<1>3. \A t \in Token :
         \/ tokStatus'[t] = tokStatus[t] /\ tokStatus[t] # "running"
         \/ tokStatus[t] # "none" /\ tokStatus'[t] \in Aside
  <2>1. CASE tokStatus' = Retire(TokStatus \ {"none", "completed", "cancelled"}, tokStatus, "failed")
    BY <1>0, <2>1 DEF Retire, TypeOK, TokStatus, Aside
  <2>2. CASE tokStatus' = [t \in Token |-> IF t \in Uncertain THEN "needs_attention"
                                           ELSE IF tokStatus[t] = "running" THEN "queued"
                                           ELSE tokStatus[t]]
    BY <1>2, <2>2 DEF Aside, Uncertain, Tokens
  <2> QED BY <2>1, <2>2 DEF RecoverRun
<1> QED BY <1>0, <1>1, <1>3, TokensPutAside

LEMMA FinishTokens ==
    ASSUME ExecutionInv, NEW d \in Drivers, NEW t \in Token, Finish(d, t) PROVE TokensInv'
<1>0. TypeOK /\ TokensInv /\ OwnerAgrees /\ CursorsAreDriven
  BY InvParts
<1>1. tokStatus[t] # "none"
  BY <1>0 DEF Finish, Driving, CursorsAreDriven, TokensInv, Born
<1>2. tokStatus' \in [Token -> TokStatus]
  BY <1>0 DEF Finish, TypeOK, TokStatus
<1>3. \A k \in Token : \/ tokStatus'[k] = tokStatus[k]
                       \/ k = t /\ tokStatus'[k] \in Aside
  BY <1>0 DEF Finish, TypeOK, Aside
<1> QED BY <1>1, <1>2, <1>3, <1>0, TokensPutAside DEF Finish

LEMMA HttpUncertainTokens ==
    ASSUME ExecutionInv, NEW d \in Drivers, NEW t \in Token, HttpUncertain(d, t)
    PROVE  TokensInv'
<1>0. TypeOK /\ TokensInv /\ OwnerAgrees /\ CursorsAreDriven
  BY InvParts
<1>1. tokStatus[t] # "none"
  BY <1>0 DEF HttpUncertain, Driving, CursorsAreDriven, TokensInv, Born
<1>2. tokStatus' \in [Token -> TokStatus]
  BY <1>0 DEF HttpUncertain, TypeOK, TokStatus
<1>3. \A k \in Token : \/ k # t /\ tokStatus'[k] = tokStatus[k] /\ log'[k] = log[k]
                       \/ k = t /\ tokStatus'[k] \in Aside
  BY <1>0 DEF HttpUncertain, Log, TypeOK, Aside
<1> QED BY <1>1, <1>2, <1>3, <1>0, TokensPutAside DEF HttpUncertain

LEMMA RecordFailureTokens ==
    ASSUME ExecutionInv, NEW d \in Drivers, NEW t \in Token, RecordFailure(d, t)
    PROVE  TokensInv'
<1>0. TypeOK /\ TokensInv /\ OwnerAgrees /\ CursorsAreDriven
  BY InvParts
<1>1. tokStatus[t] # "none"
  BY <1>0 DEF RecordFailure, Driving, CursorsAreDriven, TokensInv, Born
<1>2. tokStatus' \in [Token -> TokStatus]
  BY <1>0 DEF RecordFailure, TypeOK, TokStatus
<1>3. \A k \in Token : \/ tokStatus'[k] = tokStatus[k] /\ log'[k] = log[k]
                       \/ k = t /\ tokStatus'[k] \in Aside
  BY <1>0 DEF RecordFailure, Log, TypeOK, Aside
<1> QED BY <1>1, <1>2, <1>3, <1>0, TokensPutAside DEF RecordFailure

LEMMA FinalizeExecutionTokens ==
    ASSUME ExecutionInv, NEW d \in Drivers, FinalizeExecution(d) PROVE TokensInv'
<1>0. TypeOK /\ TokensInv /\ OwnerAgrees /\ CursorsAreDriven
  BY InvParts
<1>1. UNCHANGED history
  BY DEF FinalizeExecution
<1>2. CASE EndInstance("failed", task, log)
  BY <1>1, <1>2, EndInstanceTokens
<1>3. CASE /\ tokStatus' = Retire({"queued", "running", "waiting"}, tokStatus, "cancelled")
           /\ UNCHANGED <<ntok, tokNode, parGroup, log, instVars>>
  <2>1. tokStatus' \in [Token -> TokStatus]
    BY <1>3, <1>0 DEF Retire, TypeOK, TokStatus
  <2>2. \A t \in Token : \/ tokStatus'[t] = tokStatus[t]
                         \/ tokStatus[t] # "none" /\ tokStatus'[t] \in Aside
    BY <1>3 DEF Retire, Aside
  <2> QED BY <1>1, <1>3, <2>1, <2>2, <1>0, TokensPutAside
<1>4. CASE UNCHANGED <<tokVars, log>>
  BY <1>1, <1>4, <1>0, TokensUnchanged
<1> QED BY <1>2, <1>3, <1>4 DEF FinalizeExecution

LEMMA CancelRunTokens == ASSUME ExecutionInv, CancelRun PROVE TokensInv'
<1>0. TypeOK /\ TokensInv /\ OwnerAgrees /\ CursorsAreDriven
  BY InvParts
<1>1. tokStatus' \in [Token -> TokStatus]
  BY <1>0 DEF CancelRun, Retire, TypeOK, TokStatus
<1>2. \A t \in Token : \/ tokStatus'[t] = tokStatus[t] /\ tokStatus[t] # "running"
                       \/ tokStatus[t] # "none" /\ tokStatus'[t] \in Aside
  BY <1>0 DEF CancelRun, Retire, TypeOK, TokStatus, Aside
<1> QED BY <1>1, <1>2, <1>0, TokensPutAside DEF CancelRun

LEMMA RunNodeTokens ==
    ASSUME ExecutionInv, NEW d \in Drivers, NEW t \in Token, RunNode(d, t) PROVE TokensInv'
<1>0. TypeOK /\ TokensInv /\ OwnerAgrees
  BY InvParts
<1>1. tokNode[t] \in Nodes
  BY <1>0, AtNodeInNodes DEF RunNode
<1>2. tokStatus[t] = "queued"
  BY <1>0 DEF RunNode, AtNode, Driving, MayStep, Guard, Holds, OwnerAgrees, Ended
<1>3. PICK path \in Exits(tokNode[t]) : MoveToken(t, path, "completed", tokNode[t])
  BY DEF RunNode
<1>4. Log(t, "success") /\ Execute(t) /\ UNCHANGED accepted
  BY DEF RunNode
<1> QED BY <1>0, <1>1, <1>2, <1>3, <1>4, TokensMove

LEMMA HttpSucceedsTokens ==
    ASSUME ExecutionInv, NEW d \in Drivers, NEW t \in Token, HttpSucceeds(d, t)
    PROVE  TokensInv'
<1>0. TypeOK /\ TokensInv /\ OwnerAgrees
  BY InvParts
<1>1. tokStatus[t] = "running" /\ tokNode[t] \in Nodes
  BY <1>0 DEF HttpSucceeds, Driving, Guard, Holds, OwnerAgrees, TokensInv, RunningIsCall, Ended
<1>2. PICK path \in Exits(tokNode[t]) : MoveToken(t, path, "completed", tokNode[t])
  BY DEF HttpSucceeds
<1>3. Log(t, "success") /\ UNCHANGED effects /\ UNCHANGED accepted
  BY DEF HttpSucceeds, history
<1> QED BY <1>0, <1>1, <1>2, <1>3, TokensMove

LEMMA ApproveTokens ==
    ASSUME ExecutionInv, NEW u \in Users, NEW t \in Token, Approve(u, t) PROVE TokensInv'
<1>0. TypeOK /\ TokensInv
  BY InvParts
<1>1. tokStatus[t] = "waiting" /\ tokNode[t] \in Nodes
  BY <1>0 DEF Approve, Decidable, TokensInv, WaitingIsSomewhere
<1>2. UNCHANGED effects /\ UNCHANGED accepted
  BY DEF Approve, history
<1>3. CASE UNCHANGED <<tokVars, log>>
  BY <1>0, <1>2, <1>3, TokensUnchanged DEF history
<1>4. CASE Log(t, "success") /\ \E path \in Exits(tokNode[t]) : MoveToken(t, path, "queued", NoNode)
  BY <1>0, <1>1, <1>2, <1>4, TokensMove
<1> QED BY <1>3, <1>4 DEF Approve

\* A visit that is left standing: the call has been sent, the people have been asked.
LEMMA StandingTokens ==
    ASSUME ExecutionInv, NEW t \in Token, tokNode[t] \in Nodes, tokStatus[t] = "queued",
           NEW s \in {"running", "waiting"}, tokStatus' = [tokStatus EXCEPT ![t] = s], Log(t, s),
           s = "running" => Kind[tokNode[t]] = "http",
           Execute(t), UNCHANGED <<ntok, tokNode, accepted>>
    PROVE  TokensInv'
<1>0. TypeOK /\ TokensInv
  BY InvParts
<1>1. \A k \in Token, n \in Nodes :
         \/ effects'[k][n] = effects[k][n]
         \/ /\ k = t /\ n = tokNode[t] /\ effects[k][n] <= accepted[k][n]
            /\ effects'[k][n] = effects[k][n] + 1
  BY <1>0, GraphAssumption DEF TokensInv, QueuedIsFresh, Execute, TypeOK
<1>2. Born'
  BY <1>0, <1>1 DEF TokensInv, Born, TypeOK, Token
<1>3. RunningIsCall' /\ WaitingIsSomewhere'
  BY <1>0 DEF TokensInv, RunningIsCall, WaitingIsSomewhere, Log, TypeOK
<1>4. VisitsAreBehind'
  BY <1>0, <1>1, Numbers DEF TokensInv, VisitsAreBehind
<1>5. QueuedIsFresh'
  BY <1>0, <1>1 DEF TokensInv, QueuedIsFresh, TypeOK
<1>6. AtMostOnceEffect'
  BY <1>0, <1>1, Numbers DEF TokensInv, AtMostOnceEffect
<1> QED BY <1>2, <1>3, <1>4, <1>5, <1>6 DEF TokensInv

LEMMA CallHttpTokens ==
    ASSUME ExecutionInv, NEW d \in Drivers, NEW t \in Token, CallHttp(d, t) PROVE TokensInv'
<1>0. TypeOK /\ TokensInv /\ OwnerAgrees /\ CursorsAreDriven
  BY InvParts
<1>1. tokNode[t] \in Nodes /\ Kind[tokNode[t]] = "http"
  BY <1>0, AtNodeInNodes DEF CallHttp, AtNode
<1>2. tokStatus[t] = "queued"
  BY <1>0 DEF CallHttp, AtNode, Driving, MayStep, Guard, Holds, OwnerAgrees, Ended
<1> QED BY <1>1, <1>2, StandingTokens DEF CallHttp

LEMMA CreateTasksTokens ==
    ASSUME ExecutionInv, NEW d \in Drivers, NEW t \in Token, CreateTasks(d, t) PROVE TokensInv'
<1>0. TypeOK /\ TokensInv /\ OwnerAgrees /\ CursorsAreDriven
  BY InvParts
<1>1. tokNode[t] \in Nodes
  BY <1>0, AtNodeInNodes DEF CreateTasks
<1>2. tokStatus[t] = "queued"
  BY <1>0 DEF CreateTasks, AtNode, Driving, MayStep, Guard, Holds, OwnerAgrees, Ended
<1> QED BY <1>1, <1>2, StandingTokens DEF CreateTasks

LEMMA AcceptRetryTokens == ASSUME ExecutionInv, AcceptRetry PROVE TokensInv'
<1>0. TypeOK /\ TokensInv
  BY InvParts
<1>1. UNCHANGED <<ntok, tokNode, log, effects>>
  BY DEF AcceptRetry
<1>2. \A t \in Token : \/ tokStatus[t] = "needs_attention" /\ tokStatus'[t] = "queued"
                       \/ tokStatus[t] # "needs_attention" /\ tokStatus'[t] = tokStatus[t]
  BY DEF AcceptRetry, Retire
<1>3. \A t \in Token, n \in Nodes : accepted'[t][n] =
         accepted[t][n] + IF tokStatus[t] = "needs_attention" /\ n = tokNode[t] THEN 1 ELSE 0
  BY DEF AcceptRetry, Tokens
<1>4. Born'
  <2>1. \A t \in Token : t > ntok => tokStatus[t] = "none"
    BY <1>0 DEF TokensInv, Born
  <2>2. \A t \in Token, n \in Nodes : t > ntok => accepted'[t][n] = accepted[t][n]
    BY <1>0, <1>3, <2>1, Numbers
  <2> QED BY <1>0, <1>1, <1>2, <2>1, <2>2 DEF TokensInv, Born
<1>5. RunningIsCall' /\ WaitingIsSomewhere' /\ VisitsAreBehind'
  BY <1>0, <1>1, <1>2 DEF TokensInv, RunningIsCall, WaitingIsSomewhere, VisitsAreBehind
<1>6. AtMostOnceEffect'
  <2>1. \A t \in Token, n \in Nodes : /\ accepted'[t][n] \in Nat
                                       /\ accepted[t][n] <= accepted'[t][n]
    BY <1>0, <1>3, Numbers
  <2> QED BY <1>0, <1>1, <2>1, Numbers DEF TokensInv, AtMostOnceEffect
<1>7. QueuedIsFresh'
  <2>1. SUFFICES ASSUME NEW t \in Token, tokStatus'[t] = "queued", tokNode[t] # NoNode
                 PROVE  effects[t][tokNode[t]] <= accepted'[t][tokNode[t]]
    BY <1>1 DEF QueuedIsFresh
  <2>2. tokNode[t] \in Nodes
    BY <1>0, <2>1 DEF TypeOK
  <2>3. CASE tokStatus[t] = "needs_attention"
    BY <1>0, <1>3, <2>2, <2>3, Numbers DEF TokensInv, AtMostOnceEffect
  <2>4. CASE tokStatus[t] # "needs_attention"
    BY <1>0, <1>2, <1>3, <2>1, <2>2, <2>4, Numbers DEF TokensInv, QueuedIsFresh
  <2> QED BY <2>3, <2>4
<1> QED BY <1>4, <1>5, <1>6, <1>7 DEF TokensInv

-----------------------------------------------------------------------------
(* The cursors of the owner agree with the tokens.                         *)

CursorsInv == OwnerAgrees /\ CursorsAreDriven

\* Steps that leave the run's rows and every cursor alone.
LEMMA CursorsUnchanged ==
    ASSUME CursorsInv, UNCHANGED <<owner, fence, tokVars, myFence, pc, cur>>,
           runStatus \in Ended => runStatus' \in Ended
    PROVE  CursorsInv'
BY DEF CursorsInv, OwnerAgrees, CursorsAreDriven, Owns, tokVars

\* Once a run has ended, or has lost its owner, nothing is said of a token any more.
LEMMA CursorsOfNobody ==
    ASSUME TypeOK, CursorsInv, UNCHANGED <<ntok, pc, cur>>,
           runStatus' \in Ended \/ owner' = NoDriver
    PROVE  CursorsInv'
BY RunAssumption DEF CursorsInv, OwnerAgrees, CursorsAreDriven, Owns

\* A step of driver d that leaves it without cursors: no other driver gains the run,
\* and if one keeps it, its tokens have not moved.
LEMMA DriverWithoutCursors ==
    ASSUME TypeOK, CursorsInv, NEW d \in Drivers, UNCHANGED ntok,
           \A e \in Drivers \ {d} : pc'[e] = pc[e] /\ cur'[e] = cur[e],
           \A t \in Token : cur'[d][t] = "none",
           \A e \in Drivers \ {d} : Owns(e)' /\ runStatus' \notin Ended =>
              Owns(e) /\ runStatus \notin Ended /\ UNCHANGED tokStatus
    PROVE  CursorsInv'
BY DEF CursorsInv, OwnerAgrees, CursorsAreDriven

LEMMA PeopleCursors ==
    ASSUME ExecutionInv, Decide \/ Pause \/ Resume \/ AcceptRetry \/ CancelRun
    PROVE  CursorsInv'
<1>0. TypeOK /\ TokensInv /\ CursorsInv
  BY InvParts DEF CursorsInv
\* A handler that goes on to drive was idle before, and had no cursor.
<1>1. ASSUME DriveInline PROVE /\ UNCHANGED <<myFence, cur>>
                               /\ \A d \in Drivers : pc[d] = "drive" => pc'[d] = "drive"
  BY <1>0, <1>1 DEF DriveInline, Goto, TypeOK
<1>2. ASSUME NEW u \in Users, NEW t \in Token, Approve(u, t) PROVE CursorsInv'
  <2>1. UNCHANGED <<owner, fence>> /\ tokStatus[t] = "waiting"
        /\ runStatus \notin Ended
    BY <1>2 DEF Approve, Decidable, Ended
  <2>2. CASE UNCHANGED <<runStatus, tokVars, log, drvVars>>
    BY <1>0, <2>1, <2>2, CursorsUnchanged DEF drvVars
  <2>3. CASE /\ DriveInline
             /\ \E path \in Exits(tokNode[t]) : MoveToken(t, path, "queued", NoNode)
    <3>1. PICK path \in Exits(tokNode[t]) : MoveToken(t, path, "queued", NoNode)
      BY <2>3
    <3>2. path \in Seq(Nodes)
      BY <1>0, <2>1, ExitsAhead DEF TokensInv, WaitingIsSomewhere
    <3>3. Len(path) \in Nat
      BY <3>2, LenProperties
    <3>4. /\ ntok' \in Nat /\ ntok <= ntok'
          /\ \A k \in Token : k # t /\ k <= ntok => tokStatus'[k] = tokStatus[k]
      BY <1>0, <3>1, <3>3, Numbers DEF MoveToken, EndToken, SplitToken, Kids, TypeOK, Token
    <3>5. CursorsAreDriven'
      BY <1>0, <1>1, <2>3, <3>4, Numbers DEF CursorsInv, CursorsAreDriven, Token
    <3>6. OwnerAgrees'
      BY <1>0, <1>1, <2>1, <2>3, <3>4 DEF CursorsInv, CursorsAreDriven, OwnerAgrees, Owns
    <3> QED BY <3>5, <3>6 DEF CursorsInv
  <2> QED BY <1>2, <2>2, <2>3 DEF Approve
<1>3. ASSUME NEW u \in Users, NEW t \in Token, Reject(u, t) PROVE CursorsInv'
  <2>1. UNCHANGED <<ntok, pc, cur>> /\ runStatus' \in Ended
    BY <1>3 DEF Reject, EndInstance, drvVars, Ended
  <2> QED BY <1>0, <2>1, CursorsOfNobody
<1>4. CASE Pause
  BY <1>0, <1>4, CursorsUnchanged DEF Pause, SetRunState, Active, Ended, drvVars
<1>5. CASE Resume
  <2>1. DriveInline /\ UNCHANGED <<owner, fence, tokVars>> /\ (runStatus \in Ended => runStatus' \in Ended)
    BY <1>5 DEF Resume, SetRunState, Active, Ended
  <2> QED BY <1>0, <1>1, <2>1 DEF CursorsInv, OwnerAgrees, CursorsAreDriven, Owns, tokVars
<1>6. CASE AcceptRetry
  <2>1. /\ UNCHANGED <<owner, fence, ntok, drvVars>> /\ runStatus \notin Ended
        /\ \A t \in Token : tokStatus[t] \in {"queued", "running"} => tokStatus'[t] = tokStatus[t]
    BY <1>6 DEF AcceptRetry, Retire, Ended
  <2> QED BY <1>0, <2>1 DEF CursorsInv, OwnerAgrees, CursorsAreDriven, Owns, drvVars
<1>7. CASE CancelRun
  <2>1. UNCHANGED <<ntok, pc, cur>> /\ runStatus' \in Ended
    BY <1>7 DEF CancelRun, drvVars, Ended
  <2> QED BY <1>0, <2>1, CursorsOfNobody
<1> QED BY <1>2, <1>3, <1>4, <1>5, <1>6, <1>7 DEF Decide

LEMMA NoCursors ==
    ASSUME CursorsInv, NEW d \in Drivers, pc[d] # "drive" PROVE \A t \in Token : cur[d][t] = "none"
BY DEF CursorsInv, CursorsAreDriven

LEMMA ForgetCursors ==
    ASSUME TypeOK, NEW d \in Drivers, Forget(d)
    PROVE  /\ \A e \in Drivers \ {d} : pc'[e] = pc[e] /\ cur'[e] = cur[e] /\ myFence'[e] = myFence[e]
           /\ \A t \in Token : cur'[d][t] = "none"
BY DEF Forget, Goto, TypeOK

LEMMA OutsideCursors ==
    ASSUME ExecutionInv, NEW d \in Drivers,
           \/ WorkerPick(d) \/ Recover(d) \/ ClaimRun(d) \/ ClaimNothing(d) \/ LoadError(d)
           \/ FinalizeExecution(d) \/ Release(d) \/ FailInstance(d) \/ Crash(d)
    PROVE  CursorsInv'
<1>0. TypeOK /\ CursorsInv
  BY InvParts DEF CursorsInv
<1>1. ASSUME NEW l, Goto(d, l) PROVE \A e \in Drivers \ {d} : pc'[e] = pc[e]
  BY <1>0, <1>1 DEF Goto, TypeOK
<1>2. ASSUME UNCHANGED_DB PROVE UNCHANGED <<runStatus, owner, fence, ntok, tokStatus>>
  BY <1>2 DEF UNCHANGED_DB, runVars, tokVars
<1>3. CASE WorkerPick(d) \/ LoadError(d)
  <2>1. UNCHANGED_DB /\ UNCHANGED <<myFence, cur>> /\ pc[d] # "drive"
        /\ \A e \in Drivers \ {d} : pc'[e] = pc[e]
    BY <1>1, <1>3 DEF WorkerPick, LoadError
  <2>2. \A t \in Token : cur'[d][t] = "none"
    BY <1>0, <2>1, NoCursors
  <2> QED BY <1>0, <1>2, <2>1, <2>2, DriverWithoutCursors DEF Owns
<1>4. CASE Recover(d)
  <2>1. UNCHANGED <<ntok, myFence, cur>> /\ pc[d] # "drive" /\ \A e \in Drivers \ {d} : pc'[e] = pc[e]
    BY <1>1, <1>2, <1>4 DEF Recover, RecoverRun
  <2>2. owner' = NoDriver \/ UNCHANGED <<runStatus, owner, fence, tokStatus>>
    BY <1>2, <1>4 DEF Recover, RecoverRun
  <2>3. \A t \in Token : cur'[d][t] = "none"
    BY <1>0, <2>1, NoCursors
  <2> QED BY <1>0, <2>1, <2>2, <2>3, DriverWithoutCursors, RunAssumption DEF Owns
<1>5. CASE ClaimRun(d)
  <2>1. UNCHANGED <<ntok, cur>> /\ pc[d] # "drive" /\ owner' = d
        /\ \A e \in Drivers \ {d} : pc'[e] = pc[e]
    BY <1>1, <1>5 DEF ClaimRun, tokVars
  <2>2. \A t \in Token : cur'[d][t] = "none"
    BY <1>0, <2>1, NoCursors
  <2> QED BY <1>0, <2>1, <2>2, DriverWithoutCursors DEF Owns
<1>6. CASE ClaimNothing(d) \/ Crash(d)
  <2>1. UNCHANGED <<runStatus, owner, fence, ntok, tokStatus>> /\ Forget(d)
    BY <1>2, <1>6 DEF ClaimNothing, Crash, runVars, tokVars
  <2> QED BY <1>0, <2>1, ForgetCursors, DriverWithoutCursors DEF Owns
<1>7. CASE FinalizeExecution(d)
  <2>1. /\ UNCHANGED <<owner, fence, myFence, ntok, cur>> /\ Live(d) = {}
        /\ \A e \in Drivers \ {d} : pc'[e] = pc[e]
    BY <1>1, <1>7 DEF FinalizeExecution, EndInstance, tokVars
  <2>2. \A t \in Token : cur'[d][t] = "none"
    BY <2>1 DEF Live
  <2>3. Owns(d) \/ UNCHANGED <<runStatus, tokStatus>>
    BY <1>7 DEF FinalizeExecution, Holds, tokVars
  <2> QED BY <1>0, <2>1, <2>2, <2>3, DriverWithoutCursors DEF Owns
<1>8. CASE Release(d)
  <2>1. /\ UNCHANGED <<runStatus, fence, ntok, tokStatus>> /\ pc[d] # "drive"
        /\ owner' \in {owner, NoDriver}
    BY <1>8 DEF Release, tokVars
  <2>2. /\ \A e \in Drivers \ {d} : pc'[e] = pc[e] /\ cur'[e] = cur[e] /\ myFence'[e] = myFence[e]
        /\ \A t \in Token : cur'[d][t] = "none"
    <3>1. CASE Forget(d)
      BY <1>0, <3>1, ForgetCursors
    <3>2. CASE Goto(d, "fail") /\ UNCHANGED <<myFence, failed, inline, cur, after>>
      BY <1>0, <1>1, <2>1, <3>2, NoCursors
    <3> QED BY <1>8, <3>1, <3>2 DEF Release
  <2> QED BY <1>0, <2>1, <2>2, DriverWithoutCursors, RunAssumption DEF Owns
<1>9. CASE FailInstance(d)
  <2>1. UNCHANGED <<owner, fence, ntok>> /\ Forget(d)
    BY <1>9 DEF FailInstance, EndInstance, tokVars
  <2>2. runStatus' \in Ended \/ UNCHANGED <<runStatus, tokStatus>>
    BY <1>9 DEF FailInstance, EndInstance, tokVars, Ended
  <2> QED BY <1>0, <2>1, <2>2, ForgetCursors, DriverWithoutCursors DEF Owns
<1> QED BY <1>3, <1>4, <1>5, <1>6, <1>7, <1>8, <1>9

LEMMA LoadCursors == ASSUME ExecutionInv, NEW d \in Drivers, LoadTokens(d) PROVE CursorsInv'
<1>0. TypeOK /\ TokensInv /\ CursorsInv
  BY InvParts DEF CursorsInv
<1>1. /\ UNCHANGED <<runStatus, owner, fence, myFence, ntok, tokStatus>>
      /\ pc' = [pc EXCEPT ![d] = "drive"]
      /\ cur' = [cur EXCEPT ![d] = [t \in Token |->
                    IF t \in Tokens({"queued"}) THEN "todo" ELSE "none"]]
  BY DEF LoadTokens, Goto, UNCHANGED_DB, runVars, tokVars
<1>2. \A t \in Tokens({"queued"}) : t <= ntok
  BY <1>0, Numbers DEF Tokens, TokensInv, Born, Token
<1>3. CursorsAreDriven'
  BY <1>0, <1>1, <1>2 DEF CursorsInv, CursorsAreDriven, TypeOK
<1>4. OwnerAgrees'
  BY <1>0, <1>1 DEF CursorsInv, OwnerAgrees, Owns, TypeOK
<1> QED BY <1>3, <1>4 DEF CursorsInv

LEMMA LeaseCursors ==
    ASSUME ExecutionInv, LeaseRunsOut \/ LeaseLapses \/ RecoverTick PROVE CursorsInv'
<1>0. TypeOK /\ CursorsInv
  BY InvParts DEF CursorsInv
<1>1. CASE LeaseRunsOut \/ LeaseLapses
  BY <1>0, <1>1, CursorsUnchanged DEF LeaseRunsOut, LeaseLapses, drvVars
<1>2. CASE RecoverTick
  <2>1. owner' = NoDriver /\ UNCHANGED <<ntok, pc, cur>>
    BY <1>2 DEF RecoverTick, RecoverRun, drvVars
  <2> QED BY <1>0, <2>1, CursorsOfNobody
<1> QED BY <1>1, <1>2

\* A step of one cursor that stays on its token.  Only the owner changes the token.
LEMMA OneCursor ==
    ASSUME TypeOK, CursorsInv, NEW d \in Drivers, NEW t \in Token, cur[d][t] # "none",
           DriverStep, UNCHANGED ntok, Owns(d) \/ UNCHANGED tokStatus,
           \A k \in Token : k # t => tokStatus'[k] = tokStatus[k],
           \A e \in Drivers, k \in Token : e # d \/ k # t => cur'[e][k] = cur[e][k],
           cur'[d][t] = "ready" => tokStatus'[t] = "queued",
           cur'[d][t] = "http" => tokStatus'[t] = "running",
           cur'[d][t] = "failing" /\ Owns(d) /\ runStatus \notin Ended =>
               tokStatus'[t] \in {"queued", "running"}
    PROVE  CursorsInv'
<1>1. UNCHANGED <<runStatus, owner, fence, myFence, pc>>
  BY DEF DriverStep, runVars
<1>2. CursorsAreDriven'
  BY <1>1 DEF CursorsInv, CursorsAreDriven
<1>3. OwnerAgrees'
  BY <1>1 DEF CursorsInv, OwnerAgrees, Owns
<1> QED BY <1>2, <1>3 DEF CursorsInv

LEMMA SetOneCursor ==
    ASSUME TypeOK, NEW d \in Drivers, NEW t \in Token,
           NEW c \in {"none", "todo", "ready", "http", "failing"}, cur' = [cur EXCEPT ![d][t] = c]
    PROVE  /\ cur'[d][t] = c
           /\ \A e \in Drivers, k \in Token : e # d \/ k # t => cur'[e][k] = cur[e][k]
BY DEF TypeOK

LEMMA FewOrMany == \A n \in Nat : n > 1 <=> n # 0 /\ n # 1
OBVIOUS

\* A node's path moves the owner's token and its cursor alike.
LEMMA MoveCursors ==
    ASSUME TypeOK, TokensInv, CursorsInv, NEW d \in Drivers, NEW t \in Token, tokNode[t] \in Nodes,
           cur[d][t] # "none", Owns(d), DriverStep, NEW path \in Exits(tokNode[t]),
           MoveToken(t, path, "completed", tokNode[t]), MoveCursor(d, t, path)
    PROVE  CursorsInv'
<1>1. UNCHANGED <<runStatus, owner, fence, myFence, pc>> /\ pc[d] = "drive" /\ t <= ntok
  BY DEF DriverStep, runVars, CursorsInv, CursorsAreDriven
<1>2. path \in Seq(Nodes) /\ Len(path) \in Nat
  BY ExitsAhead, LenProperties
<1>3. \A k \in Kids(path) : k \in Token /\ k # t /\ k > ntok /\ k <= ntok + Len(path)
  BY <1>1, Numbers DEF Kids, Token
<1>4. /\ \A e \in Drivers \ {d} : cur'[e] = cur[e]
      /\ \A k \in Token : k # t /\ cur'[d][k] # cur[d][k] =>
            cur'[d][k] = "todo" /\ k \in Kids(path) /\ Len(path) > 1
      /\ cur'[d][t] = IF Len(path) = 1 THEN "ready" ELSE "none"
  <2>1. \A e \in Drivers \ {d} : cur'[e] = cur[e]
    BY DEF MoveCursor, TypeOK
  <2>2. cur'[d] = [k \in Token |->
                     IF k \in (IF Len(path) > 1 THEN Kids(path) ELSE {}) THEN "todo"
                     ELSE IF k = t THEN IF Len(path) = 1 THEN "ready" ELSE "none"
                     ELSE cur[d][k]]
    BY DEF MoveCursor, TypeOK
  <2> QED BY <1>3, <2>1, <2>2
\* Without a split the cursor stays on its token.
<1>5. ASSUME NEW s \in {"completed", "queued"}, NEW n, EndToken(t, s, n), Len(path) \in {0, 1},
             Len(path) = 1 => s = "queued"
      PROVE  CursorsInv'
  <2>1. UNCHANGED ntok /\ tokStatus' = [tokStatus EXCEPT ![t] = s]
    BY <1>5 DEF EndToken
  <2>2. tokStatus'[t] = s /\ \A k \in Token : k # t => tokStatus'[k] = tokStatus[k]
    BY <2>1 DEF TypeOK
  <2>3. ~(Len(path) > 1)
    BY <1>2, <1>5, FewOrMany, Zenon
  <2>4. \A e \in Drivers, k \in Token : e # d \/ k # t => cur'[e][k] = cur[e][k]
    BY <1>4, <2>3
  <2>5. /\ cur'[d][t] = "ready" => tokStatus'[t] = "queued"
        /\ cur'[d][t] \notin {"http", "failing"}
    BY <1>4, <1>5, <2>2
  <2> QED BY <2>1, <2>2, <2>4, <2>5, OneCursor
<1>6. CASE \/ Len(path) = 0 /\ EndToken(t, "completed", tokNode[t])
           \/ Len(path) = 1 /\ EndToken(t, "queued", path[1])
  BY <1>5, <1>6
<1>7. CASE SplitToken(t, path) /\ Len(path) > 1
  <2>1. /\ ntok' = ntok + Len(path)
        /\ \A k \in Token : tokStatus'[k] = IF k = t THEN "completed"
                                             ELSE IF k \in Kids(path) THEN "queued" ELSE tokStatus[k]
    BY <1>7 DEF SplitToken
  <2>2. CursorsAreDriven'
    <3>1. \A k \in Token : k <= ntok => k <= ntok'
      BY <1>2, <2>1, Numbers DEF Token
    <3> QED BY <1>1, <1>3, <1>4, <2>1, <3>1 DEF CursorsInv, CursorsAreDriven
  <2>3. OwnerAgrees'
    <3>1. SUFFICES ASSUME NEW k \in Token, runStatus \notin Ended
                   PROVE  /\ cur'[d][k] = "ready" => tokStatus'[k] = "queued"
                          /\ cur'[d][k] = "http" => tokStatus'[k] = "running"
                          /\ cur'[d][k] = "failing" => tokStatus'[k] \in {"queued", "running"}
      BY <1>1 DEF OwnerAgrees, Owns
    <3>2. CASE k = t
      <4>1. Len(path) # 1
        BY <1>2, <1>7, FewOrMany, Zenon
      <4> QED BY <1>4, <3>2, <4>1
    <3>3. CASE k # t /\ k \in Kids(path)
      <4>1. cur[d][k] = "none" \/ k <= ntok
        BY DEF CursorsInv, CursorsAreDriven
      <4>2. cur[d][k] = "none"
        BY <1>3, <3>3, <4>1, Numbers DEF Token
      <4> QED BY <1>4, <3>3, <4>2
    <3>4. CASE k # t /\ k \notin Kids(path)
      BY <1>4, <2>1, <3>1, <3>4 DEF CursorsInv, OwnerAgrees
    <3> QED BY <3>2, <3>3, <3>4
  <2> QED BY <2>2, <2>3 DEF CursorsInv
<1> QED BY <1>6, <1>7 DEF MoveToken

LEMMA CursorStepCursors ==
    ASSUME ExecutionInv, NEW d \in Drivers, NEW t \in Token, CursorStep(d, t) PROVE CursorsInv'
<1>0. TypeOK /\ TokensInv /\ CursorsInv
  BY InvParts DEF CursorsInv
<1>1. DriverStep /\ pc[d] = "drive" /\ cur[d][t] # "none"
  BY DEF CursorStep, Pull, Finish, Stop, RunNode, CallHttp, CreateTasks, HttpSucceeds,
         HttpUncertain, HttpFenced, NodeError, RecordFailure, AtNode, Driving
<1>2. ASSUME DropCursor(d, t)
      PROVE  /\ cur'[d][t] = "none"
             /\ \A e \in Drivers, k \in Token : e # d \/ k # t => cur'[e][k] = cur[e][k]
  BY <1>0, <1>2, SetOneCursor DEF DropCursor
<1>3. ASSUME NEW c \in {"ready", "http", "failing"}, SetCursor(d, t, c)
      PROVE  /\ cur'[d][t] = c
             /\ \A e \in Drivers, k \in Token : e # d \/ k # t => cur'[e][k] = cur[e][k]
  <2>1. cur' = [cur EXCEPT ![d][t] = c]
    BY <1>3 DEF SetCursor
  <2> QED BY <1>0, <2>1 DEF TypeOK
<1>4. CASE Pull(d, t) \/ Stop(d, t) \/ HttpFenced(d, t) \/ NodeError(d, t)
  <2>1. UNCHANGED <<ntok, tokStatus>>
    BY <1>4 DEF Pull, Stop, HttpFenced, NodeError, tokVars
  <2>2. \/ DropCursor(d, t)
        \/ SetCursor(d, t, "failing") /\ cur[d][t] \in {"ready", "http"}
        \/ SetCursor(d, t, "ready") /\ tokStatus[t] = "queued"
    <3>1. Pull(d, t) => DropCursor(d, t) \/ (SetCursor(d, t, "ready") /\ tokStatus[t] = "queued")
      BY DEF Pull
    <3>2. Stop(d, t) \/ HttpFenced(d, t) => DropCursor(d, t)
      BY DEF Stop, HttpFenced
    <3>3. NodeError(d, t) => SetCursor(d, t, "failing") /\ cur[d][t] \in {"ready", "http"}
      BY DEF NodeError, AtNode, Driving
    <3> QED BY <1>4, <3>1, <3>2, <3>3
  <2>3. cur[d][t] \in {"ready", "http"} /\ Owns(d) /\ runStatus \notin Ended =>
            tokStatus[t] \in {"queued", "running"}
    BY <1>0 DEF CursorsInv, OwnerAgrees
  <2>4. /\ \A e \in Drivers, k \in Token : e # d \/ k # t => cur'[e][k] = cur[e][k]
        /\ cur'[d][t] = "ready" => tokStatus[t] = "queued"
        /\ cur'[d][t] # "http"
        /\ cur'[d][t] = "failing" => cur[d][t] \in {"ready", "http"}
    <3>1. CASE DropCursor(d, t)
      BY <1>2, <3>1
    <3>2. CASE SetCursor(d, t, "failing") /\ cur[d][t] \in {"ready", "http"}
      BY <1>3, <3>2
    <3>3. CASE SetCursor(d, t, "ready") /\ tokStatus[t] = "queued"
      BY <1>3, <3>3
    <3> QED BY <2>2, <3>1, <3>2, <3>3
  <2> QED BY <1>0, <1>1, <2>1, <2>3, <2>4, OneCursor
<1>5. CASE Finish(d, t) \/ HttpUncertain(d, t) \/ RecordFailure(d, t) \/ CreateTasks(d, t)
  <2>1. DropCursor(d, t) /\ UNCHANGED ntok
    BY <1>5 DEF Finish, HttpUncertain, RecordFailure, CreateTasks
  <2>2. Owns(d) \/ UNCHANGED tokStatus
    BY <1>5 DEF Finish, HttpUncertain, RecordFailure, CreateTasks, MayStep, Guard, Holds
  <2>3. \A k \in Token : k # t => tokStatus'[k] = tokStatus[k]
    BY <1>0, <1>5 DEF Finish, HttpUncertain, RecordFailure, CreateTasks, TypeOK
  <2> QED BY <1>0, <1>1, <1>2, <2>1, <2>2, <2>3, OneCursor
<1>6. CASE CallHttp(d, t)
  <2>1. /\ SetCursor(d, t, "http") /\ UNCHANGED ntok /\ Owns(d)
        /\ tokStatus' = [tokStatus EXCEPT ![t] = "running"]
    BY <1>6 DEF CallHttp, MayStep, Guard, Holds
  <2>2. tokStatus'[t] = "running" /\ \A k \in Token : k # t => tokStatus'[k] = tokStatus[k]
    BY <1>0, <2>1 DEF TypeOK
  <2> QED BY <1>0, <1>1, <1>3, <2>1, <2>2, OneCursor
<1>7. CASE RunNode(d, t) \/ HttpSucceeds(d, t)
  <2>1. Owns(d)
    BY <1>7 DEF RunNode, HttpSucceeds, MayStep, Guard, Holds
  <2>2. tokNode[t] \in Nodes
    <3>1. CASE RunNode(d, t)
      BY <1>0, <3>1, AtNodeInNodes DEF RunNode
    <3>2. CASE HttpSucceeds(d, t)
      BY <1>0, <3>2 DEF HttpSucceeds, Driving, Guard, Holds, CursorsInv, OwnerAgrees, TokensInv,
                        RunningIsCall, Ended
    <3> QED BY <1>7, <3>1, <3>2
  <2>3. PICK path \in Exits(tokNode[t]) :
           MoveToken(t, path, "completed", tokNode[t]) /\ MoveCursor(d, t, path)
    BY <1>7 DEF RunNode, HttpSucceeds
  <2> QED BY <1>0, <1>1, <2>1, <2>2, <2>3, MoveCursors
<1> QED BY <1>4, <1>5, <1>6, <1>7 DEF CursorStep

-----------------------------------------------------------------------------
(* The theorems.                                                           *)

LEMMA TokensStep == ExecutionInv /\ [Next]_vars => TokensInv'
<1> SUFFICES ASSUME ExecutionInv, [Next]_vars PROVE TokensInv'
  OBVIOUS
<1>0. TypeOK /\ TokensInv
  BY InvParts
<1>1. UNCHANGED <<tokVars, log, history>> => TokensInv'
  BY <1>0, TokensUnchanged
<1>2. UNCHANGED_DB => TokensInv'
  BY <1>1 DEF UNCHANGED_DB
<1>3. ASSUME NEW d \in Drivers, NEW t \in Token, CursorStep(d, t) PROVE TokensInv'
  <2>1. Pull(d, t) \/ Stop(d, t) \/ HttpFenced(d, t) \/ NodeError(d, t) => TokensInv'
    BY <1>1 DEF Pull, Stop, HttpFenced, NodeError
  <2> QED BY <1>3, <2>1, FinishTokens, RunNodeTokens, CallHttpTokens, CreateTasksTokens,
             HttpSucceedsTokens, HttpUncertainTokens, RecordFailureTokens DEF CursorStep
<1>4. ASSUME NEW d \in Drivers, WorkerPick(d) \/ Drive(d) \/ Crash(d) PROVE TokensInv'
  <2>1. WorkerPick(d) \/ ClaimNothing(d) \/ LoadTokens(d) \/ LoadError(d) => TokensInv'
    BY <1>2 DEF WorkerPick, ClaimNothing, LoadTokens, LoadError
  <2>2. ClaimRun(d) \/ Release(d) \/ Crash(d) => TokensInv'
    BY <1>1 DEF ClaimRun, Release, Crash
  <2>3. Recover(d) => TokensInv'
    BY <1>2, RecoverRunTokens DEF Recover
  <2>4. FailInstance(d) => TokensInv'
    BY <1>1, EndInstanceTokens DEF FailInstance
  <2> QED BY <1>3, <1>4, <2>1, <2>2, <2>3, <2>4, FinalizeExecutionTokens DEF Drive
<1>5. LeaseRunsOut \/ LeaseLapses \/ RecoverTick => TokensInv'
  BY <1>1, RecoverRunTokens DEF LeaseRunsOut, LeaseLapses, RecoverTick
<1>6. Decide \/ Pause \/ Resume \/ AcceptRetry \/ CancelRun => TokensInv'
  <2>1. Pause \/ Resume => TokensInv'
    BY <1>1 DEF Pause, Resume
  <2>2. ASSUME NEW u \in Users, NEW t \in Token, Reject(u, t) PROVE TokensInv'
    BY <2>2, EndInstanceTokens DEF Reject
  <2> QED BY <2>1, <2>2, ApproveTokens, AcceptRetryTokens, CancelRunTokens DEF Decide
<1>7. CASE UNCHANGED vars
  BY <1>1, <1>7 DEF vars
<1> QED BY <1>4, <1>5, <1>6, <1>7 DEF Next

LEMMA CursorsStep == ExecutionInv /\ [Next]_vars => CursorsInv'
<1> SUFFICES ASSUME ExecutionInv, [Next]_vars PROVE CursorsInv'
  OBVIOUS
<1>1. ASSUME NEW d \in Drivers, WorkerPick(d) \/ Drive(d) \/ Crash(d) PROVE CursorsInv'
  BY <1>1, CursorStepCursors, OutsideCursors, LoadCursors DEF Drive
<1>2. CASE UNCHANGED vars
  BY <1>2, InvParts, CursorsUnchanged DEF CursorsInv, vars, runVars, drvVars
<1> QED BY <1>1, <1>2, LeaseCursors, PeopleCursors DEF Next

LEMMA InitInv == Init => ExecutionInv
<1> SUFFICES ASSUME Init PROVE ExecutionInv
  OBVIOUS
<1>1. TypeOK
  BY InitType
<1>2. ntok = 1 /\ \A t \in Token : tokStatus[t] = (IF t = 1 THEN "queued" ELSE "none")
  BY DEF Init
<1>3. \A t \in Token, n \in Nodes : effects[t][n] = 0 /\ accepted[t][n] = 0
  BY DEF Init
<1>4. TokensInv
  <2>1. Born
    BY <1>2, <1>3 DEF Born, Token
  <2>2. RunningIsCall /\ WaitingIsSomewhere
    BY <1>2 DEF RunningIsCall, WaitingIsSomewhere
  <2>3. VisitsAreBehind /\ AtMostOnceEffect
    BY <1>3 DEF VisitsAreBehind, AtMostOnceEffect
  <2>4. QueuedIsFresh
    BY <1>1, <1>3 DEF QueuedIsFresh, TypeOK
  <2> QED BY <2>1, <2>2, <2>3, <2>4 DEF TokensInv
<1>5. OwnerAgrees /\ CursorsAreDriven
  BY DEF Init, OwnerAgrees, CursorsAreDriven
<1> QED BY <1>1, <1>4, <1>5, InvParts

\* The inductive invariant holds in every reachable state, whatever the flow graph,
\* the people, the drivers and the number of crashes.
THEOREM ExecutionInvariant == Spec => []ExecutionInv
<1>1. ExecutionInv /\ [Next]_vars => ExecutionInv'
  BY TypeStep, TokensStep, CursorsStep, InvParts DEF CursorsInv, ExecutionInv, TokensInv
<1> QED BY <1>1, InitInv, PTL DEF Spec

\* The rows of the run, its tokens, its tasks and its drivers keep their types.
THEOREM TypeCorrect == Spec => []TypeOK
BY ExecutionInvariant, PTL DEF ExecutionInv

\* No visit has its effect twice, unless an administrator accepted the risk of it.
THEOREM EffectsAtMostOnce == Spec => []AtMostOnceEffect
BY ExecutionInvariant, PTL DEF ExecutionInv

\* A driver that passes the guard has in memory what its tokens' rows say.
THEOREM CursorsAgree == Spec => []CursorAgrees
<1>1. ExecutionInv => CursorAgrees
  BY DEF ExecutionInv, OwnerAgrees, RunningIsCall, CursorAgrees, Guard, Holds, Ended
<1> QED BY <1>1, ExecutionInvariant, PTL

-----------------------------------------------------------------------------
(***************************************************************************)
(* What the run reports, what its workflow instance and the tasks of       *)
(* people say, and the order in which a driver walks the branches.         *)
(***************************************************************************)

\* A visit has been made as often as its repetition was accepted, or once more:
\* not yet made when it is queued, made when its call is out or in doubt.
Counted(t) == \A n \in Nodes :
    /\ effects[t][n] \in {accepted[t][n], accepted[t][n] + 1}
    /\ tokNode[t] = n /\ tokStatus[t] = "queued" => effects[t][n] = accepted[t][n]
    /\ tokNode[t] = n /\ tokStatus[t] \in {"running", "needs_attention"} =>
           effects[t][n] = accepted[t][n] + 1

\* What the row of a token says about its tasks, its log and its place.
Recorded(t) ==
    /\ Pending(t) # {} <=> tokStatus[t] = "waiting"
    /\ tokStatus[t] = "waiting" => HasInstance
    /\ tokStatus[t] = "completed" => log[t] = "success"
    /\ tokStatus[t] = "queued" /\ tokNode[t] = NoNode => log[t] = "success"
    /\ tokStatus[t] = "needs_attention" => tokNode[t] \in Nodes

RowsAgree == \A t \in Token : Counted(t) /\ Recorded(t)

Settled == {"none", "completed", "failed", "cancelled"}

-----------------------------------------------------------------------------
(* The rows of the tokens.                                                 *)

LEMMA SameRow ==
    ASSUME NEW k \in Token, Counted(k), Recorded(k), tokStatus'[k] = tokStatus[k],
           tokNode'[k] = tokNode[k], log'[k] = log[k], task'[k] = task[k],
           effects'[k] = effects[k], accepted'[k] = accepted[k]
    PROVE  Counted(k)' /\ Recorded(k)'
BY DEF Counted, Recorded, Pending

LEMMA RowsUnchanged ==
    ASSUME RowsAgree, UNCHANGED <<tokStatus, tokNode, log, task, effects, accepted>>
    PROVE  RowsAgree'
BY SameRow DEF RowsAgree

\* Tokens are put aside when the run ends: no task is left open.
LEMMA RowsPutAside ==
    ASSUME RowsAgree, UNCHANGED <<tokNode, effects, accepted>>,
           \A k \in Token : /\ tokStatus'[k] \in {tokStatus[k], "failed", "cancelled"}
                            /\ tokStatus'[k] \in Settled
                            /\ tokStatus'[k] = "completed" => log'[k] = log[k]
                            /\ Pending(k)' = {}
    PROVE  RowsAgree'
<1>1. SUFFICES ASSUME NEW k \in Token PROVE Counted(k)' /\ Recorded(k)'
  BY DEF RowsAgree
<1>2. Counted(k)'
  BY DEF RowsAgree, Counted, Settled
<1>3. Recorded(k)'
  BY DEF RowsAgree, Recorded, Settled
<1> QED BY <1>2, <1>3

LEMMA NoTaskSkipped ==
    ASSUME NEW tasks, task' = SkipTasks(tasks), NEW k \in Token PROVE Pending(k)' = {}
BY DEF SkipTasks, Pending

LEMMA LogKept ==
    ASSUME NEW logs, log' = CloseLogs(logs), NEW k \in Token, logs[k] = "success"
    PROVE  log'[k] = "success"
BY DEF CloseLogs

LEMMA EndInstanceRows ==
    ASSUME TypeOK, RowsAgree, NEW s, NEW tasks, NEW logs, EndInstance(s, tasks, logs),
           \A k \in Token : tokStatus[k] = "completed" => logs[k] = log[k],
           UNCHANGED history
    PROVE  RowsAgree' /\ \A k \in Token : tokStatus'[k] \in Settled /\ Pending(k)' = {}
<1>1. \A k \in Token : /\ tokStatus'[k] \in {tokStatus[k], "cancelled"}
                       /\ tokStatus'[k] \in Settled
  BY DEF EndInstance, Retire, TypeOK, TokStatus, Settled
<1>2. \A k \in Token : Pending(k)' = {}
  BY NoTaskSkipped DEF EndInstance
<1>3. \A k \in Token : tokStatus'[k] = "completed" => log'[k] = log[k]
  <2>1. SUFFICES ASSUME NEW k \in Token, tokStatus'[k] = "completed" PROVE log'[k] = log[k]
    OBVIOUS
  <2>2. log[k] = "success" /\ logs[k] = "success"
    BY <1>1, <2>1 DEF RowsAgree, Recorded
  <2> QED BY <2>2, LogKept DEF EndInstance
<1>4. UNCHANGED <<tokNode, effects, accepted>>
  BY DEF EndInstance, history
<1> QED BY <1>1, <1>2, <1>3, <1>4, RowsPutAside

\* A token moves along an edge, ends or splits, and its visit counts as made.
LEMMA RowsMove ==
    ASSUME TypeOK, TokensInv, RowsAgree, NEW t \in Token, tokNode[t] \in Nodes, tokStatus[t] # "none",
           NEW path \in Exits(tokNode[t]),
           NEW endStatus \in {"queued", "completed"}, NEW endNode \in {tokNode[t], NoNode},
           endStatus = "queued" => endNode = NoNode,
           MoveToken(t, path, endStatus, endNode), Log(t, "success"),
           UNCHANGED effects \/ (tokStatus[t] = "queued" /\ Execute(t)), UNCHANGED accepted,
           Pending(t)' = {}, \A k \in Token : k # t => task'[k] = task[k]
    PROVE  RowsAgree'
<1>1. /\ path \in Seq(Nodes) /\ Len(path) \in Nat
      /\ \A i \in 1 .. Len(path) : path[i] \in Nodes /\ Rank[tokNode[t]] < Rank[path[i]]
  BY ExitsAhead, LenProperties
<1>2. log'[t] = "success" /\ \A k \in Token : k # t => log'[k] = log[k]
  BY DEF Log, TypeOK
<1>3. /\ \A k \in Token : k # t => effects'[k] = effects[k] /\ accepted'[k] = accepted[k]
      /\ \A n \in Nodes : n # tokNode[t] => effects'[t][n] = effects[t][n]
      /\ \A n \in Nodes : effects'[t][n] \in {accepted'[t][n], accepted'[t][n] + 1}
  <2>1. CASE UNCHANGED effects
    BY <2>1 DEF RowsAgree, Counted
  <2>2. CASE tokStatus[t] = "queued" /\ Execute(t)
    <3>1. /\ \A k \in Token : k # t => effects'[k] = effects[k]
          /\ \A n \in Nodes : n # tokNode[t] => effects'[t][n] = effects[t][n]
          /\ effects'[t][tokNode[t]] = effects[t][tokNode[t]] + 1
      BY <2>2 DEF Execute, TypeOK
    <3>2. effects[t][tokNode[t]] = accepted[t][tokNode[t]]
      BY <2>2 DEF RowsAgree, Counted
    <3> QED BY <3>1, <3>2 DEF RowsAgree, Counted
  <2> QED BY <2>1, <2>2
\* The rows of the others; the next node has not been visited.
<1>4. ASSUME NEW k \in Token, k # t, tokStatus'[k] = tokStatus[k], tokNode'[k] = tokNode[k]
      PROVE  Counted(k)' /\ Recorded(k)'
  BY <1>2, <1>3, <1>4, SameRow DEF RowsAgree
<1>5. ASSUME NEW m \in Nodes, Rank[tokNode[t]] < Rank[m]
      PROVE  effects'[t][m] = accepted'[t][m]
  <2>1. Rank[tokNode[t]] \in Nat /\ Rank[m] \in Nat /\ effects[t][m] \in Nat /\ accepted[t][m] \in Nat
        /\ tokNode[t] # NoNode
    BY Numbers
  <2>2. m # tokNode[t] /\ ~(Rank[m] <= Rank[tokNode[t]])
    BY <1>5, <2>1
  <2>3. ~(effects[t][m] > 0)
    BY <2>1, <2>2 DEF TokensInv, VisitsAreBehind
  <2>4. effects[t][m] \in {accepted[t][m], accepted[t][m] + 1}
    BY DEF RowsAgree, Counted
  <2> QED BY <1>3, <2>1, <2>2, <2>3, <2>4
<1>6. ASSUME NEW s \in {"queued", "completed"}, NEW n, EndToken(t, s, n),
             s = "queued" => n = NoNode \/ (n \in Nodes /\ Rank[tokNode[t]] < Rank[n])
      PROVE  RowsAgree'
  <2>1. /\ tokStatus'[t] = s /\ tokNode'[t] = n
        /\ \A k \in Token : k # t => tokStatus'[k] = tokStatus[k] /\ tokNode'[k] = tokNode[k]
    BY <1>6 DEF EndToken, TypeOK
  <2>2. Counted(t)'
    BY <1>3, <1>5, <1>6, <2>1, Numbers DEF Counted
  <2>3. Recorded(t)'
    BY <1>2, <2>1 DEF Recorded
  <2> QED BY <1>4, <2>1, <2>2, <2>3 DEF RowsAgree
<1>7. CASE EndToken(t, endStatus, endNode)
  BY <1>6, <1>7
<1>8. CASE Len(path) = 1 /\ EndToken(t, "queued", path[1])
  BY <1>1, <1>6, <1>8
<1>9. CASE SplitToken(t, path) /\ Len(path) > 1
  <2>1. /\ \A k \in Token : tokStatus'[k] = IF k = t THEN "completed"
                                            ELSE IF k \in Kids(path) THEN "queued" ELSE tokStatus[k]
        /\ \A k \in Token : tokNode'[k] = IF k \in Kids(path) THEN path[k - ntok] ELSE tokNode[k]
    BY <1>9 DEF SplitToken
  <2>2. Counted(t)' /\ Recorded(t)'
    BY <1>2, <1>3, <2>1 DEF Counted, Recorded
  <2>3. ASSUME NEW k \in Kids(path), k # t PROVE Counted(k)' /\ Recorded(k)'
    <3>1. k \in Token /\ k > ntok /\ k - ntok \in 1 .. Len(path)
      BY <1>1, Numbers DEF Kids, Token
    <3>2. tokStatus[k] = "none" /\ \A n \in Nodes : effects[k][n] = 0 /\ accepted[k][n] = 0
      BY <3>1 DEF TokensInv, Born
    <3>3. tokNode'[k] \in Nodes /\ tokNode'[k] # NoNode /\ tokStatus'[k] = "queued"
      BY <1>1, <2>1, <2>3, <3>1, Numbers
    <3>4. Pending(k) = {}
      BY <3>1, <3>2 DEF RowsAgree, Recorded
    <3>5. Pending(k)' = {}
      BY <2>3, <3>1, <3>4 DEF Pending
    <3>6. Counted(k)'
      BY <1>3, <2>3, <3>1, <3>2, <3>3 DEF Counted
    <3> QED BY <3>3, <3>5, <3>6 DEF Recorded
  <2>4. \A k \in Token : k # t /\ k \notin Kids(path) => Counted(k)' /\ Recorded(k)'
    BY <1>4, <2>1
  <2> QED BY <2>2, <2>3, <2>4 DEF RowsAgree
<1> QED BY <1>7, <1>8, <1>9 DEF MoveToken

\* One token changes, the rows of the others stay as they are.
LEMMA OneRow ==
    ASSUME RowsAgree, NEW t \in Token, Counted(t)', Recorded(t)',
           \A k \in Token : k # t =>
              /\ tokStatus'[k] = tokStatus[k] /\ tokNode'[k] = tokNode[k] /\ log'[k] = log[k]
              /\ task'[k] = task[k] /\ effects'[k] = effects[k] /\ accepted'[k] = accepted[k]
    PROVE  RowsAgree'
BY SameRow DEF RowsAgree

LEMMA GuardedCursor ==
    ASSUME ExecutionInv, NEW d \in Drivers, NEW t \in Token, Guard(d), cur[d][t] # "none",
           cur[d][t] # "todo"
    PROVE  /\ tokStatus[t] \in {"queued", "running"}
           /\ cur[d][t] = "ready" => tokStatus[t] = "queued"
           /\ cur[d][t] = "http" => tokStatus[t] = "running"
<1>1. OwnerAgrees /\ TypeOK
  BY InvParts
<1>2. Owns(d) /\ runStatus \notin Ended
  BY DEF Guard, Holds, Ended
<1>3. cur[d][t] \in {"ready", "http", "failing"}
  BY <1>1 DEF TypeOK
<1> QED BY <1>1, <1>2, <1>3 DEF OwnerAgrees

\* The database after a step of a cursor that only reads.
LEMMA RowsRead ==
    ASSUME RowsAgree, UNCHANGED <<tokVars, log, history, instVars>> PROVE RowsAgree'
BY RowsUnchanged DEF tokVars, history, instVars

LEMMA FinishRows ==
    ASSUME ExecutionInv, RowsAgree, NEW d \in Drivers, NEW t \in Token, Finish(d, t)
    PROVE  RowsAgree'
<1>0. TypeOK
  BY InvParts
<1>1. UNCHANGED <<tokNode, log, task, effects, accepted>>
  BY DEF Finish, history, instVars
<1>2. CASE ~Guard(d)
  BY <1>1, <1>2, RowsUnchanged DEF Finish
<1>3. CASE Guard(d)
  <2>1. tokStatus[t] = "queued" /\ tokNode[t] = NoNode
    BY <1>3, GuardedCursor DEF Finish, Driving
  <2>2. tokStatus'[t] = "completed" /\ \A k \in Token : k # t => tokStatus'[k] = tokStatus[k]
    BY <1>0, <1>3 DEF Finish, TypeOK
  <2>3. Counted(t)'
    BY <1>1, <2>2 DEF RowsAgree, Counted
  <2>4. Recorded(t)'
    BY <1>1, <2>1, <2>2 DEF RowsAgree, Recorded, Pending
  <2> QED BY <1>1, <2>2, <2>3, <2>4, OneRow
<1> QED BY <1>2, <1>3

LEMMA RunNodeRows ==
    ASSUME ExecutionInv, RowsAgree, NEW d \in Drivers, NEW t \in Token, RunNode(d, t)
    PROVE  RowsAgree'
<1>0. TypeOK /\ TokensInv
  BY InvParts
<1>1. tokNode[t] \in Nodes
  BY <1>0, AtNodeInNodes DEF RunNode
<1>2. tokStatus[t] = "queued"
  BY GuardedCursor DEF RunNode, AtNode, Driving, MayStep
<1>3. PICK path \in Exits(tokNode[t]) : MoveToken(t, path, "completed", tokNode[t])
  BY DEF RunNode
<1>4. Log(t, "success") /\ Execute(t) /\ UNCHANGED <<accepted, task>>
  BY DEF RunNode, instVars
<1>5. Pending(t)' = {}
  BY <1>2, <1>4 DEF RowsAgree, Recorded, Pending
<1> QED BY <1>0, <1>1, <1>2, <1>3, <1>4, <1>5, RowsMove

LEMMA HttpSucceedsRows ==
    ASSUME ExecutionInv, RowsAgree, NEW d \in Drivers, NEW t \in Token, HttpSucceeds(d, t)
    PROVE  RowsAgree'
<1>0. TypeOK /\ TokensInv
  BY InvParts
<1>1. tokStatus[t] = "running"
  BY GuardedCursor DEF HttpSucceeds, Driving
<1>2. tokNode[t] \in Nodes
  BY <1>0, <1>1 DEF TokensInv, RunningIsCall
<1>3. PICK path \in Exits(tokNode[t]) : MoveToken(t, path, "completed", tokNode[t])
  BY DEF HttpSucceeds
<1>4. Log(t, "success") /\ UNCHANGED <<effects, accepted, task>>
  BY DEF HttpSucceeds, instVars, history
<1>5. Pending(t)' = {}
  BY <1>1, <1>4 DEF RowsAgree, Recorded, Pending
<1> QED BY <1>0, <1>1, <1>2, <1>3, <1>4, <1>5, RowsMove

\* What Execute adds to the history of its token.
LEMMA Executed ==
    ASSUME TypeOK, RowsAgree, NEW t \in Token, tokNode[t] \in Nodes, tokStatus[t] = "queued", Execute(t)
    PROVE  /\ \A k \in Token : k # t => effects'[k] = effects[k]
           /\ \A n \in Nodes : n # tokNode[t] => effects'[t][n] = effects[t][n]
           /\ effects[t][tokNode[t]] = accepted[t][tokNode[t]]
           /\ effects'[t][tokNode[t]] = accepted[t][tokNode[t]] + 1
BY DEF Execute, TypeOK, RowsAgree, Counted

LEMMA CallHttpRows ==
    ASSUME ExecutionInv, RowsAgree, NEW d \in Drivers, NEW t \in Token, CallHttp(d, t)
    PROVE  RowsAgree'
<1>0. TypeOK
  BY InvParts
<1>1. tokNode[t] \in Nodes
  BY <1>0, AtNodeInNodes DEF CallHttp
<1>2. tokStatus[t] = "queued"
  BY GuardedCursor DEF CallHttp, AtNode, Driving, MayStep
<1>3. Execute(t) /\ UNCHANGED <<tokNode, accepted, task>>
  BY DEF CallHttp, instVars
<1>4. /\ tokStatus'[t] = "running" /\ log'[t] = "running"
      /\ \A k \in Token : k # t => tokStatus'[k] = tokStatus[k] /\ log'[k] = log[k]
  BY <1>0 DEF CallHttp, Log, TypeOK
<1>5. Counted(t)'
  BY <1>0, <1>1, <1>2, <1>3, <1>4, Executed DEF RowsAgree, Counted
<1>6. Recorded(t)'
  BY <1>2, <1>3, <1>4 DEF RowsAgree, Recorded, Pending
<1> QED BY <1>0, <1>1, <1>2, <1>3, <1>4, <1>5, <1>6, Executed, OneRow

LEMMA CreateTasksRows ==
    ASSUME ExecutionInv, RowsAgree, NEW d \in Drivers, NEW t \in Token, CreateTasks(d, t)
    PROVE  RowsAgree'
<1>0. TypeOK
  BY InvParts
<1>1. tokNode[t] \in Nodes
  BY <1>0, AtNodeInNodes DEF CreateTasks
<1>2. tokStatus[t] = "queued"
  BY GuardedCursor DEF CreateTasks, AtNode, Driving, MayStep
<1>3. Execute(t) /\ UNCHANGED <<tokNode, accepted>>
  BY DEF CreateTasks
<1>4. /\ tokStatus'[t] = "waiting" /\ log'[t] = "waiting"
      /\ \A k \in Token : k # t => tokStatus'[k] = tokStatus[k] /\ log'[k] = log[k]
  BY <1>0 DEF CreateTasks, Log, TypeOK
<1>5. /\ \A k \in Token : k # t => task'[k] = task[k]
      /\ \A u \in Users : u \in Assignees[tokNode[t]] => task'[t][u] = "pending"
  BY <1>0 DEF CreateTasks, TypeOK
<1>6. PICK u \in Users : u \in Assignees[tokNode[t]]
  BY <1>1, PeopleAssumption DEF CreateTasks
<1>7. Counted(t)'
  BY <1>0, <1>1, <1>2, <1>3, <1>4, Executed DEF RowsAgree, Counted
<1>8. Recorded(t)'
  <2>1. u \in Pending(t)'
    BY <1>5, <1>6 DEF Pending
  <2> QED BY <1>4, <2>1 DEF Recorded, CreateTasks
<1> QED BY <1>0, <1>1, <1>2, <1>3, <1>4, <1>5, <1>7, <1>8, Executed, OneRow

\* A call that may have been served leaves its token to an administrator.
LEMMA DoubtRows ==
    ASSUME ExecutionInv, RowsAgree, NEW t \in Token, tokStatus[t] = "running",
           tokStatus' = [tokStatus EXCEPT ![t] = "needs_attention"], Log(t, "needs_attention"),
           UNCHANGED <<tokNode, history, instVars>>
    PROVE  RowsAgree'
<1>0. TypeOK /\ TokensInv
  BY InvParts
<1>1. tokNode[t] \in Nodes /\ UNCHANGED <<tokNode, effects, accepted, task>>
  BY <1>0 DEF TokensInv, RunningIsCall, history, instVars
<1>2. /\ tokStatus'[t] = "needs_attention"
      /\ \A k \in Token : k # t => tokStatus'[k] = tokStatus[k] /\ log'[k] = log[k]
  BY <1>0 DEF Log, TypeOK
<1>3. Counted(t)'
  BY <1>1, <1>2 DEF RowsAgree, Counted
<1>4. Recorded(t)'
  BY <1>1, <1>2 DEF RowsAgree, Recorded, Pending
<1> QED BY <1>1, <1>2, <1>3, <1>4, OneRow

LEMMA HttpUncertainRows ==
    ASSUME ExecutionInv, RowsAgree, NEW d \in Drivers, NEW t \in Token, HttpUncertain(d, t)
    PROVE  RowsAgree'
<1>1. tokStatus[t] = "running"
  BY GuardedCursor DEF HttpUncertain, Driving
<1> QED BY <1>1, DoubtRows DEF HttpUncertain

LEMMA RecordFailureRows ==
    ASSUME ExecutionInv, RowsAgree, NEW d \in Drivers, NEW t \in Token, RecordFailure(d, t)
    PROVE  RowsAgree'
<1>0. TypeOK
  BY InvParts
<1>1. UNCHANGED <<tokNode, history, instVars>>
  BY DEF RecordFailure
<1>2. CASE UNCHANGED <<tokStatus, log>>
  BY <1>1, <1>2, RowsUnchanged DEF history, instVars
<1>3. CASE /\ t \in Uncertain /\ tokStatus' = [tokStatus EXCEPT ![t] = "needs_attention"]
           /\ Log(t, "needs_attention")
  <2>1. tokStatus[t] = "running"
    BY <1>3 DEF Uncertain, Tokens
  <2> QED BY <1>1, <1>3, <2>1, DoubtRows
<1>4. CASE /\ Guard(d) /\ Log(t, "failed")
           /\ tokStatus' = [tokStatus EXCEPT ![t] =
                 IF @ \in {"completed", "cancelled", "needs_attention"} THEN @ ELSE "failed"]
  <2>1. tokStatus[t] \in {"queued", "running"}
    BY <1>4, GuardedCursor DEF RecordFailure, Driving
  <2>2. /\ tokStatus'[t] = "failed"
        /\ \A k \in Token : k # t => tokStatus'[k] = tokStatus[k] /\ log'[k] = log[k]
    BY <1>0, <1>4, <2>1 DEF Log, TypeOK
  <2>3. Counted(t)' /\ Recorded(t)'
    BY <1>1, <2>1, <2>2 DEF RowsAgree, Counted, Recorded, Pending, history, instVars
  <2> QED BY <1>1, <2>2, <2>3, OneRow DEF history, instVars
<1> QED BY <1>2, <1>3, <1>4 DEF RecordFailure

LEMMA CursorStepRows ==
    ASSUME ExecutionInv, RowsAgree, NEW d \in Drivers, NEW t \in Token, CursorStep(d, t)
    PROVE  RowsAgree'
<1>1. Pull(d, t) \/ Stop(d, t) \/ HttpFenced(d, t) \/ NodeError(d, t) => RowsAgree'
  BY RowsRead DEF Pull, Stop, HttpFenced, NodeError
<1> QED BY <1>1, FinishRows, RunNodeRows, CallHttpRows, CreateTasksRows, HttpSucceedsRows,
           HttpUncertainRows, RecordFailureRows DEF CursorStep

\* Without an instance nobody is asked, so ending the run leaves no task open.
LEMMA NobodyAsked ==
    ASSUME RowsAgree, ~HasInstance, NEW k \in Token
    PROVE  Pending(k) = {} /\ tokStatus[k] # "waiting"
BY DEF RowsAgree, Recorded

LEMMA RecoverRunRows ==
    ASSUME ExecutionInv, RowsAgree, RecoverRun
    PROVE  /\ RowsAgree'
           /\ runStatus' \in Ended => \A k \in Token : tokStatus'[k] \in Settled
<1>0. TypeOK /\ TokensInv
  BY InvParts
<1>1. UNCHANGED <<tokNode, effects, accepted, task>>
  BY DEF RecoverRun, history, instVars
<1>2. CASE /\ Policy = "before" /\ UNCHANGED log
           /\ tokStatus' = Retire(TokStatus \ {"none", "completed", "cancelled"}, tokStatus, "failed")
  <2>1. ~HasInstance
    BY <1>2, RunAssumption
  <2>2. \A k \in Token : /\ tokStatus'[k] \in {tokStatus[k], "failed", "cancelled"}
                         /\ tokStatus'[k] \in Settled
    BY <1>0, <1>2 DEF Retire, TypeOK, TokStatus, Settled
  <2>3. \A k \in Token : Pending(k)' = {}
    BY <1>1, <2>1, NobodyAsked DEF Pending
  <2> QED BY <1>1, <1>2, <2>2, <2>3, RowsPutAside
<1>3. CASE /\ tokStatus' = [t \in Token |-> IF t \in Uncertain THEN "needs_attention"
                                            ELSE IF tokStatus[t] = "running" THEN "queued"
                                            ELSE tokStatus[t]]
           /\ log' = [t \in Token |-> IF t \in Uncertain THEN "needs_attention" ELSE log[t]]
           /\ runStatus' \in {"needs_attention", "queued"}
  <2>1. SUFFICES ASSUME NEW k \in Token PROVE Counted(k)' /\ Recorded(k)'
    BY <1>3 DEF RowsAgree, Ended
  <2>2. tokStatus[k] = "running" <=> k \in Uncertain
    BY <1>0 DEF TokensInv, RunningIsCall, Uncertain, Tokens
  <2>3. CASE k \notin Uncertain
    BY <1>1, <1>3, <2>2, <2>3, SameRow DEF RowsAgree
  <2>4. CASE k \in Uncertain
    <3>1. tokStatus[k] = "running" /\ tokNode[k] \in Nodes /\ tokStatus'[k] = "needs_attention"
      BY <1>0, <1>3, <2>2, <2>4 DEF TokensInv, RunningIsCall
    <3>2. Counted(k)'
      BY <1>1, <3>1 DEF RowsAgree, Counted
    <3>3. Recorded(k)'
      BY <1>1, <3>1 DEF RowsAgree, Recorded, Pending
    <3> QED BY <3>2, <3>3
  <2> QED BY <2>3, <2>4
<1> QED BY <1>2, <1>3 DEF RecoverRun

LEMMA FinalizeExecutionRows ==
    ASSUME ExecutionInv, RowsAgree, NEW d \in Drivers, FinalizeExecution(d)
    PROVE  /\ RowsAgree'
           /\ runStatus' = "failed" /\ runStatus # "failed" =>
                  \A k \in Token : tokStatus'[k] \in Settled
<1>0. TypeOK
  BY InvParts
<1>1. UNCHANGED history
  BY DEF FinalizeExecution
<1>2. CASE EndInstance("failed", task, log)
  BY <1>0, <1>1, <1>2, EndInstanceRows
<1>3. CASE /\ Outcome(d) = "failed" /\ ~HasInstance
           /\ tokStatus' = Retire({"queued", "running", "waiting"}, tokStatus, "cancelled")
           /\ UNCHANGED <<ntok, tokNode, parGroup, log, instVars>>
  <2>1. \A k \in Token : tokStatus[k] # "needs_attention"
    BY <1>3 DEF Outcome, Tokens
  <2>2. \A k \in Token : /\ tokStatus'[k] \in {tokStatus[k], "failed", "cancelled"}
                         /\ tokStatus'[k] \in Settled
    BY <1>0, <1>3, <2>1 DEF Retire, TypeOK, TokStatus, Settled
  <2>3. \A k \in Token : Pending(k)' = {}
    BY <1>3, NobodyAsked DEF Pending, instVars
  <2> QED BY <1>1, <1>3, <2>2, <2>3, RowsPutAside DEF history
<1>4. CASE UNCHANGED <<tokVars, log, task>> /\ runStatus' = Outcome(d) /\ Outcome(d) # "failed"
  BY <1>1, <1>4, RowsUnchanged DEF tokVars, history
<1>5. CASE UNCHANGED <<runStatus, tokVars, log, instVars>>
  BY <1>1, <1>5, RowsUnchanged DEF tokVars, history, instVars
<1> QED BY <1>2, <1>3, <1>4, <1>5 DEF FinalizeExecution

LEMMA CancelRunRows ==
    ASSUME ExecutionInv, RowsAgree, CancelRun
    PROVE  RowsAgree' /\ \A k \in Token : tokStatus'[k] \in Settled
<1>0. TypeOK
  BY InvParts
<1>1. UNCHANGED <<tokNode, effects, accepted>>
  BY DEF CancelRun, history
<1>2. \A k \in Token : /\ tokStatus'[k] \in {tokStatus[k], "failed", "cancelled"}
                       /\ tokStatus'[k] \in Settled
  BY <1>0 DEF CancelRun, Retire, TypeOK, TokStatus, Settled
<1>3. \A k \in Token : Pending(k)' = {}
  <2>1. CASE HasInstance
    BY <2>1, NoTaskSkipped DEF CancelRun
  <2>2. CASE ~HasInstance
    BY <2>2, NobodyAsked DEF CancelRun, Pending
  <2> QED BY <2>1, <2>2
<1>4. \A k \in Token : tokStatus'[k] = "completed" => log'[k] = log[k]
  <2>1. CASE HasInstance
    <3>1. SUFFICES ASSUME NEW k \in Token, tokStatus'[k] = "completed" PROVE log'[k] = log[k]
      OBVIOUS
    <3>2. log[k] = "success"
      BY <1>2, <3>1 DEF RowsAgree, Recorded
    <3> QED BY <2>1, <3>2, LogKept DEF CancelRun
  <2>2. CASE ~HasInstance
    BY <2>2 DEF CancelRun
  <2> QED BY <2>1, <2>2
<1> QED BY <1>1, <1>2, <1>3, <1>4, RowsPutAside

LEMMA AcceptRetryRows == ASSUME ExecutionInv, RowsAgree, AcceptRetry PROVE RowsAgree'
<1>0. TypeOK
  BY InvParts
<1>1. UNCHANGED <<tokNode, log, effects, task>>
  BY DEF AcceptRetry, instVars
<1>2. SUFFICES ASSUME NEW k \in Token PROVE Counted(k)' /\ Recorded(k)'
  BY DEF RowsAgree
<1>3. tokStatus'[k] = IF tokStatus[k] = "needs_attention" THEN "queued" ELSE tokStatus[k]
  BY DEF AcceptRetry, Retire
<1>4. \A n \in Nodes : accepted'[k][n] =
         accepted[k][n] + IF tokStatus[k] = "needs_attention" /\ n = tokNode[k] THEN 1 ELSE 0
  BY DEF AcceptRetry, Tokens
<1>5. Counted(k)'
  <2>1. \A n \in Nodes : effects[k][n] \in Nat /\ accepted[k][n] \in Nat
    BY <1>0, Numbers
  <2> QED BY <1>1, <1>3, <1>4, <2>1 DEF RowsAgree, Counted
<1>6. Recorded(k)'
  <2>1. tokStatus[k] = "needs_attention" => tokNode[k] \in Nodes /\ tokNode[k] # NoNode
    BY GraphAssumption DEF RowsAgree, Recorded
  <2> QED BY <1>1, <1>3, <2>1 DEF RowsAgree, Recorded, Pending
<1> QED BY <1>5, <1>6

LEMMA ApproveRows ==
    ASSUME ExecutionInv, RowsAgree, NEW u \in Users, NEW t \in Token, Approve(u, t)
    PROVE  RowsAgree'
<1>0. TypeOK /\ TokensInv
  BY InvParts
<1>1. tokStatus[t] = "waiting" /\ tokNode[t] \in Nodes
  BY <1>0 DEF Approve, Decidable, TokensInv, WaitingIsSomewhere
<1>2. UNCHANGED <<effects, accepted>>
  BY DEF Approve, history
<1>3. task'[t] = Agreed(u, t) /\ \A k \in Token : k # t => task'[k] = task[k]
  BY <1>0 DEF Approve, TypeOK
<1>4. CASE (\E v \in Users : Agreed(u, t)[v] = "pending") /\ UNCHANGED <<tokVars, log>>
  <2>1. Pending(t)' # {}
    BY <1>3, <1>4 DEF Pending
  <2>2. Counted(t)'
    BY <1>2, <1>4 DEF RowsAgree, Counted, tokVars
  <2>3. Recorded(t)'
    BY <1>1, <1>4, <2>1 DEF RowsAgree, Recorded, tokVars
  <2> QED BY <1>2, <1>3, <1>4, <2>2, <2>3, OneRow DEF tokVars
<1>5. CASE /\ ~(\E v \in Users : Agreed(u, t)[v] = "pending") /\ Log(t, "success")
           /\ \E path \in Exits(tokNode[t]) : MoveToken(t, path, "queued", NoNode)
  <2>1. Pending(t)' = {}
    BY <1>3, <1>5 DEF Pending
  <2> QED BY <1>0, <1>1, <1>2, <1>3, <1>5, <2>1, RowsMove
<1> QED BY <1>4, <1>5 DEF Approve

LEMMA RejectRows ==
    ASSUME ExecutionInv, RowsAgree, NEW u \in Users, NEW t \in Token, Reject(u, t)
    PROVE  RowsAgree' /\ \A k \in Token : tokStatus'[k] \in Settled
<1>0. TypeOK
  BY InvParts
<1>1. tokStatus[t] = "waiting" /\ UNCHANGED history
  BY DEF Reject, Decidable
<1>2. \A k \in Token : tokStatus[k] = "completed" => [log EXCEPT ![t] = "rejected"][k] = log[k]
  BY <1>0, <1>1 DEF TypeOK
<1> QED BY <1>0, <1>1, <1>2, EndInstanceRows DEF Reject

LEMMA FailInstanceRows ==
    ASSUME ExecutionInv, RowsAgree, NEW d \in Drivers, FailInstance(d)
    PROVE  /\ RowsAgree'
           /\ EndInstance("failed", task, log) => \A k \in Token : tokStatus'[k] \in Settled
<1>0. TypeOK
  BY InvParts
<1>1. UNCHANGED history
  BY DEF FailInstance
<1>2. CASE EndInstance("failed", task, log)
  BY <1>0, <1>1, <1>2, EndInstanceRows
<1>3. CASE UNCHANGED <<runStatus, tokVars, log, instVars>> /\ ~EndInstance("failed", task, log)
  BY <1>1, <1>3, RowsRead
<1> QED BY <1>2, <1>3 DEF FailInstance

LEMMA RowsStep == ExecutionInv /\ RowsAgree /\ [Next]_vars => RowsAgree'
<1> SUFFICES ASSUME ExecutionInv, RowsAgree, [Next]_vars PROVE RowsAgree'
  OBVIOUS
<1>1. UNCHANGED_DB => RowsAgree'
  BY RowsRead DEF UNCHANGED_DB
<1>2. ASSUME NEW d \in Drivers, WorkerPick(d) \/ Drive(d) \/ Crash(d) PROVE RowsAgree'
  <2>1. WorkerPick(d) \/ ClaimNothing(d) \/ LoadTokens(d) \/ LoadError(d) => RowsAgree'
    BY <1>1 DEF WorkerPick, ClaimNothing, LoadTokens, LoadError
  <2>2. ClaimRun(d) \/ Release(d) \/ Crash(d) => RowsAgree'
    BY RowsRead DEF ClaimRun, Release, Crash
  <2>3. Recover(d) => RowsAgree'
    BY <1>1, RecoverRunRows DEF Recover
  <2> QED BY <1>2, <2>1, <2>2, <2>3, CursorStepRows, FinalizeExecutionRows, FailInstanceRows
          DEF Drive
<1>3. LeaseRunsOut \/ LeaseLapses \/ RecoverTick => RowsAgree'
  BY RowsRead, RecoverRunRows DEF LeaseRunsOut, LeaseLapses, RecoverTick, instVars
<1>4. Pause \/ Resume => RowsAgree'
  BY RowsUnchanged DEF Pause, Resume, tokVars, history
<1>5. Decide \/ AcceptRetry \/ CancelRun => RowsAgree'
  BY ApproveRows, RejectRows, AcceptRetryRows, CancelRunRows DEF Decide
<1>6. CASE UNCHANGED vars
  BY <1>6, RowsRead DEF vars
<1> QED BY <1>2, <1>3, <1>4, <1>5, <1>6 DEF Next

-----------------------------------------------------------------------------
(* The run's row and the workflow instance.                                *)

\* The instance has ended exactly when the run has, with the run's verdict.
SameVerdict == HasInstance =>
    /\ inst = "completed" <=> runStatus = "success"
    /\ \A s \in {"failed", "cancelled", "rejected"} : inst = s <=> runStatus = s

\* What the status of the run says about its instance and its tokens.
RunAgrees ==
    /\ SameVerdict
    /\ HasInstance \/ inst = "none"
    /\ runStatus \in Ended => \A t \in Token : tokStatus[t] \in Settled
    /\ runStatus = "success" => \A t \in 1 .. ntok : tokStatus[t] = "completed"
    /\ runStatus = "needs_attention" => Tokens({"needs_attention"}) # {}
    /\ inst = "paused" /\ retries = 0 => runStatus \in {"paused", "needs_attention"}

\* Only a handler that drives a run of an instance reports its failure, and only
\* the request that started a before run drives it.
HandlersAgree == \A d \in Drivers :
    /\ pc[d] = "fail" => HasInstance
    /\ Policy = "before" /\ pc[d] # "idle" => inline[d]

LEMMA RunUnchanged ==
    ASSUME RunAgrees, UNCHANGED <<runStatus, inst, ntok, tokStatus, retries>> PROVE RunAgrees'
BY DEF RunAgrees, SameVerdict, Tokens

\* The run stays open: its tokens may have changed.
LEMMA RunStaysOpen ==
    ASSUME RunAgrees, runStatus \notin Ended, inst' = inst,
           runStatus' \in {"queued", "running", "waiting", "paused"},
           inst = "paused" /\ retries' = 0 => runStatus' = "paused"
    PROVE  RunAgrees'
<1>1. SameVerdict'
  BY DEF RunAgrees, SameVerdict, Ended
<1>2. runStatus' \notin Ended \cup {"success", "needs_attention"}
  BY DEF Ended
<1> QED BY <1>1, <1>2 DEF RunAgrees

\* The run ends without success, and its instance with it.
LEMMA RunEnds ==
    ASSUME RunAgrees, NEW s \in {"failed", "cancelled", "rejected"}, runStatus' = s,
           inst' = IF HasInstance THEN s ELSE inst,
           \A t \in Token : tokStatus'[t] \in Settled
    PROVE  RunAgrees'
<1>1. SameVerdict'
  BY DEF SameVerdict
<1>2. HasInstance \/ inst' = "none"
  BY DEF RunAgrees
<1>3. inst' # "paused"
  BY DEF RunAgrees
<1>4. runStatus' # "success" /\ runStatus' # "needs_attention"
  OBVIOUS
<1> QED BY <1>1, <1>2, <1>3, <1>4 DEF RunAgrees

LEMMA CursorStepRun ==
    ASSUME ExecutionInv, RunAgrees, NEW d \in Drivers, NEW t \in Token, CursorStep(d, t)
    PROVE  RunAgrees'
<1>1. UNCHANGED <<runStatus, inst, retries>>
  BY DEF CursorStep, Pull, Finish, Stop, RunNode, CallHttp, CreateTasks, HttpSucceeds, HttpUncertain,
         HttpFenced, NodeError, RecordFailure, DriverStep, runVars, instVars, bounds
<1>2. Guard(d) \/ UNCHANGED <<ntok, tokStatus>>
  <2>1. Pull(d, t) \/ Stop(d, t) \/ HttpFenced(d, t) \/ NodeError(d, t) => UNCHANGED <<ntok, tokStatus>>
    BY DEF Pull, Stop, HttpFenced, NodeError, tokVars
  <2>2. RunNode(d, t) \/ CallHttp(d, t) \/ CreateTasks(d, t) \/ HttpSucceeds(d, t)
        \/ HttpUncertain(d, t) => Guard(d)
    BY DEF RunNode, CallHttp, CreateTasks, HttpSucceeds, HttpUncertain, MayStep
  <2>3. Finish(d, t) \/ RecordFailure(d, t) => Guard(d) \/ UNCHANGED <<ntok, tokStatus>>
    BY DEF Finish, RecordFailure
  <2> QED BY <2>1, <2>2, <2>3 DEF CursorStep
<1>3. CASE Guard(d)
  BY <1>1, <1>3, RunStaysOpen DEF Guard, Ended, RunAgrees
<1>4. CASE UNCHANGED <<ntok, tokStatus>>
  BY <1>1, <1>4, RunUnchanged
<1> QED BY <1>2, <1>3, <1>4

LEMMA ClaimRunRun ==
    ASSUME RunAgrees, NEW d \in Drivers, ClaimRun(d) PROVE RunAgrees'
<1>1. UNCHANGED <<inst, retries>> /\ runStatus' = "running"
  BY DEF ClaimRun, instVars, bounds
<1>2. runStatus \in {"queued", "running", "waiting"}
  BY DEF ClaimRun
<1> QED BY <1>1, <1>2, RunStaysOpen DEF RunAgrees, Ended

LEMMA RecoverRunRun ==
    ASSUME ExecutionInv, RowsAgree, RunAgrees, RecoverRun PROVE RunAgrees'
<1>1. UNCHANGED <<inst, retries>> /\ runStatus \in {"running", "queued"}
  BY DEF RecoverRun, Interrupted, instVars, bounds
<1>2. CASE Policy = "before" /\ runStatus' = "failed"
  <2>1. ~HasInstance
    BY <1>2, RunAssumption
  <2>2. \A t \in Token : tokStatus'[t] \in Settled
    BY <1>2, RecoverRunRows DEF Ended
  <2> QED BY <1>1, <1>2, <2>1, <2>2, RunEnds
<1>3. CASE runStatus' = IF \E t \in Token : tokStatus'[t] = "needs_attention"
                        THEN "needs_attention" ELSE "queued"
  <2>1. CASE runStatus' = "queued"
    BY <1>1, <2>1, RunStaysOpen DEF RunAgrees, Ended
  <2>2. CASE runStatus' = "needs_attention" /\ \E t \in Token : tokStatus'[t] = "needs_attention"
    <3>1. SameVerdict'
      BY <1>1, <2>2 DEF RunAgrees, SameVerdict
    <3>2. Tokens({"needs_attention"})' # {}
      BY <2>2 DEF Tokens
    <3> QED BY <1>1, <2>2, <3>1, <3>2 DEF RunAgrees, Ended
  <2> QED BY <1>3, <2>1, <2>2
<1> QED BY <1>2, <1>3 DEF RecoverRun

LEMMA FinalizeExecutionRun ==
    ASSUME ExecutionInv, RowsAgree, RunAgrees, NEW d \in Drivers, FinalizeExecution(d)
    PROVE  RunAgrees'
<1>0. TypeOK /\ TokensInv
  BY InvParts
<1>1. UNCHANGED retries
  BY DEF FinalizeExecution, bounds
<1>2. CASE UNCHANGED <<runStatus, tokVars, log, instVars>>
  BY <1>1, <1>2, RunUnchanged DEF tokVars, instVars
<1>3. CASE runStatus = "running" /\ Outcome(d) = "failed"
  <2>1. \/ runStatus' = "failed" /\ inst' = (IF HasInstance THEN "failed" ELSE inst)
        \/ UNCHANGED <<runStatus, tokVars, log, instVars>>
    BY <1>3 DEF FinalizeExecution, EndInstance, instVars
  <2>2. CASE runStatus' = "failed" /\ inst' = IF HasInstance THEN "failed" ELSE inst
    <3>1. \A t \in Token : tokStatus'[t] \in Settled
      BY <1>3, <2>2, FinalizeExecutionRows
    <3> QED BY <2>2, <3>1, RunEnds
  <2> QED BY <1>2, <2>1, <2>2
<1>4. CASE /\ runStatus = "running" /\ Outcome(d) # "failed" /\ runStatus' = Outcome(d)
           /\ inst' = IF HasInstance /\ Outcome(d) = "success" THEN "completed" ELSE inst
           /\ UNCHANGED <<tokVars, log, task>>
  <2>1. CASE Outcome(d) = "success"
    <3>1. \A t \in 1 .. ntok : tokStatus'[t] = "completed"
      BY <1>4, <2>1 DEF Outcome, Tokens, tokVars
    <3>2. \A t \in Token : tokStatus'[t] \in Settled
      <4>1. \A t \in Token : t \in 1 .. ntok \/ t > ntok
        BY <1>0, Numbers DEF Token
      <4> QED BY <1>0, <1>4, <3>1, <4>1 DEF TokensInv, Born, tokVars, Settled
    <3>3. SameVerdict'
      BY <1>4, <2>1 DEF SameVerdict
    <3> QED BY <1>1, <1>4, <2>1, <3>1, <3>2, <3>3 DEF RunAgrees, tokVars
  <2>2. CASE Outcome(d) \in {"queued", "waiting"}
    BY <1>1, <1>4, <2>2, RunStaysOpen DEF RunAgrees, Ended
  <2>3. CASE Outcome(d) = "needs_attention"
    <3>1. Tokens({"needs_attention"}) # {}
      BY <2>3 DEF Outcome
    <3>2. Tokens({"needs_attention"})' # {}
      BY <1>4, <3>1 DEF Tokens, tokVars
    <3>3. SameVerdict'
      BY <1>4, <2>3 DEF RunAgrees, SameVerdict
    <3> QED BY <1>1, <1>4, <2>3, <3>2, <3>3 DEF RunAgrees, Ended
  <2> QED BY <1>4, <2>1, <2>2, <2>3 DEF Outcome
<1> QED BY <1>2, <1>3, <1>4 DEF FinalizeExecution

LEMMA FailInstanceRun ==
    ASSUME ExecutionInv, RowsAgree, RunAgrees, HandlersAgree, NEW d \in Drivers, FailInstance(d)
    PROVE  RunAgrees'
<1>1. UNCHANGED retries /\ HasInstance
  BY DEF FailInstance, bounds, HandlersAgree
<1>2. CASE UNCHANGED <<runStatus, tokVars, log, instVars>>
  BY <1>1, <1>2, RunUnchanged DEF tokVars, instVars
<1>3. CASE EndInstance("failed", task, log)
  <2>1. \A t \in Token : tokStatus'[t] \in Settled
    BY <1>3, FailInstanceRows
  <2>2. runStatus' = "failed" /\ inst' = "failed"
    BY <1>3 DEF EndInstance
  <2> QED BY <1>1, <2>1, <2>2, RunEnds
<1> QED BY <1>2, <1>3 DEF FailInstance

LEMMA PeopleRun ==
    ASSUME ExecutionInv, RowsAgree, RunAgrees, Decide \/ Pause \/ Resume \/ AcceptRetry \/ CancelRun
    PROVE  RunAgrees'
<1>0. TypeOK
  BY InvParts
<1>1. ASSUME NEW u \in Users, NEW t \in Token, Approve(u, t) PROVE RunAgrees'
  <2>1. UNCHANGED <<inst, retries>> /\ inst = "running" /\ runStatus \in {"running", "waiting", "queued"}
    BY <1>1 DEF Approve, Decidable, bounds
  <2>2. UNCHANGED <<runStatus, tokVars>> \/ runStatus' = "queued"
    BY <1>1 DEF Approve
  <2> QED BY <2>1, <2>2, RunUnchanged, RunStaysOpen DEF tokVars, Ended
<1>2. ASSUME NEW u \in Users, NEW t \in Token, Reject(u, t) PROVE RunAgrees'
  <2>1. inst = "running" /\ inst' = "rejected" /\ runStatus' = "rejected"
    BY <1>2 DEF Reject, Decidable, EndInstance
  <2>2. HasInstance
    BY <2>1 DEF RunAgrees
  <2> QED BY <1>2, <2>1, <2>2, RejectRows, RunEnds
<1>3. CASE Pause \/ Resume
  <2>1. /\ inst \in {"running", "paused"} /\ inst' \in {"running", "paused"}
        /\ inst' = "paused" => runStatus' = IF runStatus \in Active THEN "paused" ELSE runStatus
        /\ runStatus' \in {runStatus, "paused", "queued"}
        /\ runStatus' # runStatus => runStatus \in Active
        /\ UNCHANGED <<ntok, tokStatus>>
    BY <1>3 DEF Pause, Resume, SetRunState, tokVars
  <2>2. HasInstance
    BY <2>1 DEF RunAgrees
  <2>3. runStatus \notin Ended
    BY <2>1, <2>2 DEF RunAgrees, SameVerdict, Ended
  <2>4. runStatus' \notin Ended
    BY <2>1, <2>3 DEF Ended
  <2>5. SameVerdict'
    BY <2>1, <2>4 DEF SameVerdict, Ended
  <2>6. inst' = "paused" => runStatus' \in {"paused", "needs_attention"}
    BY <1>0, <2>1, <2>3 DEF TypeOK, RunStatus, Ended, Active
  <2>7. runStatus' = "needs_attention" => Tokens({"needs_attention"})' # {}
    BY <2>1 DEF RunAgrees, Tokens
  <2> QED BY <2>2, <2>4, <2>5, <2>6, <2>7 DEF RunAgrees, Ended
<1>4. CASE AcceptRetry
  <2>1. UNCHANGED inst /\ runStatus = "needs_attention" /\ runStatus' = "queued" /\ retries' = retries + 1
    BY <1>4 DEF AcceptRetry, instVars
  <2>2. retries' # 0
    BY <1>0, <2>1 DEF TypeOK
  <2> QED BY <2>1, <2>2, RunStaysOpen DEF Ended
<1>5. CASE CancelRun
  <2>1. runStatus' = "cancelled" /\ inst' = IF HasInstance THEN "cancelled" ELSE inst
    BY <1>5 DEF CancelRun
  <2> QED BY <1>5, <2>1, CancelRunRows, RunEnds
<1> QED BY <1>1, <1>2, <1>3, <1>4, <1>5 DEF Decide

LEMMA RunStep == ExecutionInv /\ RowsAgree /\ RunAgrees /\ HandlersAgree /\ [Next]_vars => RunAgrees'
<1> SUFFICES ASSUME ExecutionInv, RowsAgree, RunAgrees, HandlersAgree, [Next]_vars PROVE RunAgrees'
  OBVIOUS
<1>1. UNCHANGED_DB => RunAgrees'
  BY RunUnchanged DEF UNCHANGED_DB, runVars, tokVars, instVars, bounds
<1>2. ASSUME NEW d \in Drivers, WorkerPick(d) \/ Drive(d) \/ Crash(d) PROVE RunAgrees'
  <2>1. WorkerPick(d) \/ ClaimNothing(d) \/ LoadTokens(d) \/ LoadError(d) => RunAgrees'
    BY <1>1 DEF WorkerPick, ClaimNothing, LoadTokens, LoadError
  <2>2. Release(d) \/ Crash(d) => RunAgrees'
    BY RunUnchanged DEF Release, Crash, runVars, tokVars, instVars, bounds
  <2>3. Recover(d) => RunAgrees'
    BY <1>1, RecoverRunRun DEF Recover
  <2> QED BY <1>2, <2>1, <2>2, <2>3, CursorStepRun, ClaimRunRun, FinalizeExecutionRun, FailInstanceRun
          DEF Drive
<1>3. LeaseRunsOut \/ LeaseLapses \/ RecoverTick => RunAgrees'
  BY RunUnchanged, RecoverRunRun DEF LeaseRunsOut, LeaseLapses, RecoverTick, tokVars, instVars, bounds
<1>4. CASE UNCHANGED vars
  BY <1>4, RunUnchanged DEF vars, runVars, tokVars, instVars, bounds
<1> QED BY <1>2, <1>3, <1>4, PeopleRun DEF Next

LEMMA HandlersStep == TypeOK /\ HandlersAgree /\ [Next]_vars => HandlersAgree'
<1> SUFFICES ASSUME TypeOK, HandlersAgree, [Next]_vars PROVE HandlersAgree'
  OBVIOUS
<1>1. ASSUME NEW d \in Drivers, Forget(d) PROVE HandlersAgree'
  BY <1>1 DEF HandlersAgree, Forget, Goto, TypeOK
<1>2. ASSUME NEW d \in Drivers, NEW l \in {"recover", "claim", "load", "drive", "release", "fail"},
             Goto(d, l), UNCHANGED inline, l = "fail" => HasInstance,
             Policy = "before" => pc[d] # "idle"
      PROVE  HandlersAgree'
  BY <1>2 DEF HandlersAgree, Goto, TypeOK
<1>3. CASE UNCHANGED <<pc, inline>>
  BY <1>3 DEF HandlersAgree
<1>4. CASE DriveInline
  BY <1>3, <1>4 DEF HandlersAgree, DriveInline, Goto, TypeOK
<1>5. ASSUME NEW d \in Drivers, WorkerPick(d) \/ Drive(d) \/ Crash(d) PROVE HandlersAgree'
  <2>1. ASSUME NEW t \in Token, CursorStep(d, t) PROVE UNCHANGED <<pc, inline>>
    BY <2>1 DEF CursorStep, Pull, Finish, Stop, RunNode, CallHttp, CreateTasks, HttpSucceeds, HttpUncertain,
                HttpFenced, NodeError, RecordFailure, DriverStep
  <2>2. WorkerPick(d) => HandlersAgree'
    BY <1>2 DEF WorkerPick
  <2>3. Recover(d) \/ LoadTokens(d) \/ LoadError(d) \/ FinalizeExecution(d) => HandlersAgree'
    BY <1>2 DEF Recover, LoadTokens, LoadError, FinalizeExecution
  <2>4. ClaimRun(d) => HandlersAgree'
    BY <1>2 DEF ClaimRun
  <2>5. Release(d) => HandlersAgree'
    BY <1>1, <1>2 DEF Release
  <2>6. ClaimNothing(d) \/ FailInstance(d) \/ Crash(d) => HandlersAgree'
    BY <1>1 DEF ClaimNothing, FailInstance, Crash
  <2> QED BY <1>3, <1>5, <2>1, <2>2, <2>3, <2>4, <2>5, <2>6 DEF Drive
<1>6. LeaseRunsOut \/ LeaseLapses \/ RecoverTick => HandlersAgree'
  BY <1>3 DEF LeaseRunsOut, LeaseLapses, RecoverTick, drvVars
<1>7. Decide \/ Pause \/ Resume \/ AcceptRetry \/ CancelRun => HandlersAgree'
  BY <1>3, <1>4 DEF Decide, Approve, Reject, Pause, Resume, AcceptRetry, CancelRun, drvVars
<1>8. CASE UNCHANGED vars
  BY <1>3, <1>8 DEF vars, drvVars
<1> QED BY <1>5, <1>6, <1>7, <1>8 DEF Next

-----------------------------------------------------------------------------
(* The order in which a driver walks the branches.                         *)

\* No branch comes from a parallel split.
Plain == \A t \in Token : parGroup[t] = 0

UnbornApart == \A t \in Token : t > ntok => parGroup[t] = 0

\* The live cursors of a driver stand in a queue; only its head is at work.
Ordered(d) ==
    /\ \A s, t \in Live(d) : s # t => s \in after[d][t] \/ t \in after[d][s]
    /\ \A t \in Token : cur[d][t] \in {"ready", "http", "failing"} => after[d][t] = {}

Sequential == UnbornApart /\ (Plain => \A d \in Drivers : Ordered(d))

LEMMA SameOrder ==
    ASSUME NEW d \in Drivers, Ordered(d), cur'[d] = cur[d], after'[d] = after[d] PROVE Ordered(d)'
BY DEF Ordered, Live

LEMMA NoOrder ==
    ASSUME NEW d \in Drivers, \A t \in Token : cur'[d][t] = "none" PROVE Ordered(d)'
BY DEF Ordered, Live

LEMMA DropOrder ==
    ASSUME TypeOK, NEW d \in Drivers, NEW t \in Token, Ordered(d), DropCursor(d, t)
    PROVE  Ordered(d)'
<1>1. \A k \in Token : cur'[d][k] = IF k = t THEN "none" ELSE cur[d][k]
  BY DEF DropCursor, TypeOK
<1>2. \A k \in Token : after'[d][k] = after[d][k] \ {t}
  BY DEF DropCursor, TypeOK
<1> QED BY <1>1, <1>2 DEF Ordered, Live

\* The head of the queue goes to work, or from one step of its work to the next.
LEMMA SetOrder ==
    ASSUME TypeOK, NEW d \in Drivers, NEW t \in Token, Ordered(d), cur[d][t] # "none",
           after[d][t] = {}, NEW c, SetCursor(d, t, c)
    PROVE  Ordered(d)'
<1>1. \A k \in Token : cur'[d][k] = IF k = t THEN c ELSE cur[d][k]
  BY DEF SetCursor, TypeOK
<1>2. UNCHANGED after
  BY DEF SetCursor
<1> QED BY <1>1, <1>2 DEF Ordered, Live

\* A token's children take its place in the queue.
LEMMA MoveOrder ==
    ASSUME ExecutionInv, NEW d \in Drivers, NEW t \in Token, Ordered(d),
           cur[d][t] \in {"ready", "http", "failing"}, NEW path \in Seq(Nodes),
           MoveCursor(d, t, path), Len(path) > 1 => Kind[tokNode[t]] # "parallel"
    PROVE  Ordered(d)'
<1>0. TypeOK /\ CursorsAreDriven
  BY InvParts
<1> DEFINE kids == IF Len(path) > 1 THEN Kids(path) ELSE {}
           next == IF Len(path) = 1 THEN {t} ELSE kids
<1>1. \A k \in Token : cur'[d][k] = IF k \in kids THEN "todo"
                                   ELSE IF k = t THEN IF Len(path) = 1 THEN "ready" ELSE "none"
                                   ELSE cur[d][k]
  BY <1>0 DEF MoveCursor, TypeOK
<1>2. \A k \in Token : after'[d][k] =
         IF k \in kids THEN {j \in kids : j < k}
         ELSE IF t \in after[d][k] THEN (after[d][k] \ {t}) \cup next ELSE after[d][k]
  BY <1>0 DEF MoveCursor, TypeOK
<1>3. \A k \in kids : k \in Token /\ cur[d][k] = "none" /\ k # t
  BY <1>0, Numbers DEF Kids, CursorsAreDriven, Token
<1>4. \A j, k \in kids : j # k => j < k \/ k < j
  BY <1>3 DEF Token
<1>5. after[d][t] = {} /\ t \in Live(d)
  BY DEF Ordered, Live
<1>6. \A k \in Live(d) : k # t => t \in after[d][k]
  BY <1>5 DEF Ordered
<1>7. Len(path) \in Nat /\ (Len(path) = 1 => kids = {})
  <2>1. Len(path) \in Nat
    BY LenProperties
  <2>2. Len(path) = 1 => ~(Len(path) > 1)
    OBVIOUS
  <2> QED BY <2>1, <2>2
<1> HIDE DEF kids, next
<1>8. ASSUME NEW r \in Live(d)', NEW s \in Live(d)', r # s
      PROVE  r \in after'[d][s] \/ s \in after'[d][r]
  <2>1. r \in Token /\ s \in Token /\ cur'[d][r] # "none" /\ cur'[d][s] # "none"
    BY DEF Live
  <2>2. CASE r \in kids /\ s \in kids
    BY <1>2, <1>4, <1>8, <2>1, <2>2
  <2>3. \A k \in kids \cup {t}, q \in Token : cur'[d][k] # "none" /\ cur'[d][q] # "none"
              /\ q \notin kids /\ q # t => k \in after'[d][q]
    <3>1. SUFFICES ASSUME NEW k \in kids \cup {t}, NEW q \in Token, cur'[d][k] # "none",
                          cur'[d][q] # "none", q \notin kids, q # t
                   PROVE  k \in after'[d][q]
      OBVIOUS
    <3>2. t \in after[d][q]
      BY <1>1, <1>6, <3>1 DEF Live
    <3>3. k \in next
      BY <1>1, <1>3, <1>7, <3>1 DEF next
    <3> QED BY <1>2, <3>1, <3>2, <3>3
  <2>4. ~(t \in Live(d)' /\ kids # {})
    BY <1>1, <1>3, <1>7 DEF Live
  <2>5. CASE r \notin kids \cup {t} /\ s \notin kids \cup {t}
    <3>1. r \in Live(d) /\ s \in Live(d)
      BY <1>1, <2>1, <2>5 DEF Live
    <3> QED BY <1>2, <1>8, <2>1, <2>5, <3>1 DEF Ordered
  <2> QED BY <1>8, <2>1, <2>2, <2>3, <2>4, <2>5
<1>9. ASSUME NEW k \in Token, cur'[d][k] \in {"ready", "http", "failing"} PROVE after'[d][k] = {}
  <2>1. k \notin kids
    BY <1>1, <1>9
  <2>2. CASE k = t
    BY <1>2, <1>5, <2>1, <2>2
  <2>3. CASE k # t
    BY <1>1, <1>2, <1>6, <1>9, <2>1, <2>3 DEF Ordered, Live
  <2> QED BY <2>2, <2>3
<1> QED BY <1>8, <1>9 DEF Ordered

LEMMA LoadOrder ==
    ASSUME TypeOK, NEW d \in Drivers, LoadTokens(d), Plain PROVE Ordered(d)'
<1> DEFINE queue == Tokens({"queued"})
<1>1. \A t \in Token : cur'[d][t] = IF t \in queue THEN "todo" ELSE "none"
  BY DEF LoadTokens, TypeOK
<1>2. \A t \in Token : after'[d][t] = IF t \in queue THEN {s \in queue : s < t /\ ~SameGroup(s, t, queue)}
                                     ELSE {}
  BY DEF LoadTokens, TypeOK
<1>3. \A s, t \in queue : ~SameGroup(s, t, queue)
  BY DEF SameGroup, Plain, Tokens
<1>4. \A s, t \in queue : s # t => s < t \/ t < s
  BY DEF Tokens, Token
<1>5. Live(d)' = queue
  BY <1>1 DEF Live, Tokens
<1>6. \A t \in Token : cur'[d][t] \notin {"ready", "http", "failing"}
  BY <1>1
<1>7. queue \subseteq Token
  BY DEF Tokens
<1> HIDE DEF queue
<1>8. \A s, t \in Live(d)' : s # t => s \in after'[d][t] \/ t \in after'[d][s]
  BY <1>2, <1>3, <1>4, <1>5, <1>7
<1> QED BY <1>6, <1>8 DEF Ordered

\* What a move says of the groups: a split of another node than a parallel one
\* creates no group.
LEMMA MoveGroups ==
    ASSUME TypeOK, UnbornApart, NEW t \in Token, NEW path \in Seq(Nodes), NEW s, NEW n,
           MoveToken(t, path, s, n)
    PROVE  /\ UnbornApart' /\ (Plain' => Plain)
           /\ Plain' /\ Len(path) > 1 => Kind[tokNode[t]] # "parallel"
<1>1. Len(path) \in Nat /\ (Len(path) \in {0, 1} => ~(Len(path) > 1))
  <2>1. Len(path) \in Nat
    BY LenProperties
  <2>2. Len(path) \in {0, 1} => Len(path) = 0 \/ Len(path) = 1
    OBVIOUS
  <2> QED BY <2>1, <2>2, FewOrMany, Zenon
<1>2. CASE UNCHANGED <<ntok, parGroup>> /\ Len(path) \in {0, 1}
  BY <1>1, <1>2 DEF UnbornApart, Plain
<1>3. CASE SplitToken(t, path) /\ Len(path) > 1
  <2>1. /\ ntok' = ntok + Len(path) /\ ntok + Len(path) <= MaxTokens
        /\ \A k \in Token : parGroup'[k] = IF k \in Kids(path)
                                           THEN IF Kind[tokNode[t]] = "parallel" THEN t ELSE 0
                                           ELSE parGroup[k]
    BY <1>3 DEF SplitToken
  <2>2. \A k \in Token : k > ntok' => k > ntok /\ k \notin Kids(path)
    BY <1>1, <2>1, Numbers DEF Kids, Token
  <2>3. \A k \in Kids(path) : k \in Token /\ k > ntok
    BY Numbers DEF Kids, Token
  <2>4. ntok + 1 \in Kids(path) /\ ntok + 1 \in Token /\ t # 0
    BY <1>1, <1>3, <2>1, Numbers DEF Kids, Token
  <2>5. UnbornApart'
    BY <2>1, <2>2 DEF UnbornApart
  <2>6. Plain' => Plain
    BY <2>1, <2>3 DEF UnbornApart, Plain
  <2>7. Plain' => Kind[tokNode[t]] # "parallel"
    BY <2>1, <2>4 DEF Plain
  <2> QED BY <2>5, <2>6, <2>7
<1> QED BY <1>2, <1>3 DEF MoveToken, EndToken

LEMMA GroupsUnchanged ==
    ASSUME UnbornApart, UNCHANGED <<ntok, parGroup>> PROVE UnbornApart' /\ (Plain' => Plain)
BY DEF UnbornApart, Plain

LEMMA SequentialUnchanged ==
    ASSUME Sequential, UNCHANGED <<ntok, parGroup, cur, after>> PROVE Sequential'
<1>1. \A d \in Drivers : Ordered(d) => Ordered(d)'
  BY DEF Ordered, Live
<1> QED BY <1>1, GroupsUnchanged DEF Sequential

LEMMA CursorStepSequential ==
    ASSUME ExecutionInv, Sequential, NEW d \in Drivers, NEW t \in Token, CursorStep(d, t)
    PROVE  Sequential'
<1>0. TypeOK /\ TokensInv
  BY InvParts
<1>1. ASSUME UNCHANGED <<ntok, parGroup>>, Plain => Ordered(d)',
             \A e \in Drivers : e # d => cur'[e] = cur[e] /\ after'[e] = after[e]
      PROVE  Sequential'
  <2>1. ASSUME NEW e \in Drivers, e # d, Ordered(e) PROVE Ordered(e)'
    BY <1>1, <2>1, SameOrder
  <2> QED BY <1>1, <2>1, GroupsUnchanged DEF Sequential
<1>2. ASSUME DropCursor(d, t), UNCHANGED <<ntok, parGroup>> PROVE Sequential'
  <2>1. \A e \in Drivers : e # d => cur'[e] = cur[e] /\ after'[e] = after[e]
    BY <1>0, <1>2 DEF DropCursor, TypeOK
  <2>2. Plain => Ordered(d)'
    BY <1>0, <1>2, DropOrder DEF Sequential
  <2> QED BY <1>1, <1>2, <2>1, <2>2
<1>3. ASSUME NEW c, SetCursor(d, t, c), cur[d][t] # "none", UNCHANGED <<ntok, parGroup>>,
             after[d][t] = {} \/ cur[d][t] \in {"ready", "http", "failing"}
      PROVE  Sequential'
  <2>1. \A e \in Drivers : e # d => cur'[e] = cur[e] /\ after'[e] = after[e]
    BY <1>0, <1>3 DEF SetCursor, TypeOK
  <2>2. Plain => Ordered(d)'
    BY <1>0, <1>3, SetOrder DEF Sequential, Ordered
  <2> QED BY <1>1, <1>3, <2>1, <2>2
<1>4. ASSUME NEW path \in Exits(tokNode[t]), tokNode[t] \in Nodes,
             cur[d][t] \in {"ready", "http", "failing"},
             MoveToken(t, path, "completed", tokNode[t]), MoveCursor(d, t, path)
      PROVE  Sequential'
  <2>1. path \in Seq(Nodes)
    BY <1>4, ExitsAhead
  <2>2. /\ UnbornApart' /\ (Plain' => Plain)
        /\ Plain' /\ Len(path) > 1 => Kind[tokNode[t]] # "parallel"
    BY <1>0, <1>4, <2>1, MoveGroups DEF Sequential
  <2>3. Plain' => Ordered(d)'
    BY <1>4, <2>1, <2>2, MoveOrder DEF Sequential
  <2>4. \A e \in Drivers : e # d => cur'[e] = cur[e] /\ after'[e] = after[e]
    BY <1>0, <1>4 DEF MoveCursor, TypeOK
  <2>5. ASSUME NEW e \in Drivers, e # d, Ordered(e) PROVE Ordered(e)'
    BY <2>4, <2>5, SameOrder
  <2> QED BY <2>2, <2>3, <2>5 DEF Sequential
<1>5. CASE Pull(d, t)
  BY <1>2, <1>3, <1>5 DEF Pull, Driving, tokVars
<1>6. CASE Stop(d, t) \/ HttpFenced(d, t) \/ HttpUncertain(d, t) \/ Finish(d, t) \/ CreateTasks(d, t)
           \/ RecordFailure(d, t)
  BY <1>2, <1>6 DEF Stop, HttpFenced, HttpUncertain, Finish, CreateTasks, RecordFailure, tokVars
<1>7. CASE NodeError(d, t) \/ CallHttp(d, t)
  BY <1>3, <1>7 DEF NodeError, CallHttp, AtNode, Driving, tokVars
<1>8. CASE RunNode(d, t)
  BY <1>0, <1>4, <1>8, AtNodeInNodes DEF RunNode, AtNode, Driving
<1>9. CASE HttpSucceeds(d, t)
  <2>1. tokNode[t] \in Nodes
    BY <1>0, <1>9, GuardedCursor DEF HttpSucceeds, Driving, TokensInv, RunningIsCall
  <2> QED BY <1>4, <1>9, <2>1 DEF HttpSucceeds, Driving
<1> QED BY <1>5, <1>6, <1>7, <1>8, <1>9 DEF CursorStep

LEMMA DriveSequential ==
    ASSUME ExecutionInv, Sequential, NEW d \in Drivers, WorkerPick(d) \/ Drive(d) \/ Crash(d)
    PROVE  Sequential'
<1>0. TypeOK
  BY InvParts
<1>1. ASSUME UNCHANGED <<ntok, parGroup>>, Plain => Ordered(d)',
             \A e \in Drivers : e # d => cur'[e] = cur[e] /\ after'[e] = after[e]
      PROVE  Sequential'
  <2>1. ASSUME NEW e \in Drivers, e # d, Ordered(e) PROVE Ordered(e)'
    BY <1>1, <2>1, SameOrder
  <2> QED BY <1>1, <2>1, GroupsUnchanged DEF Sequential
<1>2. ASSUME Forget(d), UNCHANGED <<ntok, parGroup>> PROVE Sequential'
  <2>1. /\ \A t \in Token : cur'[d][t] = "none"
        /\ \A e \in Drivers : e # d => cur'[e] = cur[e] /\ after'[e] = after[e]
    BY <1>0, <1>2 DEF Forget, TypeOK
  <2> QED BY <1>1, <1>2, <2>1, NoOrder
<1>3. CASE \/ WorkerPick(d) \/ Recover(d) \/ ClaimRun(d) \/ LoadError(d) \/ FinalizeExecution(d)
           \/ Release(d) /\ ~Forget(d)
  <2>1. UNCHANGED <<ntok, parGroup, cur, after>>
    BY <1>3 DEF WorkerPick, Recover, RecoverRun, ClaimRun, LoadError, FinalizeExecution, EndInstance,
                Release, UNCHANGED_DB, tokVars
  <2> QED BY <2>1, SequentialUnchanged
<1>4. CASE ClaimNothing(d) \/ (Release(d) /\ Forget(d)) \/ FailInstance(d) \/ Crash(d)
  <2>1. Forget(d) /\ UNCHANGED <<ntok, parGroup>>
    BY <1>4 DEF ClaimNothing, Release, FailInstance, EndInstance, Crash, UNCHANGED_DB, tokVars
  <2> QED BY <1>2, <2>1
<1>5. CASE LoadTokens(d)
  <2>1. UNCHANGED <<ntok, parGroup>>
    BY <1>5 DEF LoadTokens, UNCHANGED_DB, tokVars
  <2>2. \A e \in Drivers : e # d => cur'[e] = cur[e] /\ after'[e] = after[e]
    BY <1>0, <1>5 DEF LoadTokens, TypeOK
  <2> QED BY <1>0, <1>1, <1>5, <2>1, <2>2, LoadOrder
<1> QED BY <1>3, <1>4, <1>5, CursorStepSequential DEF Drive

LEMMA PeopleSequential ==
    ASSUME ExecutionInv, Sequential, Decide \/ Pause \/ Resume \/ AcceptRetry \/ CancelRun
    PROVE  Sequential'
<1>0. TypeOK /\ TokensInv
  BY InvParts
<1>1. CASE Pause \/ Resume \/ AcceptRetry \/ CancelRun
  <2>1. UNCHANGED <<ntok, parGroup, cur, after>>
    BY <1>1 DEF Pause, Resume, AcceptRetry, CancelRun, DriveInline, tokVars, drvVars
  <2> QED BY <2>1, SequentialUnchanged
<1>2. ASSUME NEW u \in Users, NEW t \in Token, Approve(u, t) \/ Reject(u, t) PROVE Sequential'
  <2>1. UNCHANGED <<cur, after>>
    BY <1>2 DEF Approve, Reject, DriveInline, drvVars
  <2>2. CASE UNCHANGED <<ntok, parGroup>>
    BY <2>1, <2>2, SequentialUnchanged
  <2>3. CASE Approve(u, t) /\ \E path \in Exits(tokNode[t]) : MoveToken(t, path, "queued", NoNode)
    <3>1. PICK path \in Exits(tokNode[t]) : MoveToken(t, path, "queued", NoNode)
      BY <2>3
    <3>2. path \in Seq(Nodes)
      BY <1>0, <2>3, ExitsAhead DEF Approve, Decidable, TokensInv, WaitingIsSomewhere
    <3>3. UnbornApart' /\ (Plain' => Plain)
      BY <1>0, <3>1, <3>2, MoveGroups DEF Sequential
    <3>4. \A d \in Drivers : Ordered(d) => Ordered(d)'
      BY <2>1 DEF Ordered, Live
    <3> QED BY <3>3, <3>4 DEF Sequential
  <2> QED BY <1>2, <2>2, <2>3 DEF Approve, Reject, EndInstance, tokVars
<1> QED BY <1>1, <1>2 DEF Decide

LEMMA SequentialStep == ExecutionInv /\ Sequential /\ [Next]_vars => Sequential'
<1> SUFFICES ASSUME ExecutionInv, Sequential, [Next]_vars PROVE Sequential'
  OBVIOUS
<1>1. LeaseRunsOut \/ LeaseLapses \/ RecoverTick => Sequential'
  BY SequentialUnchanged DEF LeaseRunsOut, LeaseLapses, RecoverTick, RecoverRun, tokVars, drvVars
<1>2. CASE UNCHANGED vars
  BY <1>2, SequentialUnchanged DEF vars, tokVars, drvVars
<1> QED BY <1>1, <1>2, DriveSequential, PeopleSequential DEF Next

-----------------------------------------------------------------------------
(* The inductive invariant.                                                *)

\* What every step preserves of the rows, the verdict, the handlers and the order.
VerdictInv == ExecutionInv /\ RowsAgree /\ RunAgrees /\ HandlersAgree /\ Sequential

LEMMA InitVerdict == Init => VerdictInv
<1> SUFFICES ASSUME Init PROVE VerdictInv
  OBVIOUS
<1>1. /\ ntok = 1 /\ \A t \in Token : tokStatus[t] \in {"queued", "none"}
      /\ \A t \in Token : tokStatus[t] = "queued" => t = 1 /\ tokNode[t] = Start
      /\ \A t \in Token, n \in Nodes : effects[t][n] = 0 /\ accepted[t][n] = 0
      /\ \A t \in Token, u \in Users : task[t][u] = "none"
      /\ \A t \in Token : parGroup[t] = 0
  BY DEF Init
<1>2. RowsAgree
  <2>1. \A t \in Token : Counted(t)
    BY <1>1 DEF Counted
  <2>2. \A t \in Token : Recorded(t)
    BY <1>1, GraphAssumption DEF Recorded, Pending
  <2> QED BY <2>1, <2>2 DEF RowsAgree
<1>3. RunAgrees
  <2>1. runStatus = "queued" /\ inst = (IF HasInstance THEN "running" ELSE "none")
    BY DEF Init
  <2>2. SameVerdict
    BY <2>1 DEF SameVerdict
  <2> QED BY <2>1, <2>2 DEF RunAgrees, Ended
<1>4. HandlersAgree
  BY DEF Init, HandlersAgree, Idle
<1>5. Sequential
  <2>1. \A d \in Drivers, t \in Token : cur[d][t] = "none"
    BY DEF Init
  <2> QED BY <1>1, <2>1 DEF Sequential, UnbornApart, Ordered, Live
<1> QED BY <1>2, <1>3, <1>4, <1>5, InitInv DEF VerdictInv

LEMMA VerdictStep == VerdictInv /\ [Next]_vars => VerdictInv'
<1> SUFFICES ASSUME VerdictInv, [Next]_vars PROVE VerdictInv'
  OBVIOUS
<1>1. ExecutionInv'
  <2>1. TypeOK' /\ TokensInv' /\ CursorsInv'
    BY TypeStep, TokensStep, CursorsStep DEF VerdictInv
  <2> QED BY <2>1 DEF CursorsInv, ExecutionInv, TokensInv
<1>2. TypeOK
  BY InvParts DEF VerdictInv
<1> QED BY <1>1, <1>2, RowsStep, RunStep, HandlersStep, SequentialStep DEF VerdictInv

\* The rows, the verdict of the run, its handlers and the order of its branches keep
\* what is claimed of them, whatever the drivers, people and crashes do.
THEOREM VerdictInvariant == Spec => []VerdictInv
BY InitVerdict, VerdictStep, PTL DEF Spec

-----------------------------------------------------------------------------
(* The safety properties that follow from it.                              *)

\* The run and its workflow instance end together and with the same verdict, whichever
\* of them is ended first and by whom.
THEOREM InstanceAlwaysAgrees == Spec => []InstanceAgrees
<1>1. VerdictInv => InstanceAgrees
  <2> SUFFICES ASSUME VerdictInv, HasInstance
               PROVE  runStatus = (CASE inst = "completed" -> "success"
                                     [] inst \in {"failed", "cancelled", "rejected"} -> inst
                                     [] OTHER -> IF runStatus \in Ended THEN "none" ELSE runStatus)
    BY DEF InstanceAgrees
  <2>1. SameVerdict
    BY DEF VerdictInv, RunAgrees
  <2>2. CASE inst = "completed"
    BY <2>1, <2>2 DEF SameVerdict
  <2>3. CASE inst \in {"failed", "cancelled", "rejected"}
    BY <2>1, <2>3 DEF SameVerdict
  <2>4. CASE inst \notin {"completed", "failed", "cancelled", "rejected"}
    <3>1. runStatus \notin Ended
      BY <2>1, <2>4 DEF SameVerdict, Ended
    <3> QED BY <2>4, <3>1
  <2> QED BY <2>2, <2>3, <2>4
<1> QED BY <1>1, VerdictInvariant, PTL

\* A branch waits exactly while somebody is asked to decide for it.
THEOREM TasksAlwaysMatchTokens == Spec => []TasksMatchTokens
<1>1. VerdictInv => TasksMatchTokens
  BY DEF VerdictInv, RowsAgree, Recorded, TasksMatchTokens
<1> QED BY <1>1, VerdictInvariant, PTL

\* A run reported as successful has walked every branch to its end.
THEOREM SuccessAlwaysComplete == Spec => []SuccessIsComplete
<1>1. VerdictInv => SuccessIsComplete
  <2> SUFFICES ASSUME VerdictInv, runStatus = "success", NEW t \in 1 .. ntok
               PROVE  tokStatus[t] = "completed" /\ log[t] = "success"
    BY DEF SuccessIsComplete
  <2>1. t \in Token
    BY InvParts, Numbers DEF VerdictInv, TypeOK, Token
  <2>2. tokStatus[t] = "completed"
    BY DEF VerdictInv, RunAgrees
  <2> QED BY <2>1, <2>2 DEF VerdictInv, RowsAgree, Recorded
<1> QED BY <1>1, VerdictInvariant, PTL

\* Once the run has ended nothing of it is left to be done, answered or approved.
LEMMA QuietAtEnd == VerdictInv => EndedIsQuiet
<1> SUFFICES ASSUME VerdictInv, runStatus \in Ended, NEW t \in Token
             PROVE  tokStatus[t] \in {"none", "completed", "failed", "cancelled"} /\ Pending(t) = {}
  BY DEF EndedIsQuiet
<1>1. tokStatus[t] \in Settled
  BY DEF VerdictInv, RunAgrees
<1> QED BY <1>1 DEF VerdictInv, RowsAgree, Recorded, Settled

\* Nothing is left to do, to answer or to approve once the run has ended.
THEOREM EndedAlwaysQuiet == Spec => []EndedIsQuiet
BY QuietAtEnd, VerdictInvariant, PTL

\* Without a parallel split a driver works on one branch at a time.
THEOREM BranchesOneAtATime == Spec => []OneBranchAtATime
<1>1. VerdictInv => OneBranchAtATime
  <2> SUFFICES ASSUME VerdictInv, NEW d \in Drivers, NEW s \in Token, NEW t \in Token, s # t,
                      cur[d][s] \in {"ready", "http", "failing"},
                      cur[d][t] \in {"ready", "http", "failing"}, Plain
               PROVE  FALSE
    BY DEF OneBranchAtATime, Plain
  <2>1. Ordered(d)
    BY DEF VerdictInv, Sequential
  <2> QED BY <2>1 DEF Ordered, Live
<1> QED BY <1>1, VerdictInvariant, PTL

-----------------------------------------------------------------------------
(* What a step may never do.                                               *)

\* Only a driver under the guard of a running run produces an effect.
LEMMA EffectStep ==
    ASSUME [Next]_vars, effects' # effects
    PROVE  \E d \in Drivers, t \in Token :
              /\ pc[d] = "drive" /\ cur[d][t] = "ready" /\ tokNode[t] # NoNode
              /\ Guard(d) /\ runStatus # "paused" /\ UNCHANGED <<runStatus, accepted>> /\ Execute(t)
<1>1. ASSUME NEW d \in Drivers, NEW t \in Token, CursorStep(d, t)
      PROVE  RunNode(d, t) \/ CallHttp(d, t) \/ CreateTasks(d, t)
  BY <1>1 DEF CursorStep, Pull, Finish, Stop, HttpSucceeds, HttpUncertain, HttpFenced, NodeError,
              RecordFailure, history
<1>2. \E d \in Drivers, t \in Token : CursorStep(d, t)
  BY DEF Next, vars, Drive, Decide, WorkerPick, Recover, RecoverRun, ClaimRun, ClaimNothing, LoadTokens,
         LoadError, FinalizeExecution, Release, FailInstance, Crash, LeaseRunsOut, LeaseLapses,
         RecoverTick, Approve, Reject, Pause, Resume, AcceptRetry, CancelRun, UNCHANGED_DB, history
<1>3. PICK d \in Drivers, t \in Token : RunNode(d, t) \/ CallHttp(d, t) \/ CreateTasks(d, t)
  BY <1>1, <1>2
<1> QED BY <1>3 DEF RunNode, CallHttp, CreateTasks, AtNode, Driving, MayStep, DriverStep, runVars

\* What ending the run once more would write is what its rows hold already.
LEMMA EndedRows ==
    ASSUME VerdictInv, runStatus \in Ended
    PROVE  /\ Retire(TokStatus \ {"none", "completed", "failed"}, tokStatus, "cancelled") = tokStatus
           /\ SkipTasks(task) = task
<1>0. TypeOK
  BY InvParts DEF VerdictInv
<1>1. \A t \in Token : tokStatus[t] \in {"none", "completed", "failed", "cancelled"} /\ Pending(t) = {}
  BY QuietAtEnd DEF EndedIsQuiet
<1>2. Retire(TokStatus \ {"none", "completed", "failed"}, tokStatus, "cancelled") = tokStatus
  BY <1>0, <1>1 DEF Retire, TypeOK, TokStatus
<1>3. ASSUME NEW t \in Token
      PROVE  [u \in Users |-> IF task[t][u] = "pending" THEN "skipped" ELSE task[t][u]] = task[t]
  <2>1. \A u \in Users : task[t][u] # "pending"
    BY <1>1 DEF Pending
  <2>2. task[t] \in [Users -> TaskStatus]
    BY <1>0 DEF TypeOK
  <2> QED BY <2>1, <2>2
<1>4. SkipTasks(task) = task
  BY <1>0, <1>3 DEF SkipTasks, TypeOK
<1> QED BY <1>2, <1>4

LEMMA FrozenStep ==
    ASSUME VerdictInv, [Next]_vars, runStatus \in Ended
    PROVE  UNCHANGED <<tokVars, effects, task>>
<1>1. UNCHANGED effects
  BY EffectStep DEF Guard, Ended
<1>2. ~(\E d \in Drivers : Guard(d)) /\ runStatus \notin {"running", "waiting", "queued", "needs_attention"}
  BY DEF Guard, Ended
<1>3. ASSUME NEW d \in Drivers, NEW t \in Token, CursorStep(d, t) PROVE UNCHANGED <<tokVars, task>>
  BY <1>2, <1>3 DEF CursorStep, Pull, Finish, Stop, RunNode, CallHttp, CreateTasks, HttpSucceeds,
                    HttpUncertain, HttpFenced, NodeError, RecordFailure, MayStep, tokVars, instVars
<1>4. ASSUME NEW d \in Drivers, FailInstance(d) PROVE UNCHANGED <<tokVars, task>>
  BY <1>4, EndedRows DEF FailInstance, EndInstance, tokVars, instVars
<1>5. ASSUME NEW d \in Drivers, WorkerPick(d) \/ Drive(d) \/ Crash(d) PROVE UNCHANGED <<tokVars, task>>
  <2>1. ~RecoverRun
    BY <1>2 DEF RecoverRun, Interrupted
  <2>2. FinalizeExecution(d) => UNCHANGED <<tokVars, task>>
    BY <1>2 DEF FinalizeExecution, instVars, tokVars
  <2> QED BY <1>3, <1>4, <1>5, <2>1, <2>2
          DEF Drive, WorkerPick, Recover, ClaimRun, ClaimNothing, LoadTokens, LoadError, Release,
              Crash, UNCHANGED_DB, instVars
<1>6. LeaseRunsOut \/ LeaseLapses \/ RecoverTick => UNCHANGED <<tokVars, task>>
  BY <1>2 DEF LeaseRunsOut, LeaseLapses, RecoverTick, RecoverRun, Interrupted, instVars
<1>7. Decide \/ Pause \/ Resume \/ AcceptRetry \/ CancelRun => UNCHANGED <<tokVars, task>>
  BY <1>2 DEF Decide, Approve, Reject, Decidable, Pause, Resume, AcceptRetry, CancelRun
<1>8. CASE UNCHANGED vars
  BY <1>8 DEF vars, instVars, history
<1> QED BY <1>1, <1>5, <1>6, <1>7, <1>8 DEF Next

\* A driver that outlives the end of its run, a late answer or a late decision
\* changes nothing of the run's branches, effects and tasks any more.
THEOREM EndedStaysFrozen == Spec => EndedIsFrozen
<1>1. VerdictInv /\ [Next]_vars =>
         [(runStatus \in Ended) => UNCHANGED <<tokVars, effects, task>>]_vars
  BY FrozenStep
<1> QED BY <1>1, VerdictInvariant, PTL DEF Spec, EndedIsFrozen

\* Between pause and resume no node runs and no request is sent, as long as no
\* administrator has accepted a retry.
THEOREM PausedNeverStarts == Spec => PausedStartsNothing
<1>1. VerdictInv /\ [Next]_vars => [(inst = "paused" /\ retries = 0) => UNCHANGED effects]_vars
  BY EffectStep DEF VerdictInv, RunAgrees, Guard
<1> QED BY <1>1, VerdictInvariant, PTL DEF Spec, PausedStartsNothing

\* Nothing of a before run is executed once the request that started it has gone.
THEOREM BeforeEndsWithCaller == Spec => BeforeDiesWithCaller
<1>1. VerdictInv /\ [Next]_vars =>
         [(Policy = "before" /\ \A d \in Drivers : ~inline[d]) => UNCHANGED effects]_vars
  BY EffectStep DEF VerdictInv, HandlersAgree
<1> QED BY <1>1, VerdictInvariant, PTL DEF Spec, BeforeDiesWithCaller

-----------------------------------------------------------------------------
(* The refinement of RunLifecycle.                                         *)

\* No step reopens a run that has ended, and only an accepted retry leaves doubt.
LEMMA StatusStep ==
    ASSUME [Next]_vars
    PROVE  /\ runStatus \in Ended => runStatus' \in Ended
           /\ runStatus = "needs_attention" =>
                 runStatus' \in Ended \cup {"needs_attention"} \/ AcceptRetry
<1>1. UNCHANGED runStatus \/ runStatus \in {"running", "queued", "waiting", "paused"}
      \/ runStatus' \in Ended \/ AcceptRetry
  <2>1. ASSUME NEW d \in Drivers, NEW t \in Token, CursorStep(d, t) PROVE UNCHANGED runStatus
    BY <2>1 DEF CursorStep, Pull, Finish, Stop, RunNode, CallHttp, CreateTasks, HttpSucceeds,
                HttpUncertain, HttpFenced, NodeError, RecordFailure, DriverStep, runVars
  <2>2. RecoverRun => runStatus \in {"running", "queued"}
    BY DEF RecoverRun, Interrupted
  <2>3. ASSUME NEW d \in Drivers, FinalizeExecution(d) PROVE runStatus = "running" \/ UNCHANGED runStatus
    BY <2>3 DEF FinalizeExecution
  <2>4. ASSUME NEW d \in Drivers, FailInstance(d) PROVE runStatus' = "failed" \/ UNCHANGED runStatus
    BY <2>4 DEF FailInstance, EndInstance
  <2>5. ASSUME NEW d \in Drivers, WorkerPick(d) \/ Drive(d) \/ Crash(d)
        PROVE  UNCHANGED runStatus \/ runStatus \in {"running", "queued", "waiting"} \/ runStatus' = "failed"
    BY <2>1, <2>2, <2>3, <2>4, <2>5
       DEF Drive, WorkerPick, Recover, ClaimRun, ClaimNothing, LoadTokens, LoadError, Release, Crash,
           UNCHANGED_DB, runVars
  <2>6. Decide \/ Pause \/ Resume \/ CancelRun =>
           UNCHANGED runStatus \/ runStatus \in {"running", "queued", "waiting", "paused"}
           \/ runStatus' \in Ended
    BY DEF Decide, Approve, Reject, Decidable, EndInstance, Pause, Resume, SetRunState, Active,
           CancelRun, Ended
  <2> QED BY <2>2, <2>5, <2>6
          DEF Next, LeaseRunsOut, LeaseLapses, RecoverTick, vars, runVars, Ended
<1>2. AcceptRetry => runStatus = "needs_attention"
  BY DEF AcceptRetry
<1> QED BY <1>1, <1>2 DEF Ended

LEMMA AcceptedStep == ASSUME [Next]_vars, ~AcceptRetry PROVE UNCHANGED accepted
<1>1. ASSUME NEW d \in Drivers, NEW t \in Token, CursorStep(d, t) PROVE UNCHANGED accepted
  BY <1>1 DEF CursorStep, Pull, Finish, Stop, RunNode, CallHttp, CreateTasks, HttpSucceeds,
              HttpUncertain, HttpFenced, NodeError, RecordFailure, history
<1> QED BY <1>1 DEF Next, vars, Drive, Decide, WorkerPick, Recover, RecoverRun, ClaimRun, ClaimNothing,
         LoadTokens, LoadError, FinalizeExecution, Release, FailInstance, Crash, LeaseRunsOut, LeaseLapses,
         RecoverTick, Approve, Reject, Pause, Resume, CancelRun, UNCHANGED_DB, history

LEMMA InitLifecycle == ASSUME VerdictInv, Init PROVE Lifecycle!Init
<1>1. Phase = "open"
  BY DEF Init, Phase, Ended
<1>2. \A v \in Visits : effects[v[1]][v[2]] = 0 /\ accepted[v[1]][v[2]] = 0
  BY DEF Init, Visits
<1> QED BY <1>1, <1>2 DEF Lifecycle!Init

\* A node or a request is performed: the run is open and the visit is fresh.
LEMMA PerformStep ==
    ASSUME VerdictInv, [Next]_vars, effects' # effects PROVE \E v \in Visits : Lifecycle!Perform(v)
<1>0. TypeOK
  BY InvParts DEF VerdictInv
<1>1. PICK d \in Drivers, t \in Token :
         /\ pc[d] = "drive" /\ cur[d][t] = "ready" /\ tokNode[t] # NoNode
         /\ Guard(d) /\ runStatus # "paused" /\ UNCHANGED <<runStatus, accepted>> /\ Execute(t)
  BY EffectStep
<1>2. runStatus = "running" /\ Phase = "open" /\ Phase' = "open"
  BY <1>1 DEF Guard, Phase, Ended
<1>3. tokStatus[t] = "queued" /\ tokNode[t] \in Nodes
  BY <1>0, <1>1, GuardedCursor DEF VerdictInv, TypeOK
<1>4. effects[t][tokNode[t]] = accepted[t][tokNode[t]]
  BY <1>3 DEF VerdictInv, RowsAgree, Counted
<1> DEFINE performed == [w \in Visits |-> effects[w[1]][w[2]]]
<1>5. PICK v \in Visits : v = <<t, tokNode[t]>>
  BY <1>3 DEF Visits
<1>6. performed[v] = accepted[v[1]][v[2]]
  BY <1>4, <1>5 DEF Visits
<1>7. \A w \in Visits : effects'[w[1]][w[2]] = IF w = v THEN effects[w[1]][w[2]] + 1
                                               ELSE effects[w[1]][w[2]]
  BY <1>0, <1>1, <1>3, <1>5 DEF Execute, TypeOK, Visits
<1>8. [w \in Visits |-> effects'[w[1]][w[2]]] = [performed EXCEPT ![v] = @ + 1]
  BY <1>6, <1>7
<1>9. Lifecycle!Perform(v)
  BY <1>1, <1>2, <1>6, <1>8 DEF Lifecycle!Perform
<1> QED BY <1>9

\* An administrator accepts the repetition of the visits in doubt.
LEMMA SettleStep == ASSUME VerdictInv, AcceptRetry PROVE Lifecycle!Settle
<1>0. TypeOK
  BY InvParts DEF VerdictInv
<1>1. Phase = "doubt" /\ Phase' = "open" /\ UNCHANGED effects
  BY DEF AcceptRetry, Phase, Ended
<1> DEFINE S == {w \in Visits : tokStatus[w[1]] = "needs_attention" /\ w[2] = tokNode[w[1]]}
<1>2. S \in SUBSET Lifecycle!InDoubt
  BY DEF VerdictInv, RowsAgree, Counted, Visits, Lifecycle!InDoubt
<1>3. S # {}
  <2>1. PICK t \in Token : tokStatus[t] = "needs_attention"
    BY DEF VerdictInv, RunAgrees, AcceptRetry, Tokens
  <2>2. <<t, tokNode[t]>> \in S
    BY <2>1 DEF VerdictInv, RowsAgree, Recorded, Visits
  <2> QED BY <2>2
<1>4. \A w \in Visits : accepted'[w[1]][w[2]] = accepted[w[1]][w[2]] + IF w \in S THEN 1 ELSE 0
  BY DEF AcceptRetry, Tokens, Visits
<1> HIDE DEF S
<1>5. [w \in Visits |-> accepted'[w[1]][w[2]]] =
         [w \in Visits |-> [x \in Visits |-> accepted[x[1]][x[2]]][w] + IF w \in S THEN 1 ELSE 0]
  BY <1>4
<1> QED BY <1>1, <1>2, <1>3, <1>5 DEF Lifecycle!Settle

\* Only the phase may change: the run ends, or the result of a call is in doubt.
LEMMA PhaseStep ==
    ASSUME VerdictInv, [Next]_vars, UNCHANGED <<effects, accepted>>, ~AcceptRetry
    PROVE  [Lifecycle!Next]_(Lifecycle!vars)
<1>1. CASE Phase' = Phase
  BY <1>1 DEF Lifecycle!vars
<1>2. CASE Phase # "ended" /\ Phase' = "ended"
  BY <1>2 DEF Lifecycle!Next, Lifecycle!End
<1>3. CASE Phase = "open" /\ Phase' = "doubt"
  <2>1. RunAgrees' /\ RowsAgree' /\ runStatus' = "needs_attention"
    BY <1>3, VerdictStep DEF VerdictInv, Phase
  <2>2. PICK t \in Token : tokStatus'[t] = "needs_attention"
    BY <2>1 DEF RunAgrees, Tokens
  <2>3. tokNode'[t] \in Nodes /\ effects[t][tokNode'[t]] = accepted[t][tokNode'[t]] + 1
    BY <2>1, <2>2 DEF RowsAgree, Recorded, Counted
  <2>4. <<t, tokNode'[t]>> \in Lifecycle!InDoubt
    BY <2>3 DEF Lifecycle!InDoubt, Visits
  <2> QED BY <1>3, <2>4 DEF Lifecycle!Next, Lifecycle!Doubt
<1>4. /\ Phase = "ended" => Phase' = "ended"
      /\ Phase = "doubt" => Phase' \in {"doubt", "ended"}
      /\ Phase \in {"open", "doubt", "ended"} /\ Phase' \in {"open", "doubt", "ended"}
  BY StatusStep DEF Phase, Ended
<1> QED BY <1>1, <1>2, <1>3, <1>4

\* Every behaviour of the drivers, people, leases and crashes is one of the lifecycle.
THEOREM LifecycleImplemented == Spec => ImplementsLifecycle
<1>1. VerdictInv /\ Init => Lifecycle!Init
  BY InitLifecycle
<1>2. VerdictInv /\ [Next]_vars => [Lifecycle!Next]_(Lifecycle!vars)
  <2> SUFFICES ASSUME VerdictInv, [Next]_vars PROVE [Lifecycle!Next]_(Lifecycle!vars)
    OBVIOUS
  <2>1. CASE effects' # effects
    BY <2>1, PerformStep DEF Lifecycle!Next
  <2>2. CASE AcceptRetry
    BY <2>2, SettleStep DEF Lifecycle!Next
  <2>3. CASE effects' = effects /\ ~AcceptRetry
    BY <2>3, PhaseStep, AcceptedStep
  <2> QED BY <2>1, <2>2, <2>3
<1> QED BY <1>1, <1>2, VerdictInvariant, PTL DEF Spec, ImplementsLifecycle, Lifecycle!Spec
=============================================================================
