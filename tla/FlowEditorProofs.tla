-------------------------- MODULE FlowEditorProofs --------------------------
(***************************************************************************)
(* The flow editor and its versions, for any set of nodes and branches,    *)
(* any palette, any graphs of others and any number of changes: what is    *)
(* saved is accepted, what is selected runs, the versions are a log, and   *)
(* edges come loose only where EdgesStayFast names it.                     *)
(***************************************************************************)
EXTENDS FlowEditor, TLAPS

\* trigger-1 is a trigger.
Rooted(g) == Trigger \in NodesOf(g) => g.nodes[Trigger].kind = "trigger"

\* A version that may be restored.
Sound(g) == IsGraph(g) /\ Accepted(g) /\ Rooted(g)

FlowInv ==
    /\ \E n \in Nat \ {0} : DOMAIN versions = 1 .. n
    /\ \A v \in DOMAIN versions : Sound(versions[v])
    /\ current \in DOMAIN versions
    /\ CurrentIsVersion

DrawnInv ==
    /\ IsGraph(Canvas) /\ Rooted(Canvas)
    /\ \A e \in edges : e.target # Trigger
    /\ context # None => IsContext(context) /\ Trigger \notin context.target

LoadInv ==
    /\ IsRequest(loading)
    /\ loading.step \in {"done", "numbered"} =>
        loading.version \in DOMAIN versions /\ versions[loading.version] = loading.graph

SaveInv ==
    /\ IsRequest(saving)
    /\ saving.step # "no" => Sound(saving.graph)
    /\ saving.step = "done" =>
        saving.version \in DOMAIN versions /\ versions[saving.version] = saving.graph

ShownInv ==
    /\ IsRequest(restoring)
    /\ shown = 0 \/ shown \in DOMAIN versions
    /\ loading.step # "no" => restoring.step = "no"

\* The inductive invariant: what is drawn never leads back to the trigger,
\* and what is on its way is what it was when it was sent or answered.
EditorInv == FlowInv /\ DrawnInv /\ LoadInv /\ SaveInv /\ ShownInv

-----------------------------------------------------------------------------
(* Graphs.                                                                 *)

LEMMA TemplateSound == Sound(Template)
<1> DEFINE edge == [source |-> Trigger, handle |-> NoHandle, target |-> Approval]
<1>0. Approval \in NodeIds /\ Approval # Trigger /\ Trigger \in NodeIds
  BY FlowAssumption, GraphAssumption
<1>1. Template.edges = {edge} /\ DOMAIN Template.nodes = {Trigger, Approval}
  BY DEF Template
<1>2. /\ Template.nodes[Trigger] = [kind |-> "trigger", branches |-> {}]
      /\ Template.nodes[Approval] = [kind |-> "approval", branches |-> {}]
  BY <1>0 DEF Template
<1>3. IsGraph(Template)
  <2>1. edge \in Edge
    BY <1>0 DEF Edge
  <2>2. Template.nodes[Trigger] \in Node /\ Template.nodes[Approval] \in Node
    BY <1>2 DEF Node, Kinds
  <2>3. Template.nodes \in [{Trigger, Approval} -> Node]
    BY <2>2, <1>1 DEF Template
  <2> QED BY <2>1, <2>3, <1>0, <1>1 DEF IsGraph, Template
<1>4. Acyclic(Template)
  <2> SUFFICES ASSUME NEW S \in SUBSET {Trigger, Approval}, S # {}
               PROVE  \E n \in S : \A e \in {edge} : e.target = n => e.source \notin S
    BY <1>1 DEF Acyclic, NodesOf
  <2>1. CASE Trigger \in S
    BY <2>1, <1>0
  <2>2. CASE Trigger \notin S
    BY <2>2, <1>0
  <2> QED BY <2>1, <2>2
<1>5. ReachesApproval(Template)
  <2> SUFFICES ASSUME NEW S \in SUBSET {Trigger, Approval}, Trigger \in S, Approval \notin S
               PROVE  \E e \in {edge} :
                        e.source \in S /\ Follows(Template, e)
                        /\ e.target \in {Trigger, Approval} \ S
    BY <1>1, <1>2 DEF ReachesApproval, NodesOf
  <2> QED BY <1>2 DEF Follows
<1>6. Accepted(Template)
  BY <1>0, <1>1, <1>4, <1>5 DEF Accepted, ValidAutomationGraph, EndsExist, NodesOf
<1> QED BY <1>2, <1>3, <1>6 DEF Sound, Rooted

\* What the editor's check lets pass the server's does too, if no edge leads
\* to the trigger: an edge from a node to itself is a circle.
LEMMA ValidatedIsAccepted ==
    ASSUME NEW g, IsGraph(g), Validated(g), \A e \in g.edges : e.target # Trigger
    PROVE  Accepted(g)
<1>1. ASSUME NEW e \in g.edges PROVE e.source # e.target
  <2>1. e.target \in NodesOf(g)
    BY DEF Validated, EndsExist
  <2>2. \E n \in {e.target} : \A d \in g.edges : d.target = n => d.source \notin {e.target}
    BY <2>1 DEF Validated, Acyclic
  <2> QED BY <2>2
<1> QED BY <1>1 DEF Accepted, ValidAutomationGraph, Validated, ReachesApproval

-----------------------------------------------------------------------------
(* The versions.                                                           *)

LEMMA NextIsFree ==
    ASSUME NEW n \in Nat \ {0}, DOMAIN versions = 1 .. n
    PROVE  NextVersion = n + 1
<1>1. n \in 1 .. n /\ \A w \in 1 .. n : w <= n
  OBVIOUS
<1>2. \A v \in 1 .. n : (\A w \in 1 .. n : w <= v) => v = n
  BY <1>1
<1> QED BY <1>1, <1>2 DEF NextVersion

\* What a step of the versions keeps, whoever takes it.
VersionsKept ==
    /\ DOMAIN versions \subseteq DOMAIN versions'
    /\ \A v \in DOMAIN versions : versions'[v] = versions[v]
    /\ [Log!Add \/ Log!Select]_<< versions, current >>

LEMMA UpdateKeeps ==
    ASSUME FlowInv, NEW g, IsGraph(g), Rooted(g), Update(g)
    PROVE  FlowInv' /\ VersionsKept /\ current' \in DOMAIN versions' /\ versions'[current'] = g
<1> PICK n \in Nat \ {0} : DOMAIN versions = 1 .. n
  BY DEF FlowInv
<1>1. Sound(g) /\ stored' = g
  BY DEF Update, Sound
<1>2. CASE ~Changes(g)
  <2>1. stored' = stored /\ current' = current /\ versions' = versions
    BY <1>2 DEF Update, Changes
  <2> QED BY <2>1, <1>1, <1>2 DEF FlowInv, CurrentIsVersion, VersionsKept, Changes
<1>3. CASE Changes(g)
  <2>1. current' = n + 1
        /\ versions' = [v \in (1 .. n) \union {n + 1} |-> IF v = n + 1 THEN g ELSE versions[v]]
    BY <1>3, NextIsFree DEF Update
  <2>2. DOMAIN versions' = 1 .. n + 1
    BY <2>1
  <2>3. versions'[n + 1] = g /\ \A v \in 1 .. n : versions'[v] = versions[v]
    BY <2>1
  <2>4. Log!Add
    <3>1. n \in DOMAIN versions /\ n + 1 \notin DOMAIN versions
      OBVIOUS
    <3>2. DOMAIN versions' = DOMAIN versions \union {n + 1}
      BY <2>2
    <3>3. \A v \in DOMAIN versions : versions'[v] = versions[v]
      BY <2>3
    <3> QED BY <2>1, <3>1, <3>2, <3>3 DEF Log!Add
  <2>5. \A v \in DOMAIN versions' : Sound(versions'[v])
    BY <1>1, <2>2, <2>3 DEF FlowInv
  <2> QED BY <1>1, <2>1, <2>2, <2>3, <2>4, <2>5 DEF FlowInv, CurrentIsVersion, VersionsKept
<1> QED BY <1>2, <1>3

LEMMA RestoreKeeps ==
    ASSUME FlowInv, NEW v, Restore(v)
    PROVE  FlowInv' /\ VersionsKept
<1>1. v \in DOMAIN versions /\ stored' = versions[v] /\ current' = v /\ versions' = versions
  BY DEF Restore
<1>2. Log!Select
  BY <1>1 DEF Log!Select
<1> QED BY <1>1, <1>2 DEF FlowInv, CurrentIsVersion, VersionsKept

LEMMA VersionsStay ==
    ASSUME FlowInv, UNCHANGED flowVars
    PROVE  FlowInv' /\ VersionsKept
BY DEF FlowInv, CurrentIsVersion, VersionsKept, flowVars

LEMMA FlowTypes ==
    ASSUME FlowInv
    PROVE  FlowTypeOK /\ EveryVersionRuns
<1>1. DOMAIN versions \subseteq Nat
  BY DEF FlowInv
<1>2. versions[current] = stored /\ current \in DOMAIN versions
  BY DEF FlowInv, CurrentIsVersion
<1> QED BY <1>1, <1>2 DEF FlowInv, FlowTypeOK, EveryVersionRuns, Sound, Accepted,
           ValidAutomationGraph, CurrentIsVersion

-----------------------------------------------------------------------------
(* What a step does not touch.                                             *)

LEMMA DrawingStays ==
    ASSUME DrawnInv, UNCHANGED canvasVars
    PROVE  DrawnInv'
BY DEF DrawnInv, canvasVars, Canvas, IsContext

LEMMA LoadingStays ==
    ASSUME LoadInv, VersionsKept, UNCHANGED loading
    PROVE  LoadInv'
BY DEF LoadInv, VersionsKept

LEMMA SavingStays ==
    ASSUME SaveInv, VersionsKept, UNCHANGED saving
    PROVE  SaveInv'
BY DEF SaveInv, VersionsKept

LEMMA ShowingStays ==
    ASSUME ShownInv, VersionsKept, UNCHANGED << shown, restoring >>,
           UNCHANGED loading \/ loading'.step = "no"
    PROVE  ShownInv'
BY DEF ShownInv, VersionsKept

LEMMA AnswersStay ==
    ASSUME EditorInv, VersionsKept, UNCHANGED << shown, loading, saving, restoring >>
    PROVE  LoadInv' /\ SaveInv' /\ ShownInv'
BY LoadingStays, SavingStays, ShowingStays DEF EditorInv

-----------------------------------------------------------------------------
(* Drawing.                                                                *)

\* What the parts of a graph are.
LEMMA GraphParts ==
    ASSUME NEW ns, NEW es
    PROVE  IsGraph([nodes |-> ns, edges |-> es]) <=>
           /\ DOMAIN ns \subseteq NodeIds /\ ns \in [DOMAIN ns -> Node]
           /\ es \subseteq Edge
BY DEF IsGraph

\* The drawing, said of the two states the editor keeps.
DrawnParts ==
    /\ DOMAIN nodes \subseteq NodeIds /\ nodes \in [DOMAIN nodes -> Node]
    /\ edges \subseteq Edge
    /\ Trigger \in DOMAIN nodes => nodes[Trigger].kind = "trigger"
    /\ \A e \in edges : e.target # Trigger
    /\ context # None => IsContext(context) /\ Trigger \notin context.target

LEMMA DrawnByParts == (DrawnInv <=> DrawnParts) /\ (DrawnInv' <=> DrawnParts')
<1>1. DrawnInv <=> DrawnParts
  BY GraphParts DEF DrawnInv, DrawnParts, Canvas, Rooted, NodesOf
<1>2. DrawnInv' <=> DrawnParts'
  BY GraphParts DEF DrawnInv, DrawnParts, Canvas, Rooted, NodesOf
<1> QED BY <1>1, <1>2

LEMMA ConnectKeeps ==
    ASSUME DrawnInv, NEW s \in NodeIds, NEW t \in NodeIds,
           NEW h \in BranchIds \union {NoHandle}, Connect(s, h, t)
    PROVE  DrawnInv'
<1>1. [source |-> s, handle |-> h, target |-> t] \in Edge
  BY DEF Edge
<1> QED BY <1>1, DrawnByParts DEF Connect, DrawnParts, IsContext

LEMMA RemoveEdgeKeeps ==
    ASSUME DrawnInv, NEW e, RemoveEdge(e)
    PROVE  DrawnInv'
BY DrawnByParts DEF RemoveEdge, DrawnParts, IsContext

LEMMA RemoveNodeKeeps ==
    ASSUME DrawnInv, NEW n, RemoveNode(n)
    PROVE  DrawnInv'
BY DrawnByParts DEF RemoveNode, Without, DrawnParts, IsContext

LEMMA BranchesKeep ==
    ASSUME DrawnInv, NEW n \in NodeIds, NEW b \in BranchIds, AddBranch(n, b) \/ RemoveBranch(n, b)
    PROVE  DrawnInv'
<1>1. DrawnParts /\ n \in DOMAIN nodes
  BY DrawnByParts DEF AddBranch, RemoveBranch
<1>2. PICK B \in SUBSET BranchIds : nodes' = [nodes EXCEPT ![n].branches = B]
  <2>1. nodes[n].branches \subseteq BranchIds
    BY <1>1 DEF DrawnParts, Node
  <2> QED BY <2>1 DEF AddBranch, RemoveBranch
<1>3. edges' \subseteq edges /\ UNCHANGED context
  BY DEF AddBranch, RemoveBranch
<1>4. /\ DOMAIN nodes' = DOMAIN nodes /\ nodes' \in [DOMAIN nodes -> Node]
      /\ \A m \in DOMAIN nodes : nodes'[m].kind = nodes[m].kind
  BY <1>1, <1>2 DEF DrawnParts, Node
<1> QED BY <1>1, <1>3, <1>4, DrawnByParts DEF DrawnParts, IsContext

LEMMA DrawKeeps ==
    ASSUME DrawnInv, Draw
    PROVE  DrawnInv' /\ UNCHANGED << flowVars, shown, loading, saving, restoring >>
<1>1. DrawnInv'
  BY ConnectKeeps, RemoveEdgeKeeps, RemoveNodeKeeps, BranchesKeep DEF Draw
<1>2. UNCHANGED << flowVars, shown, loading, saving, restoring >>
  BY DEF Draw, Connect, RemoveEdge, RemoveNode, AddBranch, RemoveBranch
<1> QED BY <1>1, <1>2

-----------------------------------------------------------------------------
(* The palette.                                                            *)

LEMMA OpensKeeps ==
    ASSUME DrawnInv, NEW c, Opens(c), IsContext(c), Trigger \notin c.target
    PROVE  DrawnInv'
BY DrawnByParts DEF Opens, DrawnParts, IsContext

LEMMA InsertRequestKeeps ==
    ASSUME DrawnInv, NEW e \in edges, InsertRequest(e)
    PROVE  DrawnInv'
<1> DEFINE c == [source |-> e.source, handle |-> NoHandle, target |-> {e.target}, edge |-> {e}]
<1>1. e \in Edge /\ e.target # Trigger
  BY DrawnByParts DEF DrawnParts
<1>2. IsContext(c) /\ Trigger \notin c.target
  BY <1>1 DEF IsContext, Edge
<1> QED BY <1>2, OpensKeeps DEF InsertRequest

LEMMA ConnectEndKeeps ==
    ASSUME DrawnInv, NEW n \in NodeIds, NEW h \in BranchIds \union {NoHandle}, ConnectEnd(n, h)
    PROVE  DrawnInv'
<1> DEFINE c == [source |-> n, handle |-> h, target |-> {}, edge |-> {}]
<1>1. IsContext(c) /\ Trigger \notin c.target
  BY DEF IsContext
<1> QED BY <1>1, OpensKeeps DEF ConnectEnd

\* The handle of a palette that was opened on an edge is the edge's.
LEMMA HandleType ==
    ASSUME NEW c, IsContext(c)
    PROVE  HandleOf(c) \in BranchIds \union {NoHandle}
<1>1. c.handle \in BranchIds \union {NoHandle} /\ c.edge \subseteq Edge
  BY DEF IsContext
<1>2. ASSUME c.edge \intersect edges # {} PROVE (CHOOSE e \in c.edge : TRUE) \in Edge
  <2>1. \E e \in c.edge : TRUE
    BY <1>2
  <2> QED BY <2>1, <1>1
<1> QED BY <1>1, <1>2 DEF HandleOf, Edge

LEMMA InsertNodeKeeps ==
    ASSUME DrawnInv, NEW n \in FreshIds, NEW node \in Menu, InsertNode(n, node)
    PROVE  DrawnInv'
<1>0. /\ n \in NodeIds /\ n # Trigger /\ node \in Node
  BY CanvasAssumption
<1>1. DrawnParts /\ context # None /\ IsContext(context) /\ Trigger \notin context.target
  BY DrawnByParts DEF DrawnParts, InsertNode
<1>2. PICK first \in DefaultHandles(node) :
        edges' = (edges \ context.edge)
            \union {[source |-> context.source, handle |-> HandleOf(context), target |-> n]}
            \union {[source |-> n, handle |-> first, target |-> t] : t \in context.target}
  BY DEF InsertNode
<1>3. first \in BranchIds \union {NoHandle}
  BY <1>0 DEF DefaultHandles, Node
<1>4. [source |-> context.source, handle |-> HandleOf(context), target |-> n] \in Edge
  BY <1>0, <1>1, HandleType DEF IsContext, Edge
<1>5. \A t \in context.target : t # Trigger /\ [source |-> n, handle |-> first, target |-> t] \in Edge
  BY <1>0, <1>1, <1>3 DEF IsContext, Edge
<1>6. edges' \subseteq Edge /\ \A e \in edges' : e.target # Trigger
  BY <1>0, <1>1, <1>2, <1>4, <1>5 DEF DrawnParts
<1>7. /\ DOMAIN nodes' = DOMAIN nodes \union {n} /\ nodes' \in [DOMAIN nodes' -> Node]
      /\ Trigger \in DOMAIN nodes' => nodes'[Trigger].kind = "trigger"
  BY <1>0, <1>1 DEF InsertNode, DrawnParts
<1>8. context' = None
  BY DEF InsertNode
<1>9. DrawnParts'
  BY <1>0, <1>1, <1>6, <1>7, <1>8 DEF DrawnParts
<1> QED BY <1>9, DrawnByParts

LEMMA PaletteKeeps ==
    ASSUME DrawnInv, Palette
    PROVE  DrawnInv' /\ UNCHANGED << flowVars, shown, loading, saving, restoring >>
<1>1. CancelInsert => DrawnInv'
  BY DrawnByParts DEF CancelInsert, DrawnParts
<1>2. DrawnInv'
  BY <1>1, InsertRequestKeeps, ConnectEndKeeps, InsertNodeKeeps DEF Palette
<1>3. UNCHANGED << flowVars, shown, loading, saving, restoring >>
  BY DEF Palette, InsertRequest, ConnectEnd, Opens, CancelInsert, InsertNode
<1> QED BY <1>2, <1>3

-----------------------------------------------------------------------------
(* Requests and their answers.                                             *)

LEMMA EmptyIsGraph == IsGraph(Empty)
<1>1. DOMAIN << >> = {} /\ << >> \in [{} -> Node]
  OBVIOUS
<1> QED BY <1>1, GraphParts, Zenon DEF Empty

LEMMA NoRequest == IsRequest(Idle) /\ Idle.step = "no"
<1>1. Idle = [step |-> "no", graph |-> Empty, version |-> 0]
  BY DEF Idle
<1> QED BY <1>1, EmptyIsGraph DEF IsRequest

LEMMA AskingIsRequest ==
    ASSUME NEW v \in Nat
    PROVE  IsRequest(Asking(v)) /\ Asking(v).step = "sent"
<1> DEFINE asked == [step |-> "sent", graph |-> Empty, version |-> v]
<1>1. Idle = [step |-> "no", graph |-> Empty, version |-> 0]
  BY DEF Idle
<1>2. [Idle EXCEPT !.step = "sent"] = [step |-> "sent", graph |-> Empty, version |-> 0]
  BY <1>1
<1>3. Asking(v) = [[Idle EXCEPT !.step = "sent"] EXCEPT !.version = v]
  BY <1>1 DEF Asking
<1>4. Asking(v) = asked
  BY <1>2, <1>3
<1> QED BY <1>4, EmptyIsGraph DEF IsRequest

\* Nothing but the tab's requests changes.
VersionsAlone == UNCHANGED flowVars

LEMMA SaveKeeps ==
    ASSUME EditorInv, Save, VersionsAlone
    PROVE  EditorInv'
<1>1. Sound(Canvas)
  <2>1. \A e \in Canvas.edges : e.target # Trigger
    BY DEF EditorInv, DrawnInv, Canvas
  <2> QED BY <2>1, ValidatedIsAccepted DEF EditorInv, DrawnInv, Sound, Save
<1>2. saving' = [step |-> "sent", graph |-> Canvas, version |-> 0]
  BY DEF Save
<1>3. SaveInv'
  BY <1>1, <1>2 DEF SaveInv, IsRequest, Sound
<1>4. FlowInv' /\ VersionsKept
  BY VersionsStay DEF EditorInv, VersionsAlone
<1>5. DrawnInv' /\ LoadInv' /\ ShownInv'
  BY <1>4, DrawingStays, LoadingStays, ShowingStays DEF EditorInv, Save
<1> QED BY <1>3, <1>4, <1>5 DEF EditorInv

LEMMA SaveArrivesKeeps ==
    ASSUME EditorInv, SaveArrives, VersionsAlone
    PROVE  EditorInv'
<1>1. /\ Sound(saving.graph) /\ saving.version \in DOMAIN versions
      /\ versions[saving.version] = saving.graph
  BY DEF EditorInv, SaveInv, SaveArrives
<1>3. /\ DOMAIN saving.graph.nodes \subseteq NodeIds
      /\ saving.graph.nodes \in [DOMAIN saving.graph.nodes -> Node]
      /\ Trigger \in DOMAIN saving.graph.nodes => saving.graph.nodes[Trigger].kind = "trigger"
  BY <1>1 DEF Sound, IsGraph, Rooted, NodesOf
<1>4. DrawnInv'
  <2>1. nodes' = saving.graph.nodes /\ UNCHANGED << edges, context >>
    BY DEF SaveArrives
  <2> QED BY <1>3, <2>1, DrawnByParts DEF EditorInv, DrawnParts, IsContext
<1>5. SaveInv'
  <2>1. saving' = Idle
    BY DEF SaveArrives
  <2> QED BY <2>1, NoRequest DEF SaveInv
<1>6. FlowInv' /\ VersionsKept /\ versions' = versions
  BY VersionsStay DEF EditorInv, VersionsAlone, flowVars
<1>7. LoadInv' /\ ShownInv'
  <2>1. UNCHANGED << loading, restoring >> /\ shown' = saving.version
    BY DEF SaveArrives
  <2> QED BY <1>1, <1>6, <2>1, LoadingStays DEF EditorInv, ShownInv
<1> QED BY <1>4, <1>5, <1>6, <1>7 DEF EditorInv

LEMMA SaveShows ==
    ASSUME EditorInv, SaveArrives, edges = saving.graph.edges
    PROVE  versions[shown'] = Canvas'
<1>1. Sound(saving.graph) /\ versions[saving.version] = saving.graph
  BY DEF EditorInv, SaveInv, SaveArrives
<1>2. saving.graph = [nodes |-> saving.graph.nodes, edges |-> saving.graph.edges]
  BY <1>1 DEF Sound, IsGraph
<1> QED BY <1>1, <1>2 DEF SaveArrives, Canvas

LEMMA SaveFailsKeeps ==
    ASSUME EditorInv, SaveFails, VersionsAlone
    PROVE  EditorInv'
<1>1. FlowInv' /\ VersionsKept
  BY VersionsStay DEF EditorInv, VersionsAlone
<1>2. DrawnInv' /\ LoadInv' /\ ShownInv'
  BY <1>1, DrawingStays, LoadingStays, ShowingStays DEF EditorInv, SaveFails
<1>3. SaveInv'
  BY NoRequest DEF SaveInv, SaveFails
<1> QED BY <1>1, <1>2, <1>3 DEF EditorInv

LEMMA RestoringKeeps ==
    ASSUME EditorInv, VersionsAlone,
           RestoreArrives \/ RestoreFails \/ \E v \in DOMAIN versions : ChooseVersion(v)
    PROVE  EditorInv'
<1>1. FlowInv' /\ VersionsKept /\ versions' = versions
  BY VersionsStay DEF EditorInv, VersionsAlone, flowVars
<1>2. UNCHANGED << canvasVars, shown, saving >>
  BY DEF RestoreArrives, RestoreFails, ChooseVersion
<1>3. DrawnInv' /\ SaveInv'
  BY <1>1, <1>2, DrawingStays, SavingStays DEF EditorInv
<1>4. LoadInv' /\ ShownInv'
  <2>1. CASE RestoreArrives
    <3>1. restoring' = Idle /\ loading' = Asking(0)
      BY <2>1 DEF RestoreArrives
    <3>2. LoadInv'
      BY <3>1, AskingIsRequest DEF LoadInv
    <3> QED BY <1>1, <1>2, <3>1, <3>2, NoRequest DEF EditorInv, ShownInv
  <2>2. CASE RestoreFails
    <3>1. restoring' = Idle /\ UNCHANGED loading
      BY <2>2 DEF RestoreFails
    <3> QED BY <1>1, <1>2, <3>1, NoRequest, LoadingStays DEF EditorInv, ShownInv
  <2>3. ASSUME NEW v \in DOMAIN versions, ChooseVersion(v) PROVE LoadInv' /\ ShownInv'
    <3>1. restoring' = Asking(v) /\ UNCHANGED loading /\ loading.step = "no"
      BY <2>3 DEF ChooseVersion, Editing
    <3>2. v \in Nat
      BY DEF EditorInv, FlowInv
    <3> QED BY <1>1, <1>2, <3>1, <3>2, AskingIsRequest, LoadingStays DEF EditorInv, ShownInv
  <2> QED BY <2>1, <2>2, <2>3
<1> QED BY <1>1, <1>3, <1>4 DEF EditorInv

LEMMA LoadFailsKeeps ==
    ASSUME EditorInv, LoadFails, VersionsAlone
    PROVE  EditorInv'
<1>1. FlowInv' /\ VersionsKept
  BY VersionsStay DEF EditorInv, VersionsAlone
<1>2. loading' = Idle /\ loading'.step = "no"
  BY NoRequest DEF LoadFails
<1>3. DrawnInv' /\ SaveInv' /\ ShownInv'
  BY <1>1, <1>2, DrawingStays, SavingStays, ShowingStays DEF EditorInv, LoadFails
<1>4. LoadInv'
  BY <1>2, NoRequest DEF LoadInv
<1> QED BY <1>1, <1>3, <1>4 DEF EditorInv

\* A load shows the version's nodes, and its edges put to a branch.
LEMMA LoadedGraph ==
    ASSUME EditorInv, LoadArrives
    PROVE  /\ Sound(loading.graph) /\ loading.version \in DOMAIN versions
           /\ versions[loading.version] = loading.graph
           /\ nodes' = loading.graph.nodes
           /\ \A e \in edges' :
                /\ e \in Edge /\ e.target # Trigger
                /\ {e, [e EXCEPT !.handle = NoHandle]} \intersect loading.graph.edges # {}
<1> DEFINE g == loading.graph
<1>1. loading.version \in DOMAIN versions /\ versions[loading.version] = g
  BY DEF EditorInv, LoadInv, LoadArrives
<1>2. Sound(g)
  BY <1>1 DEF EditorInv, FlowInv
<1>3. /\ g.edges \subseteq Edge
      /\ Trigger \in DOMAIN g.nodes /\ g.nodes[Trigger].kind = "trigger"
      /\ \A e \in g.edges : e.target # Trigger
  BY <1>2 DEF Sound, IsGraph, Rooted, Accepted, ValidAutomationGraph, NodesOf
<1>4. nodes' = g.nodes
  <2>1. Roots(g) # {}
    BY <1>3 DEF Roots, NodesOf
  <2> QED BY <2>1 DEF LoadArrives, WithTrigger
<1> PICK first \in FirstBranches(g) : edges' = Migrated(g, first)
  BY DEF LoadArrives
<1>5. ASSUME NEW e \in edges'
      PROVE  /\ e \in Edge /\ e.target # Trigger
             /\ {e, [e EXCEPT !.handle = NoHandle]} \intersect g.edges # {}
  <2>1. PICK d \in g.edges :
            e = [d EXCEPT !.handle = IF @ = NoHandle /\ d.source \in NodesOf(g)
                                     THEN first[d.source] ELSE @]
    BY <1>5 DEF Migrated
  <2>2. d \in Edge /\ d.target # Trigger
    BY <1>3
  <2>3. d.source \in NodesOf(g) => first[d.source] \in BranchIds \union {NoHandle}
    BY DEF FirstBranches
  <2>4. CASE d.handle = NoHandle /\ d.source \in NodesOf(g)
    <3>1. e = [d EXCEPT !.handle = first[d.source]]
      BY <2>1, <2>4
    <3>2. e \in Edge /\ e.target = d.target /\ [e EXCEPT !.handle = NoHandle] = d
      BY <2>2, <2>3, <2>4, <3>1 DEF Edge
    <3> QED BY <2>2, <3>2
  <2>5. CASE ~(d.handle = NoHandle /\ d.source \in NodesOf(g))
    <3>1. e = d
      BY <2>1, <2>2, <2>5 DEF Edge
    <3> QED BY <2>2, <3>1
  <2> QED BY <2>4, <2>5
<1> QED BY <1>1, <1>2, <1>4, <1>5

LEMMA LoadArrivesKeeps ==
    ASSUME EditorInv, LoadArrives, VersionsAlone
    PROVE  EditorInv'
<1> DEFINE g == loading.graph
<1>1. /\ DOMAIN g.nodes \subseteq NodeIds /\ g.nodes \in [DOMAIN g.nodes -> Node]
      /\ Trigger \in DOMAIN g.nodes => g.nodes[Trigger].kind = "trigger"
  BY LoadedGraph DEF Sound, IsGraph, Rooted, NodesOf
<1>2. DrawnInv'
  <2>1. context' = context
    BY DEF LoadArrives
  <2>2. DrawnParts
    BY DrawnByParts DEF EditorInv
  <2>3. DrawnParts'
    BY <1>1, LoadedGraph, <2>1, <2>2 DEF DrawnParts, IsContext
  <2> QED BY <2>3, DrawnByParts
<1>3. FlowInv' /\ VersionsKept /\ versions' = versions
  BY VersionsStay DEF EditorInv, VersionsAlone, flowVars
<1>4. loading' = Idle /\ UNCHANGED << shown, saving, restoring >>
  BY DEF LoadArrives
<1>5. SaveInv' /\ LoadInv' /\ ShownInv'
  BY LoadedGraph, <1>3, <1>4, SavingStays, NoRequest DEF EditorInv, LoadInv, ShownInv
<1> QED BY <1>2, <1>3, <1>5 DEF EditorInv

LEMMA LoadNumbersKeeps ==
    ASSUME EditorInv, LoadNumbers, VersionsAlone
    PROVE  EditorInv'
<1>1. /\ loading.step = "done" /\ loading.version \in DOMAIN versions
      /\ versions[loading.version] = loading.graph
  BY DEF EditorInv, LoadInv, LoadNumbers
<1>2. FlowInv' /\ VersionsKept /\ versions' = versions
  BY VersionsStay DEF EditorInv, VersionsAlone, flowVars
<1>3. UNCHANGED canvasVars /\ UNCHANGED << saving, restoring >> /\ shown' = loading.version
  BY DEF LoadNumbers
<1>4. DrawnInv' /\ SaveInv'
  BY <1>2, <1>3, DrawingStays, SavingStays DEF EditorInv
<1>5. loading' = [loading EXCEPT !.step = "numbered"]
  BY DEF LoadNumbers
<1>6. loading = [step |-> loading.step, graph |-> loading.graph, version |-> loading.version]
  BY DEF EditorInv, LoadInv, IsRequest
<1>7. loading' = [step |-> "numbered", graph |-> loading.graph, version |-> loading.version]
  BY <1>5, <1>6
<1>8. LoadInv'
  BY <1>1, <1>2, <1>7 DEF EditorInv, LoadInv, IsRequest
<1>9. ShownInv'
  BY <1>1, <1>2, <1>3 DEF EditorInv, ShownInv
<1> QED BY <1>2, <1>4, <1>8, <1>9 DEF EditorInv

LEMMA RequestsKeep ==
    ASSUME EditorInv, Requests
    PROVE  EditorInv'
<1>1. VersionsAlone
  BY DEF Requests, VersionsAlone
<1> QED BY <1>1, SaveKeeps, SaveArrivesKeeps, SaveFailsKeeps, RestoringKeeps, LoadFailsKeeps,
           LoadNumbersKeeps, LoadArrivesKeeps DEF Requests

-----------------------------------------------------------------------------
(* The server and others.                                                  *)

LEMMA HandleSaveKeeps ==
    ASSUME EditorInv, HandleSave
    PROVE  EditorInv' /\ VersionsKept
<1> DEFINE g == saving.graph
<1>1. Sound(g) /\ IsRequest(saving) /\ Update(g)
  BY DEF EditorInv, SaveInv, HandleSave
<1>2. FlowInv' /\ VersionsKept /\ current' \in DOMAIN versions' /\ versions'[current'] = g
  BY <1>1, UpdateKeeps DEF EditorInv, Sound
<1>3. saving' = [step |-> "done", graph |-> g, version |-> current']
  BY <1>1 DEF HandleSave, IsRequest
<1>4. current' \in Nat
  BY <1>2 DEF FlowInv
<1>5. SaveInv'
  <2>1. IsRequest(saving)'
    BY <1>1, <1>3, <1>4 DEF IsRequest
  <2>2. Sound(g)' /\ saving'.graph = g
    BY <1>1, <1>3 DEF Sound
  <2> QED BY <1>1, <1>2, <1>3, <2>1 DEF SaveInv
<1>6. DrawnInv' /\ LoadInv' /\ ShownInv'
  BY <1>2, DrawingStays, LoadingStays, ShowingStays DEF EditorInv, HandleSave
<1> QED BY <1>2, <1>5, <1>6 DEF EditorInv

LEMMA HandleRestoreKeeps ==
    ASSUME EditorInv, HandleRestore
    PROVE  EditorInv' /\ VersionsKept
<1>1. FlowInv' /\ VersionsKept
  BY RestoreKeeps DEF EditorInv, HandleRestore
<1>2. DrawnInv' /\ LoadInv' /\ SaveInv'
  BY <1>1, DrawingStays, LoadingStays, SavingStays DEF EditorInv, HandleRestore
<1>3. ShownInv'
  <2>1. IsRequest(restoring) /\ restoring.step # "no"
    BY DEF EditorInv, ShownInv, HandleRestore
  <2>2. restoring' = [step |-> "done", graph |-> restoring.graph, version |-> restoring.version]
    BY <2>1 DEF HandleRestore, IsRequest
  <2>3. IsRequest(restoring)'
    BY <2>1, <2>2 DEF IsRequest
  <2> QED BY <1>1, <2>1, <2>3 DEF EditorInv, ShownInv, HandleRestore, VersionsKept
<1> QED BY <1>1, <1>2, <1>3 DEF EditorInv

LEMMA HandleLoadKeeps ==
    ASSUME EditorInv, HandleLoad
    PROVE  EditorInv' /\ VersionsKept
<1>1. FlowInv' /\ VersionsKept /\ versions' = versions
  BY VersionsStay DEF EditorInv, HandleLoad, flowVars
<1>2. DrawnInv' /\ SaveInv'
  BY <1>1, DrawingStays, SavingStays DEF EditorInv, HandleLoad
<1>3. loading' = [step |-> "done", graph |-> stored, version |-> current] /\ loading.step = "sent"
  BY DEF HandleLoad
<1>4. current \in DOMAIN versions /\ current \in Nat /\ versions[current] = stored
      /\ IsGraph(stored)
  BY DEF EditorInv, FlowInv, CurrentIsVersion, Sound
<1>5. LoadInv'
  BY <1>1, <1>3, <1>4 DEF LoadInv, IsRequest
<1>6. ShownInv'
  BY <1>1, <1>3 DEF EditorInv, ShownInv, HandleLoad
<1> QED BY <1>1, <1>2, <1>5, <1>6 DEF EditorInv

\* The nodes of one graph with the edges of another.
LEMMA MixedParts ==
    ASSUME NEW g, NEW h, IsGraph(g), Rooted(g), IsGraph(h), Rooted(h)
    PROVE  /\ IsGraph([h EXCEPT !.nodes = g.nodes]) /\ Rooted([h EXCEPT !.nodes = g.nodes])
           /\ IsGraph([h EXCEPT !.edges = g.edges]) /\ Rooted([h EXCEPT !.edges = g.edges])
<1>1. /\ [h EXCEPT !.nodes = g.nodes] = [nodes |-> g.nodes, edges |-> h.edges]
      /\ [h EXCEPT !.edges = g.edges] = [nodes |-> h.nodes, edges |-> g.edges]
  BY DEF IsGraph
<1>2. /\ IsGraph([nodes |-> g.nodes, edges |-> h.edges])
      /\ IsGraph([nodes |-> h.nodes, edges |-> g.edges])
  BY DEF IsGraph
<1>3. /\ Rooted([nodes |-> g.nodes, edges |-> h.edges])
      /\ Rooted([nodes |-> h.nodes, edges |-> g.edges])
  BY DEF Rooted, NodesOf
<1> QED BY <1>1, <1>2, <1>3

LEMMA OthersKeep ==
    ASSUME EditorInv, Others
    PROVE  EditorInv' /\ VersionsKept
<1>1. FlowInv /\ IsGraph(stored) /\ Rooted(stored)
  BY DEF EditorInv, FlowInv, CurrentIsVersion, Sound
<1>2. ASSUME NEW g \in Elsewhere PROVE IsGraph(g) /\ Rooted(g)
  BY ElsewhereAssumption DEF Rooted
<1>3. FlowInv' /\ VersionsKept
  <2>1. ASSUME NEW g \in Elsewhere,
               \/ Update(g) \/ Update([stored EXCEPT !.nodes = g.nodes])
               \/ Update([stored EXCEPT !.edges = g.edges])
        PROVE  FlowInv' /\ VersionsKept
    BY <1>1, <1>2, <2>1, MixedParts, UpdateKeeps
  <2>2. ASSUME NEW v \in DOMAIN versions, Restore(v) PROVE FlowInv' /\ VersionsKept
    BY <1>1, <2>2, RestoreKeeps
  <2> QED BY <2>1, <2>2 DEF Others
<1>4. DrawnInv' /\ LoadInv' /\ SaveInv' /\ ShownInv'
  BY <1>3, DrawingStays, AnswersStay DEF EditorInv, Others, tabVars
<1> QED BY <1>3, <1>4 DEF EditorInv

-----------------------------------------------------------------------------
LEMMA StepKeeps ==
    ASSUME EditorInv, [Next]_vars
    PROVE  EditorInv' /\ VersionsKept
<1>1. CASE Draw \/ Palette
  <2>1. DrawnInv' /\ UNCHANGED << flowVars, shown, loading, saving, restoring >>
    BY <1>1, DrawKeeps, PaletteKeeps DEF EditorInv
  <2>2. FlowInv' /\ VersionsKept
    BY <2>1, VersionsStay DEF EditorInv
  <2> QED BY <2>1, <2>2, AnswersStay DEF EditorInv
<1>2. CASE Requests
  BY <1>2, RequestsKeep, VersionsStay DEF Requests, EditorInv
<1>3. CASE UNCHANGED vars
  <2>1. FlowInv' /\ VersionsKept
    BY <1>3, VersionsStay DEF EditorInv, vars
  <2> QED BY <1>3, <2>1, DrawingStays, AnswersStay DEF EditorInv, vars, tabVars
<1> QED BY <1>1, <1>2, <1>3, HandleSaveKeeps, HandleRestoreKeeps, HandleLoadKeeps, OthersKeep
        DEF Next

LEMMA Starts ==
    ASSUME Init PROVE EditorInv /\ Log!Init
<1>1. DOMAIN versions = {1} /\ versions[1] = Template /\ current = 1 /\ stored = Template
  BY DEF Init, FlowInit
<1>2. DOMAIN versions = 1 .. 1
  BY <1>1
<1>3. FlowInv
  BY <1>1, <1>2, TemplateSound DEF FlowInv, CurrentIsVersion
<1>4. DrawnInv
  <2>1. DOMAIN << >> = {} /\ << >> \in [{} -> Node]
    OBVIOUS
  <2>2. nodes = << >> /\ edges = {} /\ context = None
    BY DEF Init, TabInit
  <2>3. DrawnParts
    BY <2>1, <2>2, Zenon DEF DrawnParts
  <2> QED BY <2>3, DrawnByParts
<1>5. LoadInv /\ SaveInv /\ ShownInv
  BY NoRequest, AskingIsRequest DEF Init, TabInit, LoadInv, SaveInv, ShownInv
<1>6. Log!Init
  BY <1>1 DEF Log!Init
<1> QED BY <1>3, <1>4, <1>5, <1>6 DEF EditorInv

\* In every reachable state the server holds sound graphs that its versions name, the
\* editor's requests carry what their kind promises, and what the editor shows is what
\* some version was, edited since or not.
THEOREM EditorInvariant == Spec => []EditorInv
<1>1. Init => EditorInv
  BY Starts
<1>2. EditorInv /\ [Next]_vars => EditorInv'
  BY StepKeeps
<1> QED BY <1>1, <1>2, PTL DEF Spec

\* What EditorInv says in the properties' words.
LEMMA EditorInvShows ==
    ASSUME EditorInv
    PROVE  TypeOK /\ CurrentIsVersion /\ EveryVersionRuns /\ SentIsAccepted /\ AnsweredIsStored
<1>1. FlowTypeOK /\ EveryVersionRuns
  BY FlowTypes DEF EditorInv
<1>2. IsGraph(Canvas) /\ (context # None => IsContext(context))
  BY DEF EditorInv, DrawnInv
<1>3. TypeOK
  BY <1>1, <1>2 DEF EditorInv, LoadInv, SaveInv, ShownInv, TypeOK
<1>4. CurrentIsVersion
  BY DEF EditorInv, FlowInv
<1>5. SentIsAccepted /\ AnsweredIsStored
  BY DEF EditorInv, SaveInv, Sound, SentIsAccepted, AnsweredIsStored
<1> QED BY <1>1, <1>3, <1>4, <1>5

\* Type correctness of the versions, the canvas, the palette and the requests.
THEOREM TypeCorrect == Spec => []TypeOK
BY EditorInvariant, EditorInvShows, PTL

\* The graph that runs is the one stored under the version shown as current.
THEOREM CurrentStored == Spec => []CurrentIsVersion
BY EditorInvariant, EditorInvShows, PTL

\* Every version that can be selected is acyclic, has no edge into nothing and leads
\* to an approval, also after updates of the nodes or the edges alone.
THEOREM VersionsRun == Spec => []EveryVersionRuns
BY EditorInvariant, EditorInvShows, PTL

\* A graph that passes the editor's check is not refused by the server's: the editor
\* never draws an edge to the trigger, and a circle of one node is a circle.
THEOREM SavesAccepted == Spec => []SentIsAccepted
BY EditorInvariant, EditorInvShows, PTL

\* The version in the answer to a save is the graph that was sent.
THEOREM AnswersStored == Spec => []AnsweredIsStored
BY EditorInvariant, EditorInvShows, PTL

\* The server's versions, whatever editors do, are a log: VersionLog is implemented.
THEOREM FlowLogImplemented == Spec => FlowLog
<1>1. Init => Log!Init
  BY Starts
<1>2. EditorInv /\ [Next]_vars => [Log!Add \/ Log!Select]_<< versions, current >>
  BY StepKeeps DEF VersionsKept
<1> QED BY <1>1, <1>2, EditorInvariant, PTL DEF Spec, FlowLog, Log!Spec

-----------------------------------------------------------------------------
(* Edges.                                                                  *)

\* Only the edge itself and its two ends count.
LEMMA SameEnds ==
    ASSUME NEW g, NEW h, NEW e, Fast(g, e),
           e.source \in NodesOf(h), e.target \in NodesOf(h),
           h.nodes[e.source].kind = g.nodes[e.source].kind,
           e.handle \in g.nodes[e.source].branches => e.handle \in h.nodes[e.source].branches
    PROVE  Fast(h, e)
BY DEF Fast, Follows

LEMMA DrawingStaysFast ==
    ASSUME EditorInv, Draw
    PROVE  LooseEdges(Canvas') \subseteq LooseEdges(Canvas)
<1>0. DrawnParts
  BY DrawnByParts DEF EditorInv
<1> SUFFICES ASSUME NEW e \in edges', e \in edges => Fast(Canvas, e)
             PROVE  Fast(Canvas', e)
  BY DEF LooseEdges, Canvas
<1>1. ASSUME NEW s \in NodeIds, NEW t \in NodeIds, NEW h \in BranchIds \union {NoHandle},
             Connect(s, h, t)
      PROVE  Fast(Canvas', e)
  <2>1. CASE e \in edges
    BY <1>1, <2>1 DEF Connect, Canvas, Fast, Follows, NodesOf
  <2>2. CASE e = [source |-> s, handle |-> h, target |-> t]
    BY <1>1, <2>2 DEF Connect, Canvas, Fast, Follows, NodesOf, Handles
  <2> QED BY <1>1, <2>1, <2>2 DEF Connect
<1>2. ASSUME NEW d \in edges, RemoveEdge(d) PROVE Fast(Canvas', e)
  BY <1>2 DEF RemoveEdge, Canvas, Fast, Follows, NodesOf
<1>3. ASSUME NEW n \in NodeIds, RemoveNode(n) PROVE Fast(Canvas', e)
  <2>1. e \in edges /\ e.source # n /\ e.target # n /\ nodes' = [m \in DOMAIN nodes \ {n} |-> nodes[m]]
    BY <1>3 DEF RemoveNode, Without
  <2> QED BY <2>1 DEF Canvas, Fast, Follows, NodesOf
<1>4. ASSUME NEW n \in NodeIds, NEW b \in BranchIds, AddBranch(n, b) PROVE Fast(Canvas', e)
  <2>1. e \in edges /\ DOMAIN nodes' = DOMAIN nodes
        /\ \A m \in DOMAIN nodes : nodes'[m].kind = nodes[m].kind
                                   /\ nodes[m].branches \subseteq nodes'[m].branches
    BY <1>0, <1>4 DEF AddBranch, DrawnParts, Node
  <2> QED BY <2>1 DEF Canvas, Fast, Follows, NodesOf
<1>5. ASSUME NEW n \in NodeIds, NEW b \in BranchIds, RemoveBranch(n, b) PROVE Fast(Canvas', e)
  <2>1. /\ e \in edges /\ DOMAIN nodes' = DOMAIN nodes /\ ~(e.source = n /\ e.handle = b)
        /\ \A m \in DOMAIN nodes : nodes'[m].kind = nodes[m].kind
        /\ \A m \in DOMAIN nodes : \A c \in nodes[m].branches :
                ~(m = n /\ c = b) => c \in nodes'[m].branches
    BY <1>0, <1>5 DEF RemoveBranch, DrawnParts, Node
  <2> QED BY <2>1 DEF Canvas, Fast, Follows, NodesOf
<1> QED BY <1>1, <1>2, <1>3, <1>4, <1>5 DEF Draw

\* An inserted node is fastened on both sides, if the palette's context is not stale.
LEMMA InsertingStaysFast ==
    ASSUME EditorInv, NEW n \in FreshIds, NEW node \in Menu, InsertNode(n, node), ~StaleContext
    PROVE  LooseEdges(Canvas') \subseteq LooseEdges(Canvas)
<1>0. /\ DrawnParts /\ context # None /\ IsContext(context) /\ n \notin DOMAIN nodes
  BY DrawnByParts DEF EditorInv, DrawnParts, InsertNode, Known
<1>1. /\ context.source \in DOMAIN nodes /\ context.target \subseteq DOMAIN nodes
      /\ HandleOf(context) \in Handles(context.source)
  BY DEF StaleContext
<1>2. /\ DOMAIN nodes' = DOMAIN nodes \union {n} /\ nodes'[n] = node
      /\ \A m \in DOMAIN nodes : nodes'[m] = nodes[m]
  BY <1>0 DEF InsertNode
<1>3. PICK first \in DefaultHandles(node) :
        edges' = (edges \ context.edge)
            \union {[source |-> context.source, handle |-> HandleOf(context), target |-> n]}
            \union {[source |-> n, handle |-> first, target |-> t] : t \in context.target}
  BY DEF InsertNode
<1> SUFFICES ASSUME NEW e \in edges', e \in edges => Fast(Canvas, e)
             PROVE  Fast(Canvas', e)
  BY DEF LooseEdges, Canvas
<1>4. CASE e \in edges
  BY <1>2, <1>4 DEF Canvas, Fast, Follows, NodesOf
<1>5. CASE e = [source |-> context.source, handle |-> HandleOf(context), target |-> n]
  BY <1>1, <1>2, <1>5 DEF Canvas, Fast, Follows, NodesOf, Handles
<1>6. ASSUME NEW t \in context.target, e = [source |-> n, handle |-> first, target |-> t]
      PROVE  Fast(Canvas', e)
  <2>1. IF node.kind = "condition" THEN first \in node.branches ELSE first = NoHandle
    BY CanvasAssumption DEF DefaultHandles
  <2> QED BY <1>1, <1>2, <1>6, <2>1 DEF Canvas, Fast, Follows, NodesOf
<1> QED BY <1>3, <1>4, <1>5, <1>6

LEMMA StaysFast ==
    ASSUME EditorInv, [Next]_vars
    PROVE  \/ LooseEdges(Canvas') \subseteq LooseEdges(Canvas)
           \/ SaveArrives \/ LoadArrives
           \/ context # None /\ context' = None /\ StaleContext
<1>1. UNCHANGED << nodes, edges >> => LooseEdges(Canvas') \subseteq LooseEdges(Canvas)
  BY DEF LooseEdges, Canvas
<1>2. ASSUME NEW n \in FreshIds, NEW node \in Menu, InsertNode(n, node)
      PROVE  \/ LooseEdges(Canvas') \subseteq LooseEdges(Canvas)
             \/ context # None /\ context' = None /\ StaleContext
  BY <1>2, InsertingStaysFast DEF InsertNode
<1>3. CASE Palette
  BY <1>1, <1>2, <1>3 DEF Palette, InsertRequest, ConnectEnd, Opens, CancelInsert
<1>4. CASE Requests
  BY <1>1, <1>4 DEF Requests, Save, SaveFails, ChooseVersion, RestoreArrives, RestoreFails,
                    LoadNumbers, LoadFails, canvasVars
<1>5. CASE HandleSave \/ HandleRestore \/ HandleLoad \/ Others \/ UNCHANGED vars
  BY <1>1, <1>5 DEF HandleSave, HandleRestore, HandleLoad, Others, vars, tabVars, canvasVars
<1> QED BY <1>3, <1>4, <1>5, DrawingStaysFast DEF Next

\* Only two steps of the tab put another number on the page.
LEMMA NumberChanges ==
    ASSUME [Next]_vars, shown' # shown
    PROVE  SaveArrives \/ LoadNumbers
<1>1. CASE Draw
  BY <1>1 DEF Draw, Connect, RemoveEdge, RemoveNode, AddBranch, RemoveBranch
<1>2. CASE Palette
  BY <1>2 DEF Palette, InsertRequest, ConnectEnd, Opens, CancelInsert, InsertNode
<1>3. CASE Requests
  BY <1>3 DEF Requests, Save, SaveFails, ChooseVersion, RestoreArrives, RestoreFails,
              LoadArrives, LoadFails
<1>4. CASE HandleSave \/ HandleRestore \/ HandleLoad \/ Others \/ UNCHANGED vars
  BY <1>4 DEF HandleSave, HandleRestore, HandleLoad, Others, vars, tabVars
<1> QED BY <1>1, <1>2, <1>3, <1>4 DEF Next

\* An answer shows the graph of the version it names, whatever else has arrived in
\* between; the number of a load is replaced only by the one of a save.
THEOREM AnswersShow == Spec => AnswersShowTheirVersion
<1>1. ASSUME EditorInv, [Next]_vars
      PROVE  [/\ (SaveArrives /\ edges = saving.graph.edges) => versions[shown'] = Canvas'
              /\ LoadArrives => Shows(Canvas', loading.version)
              /\ LoadNumbers => shown' = loading.version
              /\ shown' # shown => SaveArrives \/ LoadNumbers]_vars
  <2>1. ASSUME LoadArrives PROVE Shows(Canvas', loading.version)
    <3>1. Canvas'.nodes = nodes' /\ Canvas'.edges = edges'
      BY DEF Canvas
    <3> QED BY <1>1, <2>1, <3>1, LoadedGraph DEF Shows
  <2>2. LoadNumbers => shown' = loading.version
    BY DEF LoadNumbers
  <2> QED BY <1>1, <2>1, <2>2, SaveShows, NumberChanges
<1> QED BY <1>1, EditorInvariant, PTL DEF Spec, AnswersShowTheirVersion

\* Edges come loose only where an answer replaces the nodes under them or the palette
\* inserts at something that is gone.
THEOREM EdgesFastened == Spec => EdgesStayFast
<1>1. ASSUME EditorInv, [Next]_vars
      PROVE  [\/ LooseEdges(Canvas') \subseteq LooseEdges(Canvas)
              \/ SaveArrives \/ LoadArrives
              \/ context # None /\ context' = None /\ StaleContext]_vars
  BY <1>1, StaysFast
<1> QED BY <1>1, EditorInvariant, PTL DEF Spec, EdgesStayFast
=============================================================================
