----------------------------- MODULE FlowEditor -----------------------------
(***************************************************************************)
(* The editor of a process flow: one tab in detail (FlowCanvas), the       *)
(* server (FlowVersions), and what others do to the same flow.             *)
(***************************************************************************)
EXTENDS FlowVersions, FlowCanvas

CONSTANTS
    Elsewhere,          \* bound: graphs that other tabs and agents come with
    MaxWork             \* bound: changes of the canvas and twice the versions

ASSUME ElsewhereAssumption ==
    /\ MaxWork \in Nat
    /\ \A g \in Elsewhere :
        /\ IsGraph(g)
        /\ Trigger \in NodesOf(g) => g.nodes[Trigger].kind = "trigger"

vars == << flowVars, tabVars >>

Init == FlowInit /\ TabInit

Draw ==
    /\ \/ \E s, t \in NodeIds, h \in BranchIds \union {NoHandle} : Connect(s, h, t)
       \/ \E e \in edges : RemoveEdge(e)
       \/ \E n \in NodeIds : RemoveNode(n)
       \/ \E n \in NodeIds, b \in BranchIds : AddBranch(n, b) \/ RemoveBranch(n, b)
    /\ UNCHANGED flowVars

Palette ==
    /\ \/ \E e \in edges : InsertRequest(e)
       \/ \E n \in NodeIds, h \in BranchIds \union {NoHandle} : ConnectEnd(n, h)
       \/ CancelInsert
       \/ \E n \in FreshIds, node \in Menu : InsertNode(n, node)
    /\ UNCHANGED flowVars

Requests ==
    /\ \/ Save \/ SaveArrives \/ SaveFails
       \/ \E v \in DOMAIN versions : ChooseVersion(v)
       \/ RestoreArrives \/ RestoreFails
       \/ LoadNumbers \/ LoadArrives \/ LoadFails
    /\ UNCHANGED flowVars

---------------------------------------------------------------------------
(* The server answers; the answer then is on its way.                      *)

HandleSave ==
    /\ saving.step = "sent"
    /\ Update(saving.graph)
    /\ saving' = [saving EXCEPT !.step = "done", !.version = current']
    /\ UNCHANGED << canvasVars, shown, loading, restoring, drawn >>

HandleRestore ==
    /\ restoring.step = "sent"
    /\ Restore(restoring.version)
    /\ restoring' = [restoring EXCEPT !.step = "done"]
    /\ UNCHANGED << canvasVars, shown, loading, saving, drawn >>

HandleLoad ==
    /\ loading.step = "sent"
    /\ loading' = [step |-> "done", graph |-> stored, version |-> current]
    /\ UNCHANGED << flowVars, canvasVars, shown, saving, restoring, drawn >>

\* Another tab saves, an agent sends nodes, edges or both, another restores.
Others ==
    /\ \/ \E g \in Elsewhere :
            \/ Update(g)
            \/ Update([stored EXCEPT !.nodes = g.nodes])
            \/ Update([stored EXCEPT !.edges = g.edges])
       \/ \E v \in DOMAIN versions : Restore(v)
    /\ UNCHANGED tabVars

Next ==
    /\ \/ Draw \/ Palette \/ Requests
       \/ HandleSave \/ HandleRestore \/ HandleLoad \/ Others
    /\ drawn' + 2 * Cardinality(DOMAIN versions') <= MaxWork

Spec == Init /\ [][Next]_vars

---------------------------------------------------------------------------
IsContext(c) ==
    /\ c = [source |-> c.source, handle |-> c.handle, target |-> c.target, edge |-> c.edge]
    /\ c.source \in NodeIds /\ c.handle \in BranchIds \union {NoHandle}
    /\ c.target \subseteq NodeIds /\ c.edge \subseteq Edge

IsRequest(r) ==
    /\ r = [step |-> r.step, graph |-> r.graph, version |-> r.version]
    /\ r.step \in {"no", "sent", "done", "numbered"} /\ IsGraph(r.graph) /\ r.version \in Nat

(* The canvas is loaded again only after the restore that asked for it is  *)
(* over: the versions can be chosen from once it is shown.                 *)
TypeOK ==
    /\ FlowTypeOK
    /\ IsGraph(Canvas)
    /\ context # None => IsContext(context)
    /\ shown = 0 \/ shown \in DOMAIN versions
    /\ IsRequest(loading) /\ IsRequest(saving) /\ IsRequest(restoring)
    /\ loading.step # "no" => restoring.step = "no"

(* What the editor's own check lets pass is accepted by the server's: a    *)
(* save is not refused for its graph, whatever was drawn, loaded and       *)
(* overwritten before.                                                     *)
SentIsAccepted == saving.step # "no" => Accepted(saving.graph)

(* The version in the answer to a save is the graph that was sent, also if *)
(* others saved or restored before and after it.                           *)
AnsweredIsStored == saving.step = "done" => versions[saving.version] = saving.graph

(* An answer puts the graph of the version it names on the canvas: that of *)
(* a save unless the edges were changed meanwhile, that of a load with its *)
(* condition edges put to a branch. The number beside it is the save's;    *)
(* a load's may have been replaced, between its number and its graph, by   *)
(* the answer to a save and by nothing else.                               *)
Shows(g, v) ==
    /\ g.nodes = versions[v].nodes
    /\ \A e \in g.edges : {e, [e EXCEPT !.handle = NoHandle]} \intersect versions[v].edges # {}

AnswersShowTheirVersion ==
    [][ /\ (SaveArrives /\ edges = saving.graph.edges) => versions[shown'] = Canvas'
        /\ LoadArrives => Shows(Canvas', loading.version)
        /\ LoadNumbers => shown' = loading.version
        /\ shown' # shown => SaveArrives \/ LoadNumbers]_vars

(* An edge loses an end or the branch it starts at (it is not drawn any    *)
(* more, cannot be removed by itself, and keeps the flow from being saved) *)
(* only when an answer replaces the nodes under it, when the palette was   *)
(* opened for something that is gone by now, or when its line was drawn    *)
(* out of a condition's entry.                                             *)
Fast(g, e) ==
    /\ {e.source, e.target} \subseteq NodesOf(g)
    /\ IF g.nodes[e.source].kind = "condition" THEN Follows(g, e) ELSE e.handle = NoHandle

LooseEdges(g) == {e \in g.edges : ~Fast(g, e)}

StaleContext ==
    \/ ~({context.source} \union context.target \subseteq DOMAIN nodes)
    \/ ~(context.edge \subseteq edges)
    \/ HandleOf(context) \notin Handles(context.source)

EdgesStayFast ==
    [][\/ LooseEdges(Canvas') \subseteq LooseEdges(Canvas)
       \/ SaveArrives \/ LoadArrives
       \/ context # None /\ context' = None /\ StaleContext]_vars

=============================================================================
