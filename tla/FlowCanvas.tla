----------------------------- MODULE FlowCanvas -----------------------------
(***************************************************************************)
(* The flow editor in a browser tab (PageClient.tsx of automations): the   *)
(* nodes and the edges on its canvas, kept in two states, the palette that *)
(* inserts a node, and the requests it has in flight.                      *)
(***************************************************************************)
EXTENDS FlowGraph

CONSTANTS
    None,               \* the palette is closed
    Menu,               \* what the palette offers: new nodes
    FreshIds            \* bound: the ids it may give them; opened if one is left

ASSUME CanvasAssumption ==
    /\ Menu \subseteq Node
    /\ \A node \in Menu :
        node.kind # "trigger" /\ (node.kind = "condition" <=> node.branches # {})
    /\ FreshIds \subseteq NodeIds \ {Trigger}

VARIABLES
    nodes, edges,
    context,            \* insertContext: what the palette was opened for
    shown,              \* flowState.currentVersion, 0 before a load
    loading,            \* loadEditor, which hides the canvas
    saving,             \* handleSaveFlow
    restoring,          \* handleRestoreVersion; bound: one at a time
    drawn               \* auxiliary: changes of the canvas so far

canvasVars == << nodes, edges, context >>
tabVars == << canvasVars, shown, loading, saving, restoring, drawn >>

Canvas == [nodes |-> nodes, edges |-> edges]
Empty == [nodes |-> << >>, edges |-> {}]

Idle == [step |-> "no", graph |-> Empty, version |-> 0]
Asking(version) == [Idle EXCEPT !.step = "sent", !.version = version]

\* The page asks for the flow as soon as it is open.
TabInit ==
    /\ nodes = << >> /\ edges = {} /\ context = None /\ shown = 0
    /\ loading = Asking(0) /\ saving = Idle /\ restoring = Idle /\ drawn = 0

Editing == loading.step = "no"
Draws == Editing /\ drawn' = drawn + 1

---------------------------------------------------------------------------
(* Drawing.                                                                *)

\* Where edges start.
Handles(n) == IF nodes[n].kind = "condition" THEN nodes[n].branches ELSE {NoHandle}

\* An edge without a handle is drawn from the first one.
Drawn(e) ==
    /\ {e.source, e.target} \subseteq DOMAIN nodes /\ Handles(e.source) # {}
    /\ e.handle = NoHandle \/ e.handle \in Handles(e.source)

\* onConnect: from a handle to any node but a trigger.
Connect(source, handle, target) ==
    /\ Draws
    /\ {source, target} \subseteq DOMAIN nodes /\ handle \in Handles(source)
    /\ nodes[target].kind # "trigger" /\ target # Trigger
    /\ edges' = edges \union {[source |-> source, handle |-> handle, target |-> target]}
    /\ UNCHANGED << nodes, context, shown, loading, saving, restoring >>

\* Backspace on what is selected; an edge that is not drawn cannot be.
RemoveEdge(e) ==
    /\ Draws /\ e \in edges /\ Drawn(e)
    /\ edges' = edges \ {e}
    /\ UNCHANGED << nodes, context, shown, loading, saving, restoring >>

Without(n) == [m \in DOMAIN nodes \ {n} |-> nodes[m]]

\* Backspace, or the drawer's button unless it is the trigger.
RemoveNode(n) ==
    /\ Draws /\ n \in DOMAIN nodes
    /\ nodes' = Without(n)
    /\ edges' = {e \in edges : n \notin {e.source, e.target}}
    /\ UNCHANGED << context, shown, loading, saving, restoring >>

\* Ids are never used again as long as somebody may know them.
Known(n) ==
    \/ n \in DOMAIN nodes \union DOMAIN saving.graph.nodes
    \/ \E e \in edges : n \in {e.source, e.target}
    \/ context # None /\ n \in {context.source} \union context.target

KnownBranch(n, b) ==
    \/ b \in nodes[n].branches
    \/ n \in DOMAIN saving.graph.nodes /\ b \in saving.graph.nodes[n].branches
    \/ \E e \in edges : e.source = n /\ e.handle = b
    \/ context # None /\ context.source = n /\ context.handle = b

AddBranch(n, b) ==
    /\ Draws /\ n \in DOMAIN nodes /\ nodes[n].kind = "condition" /\ ~KnownBranch(n, b)
    /\ nodes' = [nodes EXCEPT ![n].branches = @ \union {b}]
    /\ UNCHANGED << edges, context, shown, loading, saving, restoring >>

\* handleRemoveConditionBranch
RemoveBranchAlone(n, b) ==
    /\ Draws /\ n \in DOMAIN nodes /\ b \in nodes[n].branches
    /\ Cardinality(nodes[n].branches) > 1
    /\ nodes' = [nodes EXCEPT ![n].branches = @ \ {b}]
    /\ UNCHANGED << edges, context, shown, loading, saving, restoring >>

RemoveBranch(n, b) ==
    /\ Draws /\ n \in DOMAIN nodes /\ b \in nodes[n].branches
    /\ Cardinality(nodes[n].branches) > 1
    /\ nodes' = [nodes EXCEPT ![n].branches = @ \ {b}]
    /\ edges' = {e \in edges : ~(e.source = n /\ e.handle = b)}
    /\ UNCHANGED << context, shown, loading, saving, restoring >>

---------------------------------------------------------------------------
(* The palette: opened on an edge, or where a line is dropped.             *)

Opens(c) ==
    /\ Editing /\ context = None /\ \E n \in FreshIds : ~Known(n)
    /\ context' = c
    /\ UNCHANGED << nodes, edges, shown, loading, saving, restoring, drawn >>

InsertRequest(e) ==
    /\ e \in edges /\ Drawn(e)
    /\ Opens([source |-> e.source, handle |-> NoHandle, target |-> {e.target}, edge |-> {e}])

\* A line may also be drawn out of a node's entry, which has no handle id.
ConnectEnd(n, handle) ==
    /\ n \in DOMAIN nodes
    /\ handle \in Handles(n) \/ (nodes[n].kind # "trigger" /\ handle = NoHandle)
    /\ Opens([source |-> n, handle |-> handle, target |-> {}, edge |-> {}])

CancelInsert ==
    /\ Editing /\ context # None
    /\ context' = None
    /\ UNCHANGED << nodes, edges, shown, loading, saving, restoring, drawn >>

\* The edge that is replaced lends its handle, if it is still there.
HandleOf(c) ==
    IF c.handle # NoHandle \/ c.edge \intersect edges = {} THEN c.handle
    ELSE (CHOOSE e \in c.edge : TRUE).handle

DefaultHandles(node) == IF node.branches = {} THEN {NoHandle} ELSE node.branches

\* handleInsertNode
InsertNode(n, node) ==
    /\ Draws /\ context # None /\ ~Known(n)
    /\ nodes' = [m \in DOMAIN nodes \union {n} |-> IF m = n THEN node ELSE nodes[m]]
    /\ \E first \in DefaultHandles(node) :
        edges' = (edges \ context.edge)
            \union {[source |-> context.source, handle |-> HandleOf(context), target |-> n]}
            \union {[source |-> n, handle |-> first, target |-> t] : t \in context.target}
    /\ context' = None
    /\ UNCHANGED << shown, loading, saving, restoring >>

---------------------------------------------------------------------------
(* Saving, restoring and loading.                                          *)

Save ==
    /\ Editing /\ saving.step = "no" /\ Validated(Canvas)
    /\ saving' = [step |-> "sent", graph |-> Canvas, version |-> 0]
    /\ UNCHANGED << canvasVars, shown, loading, restoring, drawn >>

\* The nodes become those that were sent; the edges stay as they are by now.
SaveArrivesUnnumbered ==
    /\ saving.step = "done"
    /\ nodes' = saving.graph.nodes
    /\ saving' = Idle
    /\ UNCHANGED << edges, context, shown, loading, restoring, drawn >>

SaveArrives ==
    /\ saving.step = "done"
    /\ nodes' = saving.graph.nodes /\ shown' = saving.version
    /\ saving' = Idle
    /\ UNCHANGED << edges, context, loading, restoring, drawn >>

SaveFails ==
    /\ saving.step # "no" /\ saving' = Idle
    /\ UNCHANGED << canvasVars, shown, loading, restoring, drawn >>

ChooseVersion(v) ==
    /\ Editing /\ restoring.step = "no" /\ v # shown
    /\ restoring' = Asking(v)
    /\ UNCHANGED << canvasVars, shown, loading, saving, drawn >>

RestoreArrives ==
    /\ restoring.step = "done"
    /\ restoring' = Idle /\ loading' = Asking(0)
    /\ UNCHANGED << canvasVars, shown, saving, drawn >>

RestoreFails ==
    /\ restoring.step # "no" /\ restoring' = Idle
    /\ UNCHANGED << canvasVars, shown, loading, saving, drawn >>

\* ensureTriggerNode
WithTrigger(g) ==
    IF Roots(g) # {} THEN g.nodes
    ELSE [n \in NodesOf(g) \union {Trigger} |->
            IF n = Trigger THEN [kind |-> "trigger", branches |-> {}] ELSE g.nodes[n]]

\* migrateConditionEdgeHandles: a condition's first branch for no handle.
FirstBranches(g) ==
    {first \in [NodesOf(g) -> BranchIds \union {NoHandle}] :
        \A n \in NodesOf(g) :
            first[n] \in IF g.nodes[n].kind = "condition" THEN DefaultHandles(g.nodes[n])
                         ELSE {NoHandle}}

Migrated(g, first) ==
    {[e EXCEPT !.handle = IF @ = NoHandle /\ e.source \in NodesOf(g)
                          THEN first[e.source] ELSE @] : e \in g.edges}

\* loadEditor shows the number first, and then asks for the detail forms.
LoadNumbers ==
    /\ loading.step = "done"
    /\ shown' = loading.version
    /\ loading' = [loading EXCEPT !.step = "numbered"]
    /\ UNCHANGED << canvasVars, saving, restoring, drawn >>

\* The palette stays open for what it was opened for. The number is left alone: it may
\* be the one of a save that was answered meanwhile.
LoadArrives ==
    /\ loading.step = "numbered"
    /\ nodes' = WithTrigger(loading.graph)
    /\ \E first \in FirstBranches(loading.graph) : edges' = Migrated(loading.graph, first)
    /\ loading' = Idle
    /\ UNCHANGED << context, shown, saving, restoring, drawn >>

\* It may fail between the two as well: the number then stays over the graph of before.
LoadFails ==
    /\ loading.step # "no" /\ loading' = Idle
    /\ UNCHANGED << canvasVars, shown, saving, restoring, drawn >>

=============================================================================
