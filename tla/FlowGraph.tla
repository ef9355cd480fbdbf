----------------------------- MODULE FlowGraph ------------------------------
(***************************************************************************)
(* A process flow as the editor draws it and the server stores it: nodes   *)
(* and the edges between them, and when a graph may be saved.  Of a node's *)
(* configuration the branches of a condition count: an edge that leaves a  *)
(* condition starts at the handle of a branch.  The order of the branches  *)
(* is left out: any of them may be the first.                              *)
(***************************************************************************)
EXTENDS Naturals, FiniteSets

CONSTANTS
    NodeIds,
    Trigger,            \* trigger-1, the form was submitted
    BranchIds,
    NoHandle            \* the sourceHandle of an edge is null

ASSUME GraphAssumption ==
    /\ Trigger \in NodeIds /\ IsFiniteSet(NodeIds)
    /\ NoHandle \notin BranchIds

Kinds == {"trigger", "condition", "approval", "action"}
Node == [kind : Kinds, branches : SUBSET BranchIds]
Edge == [source : NodeIds, handle : BranchIds \union {NoHandle}, target : NodeIds]

IsGraph(g) ==
    /\ g = [nodes |-> g.nodes, edges |-> g.edges]
    /\ DOMAIN g.nodes \subseteq NodeIds /\ g.nodes \in [DOMAIN g.nodes -> Node]
    /\ g.edges \subseteq Edge

NodesOf(g) == DOMAIN g.nodes

EndsExist(g) == \A e \in g.edges : {e.source, e.target} \subseteq NodesOf(g)

Acyclic(g) ==
    \A S \in SUBSET NodesOf(g) :
        S # {} => \E n \in S : \A e \in g.edges : e.target = n => e.source \notin S

\* A condition is left by the handles of its branches only.
Follows(g, e) ==
    g.nodes[e.source].kind = "condition" => e.handle \in g.nodes[e.source].branches

\* Whatever is closed under the edges and holds the trigger holds an approval.
ReachesApproval(g) ==
    /\ Trigger \in NodesOf(g)
    /\ \A S \in SUBSET NodesOf(g) :
        Trigger \in S =>
            \/ \E n \in S : g.nodes[n].kind = "approval"
            \/ \E e \in g.edges :
                e.source \in S /\ Follows(g, e) /\ e.target \in NodesOf(g) \ S

---------------------------------------------------------------------------
\* validateWorkflowGraph and hasReachableProcessApproval, before a save.
Roots(g) == {n \in NodesOf(g) : g.nodes[n].kind = "trigger"}

ValidatedDangling(g) ==
    /\ Cardinality(Roots(g)) = 1
    /\ Acyclic(g)
    /\ ReachesApproval(g)

Validated(g) ==
    /\ Cardinality(Roots(g)) = 1
    /\ EndsExist(g) /\ Acyclic(g)
    /\ ReachesApproval(g)

\* validate_automation_graph, the server's own check.
ValidNodesAlone(g) ==
    /\ Trigger \in NodesOf(g)
    /\ \A e \in g.edges : e.target # Trigger /\ e.source # e.target
    /\ Acyclic(g)

ValidAutomationGraph(g) ==
    /\ Trigger \in NodesOf(g)
    /\ EndsExist(g)
    /\ \A e \in g.edges : e.target # Trigger /\ e.source # e.target
    /\ Acyclic(g)

Accepted(g) == ValidAutomationGraph(g) /\ ReachesApproval(g)

=============================================================================
