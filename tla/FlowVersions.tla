---------------------------- MODULE FlowVersions ----------------------------
(***************************************************************************)
(* A process flow on the server (automations.rs): its graph, its versions  *)
(* and the one that is current.  An update and a restore are transactions  *)
(* that lock the flow's row, so each is one step.  Nothing is compared     *)
(* with what the writer has seen: the last one wins.                       *)
(***************************************************************************)
EXTENDS FlowGraph

CONSTANT
    Approval            \* approval-1 of a new flow

ASSUME FlowAssumption == Approval \in NodeIds \ {Trigger}

VARIABLES
    stored,             \* automation_flows: the graph
    current,            \* automation_flows: the version it is
    versions            \* automation_flow_versions

flowVars == << stored, current, versions >>

\* create_process_flow_template
Template ==
    [nodes |-> [n \in {Trigger, Approval} |->
                    [kind |-> IF n = Trigger THEN "trigger" ELSE "approval", branches |-> {}]],
     edges |-> {[source |-> Trigger, handle |-> NoHandle, target |-> Approval]}]

FlowInit == stored = Template /\ current = 1 /\ versions = [v \in {1} |-> Template]

\* The version selected now may be older than the newest.
AfterCurrent == current + 1
NextVersion == (CHOOSE v \in DOMAIN versions : \A w \in DOMAIN versions : w <= v) + 1

ChangesNodes(g) == g.nodes # stored.nodes
Changes(g) == g # stored

\* update_automation_definition: a version is made only for another graph.
Update(g) ==
    /\ Accepted(g)
    /\ stored' = g
    /\ IF Changes(g)
       THEN /\ current' = NextVersion
            /\ versions' = [v \in DOMAIN versions \union {NextVersion} |->
                                IF v = NextVersion THEN g ELSE versions[v]]
       ELSE UNCHANGED << current, versions >>

\* restore_automation_flow_version: the version is selected, not copied.
Restore(v) ==
    /\ v \in DOMAIN versions /\ Accepted(versions[v])
    /\ stored' = versions[v] /\ current' = v
    /\ UNCHANGED versions

FlowNext ==
    \/ \E v \in DOMAIN versions : Restore(v)
    \/ \E g \in {h \in [nodes : UNION {[N -> Node] : N \in SUBSET NodeIds}, edges : SUBSET Edge] :
                    Accepted(h)} : Update(g)

FlowSpec == FlowInit /\ [][FlowNext]_flowVars

---------------------------------------------------------------------------
FlowTypeOK ==
    /\ IsGraph(stored)
    /\ DOMAIN versions \subseteq Nat
    /\ \A v \in DOMAIN versions : IsGraph(versions[v])
    /\ current \in DOMAIN versions

(* What runs is what the version says that is shown as current, after any  *)
(* sequence of updates and restores: an instance records its number.       *)
CurrentIsVersion == versions[current] = stored

(* A submission can be run by every version that may be selected: it       *)
(* starts, reaches an approval, meets no edge into nothing and ends.  So   *)
(* also after an update of the nodes or of the edges alone.                *)
EveryVersionRuns ==
    \A v \in DOMAIN versions :
        EndsExist(versions[v]) /\ Acyclic(versions[v]) /\ ReachesApproval(versions[v])

(* The flow's versions are a log: none ever changes, also when an update   *)
(* follows the restore of an older one.                                    *)
Log == INSTANCE VersionLog WITH log <- versions, selected <- current
FlowLog == Log!Spec

=============================================================================
