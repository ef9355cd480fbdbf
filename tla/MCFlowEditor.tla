--------------------------- MODULE MCFlowEditor ----------------------------
EXTENDS FlowEditor, TLC
CONSTANTS t, a, n, b1, b2

Plain(kind) == [kind |-> kind, branches |-> {}]
Line(source, handle, target) == [source |-> source, handle |-> handle, target |-> target]

\* An agent's graph: with the edges or the nodes of another, its line is one
\* of a condition without a branch, or a branch's line of no condition.
MCElsewhere ==
    {[nodes |-> (t :> Plain("trigger")) @@ (a :> Plain("approval")) @@ (n :> Plain("action")),
      edges |-> {Line(t, NoHandle, a), Line(t, NoHandle, n), Line(n, NoHandle, a)}]}

\* The palette's condition comes with two branches.
MCMenu == {[kind |-> "condition", branches |-> {b1, b2}]}

Symmetry == Permutations({b1, b2})
=============================================================================
