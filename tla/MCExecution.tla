---------------------------- MODULE MCExecution ----------------------------
(* Small flows, users and drivers for the model checking of Execution.     *)
EXTENDS Execution, TLC

CONSTANTS n1, n2, n3, n4, n5, u1, u2

Edge(to, b) == [to |-> to, branch |-> b]
NoPeople == [n \in Nodes |-> {}]

\* Drivers are interchangeable, and so are people who are asked in the same nodes:
\* nothing is chosen by their identity.
DriverSymmetry == Permutations(Drivers)
Symmetry == DriverSymmetry \cup Permutations(Users)

\* trigger -> http -> data: the shortest flow with an effect outside the database.
HttpNodes == {n1, n2, n3}
HttpKind  == n1 :> "data" @@ n2 :> "http" @@ n3 :> "data"
HttpEdges == n1 :> <<Edge(n2, "out")>> @@ n2 :> <<Edge(n3, "out")>> @@ n3 :> <<>>
HttpRank  == n1 :> 1 @@ n2 :> 2 @@ n3 :> 3

\* trigger with two outgoing edges (walked one after the other) that meet again;
\* one of the targets is a condition.
FanNodes == {n1, n2, n3, n4}
FanKind  == n1 :> "data" @@ n2 :> "condition" @@ n3 :> "http" @@ n4 :> "data"
FanEdges == n1 :> <<Edge(n2, "out"), Edge(n3, "out")>>
            @@ n2 :> <<Edge(n4, "yes")>> @@ n3 :> <<Edge(n4, "out")>> @@ n4 :> <<>>
FanRank  == n1 :> 1 @@ n2 :> 2 @@ n3 :> 2 @@ n4 :> 3

\* trigger -> parallel -> approval by one person and an HTTP request
CallNodes == {n1, n2, n3, n4}
CallKind  == n1 :> "data" @@ n2 :> "parallel" @@ n3 :> "human" @@ n4 :> "http"
CallEdges == n1 :> <<Edge(n2, "out")>> @@ n2 :> <<Edge(n3, "a"), Edge(n4, "b")>>
             @@ n3 :> <<>> @@ n4 :> <<>>
CallRank  == n1 :> 1 @@ n2 :> 2 @@ n3 :> 3 @@ n4 :> 3
CallPeople == [n \in Nodes |-> IF n = n3 THEN {u1} ELSE {}]

\* an approval by two people in mode any, then a parallel split into an approval by
\* both of them and an HTTP request
FlowNodes == {n1, n2, n3, n4, n5}
FlowKind  == n1 :> "data" @@ n2 :> "human" @@ n3 :> "parallel" @@ n4 :> "human" @@ n5 :> "http"
FlowEdges == n1 :> <<Edge(n2, "out")>> @@ n2 :> <<Edge(n3, "out")>>
             @@ n3 :> <<Edge(n4, "a"), Edge(n5, "b")>> @@ n4 :> <<>> @@ n5 :> <<>>
FlowRank  == n1 :> 1 @@ n2 :> 2 @@ n3 :> 3 @@ n4 :> 4 @@ n5 :> 4
FlowPeople == [n \in Nodes |-> IF n \in {n2, n4} THEN Users ELSE {}]
=============================================================================
