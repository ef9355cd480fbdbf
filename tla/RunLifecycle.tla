---------------------------- MODULE RunLifecycle ----------------------------
(***************************************************************************)
(* What a run of the execution service promises to whoever started it.     *)
(* A visit is one branch's stay at one node.  While the run is open its    *)
(* visits are performed, each once.  When the result of a call is unknown  *)
(* the run stands in doubt until an administrator accepts that the visits  *)
(* in doubt are performed again, or the run is ended.  After its end       *)
(* nothing is performed.                                                   *)
(***************************************************************************)
EXTENDS Naturals

CONSTANT Visits

VARIABLES phase,      \* "open", "doubt" or "ended"
          performed,  \* how often the effect of a visit was produced
          accepted    \* how often the risk of repeating it was accepted

vars == <<phase, performed, accepted>>

Init ==
    /\ phase = "open"
    /\ performed = [v \in Visits |-> 0]
    /\ accepted = [v \in Visits |-> 0]

InDoubt == {v \in Visits : performed[v] = accepted[v] + 1}

Perform(v) ==
    /\ phase = "open" /\ performed[v] = accepted[v]
    /\ performed' = [performed EXCEPT ![v] = @ + 1]
    /\ UNCHANGED <<phase, accepted>>

Doubt ==
    /\ phase = "open"
    /\ InDoubt # {}
    /\ phase' = "doubt"
    /\ UNCHANGED <<performed, accepted>>

\* The administrator accepts that some of the visits in doubt are repeated.
Settle ==
    /\ phase = "doubt"
    /\ \E S \in SUBSET InDoubt :
          /\ S # {}
          /\ accepted' = [v \in Visits |-> accepted[v] + IF v \in S THEN 1 ELSE 0]
    /\ phase' = "open"
    /\ UNCHANGED performed

End ==
    /\ phase # "ended"
    /\ phase' = "ended"
    /\ UNCHANGED <<performed, accepted>>

Next ==
    \/ \E v \in Visits : Perform(v)
    \/ Doubt
    \/ Settle
    \/ End

Spec == Init /\ [][Next]_vars
=============================================================================
