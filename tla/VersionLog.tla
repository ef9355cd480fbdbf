----------------------------- MODULE VersionLog -----------------------------
(***************************************************************************)
(* What the server promises of the versions of a form and of a flow: a log *)
(* that only grows, numbered without a gap, and one entry of it selected.  *)
(* Whoever holds a number (a record, a run, a restore) finds under it what *)
(* was there when it was given out.                                        *)
(***************************************************************************)
EXTENDS Naturals

VARIABLES log, selected

Init == DOMAIN log = {1} /\ selected = 1

\* One more entry, selected at once or later.
Add ==
    \E last \in DOMAIN log :
        /\ last + 1 \notin DOMAIN log
        /\ DOMAIN log' = DOMAIN log \union {last + 1}
        /\ \A v \in DOMAIN log : log'[v] = log[v]
        /\ selected' \in {selected, last + 1}

Select == selected' \in DOMAIN log /\ UNCHANGED log

Spec == Init /\ [][Add \/ Select]_<< log, selected >>

=============================================================================
