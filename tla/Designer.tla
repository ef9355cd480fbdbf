------------------------------ MODULE Designer ------------------------------
(***************************************************************************)
(* A form's designer: one tab in detail, the server with the form's        *)
(* versions, and everybody else who saves this form: other tabs, the       *)
(* rename in the navigation, the copy of a form, an agent.                 *)
(***************************************************************************)
EXTENDS FormVersions, DesignerTab

CONSTANT MaxRestoring   \* bound: versions the tab asks for at the same time

VARIABLE served         \* the version in the answer to the tab's first
                        \* question, 0 before it is handled

vars == << versionVars, tabVars, served >>

Init == VersionsInit /\ TabInit /\ served = 0

TheTab == TabAlone /\ served' = (IF loading' THEN served ELSE 0) /\ UNCHANGED versionVars

\* get_form_schema answers with the version that is current by then.
Serve ==
    /\ loading /\ served = 0
    /\ served' = current
    /\ UNCHANGED << versionVars, tabVars >>

Load ==
    /\ served # 0 /\ LoadArrives(served, versions[served])
    /\ served' = 0 /\ UNCHANGED versionVars

\* A version from the list; restore_form_version only reads it.
ChooseVersion ==
    /\ Cardinality(restoring) < MaxRestoring
    /\ \E v \in Versions : AskRestore(v)
    /\ UNCHANGED << versionVars, served >>

Restore ==
    /\ \E v \in restoring : RestoreArrives(v, versions[v])
    /\ UNCHANGED << versionVars, served >>

Save(s) ==
    /\ SaveButton(s) \/ SaveAndLeave(s)
    /\ Request(s, Payload, base)
    /\ UNCHANGED served

Answer(s) ==
    /\ saves[s].step = "done"
    /\ Answered(s, saves[s].content, saves[s].next)
    /\ served' = (IF loading' THEN served ELSE 0) /\ UNCHANGED versionVars

\* Another tab, a rename, a copy or an agent saves whatever it has made of
\* whatever version it has seen.
SaveElsewhere(s) ==
    /\ \E content \in Contents, b \in Versions \union {NoBase} : Request(s, content, b)
    /\ UNCHANGED << tabVars, served >>

Server(s) == Handle(s) /\ UNCHANGED << tabVars, served >>

Next ==
    \/ TheTab \/ Serve \/ Load \/ ChooseVersion \/ Restore
    \/ \E s \in Saves : Save(s) \/ Answer(s) \/ SaveElsewhere(s) \/ Server(s)

Spec == Init /\ [][Next]_vars

---------------------------------------------------------------------------
(* The dialog shows that it is saving exactly while the save it waits for  *)
(* is in flight: otherwise its buttons would stay disabled for ever.       *)
TypeOK == VersionsTypeOK /\ TabTypeOK /\ served \in Nat

(* What the tab takes for saved is held by the server, whichever of its    *)
(* saves was answered last and whatever was edited meanwhile.              *)
SavedIsStored ==
    saved # None => \E v \in Versions : Built[versions[v]] = saved

(* The version the tab works on exists; a save never fails for its base.   *)
BaseExists == base \in Versions /\ restoring \subseteq Versions

(* The page is left without a question only if what was looked at for      *)
(* something unsaved can be read again from the server, or if no schema    *)
(* has ever come from it: the canvas as it is, or, when the form's flow    *)
(* was looked for, as it was at the click.  What is edited while it is     *)
(* looked for is lost without a question, and so is whatever is on a       *)
(* designer that is open when a handler of one left before pushes the      *)
(* router; nothing else leaves the page behind the user's back.            *)
Stored(c) == saved = None \/ \E v \in Versions : Built[versions[v]] = c

LeavesNothingUnsaved ==
    [][ /\ LeaveUnasked => source = None /\ Stored(canvas)
        /\ \A l \in Lookups : FlowLeaves(l) => Stored(opening[l].canvas)
        /\ open /\ ~open' =>
            LeaveUnasked \/ (\E l \in Lookups : FlowLeaves(l)) \/ dialog # "none" \/ ghost]_vars

=============================================================================
