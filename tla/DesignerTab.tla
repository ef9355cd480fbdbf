---------------------------- MODULE DesignerTab -----------------------------
(***************************************************************************)
(* One designer in a browser tab (DesignerScreen.tsx): the canvas and the  *)
(* source editor, loading, saving, restoring, and the question before it   *)
(* is left.  How the canvas is edited is DesignerCanvas; here a change,    *)
(* also one undone, just shows another schema.                             *)
(***************************************************************************)
EXTENDS FormSchemas

CONSTANTS
    Typed,              \* bound: what is typed into the source editor
    Lookups,            \* bound: the looks for the form's flow at the same time
    None                \* no snapshot, no source, no save

ASSUME TabAssumption ==
    /\ Typed \subseteq Contents
    /\ None \notin Contents /\ None \notin Saves \union Lookups
    /\ Lookups \intersect Saves = {}

VARIABLES
    open,               \* the designer is mounted
    canvas,
    saved,              \* savedSnapshotRef
    base,               \* currentVersion, sent along as base_version
    source,             \* schemaSource, None unless it was edited
    loading,            \* the schema was asked for
    restoring,          \* versions that were asked for
    mine,               \* the saves in flight, of the canvas or of the source
    opening,            \* handleWorkflowDesign: what was shown at its click
    dialog,             \* the question before leaving
    leaving,            \* the save the dialog waits for
    ghost               \* a handler of a designer that was left may still
                        \* push the router, whatever is open by then

document == << canvas, saved, base, source >>
requests == << loading, restoring, mine, opening >>
tabVars == << open, document, requests, dialog, leaving, ghost >>

NoLookup == [of |-> "no", canvas |-> Blank]

TabInit ==
    /\ open = FALSE
    /\ canvas = Blank /\ saved = None /\ base = 1 /\ source = None
    /\ loading = FALSE /\ restoring = {} /\ mine = [s \in Saves |-> "no"]
    /\ opening = [l \in Lookups |-> NoLookup]
    /\ dialog = "none" /\ leaving = None /\ ghost = FALSE

\* A fresh designer is blank and asks for its schema.
OpenTab ==
    /\ ~open
    /\ open' = TRUE /\ loading' = TRUE
    /\ UNCHANGED << document, restoring, mine, opening, dialog, leaving, ghost >>

\* The handlers that go on to the router after what they await.
Awaiting == {l \in Lookups : opening[l].of # "no"} \union ({leaving} \ {None})

\* The page is left by the handler `by`: what the tab held is gone, answers find nobody;
\* only the handlers that still await something will push the router when they get it.
Leave(by) ==
    /\ ghost' = (ghost \/ Awaiting \ {by} # {})
    /\ open' = FALSE
    /\ canvas' = Blank /\ saved' = None /\ base' = 1 /\ source' = None
    /\ loading' = FALSE /\ restoring' = {} /\ mine' = [s \in Saves |-> "no"]
    /\ opening' = [l \in Lookups |-> NoLookup]
    /\ dialog' = "none" /\ leaving' = None

---------------------------------------------------------------------------
\* Drops and resizing, keys, properties, undo and redo.
Edit(c) ==
    /\ open /\ c # canvas
    /\ canvas' = c
    /\ UNCHANGED << open, saved, base, source, requests, dialog, leaving, ghost >>

EditSource(c) ==
    /\ open /\ dialog = "none"
    /\ source' = c
    /\ UNCHANGED << open, canvas, saved, base, requests, dialog, leaving, ghost >>

---------------------------------------------------------------------------
(* The schema and its versions arrive.                                     *)

LoadArrives(version, content) ==
    /\ loading /\ content \in Parsable
    /\ canvas' = Built[content] /\ saved' = Built[content] /\ base' = version
    /\ loading' = FALSE
    /\ UNCHANGED << open, source, restoring, mine, opening, dialog, leaving, ghost >>

\* The designer stays as it is; nobody asks again.
LoadFails ==
    /\ loading /\ loading' = FALSE
    /\ UNCHANGED << open, document, restoring, mine, opening, dialog, leaving, ghost >>

AskRestore(version) ==
    /\ open /\ dialog = "none"
    /\ restoring' = restoring \union {version}
    /\ UNCHANGED << open, document, loading, mine, opening, dialog, leaving, ghost >>

\* The version is shown; it is not saved before the user saves it.
RestoreArrives(version, content) ==
    /\ version \in restoring /\ content \in Parsable
    /\ restoring' = restoring \ {version}
    /\ canvas' = Built[content] /\ base' = version
    /\ UNCHANGED << open, saved, source, loading, mine, opening, dialog, leaving, ghost >>

RestoreFails(version) ==
    /\ version \in restoring /\ restoring' = restoring \ {version}
    /\ UNCHANGED << open, document, loading, mine, opening, dialog, leaving, ghost >>

---------------------------------------------------------------------------
(* persistCurrentSchema.  Nothing keeps a second save from starting while  *)
(* one is in flight.                                                       *)

MaySave == IF source = None THEN canvas \in Valid ELSE source \in Parsable
Payload == Built[IF source = None THEN canvas ELSE source]

Sends(s) ==
    /\ open /\ MaySave
    /\ mine' = [mine EXCEPT ![s] = IF source = None THEN "canvas" ELSE "source"]
    /\ UNCHANGED << open, document, loading, restoring, opening, ghost >>

SaveButton(s) == dialog = "none" /\ Sends(s) /\ UNCHANGED << dialog, leaving >>

SaveAndLeave(s) == dialog = "asked" /\ Sends(s) /\ dialog' = "saving" /\ leaving' = s

InFlight(s) == mine[s] # "no"

SnapshotOfCanvas(content) == canvas
SnapshotOf(content) == content

\* A saved source goes onto the canvas, whatever is there by now.
Stays(s, content, version) ==
    /\ mine' = [mine EXCEPT ![s] = "no"]
    /\ base' = version /\ saved' = SnapshotOf(content)
    /\ IF mine[s] = "source" THEN canvas' = content /\ source' = None
       ELSE UNCHANGED << canvas, source >>
    /\ UNCHANGED << open, loading, restoring, opening, dialog, leaving, ghost >>

Answered(s, content, version) ==
    InFlight(s) /\ IF s = leaving THEN Leave(s) ELSE Stays(s, content, version)

SaveFails(s) ==
    /\ InFlight(s)
    /\ mine' = [mine EXCEPT ![s] = "no"]
    /\ IF s = leaving THEN dialog' = "asked" /\ leaving' = None
       ELSE UNCHANGED << dialog, leaving >>
    /\ UNCHANGED << open, document, loading, restoring, opening, ghost >>

---------------------------------------------------------------------------
(* navigateWithUnsavedCheck and its dialog.                                *)

NothingUnsaved == source = None /\ saved \in {None, canvas}

LeaveUnasked == open /\ dialog = "none" /\ NothingUnsaved /\ Leave(None)

Ask ==
    /\ open /\ dialog = "none" /\ ~NothingUnsaved
    /\ dialog' = "asked"
    /\ UNCHANGED << open, document, requests, leaving, ghost >>

Stay ==
    /\ dialog = "asked" /\ dialog' = "none"
    /\ UNCHANGED << open, document, requests, leaving, ghost >>

LeaveWithoutSaving == dialog = "asked" /\ Leave(None)

---------------------------------------------------------------------------
(* handleWorkflowDesign: the form's flow is looked for, and made again if  *)
(* there is none; then the same check, by the handler of the render that   *)
(* was clicked: of the canvas and the source as they were at the click,    *)
(* against what is saved by now.                                           *)

DesignFlow(l) ==
    /\ open /\ dialog = "none" /\ opening[l].of = "no"
    /\ opening' = [opening EXCEPT ![l] = IF source = None THEN [of |-> "canvas", canvas |-> canvas]
                                         ELSE [of |-> "source", canvas |-> Blank]]
    /\ UNCHANGED << open, document, loading, restoring, mine, dialog, leaving, ghost >>

NothingWasUnsaved(l) == opening[l].of = "canvas" /\ saved \in {None, opening[l].canvas}

FlowLeaves(l) == NothingWasUnsaved(l) /\ Leave(l)

LookupEnds(l) ==
    /\ opening[l].of # "no"
    /\ opening' = [opening EXCEPT ![l] = NoLookup]
    /\ UNCHANGED << open, document, loading, restoring, mine, leaving, ghost >>

\* A dialog that is shown is left as it is; it leads to the flow now.
FlowAsks(l) ==
    /\ LookupEnds(l) /\ ~NothingWasUnsaved(l)
    /\ dialog' = (IF dialog = "none" THEN "asked" ELSE dialog)

FlowFails(l) == LookupEnds(l) /\ UNCHANGED dialog

\* A handler of a designer that was left gets its answer.
GhostLeaves == ghost /\ open /\ Leave(None)

GhostEnds == ghost /\ ghost' = FALSE /\ UNCHANGED << open, document, requests, dialog, leaving >>

TabAlone ==
    \/ OpenTab \/ LoadFails \/ LeaveUnasked \/ Ask \/ Stay \/ LeaveWithoutSaving
    \/ GhostLeaves \/ GhostEnds
    \/ \E l \in Lookups : DesignFlow(l) \/ FlowLeaves(l) \/ FlowAsks(l) \/ FlowFails(l)
    \/ \E c \in Contents : Edit(c)
    \/ \E c \in Typed : EditSource(c)
    \/ \E s \in Saves : SaveFails(s)
    \/ \E version \in restoring : RestoreFails(version)

TabTypeOK ==
    /\ open \in BOOLEAN /\ loading \in BOOLEAN
    /\ canvas \in Contents
    /\ saved \in Contents \union {None} /\ source \in Contents \union {None}
    /\ base \in Nat /\ restoring \subseteq Nat
    /\ mine \in [Saves -> {"no", "canvas", "source"}]
    /\ opening \in [Lookups -> [of : {"no", "canvas", "source"}, canvas : Contents]]
    /\ ghost \in BOOLEAN
    /\ dialog \in {"none", "asked", "saving"} /\ leaving \in Saves \union {None}
    /\ dialog = "saving" <=> leaving # None
    /\ leaving # None => InFlight(leaving)

=============================================================================
