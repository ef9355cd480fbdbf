---------------------------- MODULE FormVersions ----------------------------
(***************************************************************************)
(* The versions of one form's schema and the requests that save a new one  *)
(* (save_form_schema_definition in forms.rs).  A save is a row of          *)
(* statements, each committed by itself: read the definition, insert the   *)
(* version, update the definition, compile the storage plan.  Requests     *)
(* overlap, and one may break off between any two of its statements.       *)
(***************************************************************************)
EXTENDS FormSchemas

VARIABLES
    versions,           \* form_schemas: version -> schema
    current, latest,    \* form_definitions: current and latest schema version
    plan,               \* form_storage_definitions: the compiled version
    saves,              \* the requests and how far each has come
    overlap             \* auxiliary: two saves were under way at once

versionVars == << versions, current, latest, plan, saves, overlap >>

Versions == DOMAIN versions
NoBase == 0             \* base_version is not given

Running(s) == saves[s].step \in {"read", "inserted", "defined"}

Unused == [step |-> "unused", content |-> Blank, base |-> NoBase, next |-> 0, changed |-> FALSE]

VersionsInit ==
    /\ versions = [v \in {1} |-> Blank]
    /\ current = 1 /\ latest = 1 /\ plan = 1
    /\ saves = [s \in Saves |-> Unused]
    /\ overlap = FALSE

---------------------------------------------------------------------------
\* A request arrives.
Request(s, content, base) ==
    /\ saves[s].step = "unused"
    /\ saves' = [saves EXCEPT ![s] = [Unused EXCEPT !.step = "sent", !.content = content,
                                                    !.base = base]]
    /\ UNCHANGED << versions, current, latest, plan, overlap >>

\* The schema the request is compared with, and the version it will have.
BaseOf(s) == IF saves[s].base = NoBase THEN current ELSE saves[s].base

NextVersion(base, changed) == IF changed THEN latest + 1 ELSE base

\* Reads the definition and the base, which is not needed any more then; an
\* unknown base is refused.
Read(s) ==
    LET changed == versions[BaseOf(s)] # saves[s].content
    IN  /\ saves[s].step = "sent"
        /\ BaseOf(s) \in Versions
        /\ saves' = [saves EXCEPT ![s].step = "read", ![s].base = NoBase,
                                  ![s].changed = changed,
                                  ![s].next = NextVersion(BaseOf(s), changed)]
        /\ overlap' = (overlap \/ \E r \in Saves \ {s} : Running(r))
        /\ UNCHANGED << versions, current, latest, plan >>

\* Inserts the new version; the unique index refuses a number that is taken.
TakenNever(n) == FALSE
Taken(n) == n \in Versions

Insert(s) ==
    /\ saves[s].step = "read" /\ saves[s].changed
    /\ LET n == saves[s].next
       IN  IF Taken(n)
           THEN /\ saves' = [saves EXCEPT ![s].step = "refused"]
                /\ UNCHANGED versions
           ELSE /\ saves' = [saves EXCEPT ![s].step = "inserted"]
                /\ versions' = [v \in Versions \union {n} |->
                                    IF v = n THEN saves[s].content ELSE versions[v]]
    /\ UNCHANGED << current, latest, plan, overlap >>

\* Updates the definition, from here on the form's schema.
LatestIsNext(s) == saves[s].next
LatestAfter(s) == IF saves[s].changed THEN saves[s].next ELSE latest

Define(s) ==
    /\ \/ saves[s].step = "inserted"
       \/ saves[s].step = "read" /\ ~saves[s].changed
    /\ current' = saves[s].next
    /\ latest' = LatestAfter(s)
    /\ saves' = [saves EXCEPT ![s].step = "defined"]
    /\ UNCHANGED << versions, plan, overlap >>

\* sync_current_storage_plan; then the answer is on its way.
CompiledLatest(s) == latest
Compiled(s) == saves[s].next

Compile(s) ==
    /\ saves[s].step = "defined"
    /\ plan' = Compiled(s)
    /\ saves' = [saves EXCEPT ![s].step = "done"]
    /\ UNCHANGED << versions, current, latest, overlap >>

\* A statement fails, the schema is refused or the process dies: what was
\* written before stays.
BreakOff(s) ==
    /\ saves' = [saves EXCEPT ![s].step =
                    IF @ \in {"inserted", "defined"} THEN "broken" ELSE "refused"]
    /\ saves[s].step = "sent" \/ Running(s)
    /\ UNCHANGED << versions, current, latest, plan, overlap >>

Handle(s) == Read(s) \/ Insert(s) \/ Define(s) \/ Compile(s) \/ BreakOff(s)

VersionsNext ==
    \E s \in Saves :
        \/ Handle(s)
        \/ \E content \in Contents, base \in Nat : Request(s, content, base)

VersionsSpec == VersionsInit /\ [][VersionsNext]_versionVars

---------------------------------------------------------------------------
Steps == {"unused", "sent", "read", "inserted", "defined", "done", "refused", "broken"}

VersionsTypeOK ==
    /\ Versions \subseteq Nat /\ versions \in [Versions -> Contents]
    /\ current \in Nat /\ latest \in Nat /\ plan \in Nat
    /\ saves \in [Saves -> [step : Steps, content : Contents, base : Nat, next : Nat,
                            changed : BOOLEAN]]
    /\ overlap \in BOOLEAN

(* The versions the form, its latest number and its storage plan name are  *)
(* stored, wherever saves overlapped or broke off: the form can be read.   *)
CurrentExists == {current, latest, plan} \subseteq Versions

(* The versions are numbered without a gap; at most one lies beyond the    *)
(* latest: that of a save which has inserted it and not yet told the       *)
(* definition, or which broke off there.  (In the second case no new       *)
(* version can be saved any more: every number the form gives out is       *)
(* taken.)                                                                 *)
LatestOrOrphan ==
    \/ Versions = 1 .. latest
    \/ /\ Versions = 1 .. latest + 1
       /\ \E s \in Saves : saves[s].step \in {"inserted", "broken"}
                           /\ saves[s].changed /\ saves[s].next = latest + 1

(* A save that is answered has its own schema stored under the version in  *)
(* the answer, also when another save chose the same number.               *)
AnsweredIsStored ==
    \A s \in Saves : saves[s].step \in {"inserted", "defined", "done"} =>
        saves[s].next \in Versions /\ versions[saves[s].next] = saves[s].content

(* The form's versions are a log: a record or a restore that refers to one *)
(* by its number finds the schema it was saved under.                      *)
Log == INSTANCE VersionLog WITH log <- versions, selected <- current
FormLog == Log!Spec

(* The storage plan is the current version's when no save is under way,    *)
(* unless two overlapped (the plan may be compiled for the one that was    *)
(* not defined last) or one broke off in the middle.                       *)
PlanFollowsCurrent ==
    \/ plan = current
    \/ overlap
    \/ \E s \in Saves : Running(s) \/ saves[s].step = "broken"

=============================================================================
