--------------------------- MODULE DesignerProofs ---------------------------
(***************************************************************************)
(* The designer and its versions, for any number of saves and any schemas: *)
(* the versions are a log without gaps whichever statements of whichever   *)
(* saves overlap or break off, and what the tab takes for saved is stored. *)
(***************************************************************************)
EXTENDS Designer, TLAPS

Saving == [step : Steps, content : Contents, base : Nat, next : Nat, changed : BOOLEAN]

\* What a request may rely on between two of its statements.
RequestInv(s) ==
    /\ saves[s].step = "read" /\ saves[s].changed => saves[s].next \in 1 .. latest + 1
    /\ saves[s].step = "read" /\ ~saves[s].changed =>
        saves[s].next \in Versions /\ versions[saves[s].next] = saves[s].content
    /\ saves[s].step \in {"inserted", "defined", "done"} =>
        saves[s].next \in Versions /\ versions[saves[s].next] = saves[s].content
    /\ saves[s].step = "inserted" => saves[s].changed /\ saves[s].next = latest + 1

OneInserted ==
    \A r, s \in Saves : saves[r].step = "inserted" /\ saves[s].step = "inserted" => r = s

\* The inductive invariant of the server: only one request can be between its
\* insert and its update, and it holds the next number.
ServerInv ==
    /\ VersionsTypeOK
    /\ latest # 0 /\ current \in Versions /\ plan \in Versions
    /\ LatestOrOrphan
    /\ \A s \in Saves : RequestInv(s)
    /\ OneInserted

\* The plan, as long as no two saves overlapped and none broke off.
InOrder ==
    /\ \A r, s \in Saves : Running(r) /\ Running(s) => r = s
    /\ \A s \in Saves : saves[s].step = "defined" => current = saves[s].next
    /\ (\A s \in Saves : saves[s].step # "defined") => plan = current

PlanInv == overlap \/ (\E s \in Saves : saves[s].step = "broken") \/ InOrder

LogStep == [Log!Add \/ Log!Select]_<< versions, current >>

VersionsKept ==
    /\ Versions \subseteq Versions'
    /\ \A v \in Versions : versions'[v] = versions[v]

-----------------------------------------------------------------------------
(* One save.                                                               *)

LEMMA SavesType == ServerInv => saves \in [Saves -> Saving]
BY DEF ServerInv, VersionsTypeOK, Saving

LEMMA AsRecord ==
    ASSUME NEW q \in Saving
    PROVE  q = [step |-> q.step, content |-> q.content, base |-> q.base, next |-> q.next,
                changed |-> q.changed]
BY DEF Saving

LEMMA OneSave ==
    ASSUME saves \in [Saves -> Saving], NEW s \in Saves, NEW q \in Saving,
           saves' = [saves EXCEPT ![s] = q]
    PROVE  /\ saves' \in [Saves -> Saving] /\ saves'[s] = q
           /\ \A r \in Saves : r # s => saves'[r] = saves[r]
OBVIOUS

\* One field of a request is replaced.
LEMMA StepField ==
    ASSUME NEW q \in Saving, NEW v \in Steps
    PROVE  [q EXCEPT !.step = v] = [step |-> v, content |-> q.content, base |-> q.base,
                                    next |-> q.next, changed |-> q.changed]
<1> DEFINE c == q.content  b == q.base  n == q.next  d == q.changed
<1>1. q = [step |-> q.step, content |-> c, base |-> b, next |-> n, changed |-> d]
  BY AsRecord
<1> HIDE DEF c, b, n, d
<1>2. [q EXCEPT !.step = v] = [step |-> v, content |-> c, base |-> b, next |-> n, changed |-> d]
  BY <1>1
<1> QED BY <1>2 DEF c, b, n, d

LEMMA ContentField ==
    ASSUME NEW q \in Saving, NEW v \in Contents
    PROVE  [q EXCEPT !.content = v] = [step |-> q.step, content |-> v, base |-> q.base,
                                       next |-> q.next, changed |-> q.changed]
<1> DEFINE s == q.step  b == q.base  n == q.next  d == q.changed
<1>1. q = [step |-> s, content |-> q.content, base |-> b, next |-> n, changed |-> d]
  BY AsRecord
<1> HIDE DEF s, b, n, d
<1>2. [q EXCEPT !.content = v] = [step |-> s, content |-> v, base |-> b, next |-> n, changed |-> d]
  BY <1>1
<1> QED BY <1>2 DEF s, b, n, d

LEMMA BaseField ==
    ASSUME NEW q \in Saving, NEW v \in Nat
    PROVE  [q EXCEPT !.base = v] = [step |-> q.step, content |-> q.content, base |-> v,
                                    next |-> q.next, changed |-> q.changed]
<1> DEFINE s == q.step  c == q.content  n == q.next  d == q.changed
<1>1. q = [step |-> s, content |-> c, base |-> q.base, next |-> n, changed |-> d]
  BY AsRecord
<1> HIDE DEF s, c, n, d
<1>2. [q EXCEPT !.base = v] = [step |-> s, content |-> c, base |-> v, next |-> n, changed |-> d]
  BY <1>1
<1> QED BY <1>2 DEF s, c, n, d

LEMMA SentRecord ==
    ASSUME NEW content \in Contents, NEW b \in Nat
    PROVE  [Unused EXCEPT !.step = "sent", !.content = content, !.base = b]
             = [step |-> "sent", content |-> content, base |-> b, next |-> 0, changed |-> FALSE]
<1> DEFINE q1 == [Unused EXCEPT !.step = "sent"]
           q2 == [q1 EXCEPT !.content = content]
<1>1. Unused \in Saving
  BY SchemasAssumption DEF Unused, NoBase, Saving, Steps
<1>2. q1 = [step |-> "sent", content |-> Blank, base |-> 0, next |-> 0, changed |-> FALSE]
  BY <1>1, StepField DEF Unused, NoBase, Steps
<1> HIDE DEF q1
<1>3. q1 \in Saving
  BY <1>2, SchemasAssumption DEF Saving, Steps
<1>4. q2 = [step |-> "sent", content |-> content, base |-> 0, next |-> 0, changed |-> FALSE]
  BY <1>2, <1>3, ContentField
<1> HIDE DEF q2
<1>5. q2 \in Saving
  BY <1>4 DEF Saving, Steps
<1>6. [q2 EXCEPT !.base = b]
        = [step |-> "sent", content |-> content, base |-> b, next |-> 0, changed |-> FALSE]
  BY <1>4, <1>5, BaseField
<1> QED BY <1>6, Zenon DEF q1, q2

LEMMA RequestFields ==
    ASSUME saves \in [Saves -> Saving], NEW s \in Saves, NEW content \in Contents, NEW b \in Nat,
           saves' = [saves EXCEPT ![s] = [Unused EXCEPT !.step = "sent", !.content = content,
                                                        !.base = b]]
    PROVE  /\ saves' \in [Saves -> Saving]
           /\ \A r \in Saves : r # s => saves'[r] = saves[r]
           /\ saves'[s].step = "sent" /\ saves'[s].content = content /\ saves'[s].base = b
<1> DEFINE q == [step |-> "sent", content |-> content, base |-> b, next |-> 0, changed |-> FALSE]
<1>1. saves' = [saves EXCEPT ![s] = q]
  BY SentRecord, Zenon
<1>2. q \in Saving
  BY DEF Saving, Steps
<1> HIDE DEF q
<1>3. saves' \in [Saves -> Saving] /\ saves'[s] = q
      /\ \A r \in Saves : r # s => saves'[r] = saves[r]
  BY <1>1, <1>2, OneSave
<1> QED BY <1>3 DEF q

LEMMA ReadFields ==
    ASSUME saves \in [Saves -> Saving], NEW s \in Saves, NEW n \in Nat, NEW c \in BOOLEAN,
           saves' = [saves EXCEPT ![s].step = "read", ![s].base = NoBase,
                                  ![s].changed = c, ![s].next = n]
    PROVE  /\ saves' \in [Saves -> Saving]
           /\ \A r \in Saves : r # s => saves'[r] = saves[r]
           /\ saves'[s].step = "read" /\ saves'[s].content = saves[s].content
           /\ saves'[s].changed = c /\ saves'[s].next = n
<1> DEFINE w == saves[s]
           q1 == [w EXCEPT !.step = "read"]
           q2 == [q1 EXCEPT !.base = NoBase]
           q3 == [q2 EXCEPT !.changed = c]
           q == [q3 EXCEPT !.next = n]
           d == w.content  g == w.changed  m == w.next
<1>1. saves[s] \in Saving
  OBVIOUS
<1>2. q1 = [step |-> "read", content |-> d, base |-> w.base, next |-> m, changed |-> g]
  BY <1>1, StepField DEF Steps
<1>3. saves' = [saves EXCEPT ![s] = q]
  OBVIOUS
<1>4. d \in Contents
  BY <1>1 DEF Saving
<1> HIDE DEF w, q1, d, g, m
<1>5. q2 = [step |-> "read", content |-> d, base |-> NoBase, next |-> m, changed |-> g]
  BY <1>2
<1> HIDE DEF q2
<1>6. q3 = [step |-> "read", content |-> d, base |-> NoBase, next |-> m, changed |-> c]
  BY <1>5
<1> HIDE DEF q3
<1>7. q = [step |-> "read", content |-> d, base |-> NoBase, next |-> n, changed |-> c]
  BY <1>6
<1> HIDE DEF q
<1>8. q \in Saving
  BY <1>7, <1>4 DEF Saving, Steps, NoBase
<1>9. saves' \in [Saves -> Saving] /\ saves'[s] = q
      /\ \A r \in Saves : r # s => saves'[r] = saves[r]
  BY <1>3, <1>8, OneSave
<1> QED BY <1>7, <1>9 DEF d, w

\* The other statements only move the request on.
LEMMA StepFields ==
    ASSUME saves \in [Saves -> Saving], NEW s \in Saves, NEW step \in Steps,
           saves' = [saves EXCEPT ![s].step = step]
    PROVE  /\ saves' \in [Saves -> Saving]
           /\ \A r \in Saves : r # s => saves'[r] = saves[r]
           /\ saves'[s].step = step /\ saves'[s].content = saves[s].content
           /\ saves'[s].changed = saves[s].changed /\ saves'[s].next = saves[s].next
<1> DEFINE w == saves[s]  q == [w EXCEPT !.step = step]
<1>1. w \in Saving
  OBVIOUS
<1>2. saves' = [saves EXCEPT ![s] = q]
  OBVIOUS
<1> HIDE DEF w
<1>3. q = [step |-> step, content |-> w.content, base |-> w.base, next |-> w.next,
           changed |-> w.changed]
  BY <1>1, StepField
<1> HIDE DEF q
<1>4. q \in Saving
  BY <1>1, <1>3 DEF Saving
<1>5. saves' \in [Saves -> Saving] /\ saves'[s] = q
      /\ \A r \in Saves : r # s => saves'[r] = saves[r]
  BY <1>2, <1>4, OneSave
<1> QED BY <1>3, <1>5 DEF w

-----------------------------------------------------------------------------
(* The server: each statement keeps its invariant and is a step of the log.*)

Others(s) ==
    /\ saves' \in [Saves -> Saving]
    /\ \A r \in Saves : r # s => saves'[r] = saves[r]

LEMMA SavingFields ==
    ASSUME ServerInv, NEW s \in Saves
    PROVE  /\ saves[s] \in Saving
           /\ saves[s].step \in Steps /\ saves[s].content \in Contents /\ saves[s].base \in Nat
           /\ saves[s].next \in Nat /\ saves[s].changed \in BOOLEAN
<1>1. saves[s] \in Saving
  BY SavesType
<1> QED BY <1>1 DEF Saving

\* A request moves on; the versions stay.
LEMMA RequestMoves ==
    ASSUME ServerInv, NEW s \in Saves, Others(s),
           UNCHANGED << versions, current, latest >>, plan' \in Versions, overlap' \in BOOLEAN,
           saves[s].step = "inserted" =>
                /\ saves'[s].step \in {"inserted", "broken"}
                /\ saves'[s].changed = saves[s].changed /\ saves'[s].next = saves[s].next,
           saves[s].step # "broken", saves'[s].step = "inserted" => saves[s].step = "inserted",
           RequestInv(s)'
    PROVE  ServerInv' /\ VersionsKept /\ LogStep
<1>1. VersionsTypeOK'
  BY DEF ServerInv, VersionsTypeOK, Saving, Versions, Others
<1>2. LatestOrOrphan'
  <2>1. CASE Versions = 1 .. latest
    BY <2>1 DEF LatestOrOrphan, Versions
  <2>2. CASE /\ Versions = 1 .. latest + 1
             /\ \E r \in Saves : saves[r].step \in {"inserted", "broken"}
                                 /\ saves[r].changed /\ saves[r].next = latest + 1
    <3>1. PICK r \in Saves : /\ saves[r].step \in {"inserted", "broken"}
                             /\ saves[r].changed /\ saves[r].next = latest + 1
      BY <2>2
    <3>2. /\ saves'[r].step \in {"inserted", "broken"}
          /\ saves'[r].changed /\ saves'[r].next = latest' + 1
      BY <3>1 DEF Others
    <3> QED BY <2>2, <3>2 DEF LatestOrOrphan, Versions
  <2> QED BY <2>1, <2>2 DEF ServerInv, LatestOrOrphan
<1>3. \A r \in Saves : RequestInv(r)'
  <2>1. \A r \in Saves : r # s => RequestInv(r)'
    BY DEF ServerInv, RequestInv, Versions, Others
  <2> QED BY <2>1
<1>4. OneInserted'
  BY DEF ServerInv, OneInserted, Others
<1>5. latest' # 0 /\ current' \in Versions' /\ plan' \in Versions'
  BY DEF ServerInv, Versions
<1> QED BY <1>1, <1>2, <1>3, <1>4, <1>5 DEF ServerInv, VersionsKept, Versions, LogStep

LEMMA RequestKeeps ==
    ASSUME ServerInv, NEW s \in Saves, NEW content \in Contents, NEW b \in Nat,
           Request(s, content, b)
    PROVE  ServerInv' /\ VersionsKept /\ LogStep
<1>1. Others(s) /\ saves'[s].step = "sent" /\ saves[s].step = "unused"
  BY RequestFields, SavesType DEF Request, Others
<1>2. UNCHANGED << versions, current, latest, plan, overlap >>
  BY DEF Request
<1>3. RequestInv(s)'
  BY <1>1 DEF RequestInv
<1>4. plan' \in Versions /\ overlap' \in BOOLEAN
  BY <1>2 DEF ServerInv, VersionsTypeOK
<1> QED BY <1>1, <1>2, <1>3, <1>4, RequestMoves

LEMMA ReadKeeps ==
    ASSUME ServerInv, NEW s \in Saves, Read(s)
    PROVE  ServerInv' /\ VersionsKept /\ LogStep
<1> DEFINE c == versions[BaseOf(s)] # saves[s].content
           n == NextVersion(BaseOf(s), c)
<1>1. /\ saves[s].step = "sent" /\ BaseOf(s) \in Versions /\ BaseOf(s) \in Nat
      /\ latest \in Nat /\ latest # 0 /\ saves[s].content \in Contents
  BY SavingFields DEF Read, ServerInv, VersionsTypeOK
<1>2. n \in Nat /\ c \in BOOLEAN
  BY <1>1 DEF NextVersion
<1>3. saves' = [saves EXCEPT ![s].step = "read", ![s].base = NoBase,
                             ![s].changed = c, ![s].next = n]
  BY DEF Read
<1>4. /\ UNCHANGED << versions, current, latest, plan >>
      /\ overlap' = (overlap \/ \E r \in Saves \ {s} : Running(r))
  BY DEF Read
<1>5. c => n = latest + 1
  BY DEF NextVersion
<1>6. ~c => n \in Versions /\ versions[n] = saves[s].content
  BY <1>1 DEF NextVersion
<1> HIDE DEF c, n
<1>7. /\ Others(s)
      /\ saves'[s].step = "read" /\ saves'[s].content = saves[s].content
      /\ saves'[s].changed = c /\ saves'[s].next = n
  BY <1>2, <1>3, ReadFields, SavesType DEF Others
<1>8. RequestInv(s)'
  BY <1>1, <1>2, <1>4, <1>5, <1>6, <1>7 DEF RequestInv, Versions
<1>9. plan' \in Versions /\ overlap' \in BOOLEAN
  BY <1>4 DEF ServerInv, VersionsTypeOK
<1> QED BY <1>1, <1>4, <1>7, <1>8, <1>9, RequestMoves

LEMMA InsertKeeps ==
    ASSUME ServerInv, NEW s \in Saves, Insert(s)
    PROVE  ServerInv' /\ VersionsKept /\ LogStep
<1> DEFINE n == saves[s].next
<1>1. /\ saves[s].step = "read" /\ saves[s].changed /\ n \in Nat /\ n \in 1 .. latest + 1
      /\ latest \in Nat /\ latest # 0 /\ saves[s].content \in Contents
  BY SavingFields DEF Insert, ServerInv, RequestInv, VersionsTypeOK
<1>2. UNCHANGED << current, latest, plan, overlap >>
  BY DEF Insert
<1>3. CASE Taken(n)
  <2>1. saves' = [saves EXCEPT ![s].step = "refused"] /\ UNCHANGED versions
    BY <1>3 DEF Insert
  <2>2. Others(s) /\ saves'[s].step = "refused"
    BY <2>1, StepFields, SavesType DEF Others, Steps
  <2>3. RequestInv(s)'
    BY <2>2 DEF RequestInv
  <2>4. plan' \in Versions /\ overlap' \in BOOLEAN
    BY <1>2 DEF ServerInv, VersionsTypeOK
  <2> QED BY <1>1, <1>2, <2>1, <2>2, <2>3, <2>4, RequestMoves
<1>4. CASE ~Taken(n)
  <2>1. /\ saves' = [saves EXCEPT ![s].step = "inserted"]
        /\ versions' = [v \in Versions \union {n} |->
                            IF v = n THEN saves[s].content ELSE versions[v]]
    BY <1>4 DEF Insert
  <2>2. /\ Others(s) /\ saves'[s].step = "inserted" /\ saves'[s].content = saves[s].content
        /\ saves'[s].changed = saves[s].changed /\ saves'[s].next = n
    BY <2>1, StepFields, SavesType DEF Others, Steps
  <2>3. n \notin Versions
    BY <1>4 DEF Taken
  <2>4. Versions = 1 .. latest /\ n = latest + 1
    <3>1. Versions = 1 .. latest \/ Versions = 1 .. latest + 1
      BY DEF ServerInv, LatestOrOrphan
    <3> QED BY <1>1, <2>3, <3>1
  <2>5. /\ Versions' = 1 .. latest + 1 /\ versions'[n] = saves[s].content
        /\ \A v \in Versions : versions'[v] = versions[v]
    BY <1>1, <2>1, <2>3, <2>4 DEF Versions
  <2>6. \A r \in Saves : saves[r].step # "inserted"
    BY <2>3, <2>4 DEF ServerInv, RequestInv
  <2>7. VersionsTypeOK'
    <3>1. Versions' \subseteq Nat /\ versions' \in [Versions' -> Contents]
      BY <1>1, <2>1, <2>4, <2>5 DEF ServerInv, VersionsTypeOK, Versions
    <3> QED BY <1>2, <2>2, <3>1 DEF ServerInv, VersionsTypeOK, Others, Saving
  <2>8. LatestOrOrphan'
    BY <1>1, <1>2, <2>2, <2>4, <2>5 DEF LatestOrOrphan
  <2>9. \A r \in Saves : RequestInv(r)'
    <3>1. RequestInv(s)'
      BY <1>1, <1>2, <2>2, <2>4, <2>5 DEF RequestInv
    <3>2. ASSUME NEW r \in Saves, r # s PROVE RequestInv(r)'
      <4>1. saves'[r] = saves[r] /\ RequestInv(r)
        BY <2>2, <3>2 DEF Others, ServerInv
      <4>2. Versions \subseteq Versions' /\ latest' = latest
        BY <1>1, <1>2, <2>4, <2>5
      <4> QED BY <2>5, <2>6, <4>1, <4>2 DEF RequestInv
    <3> QED BY <3>1, <3>2
  <2>10. OneInserted'
    BY <2>2, <2>6 DEF OneInserted, Others
  <2>11. latest' # 0 /\ current' \in Versions' /\ plan' \in Versions'
    BY <1>1, <1>2, <2>4, <2>5 DEF ServerInv
  <2>12. VersionsKept
    BY <1>1, <2>4, <2>5 DEF VersionsKept
  <2>13. Log!Add
    <3>1. latest \in DOMAIN versions /\ latest + 1 \notin DOMAIN versions
      BY <1>1, <2>4 DEF Versions
    <3>2. DOMAIN versions' = DOMAIN versions \union {latest + 1}
      BY <2>1, <2>4 DEF Versions
    <3>3. \A v \in DOMAIN versions : versions'[v] = versions[v]
      BY <2>5 DEF Versions
    <3> QED BY <1>2, <3>1, <3>2, <3>3 DEF Log!Add
  <2> QED BY <2>7, <2>8, <2>9, <2>10, <2>11, <2>12, <2>13 DEF ServerInv, LogStep
<1> QED BY <1>3, <1>4

LEMMA DefineKeeps ==
    ASSUME ServerInv, NEW s \in Saves, Define(s)
    PROVE  ServerInv' /\ VersionsKept /\ LogStep
<1> DEFINE n == saves[s].next
<1>7. \/ saves[s].step = "inserted"
      \/ saves[s].step = "read" /\ ~saves[s].changed
  BY DEF Define
<1>1. /\ n \in Versions /\ versions[n] = saves[s].content /\ n \in Nat
      /\ latest \in Nat /\ latest # 0
      /\ \/ saves[s].step = "inserted" /\ saves[s].changed /\ n = latest + 1
         \/ saves[s].step = "read" /\ ~saves[s].changed
  BY <1>7, SavingFields DEF ServerInv, RequestInv, VersionsTypeOK
<1>2. current' = n /\ latest' = LatestAfter(s) /\ UNCHANGED << versions, plan, overlap >>
  BY DEF Define
<1>3. /\ Others(s) /\ saves'[s].step = "defined" /\ saves'[s].content = saves[s].content
      /\ saves'[s].changed = saves[s].changed /\ saves'[s].next = n
  <2>1. saves' = [saves EXCEPT ![s].step = "defined"]
    BY DEF Define
  <2> QED BY <2>1, StepFields, SavesType DEF Others, Steps
<1>4. RequestInv(s)'
  BY <1>1, <1>2, <1>3 DEF RequestInv, Versions
<1>5. CASE saves[s].step = "read" /\ ~saves[s].changed
  <2>1. latest' = latest
    BY <1>2, <1>5 DEF LatestAfter
  <2>2. VersionsTypeOK'
    BY <1>1, <1>2, <1>3, <2>1 DEF ServerInv, VersionsTypeOK, Saving, Versions, Others
  <2>3. LatestOrOrphan'
    <3>1. CASE Versions = 1 .. latest
      BY <1>2, <2>1, <3>1 DEF LatestOrOrphan, Versions
    <3>2. CASE /\ Versions = 1 .. latest + 1
               /\ \E r \in Saves : saves[r].step \in {"inserted", "broken"}
                                   /\ saves[r].changed /\ saves[r].next = latest + 1
      <4>1. PICK r \in Saves : /\ saves[r].step \in {"inserted", "broken"}
                               /\ saves[r].changed /\ saves[r].next = latest + 1
        BY <3>2
      <4>2. saves'[r] = saves[r]
        BY <1>3, <1>5, <4>1 DEF Others
      <4> QED BY <1>2, <2>1, <3>2, <4>1, <4>2 DEF LatestOrOrphan, Versions
    <3> QED BY <3>1, <3>2 DEF ServerInv, LatestOrOrphan
  <2>4. \A r \in Saves : r # s => RequestInv(r)'
    BY <1>2, <1>3, <2>1 DEF ServerInv, RequestInv, Versions, Others
  <2>5. OneInserted'
    BY <1>3 DEF ServerInv, OneInserted, Others
  <2> QED BY <1>1, <1>2, <1>4, <2>1, <2>2, <2>3, <2>4, <2>5 DEF ServerInv, VersionsKept,
             Versions, LogStep, Log!Select
<1>6. CASE saves[s].step = "inserted" /\ saves[s].changed /\ n = latest + 1
  <2>1. latest' = latest + 1
    BY <1>2, <1>6 DEF LatestAfter
  <2>2. VersionsTypeOK'
    BY <1>1, <1>2, <1>3, <2>1 DEF ServerInv, VersionsTypeOK, Saving, Versions, Others
  <2>3. Versions = 1 .. latest + 1
    BY <1>1, <1>6 DEF ServerInv, LatestOrOrphan
  <2>4. LatestOrOrphan'
    BY <1>2, <2>1, <2>3 DEF LatestOrOrphan, Versions
  <2>5. ASSUME NEW r \in Saves, r # s PROVE RequestInv(r)'
    <3>1. saves'[r] = saves[r] /\ RequestInv(r) /\ saves[r].step # "inserted"
      BY <1>3, <1>6, <2>5 DEF Others, ServerInv, OneInserted
    <3> QED BY <1>1, <1>2, <2>1, <3>1 DEF RequestInv, Versions
  <2>6. OneInserted'
    BY <1>3, <1>6 DEF ServerInv, OneInserted, Others
  <2> QED BY <1>1, <1>2, <1>4, <2>1, <2>2, <2>4, <2>5, <2>6 DEF ServerInv, VersionsKept,
             Versions, LogStep, Log!Select
<1> QED BY <1>1, <1>5, <1>6

LEMMA CompileKeeps ==
    ASSUME ServerInv, NEW s \in Saves, Compile(s)
    PROVE  ServerInv' /\ VersionsKept /\ LogStep
<1>1. /\ saves[s].step = "defined" /\ plan' = saves[s].next
      /\ UNCHANGED << versions, current, latest, overlap >>
  BY DEF Compile, Compiled
<1>2. /\ Others(s) /\ saves'[s].step = "done" /\ saves'[s].content = saves[s].content
      /\ saves'[s].next = saves[s].next
  <2>1. saves' = [saves EXCEPT ![s].step = "done"]
    BY DEF Compile
  <2> QED BY <2>1, StepFields, SavesType DEF Others, Steps
<1>3. RequestInv(s)' /\ plan' \in Versions /\ overlap' \in BOOLEAN
  BY <1>1, <1>2 DEF ServerInv, RequestInv, Versions, VersionsTypeOK
<1> QED BY <1>1, <1>2, <1>3, RequestMoves

LEMMA BreakOffKeeps ==
    ASSUME ServerInv, NEW s \in Saves, BreakOff(s)
    PROVE  ServerInv' /\ VersionsKept /\ LogStep
<1> DEFINE step == IF saves[s].step \in {"inserted", "defined"} THEN "broken" ELSE "refused"
<1>1. /\ saves[s].step \in {"sent", "read", "inserted", "defined"}
      /\ UNCHANGED << versions, current, latest, plan, overlap >>
  BY DEF BreakOff, Running
<1>2. saves' = [saves EXCEPT ![s].step = step]
  BY DEF BreakOff
<1>3. step \in Steps /\ step \in {"broken", "refused"}
      /\ (saves[s].step = "inserted" => step = "broken")
  BY DEF Steps
<1> HIDE DEF step
<1>4. /\ Others(s) /\ saves'[s].step = step
      /\ saves'[s].changed = saves[s].changed /\ saves'[s].next = saves[s].next
  BY <1>2, <1>3, StepFields, SavesType DEF Others
<1>5. RequestInv(s)'
  BY <1>3, <1>4 DEF RequestInv
<1>6. plan' \in Versions /\ overlap' \in BOOLEAN
  BY <1>1 DEF ServerInv, VersionsTypeOK
<1> QED BY <1>1, <1>3, <1>4, <1>5, <1>6, RequestMoves

LEMMA HandleKeeps ==
    ASSUME ServerInv, NEW s \in Saves, Handle(s)
    PROVE  ServerInv' /\ VersionsKept /\ LogStep
BY ReadKeeps, InsertKeeps, DefineKeeps, CompileKeeps, BreakOffKeeps DEF Handle

-----------------------------------------------------------------------------
(* What requests carry, and the plan.                                      *)

ContentsKept ==
    \A r \in Saves : saves[r].step # "unused" =>
        saves'[r].step # "unused" /\ saves'[r].content = saves[r].content

LEMMA HandleKeepsContents ==
    ASSUME ServerInv, NEW s \in Saves, Handle(s)
    PROVE  ContentsKept
<1>1. CASE Read(s)
  <2>1. /\ NextVersion(BaseOf(s), versions[BaseOf(s)] # saves[s].content) \in Nat
        /\ (versions[BaseOf(s)] # saves[s].content) \in BOOLEAN
    BY <1>1 DEF Read, NextVersion, ServerInv, VersionsTypeOK
  <2>2. saves' = [saves EXCEPT ![s].step = "read", ![s].base = NoBase,
                      ![s].changed = versions[BaseOf(s)] # saves[s].content,
                      ![s].next = NextVersion(BaseOf(s), versions[BaseOf(s)] # saves[s].content)]
    BY <1>1 DEF Read
  <2>3. /\ \A r \in Saves : r # s => saves'[r] = saves[r]
        /\ saves'[s].step = "read" /\ saves'[s].content = saves[s].content
    BY <2>1, <2>2, ReadFields, SavesType
  <2> QED BY <2>3 DEF ContentsKept
<1>2. CASE Insert(s) \/ Define(s) \/ Compile(s) \/ BreakOff(s)
  <2>1. PICK step \in Steps \ {"unused"} : saves' = [saves EXCEPT ![s].step = step]
    BY <1>2 DEF Insert, Define, Compile, BreakOff, Steps
  <2>2. /\ \A r \in Saves : r # s => saves'[r] = saves[r]
        /\ saves'[s].step = step /\ saves'[s].content = saves[s].content
    BY <2>1, StepFields, SavesType
  <2> QED BY <2>2 DEF ContentsKept
<1> QED BY <1>1, <1>2 DEF Handle

LEMMA RequestKeepsContents ==
    ASSUME ServerInv, NEW s \in Saves, NEW content \in Contents, NEW b \in Nat,
           Request(s, content, b)
    PROVE  /\ ContentsKept
           /\ saves'[s].step = "sent" /\ saves'[s].content = content
           /\ \A r \in Saves : r # s => saves'[r] = saves[r]
<1>1. /\ saves'[s].step = "sent" /\ saves'[s].content = content /\ saves[s].step = "unused"
      /\ \A r \in Saves : r # s => saves'[r] = saves[r]
  BY RequestFields, SavesType DEF Request
<1> QED BY <1>1 DEF ContentsKept

\* While nobody else is at work, the request at work stays alone.
LEMMA RequestKeepsPlan ==
    ASSUME ServerInv, PlanInv, NEW s \in Saves, NEW content \in Contents, NEW b \in Nat,
           Request(s, content, b)
    PROVE  PlanInv'
<1>1. /\ saves'[s].step = "sent" /\ saves[s].step = "unused"
      /\ \A r \in Saves : r # s => saves'[r] = saves[r]
      /\ UNCHANGED << current, plan, overlap >>
  BY RequestKeepsContents, RequestFields, SavesType DEF Request
<1> QED BY <1>1 DEF PlanInv, InOrder, Running

LEMMA HandleKeepsPlan ==
    ASSUME ServerInv, PlanInv, NEW s \in Saves, Handle(s)
    PROVE  PlanInv'
<1>1. CASE Read(s)
  <2>1. /\ NextVersion(BaseOf(s), versions[BaseOf(s)] # saves[s].content) \in Nat
        /\ (versions[BaseOf(s)] # saves[s].content) \in BOOLEAN
    BY <1>1 DEF Read, NextVersion, ServerInv, VersionsTypeOK
  <2>2. saves' = [saves EXCEPT ![s].step = "read", ![s].base = NoBase,
                      ![s].changed = versions[BaseOf(s)] # saves[s].content,
                      ![s].next = NextVersion(BaseOf(s), versions[BaseOf(s)] # saves[s].content)]
    BY <1>1 DEF Read
  <2>3. /\ \A r \in Saves : r # s => saves'[r] = saves[r]
        /\ saves'[s].step = "read"
    BY <2>1, <2>2, ReadFields, SavesType
  <2>4. /\ saves[s].step = "sent" /\ UNCHANGED << current, plan >>
        /\ overlap' = (overlap \/ \E r \in Saves \ {s} : Running(r))
    BY <1>1 DEF Read
  <2> QED BY <2>3, <2>4 DEF PlanInv, InOrder, Running
<1>2. CASE Insert(s)
  <2>1. PICK step \in {"refused", "inserted"} : saves' = [saves EXCEPT ![s].step = step]
    BY <1>2 DEF Insert
  <2>2. /\ \A r \in Saves : r # s => saves'[r] = saves[r]
        /\ saves'[s].step = step
    BY <2>1, StepFields, SavesType DEF Steps
  <2>3. saves[s].step = "read" /\ UNCHANGED << current, plan, overlap >>
    BY <1>2 DEF Insert
  <2> QED BY <2>2, <2>3 DEF PlanInv, InOrder, Running
<1>3. CASE Define(s)
  <2>1. saves' = [saves EXCEPT ![s].step = "defined"]
    BY <1>3 DEF Define
  <2>2. /\ \A r \in Saves : r # s => saves'[r] = saves[r]
        /\ saves'[s].step = "defined" /\ saves'[s].next = saves[s].next
    BY <2>1, StepFields, SavesType DEF Steps
  <2>3. /\ saves[s].step \in {"read", "inserted"}
        /\ current' = saves[s].next /\ UNCHANGED << plan, overlap >>
    BY <1>3 DEF Define
  <2> QED BY <2>2, <2>3 DEF PlanInv, InOrder, Running
<1>4. CASE Compile(s)
  <2>1. saves' = [saves EXCEPT ![s].step = "done"]
    BY <1>4 DEF Compile
  <2>2. /\ \A r \in Saves : r # s => saves'[r] = saves[r]
        /\ saves'[s].step = "done"
    BY <2>1, StepFields, SavesType DEF Steps
  <2>3. /\ saves[s].step = "defined" /\ plan' = saves[s].next
        /\ UNCHANGED << current, overlap >>
    BY <1>4 DEF Compile, Compiled
  <2> QED BY <2>2, <2>3 DEF PlanInv, InOrder, Running
<1>5. CASE BreakOff(s)
  <2> DEFINE step == IF saves[s].step \in {"inserted", "defined"} THEN "broken" ELSE "refused"
  <2>1. saves' = [saves EXCEPT ![s].step = step]
    BY <1>5 DEF BreakOff
  <2>2. step \in Steps /\ step \in {"broken", "refused"}
        /\ (saves[s].step = "defined" => step = "broken")
    BY DEF Steps
  <2>3. UNCHANGED << current, plan, overlap >> /\ saves[s].step # "broken"
    BY <1>5 DEF BreakOff, Running
  <2> HIDE DEF step
  <2>4. /\ \A r \in Saves : r # s => saves'[r] = saves[r]
        /\ saves'[s].step = step
    BY <2>1, <2>2, StepFields, SavesType
  <2> QED BY <2>2, <2>3, <2>4 DEF PlanInv, InOrder, Running
<1> QED BY <1>1, <1>2, <1>3, <1>4, <1>5 DEF Handle

LEMMA PlanInvShows == PlanInv => PlanFollowsCurrent
BY DEF PlanInv, InOrder, PlanFollowsCurrent, Running

-----------------------------------------------------------------------------
(* The tab.                                                                *)

\* What the tab has sent reads back as what it is.
MineInv(s) ==
    InFlight(s) => saves[s].step # "unused" /\ Built[saves[s].content] = saves[s].content

\* The inductive invariant of the tab, which holds whatever the server does
\* with its versions except forget one.
TabInv ==
    /\ TabTypeOK
    /\ served \in Versions \union {0}
    /\ BaseExists /\ SavedIsStored
    /\ \A s \in Saves : MineInv(s)

DesignerInv == ServerInv /\ PlanInv /\ TabInv

LEMMA FirstVersion == ServerInv => 1 \in Versions
BY DEF ServerInv, VersionsTypeOK, LatestOrOrphan

LEMMA BuiltStays ==
    ASSUME NEW c \in Contents
    PROVE  Built[c] \in Contents /\ Built[Built[c]] = Built[c]
BY SchemasAssumption

\* A server that keeps its versions and its requests' schemas keeps the tab right.
LEMMA ServerKeepsTab ==
    ASSUME ServerInv, TabInv, VersionsKept, ContentsKept, UNCHANGED << tabVars, served >>
    PROVE  TabInv'
<1>1. TabTypeOK'
  BY DEF TabInv, TabTypeOK, tabVars, document, requests, InFlight
<1>2. served' \in Versions' \union {0} /\ BaseExists'
  BY DEF TabInv, BaseExists, VersionsKept, tabVars, document, requests
<1>3. SavedIsStored'
  BY DEF TabInv, SavedIsStored, VersionsKept, tabVars, document
<1>4. \A s \in Saves : MineInv(s)'
  BY DEF TabInv, MineInv, InFlight, ContentsKept, tabVars, requests
<1> QED BY <1>1, <1>2, <1>3, <1>4 DEF TabInv

\* A step of the tab alone: nothing of the server changes.
LEMMA TabKeepsServer ==
    ASSUME ServerInv, PlanInv, UNCHANGED versionVars
    PROVE  ServerInv' /\ PlanInv' /\ LogStep
<1>1. UNCHANGED << versions, current, latest, plan, saves, overlap >>
  BY DEF versionVars
<1>2. ServerInv'
  BY <1>1 DEF ServerInv, VersionsTypeOK, Versions, LatestOrOrphan, RequestInv, OneInserted
<1>3. PlanInv'
  BY <1>1 DEF PlanInv, InOrder, Running
<1> QED BY <1>1, <1>2, <1>3 DEF LogStep

\* Steps of the tab that take nothing new for saved, in flight or asked for.
LEMMA QuietTab ==
    ASSUME TabInv, UNCHANGED versionVars, TabTypeOK',
           UNCHANGED << saved, base, mine >>, restoring' \subseteq restoring,
           served' \in {0, served}
    PROVE  TabInv'
<1>1. UNCHANGED << versions, saves >>
  BY DEF versionVars
<1>2. served' \in Versions' \union {0} /\ BaseExists' /\ SavedIsStored'
  BY <1>1 DEF TabInv, BaseExists, SavedIsStored, Versions
<1>3. \A s \in Saves : MineInv(s)'
  BY <1>1 DEF TabInv, MineInv, InFlight
<1> QED BY <1>2, <1>3 DEF TabInv

LEMMA LeaveKeeps ==
    ASSUME ServerInv, TabInv, NEW by, Leave(by), UNCHANGED versionVars, served' \in {0, served}
    PROVE  TabInv'
<1>1. UNCHANGED << versions, saves >>
  BY DEF versionVars
<1>2. NoLookup \in [of : {"no", "canvas", "source"}, canvas : Contents]
  BY SchemasAssumption DEF NoLookup
<1>3. ghost' \in BOOLEAN
  BY DEF Leave, TabInv, TabTypeOK
<1>4. opening' \in [Lookups -> [of : {"no", "canvas", "source"}, canvas : Contents]]
  BY <1>2 DEF Leave
<1>5. TabTypeOK'
  BY <1>3, <1>4, SchemasAssumption DEF Leave, TabTypeOK, InFlight
<1>6. served' \in Versions' \union {0} /\ BaseExists' /\ SavedIsStored'
  BY <1>1, FirstVersion DEF Leave, TabInv, BaseExists, SavedIsStored, Versions
<1>7. \A s \in Saves : MineInv(s)'
  BY DEF Leave, MineInv, InFlight
<1> QED BY <1>5, <1>6, <1>7 DEF TabInv

\* Looking for the form's flow, until the answer asks or fails.
LEMMA LookupKeeps ==
    ASSUME TabInv, NEW l \in Lookups, DesignFlow(l) \/ FlowAsks(l) \/ FlowFails(l)
    PROVE  TabTypeOK' /\ UNCHANGED << saved, base, mine, restoring >>
<1> DEFINE Lookup == [of : {"no", "canvas", "source"}, canvas : Contents]
<1>1. /\ UNCHANGED << open, canvas, saved, base, source, loading, restoring, mine, leaving, ghost >>
      /\ dialog' = dialog \/ (dialog = "none" /\ dialog' = "asked")
  BY DEF DesignFlow, FlowAsks, FlowFails, LookupEnds, document
<1>2. \E q \in Lookup : opening' = [opening EXCEPT ![l] = q]
  <2>1. NoLookup \in Lookup
    BY SchemasAssumption DEF NoLookup
  <2>2. [of |-> "canvas", canvas |-> canvas] \in Lookup /\ [of |-> "source", canvas |-> Blank] \in Lookup
    BY SchemasAssumption DEF TabInv, TabTypeOK
  <2> QED BY <2>1, <2>2 DEF DesignFlow, FlowAsks, FlowFails, LookupEnds
<1>3. opening' \in [Lookups -> Lookup]
  BY <1>2 DEF TabInv, TabTypeOK
<1>4. /\ dialog' \in {"none", "asked", "saving"}
      /\ dialog' = "saving" <=> dialog = "saving"
  BY <1>1 DEF TabInv, TabTypeOK
<1> QED BY <1>1, <1>3, <1>4 DEF TabInv, TabTypeOK, InFlight

LEMMA SaveFailsKeeps ==
    ASSUME TabInv, NEW s \in Saves, SaveFails(s), UNCHANGED versionVars, served' \in {0, served}
    PROVE  TabInv'
<1>1. UNCHANGED << versions, saves >>
  BY DEF versionVars
<1>2. /\ mine' = [mine EXCEPT ![s] = "no"] /\ mine[s] # "no"
      /\ UNCHANGED << open, canvas, saved, base, source, loading, restoring, opening, ghost >>
      /\ IF s = leaving THEN dialog' = "asked" /\ leaving' = None
         ELSE UNCHANGED << dialog, leaving >>
  BY DEF SaveFails, InFlight, document
<1>3. /\ mine' \in [Saves -> {"no", "canvas", "source"}]
      /\ \A r \in Saves : mine'[r] # "no" => mine[r] # "no"
      /\ \A r \in Saves : r # s => mine'[r] = mine[r]
  BY <1>2 DEF TabInv, TabTypeOK
<1>4. TabTypeOK'
  BY <1>2, <1>3 DEF TabInv, TabTypeOK, InFlight
<1>5. served' \in Versions' \union {0} /\ BaseExists' /\ SavedIsStored'
  BY <1>1, <1>2 DEF TabInv, BaseExists, SavedIsStored, Versions
<1>6. \A r \in Saves : MineInv(r)'
  BY <1>1, <1>3 DEF TabInv, MineInv, InFlight
<1> QED BY <1>4, <1>5, <1>6 DEF TabInv

LEMMA TabAloneKeeps ==
    ASSUME ServerInv, TabInv, TabAlone, UNCHANGED versionVars, served' \in {0, served}
    PROVE  TabInv'
<1>1. CASE OpenTab \/ LoadFails \/ Ask \/ Stay \/ (\E c \in Contents : Edit(c))
  <2>1. TabTypeOK' /\ UNCHANGED << saved, base, mine, restoring >>
    BY <1>1 DEF OpenTab, LoadFails, Ask, Stay, Edit, TabInv, TabTypeOK, InFlight, document,
                requests
  <2> QED BY <2>1, QuietTab
<1>2. CASE \E c \in Typed : EditSource(c)
  <2>1. TabTypeOK' /\ UNCHANGED << saved, base, mine, restoring >>
    BY <1>2, TabAssumption DEF EditSource, TabInv, TabTypeOK, InFlight, document, requests
  <2> QED BY <2>1, QuietTab
<1>3. CASE \E version \in restoring : RestoreFails(version)
  <2>1. TabTypeOK' /\ UNCHANGED << saved, base, mine >> /\ restoring' \subseteq restoring
    BY <1>3 DEF RestoreFails, TabInv, TabTypeOK, InFlight, document, requests
  <2> QED BY <2>1, QuietTab
<1>4. CASE LeaveUnasked \/ LeaveWithoutSaving \/ GhostLeaves
  BY <1>4, LeaveKeeps DEF LeaveUnasked, LeaveWithoutSaving, GhostLeaves
<1>6. CASE GhostEnds
  <2>1. TabTypeOK' /\ UNCHANGED << saved, base, mine, restoring >>
    BY <1>6 DEF GhostEnds, TabInv, TabTypeOK, InFlight, document, requests
  <2> QED BY <2>1, QuietTab
<1>7. ASSUME NEW l \in Lookups, DesignFlow(l) \/ FlowLeaves(l) \/ FlowAsks(l) \/ FlowFails(l)
      PROVE  TabInv'
  <2>1. CASE FlowLeaves(l)
    BY <2>1, LeaveKeeps DEF FlowLeaves
  <2>2. CASE DesignFlow(l) \/ FlowAsks(l) \/ FlowFails(l)
    BY <2>2, LookupKeeps, QuietTab
  <2> QED BY <1>7, <2>1, <2>2
<1>5. CASE \E s \in Saves : SaveFails(s)
  BY <1>5, SaveFailsKeeps
<1> QED BY <1>1, <1>2, <1>3, <1>4, <1>5, <1>6, <1>7 DEF TabAlone

-----------------------------------------------------------------------------
(* Tab and server together.                                                *)

StepKeeps == ServerInv' /\ PlanInv' /\ TabInv' /\ LogStep

LEMMA LoadKeeps ==
    ASSUME DesignerInv, Load
    PROVE  StepKeeps
<1>1. /\ served \in Versions /\ served \in Nat /\ versions[served] \in Contents
      /\ Built[versions[served]] \in Contents
  BY BuiltStays DEF Load, DesignerInv, ServerInv, TabInv, VersionsTypeOK
<1>2. /\ canvas' = Built[versions[served]] /\ saved' = Built[versions[served]]
      /\ base' = served /\ loading' = FALSE /\ served' = 0
      /\ UNCHANGED << open, source, restoring, mine, opening, dialog, leaving, ghost, versions, saves >>
  BY DEF Load, LoadArrives, versionVars
<1>3. TabTypeOK'
  BY <1>1, <1>2 DEF DesignerInv, TabInv, TabTypeOK, InFlight
<1>4. SavedIsStored' /\ BaseExists'
  BY <1>1, <1>2 DEF SavedIsStored, BaseExists, DesignerInv, TabInv, Versions
<1>5. \A s \in Saves : MineInv(s)'
  BY <1>2 DEF DesignerInv, TabInv, MineInv, InFlight
<1>6. TabInv'
  BY <1>2, <1>3, <1>4, <1>5 DEF TabInv
<1> QED BY <1>6, TabKeepsServer DEF Load, DesignerInv, StepKeeps

LEMMA RestoreKeeps ==
    ASSUME DesignerInv, Restore
    PROVE  StepKeeps
<1>1. PICK v \in restoring : RestoreArrives(v, versions[v])
  BY DEF Restore
<1>2. v \in Versions /\ v \in Nat /\ Built[versions[v]] \in Contents
  BY BuiltStays DEF DesignerInv, TabInv, BaseExists, ServerInv, VersionsTypeOK
<1>3. /\ restoring' = restoring \ {v} /\ canvas' = Built[versions[v]] /\ base' = v
      /\ UNCHANGED << open, saved, source, loading, mine, opening, dialog, leaving, ghost >>
  BY <1>1 DEF RestoreArrives
<1>4. UNCHANGED << versions, saves, served >> /\ UNCHANGED versionVars
  BY DEF Restore, versionVars
<1>5. TabTypeOK'
  BY <1>2, <1>3 DEF DesignerInv, TabInv, TabTypeOK, InFlight
<1>6. SavedIsStored' /\ BaseExists' /\ served' \in Versions' \union {0}
  BY <1>2, <1>3, <1>4 DEF SavedIsStored, BaseExists, DesignerInv, TabInv, Versions
<1>7. \A s \in Saves : MineInv(s)'
  BY <1>3, <1>4 DEF DesignerInv, TabInv, MineInv, InFlight
<1>8. TabInv'
  BY <1>5, <1>6, <1>7 DEF TabInv
<1> QED BY <1>4, <1>8, TabKeepsServer DEF DesignerInv, StepKeeps

LEMMA ChooseVersionKeeps ==
    ASSUME DesignerInv, ChooseVersion
    PROVE  StepKeeps
<1>1. PICK v \in Versions : AskRestore(v)
  BY DEF ChooseVersion
<1>2. /\ restoring' = restoring \union {v}
      /\ UNCHANGED << open, canvas, saved, base, source, loading, mine, opening, dialog, leaving, ghost >>
  BY <1>1 DEF AskRestore, document
<1>3. UNCHANGED << versions, saves, served >> /\ UNCHANGED versionVars
  BY DEF ChooseVersion, versionVars
<1>4. TabTypeOK'
  BY <1>2 DEF DesignerInv, TabInv, TabTypeOK, InFlight, ServerInv, VersionsTypeOK
<1>5. SavedIsStored' /\ BaseExists' /\ served' \in Versions' \union {0}
  BY <1>2, <1>3 DEF SavedIsStored, BaseExists, DesignerInv, TabInv, Versions
<1>6. \A s \in Saves : MineInv(s)'
  BY <1>2, <1>3 DEF DesignerInv, TabInv, MineInv, InFlight
<1>7. TabInv'
  BY <1>4, <1>5, <1>6 DEF TabInv
<1> QED BY <1>3, <1>7, TabKeepsServer DEF DesignerInv, StepKeeps

\* What a save sends is a schema that reads back as what it is.
LEMMA PayloadIsBuilt ==
    ASSUME DesignerInv, MaySave
    PROVE  Payload \in Contents /\ Built[Payload] = Payload
<1>1. source # None => source \in Contents
  BY DEF DesignerInv, TabInv, TabTypeOK
<1>2. canvas \in Contents
  BY DEF DesignerInv, TabInv, TabTypeOK
<1> QED BY <1>1, <1>2, BuiltStays DEF Payload

LEMMA SaveKeeps ==
    ASSUME DesignerInv, NEW s \in Saves, Save(s)
    PROVE  StepKeeps
<1>1. /\ MaySave /\ open
      /\ mine' = [mine EXCEPT ![s] = IF source = None THEN "canvas" ELSE "source"]
      /\ UNCHANGED << open, canvas, saved, base, source, loading, restoring, opening, ghost, served >>
      /\ Request(s, Payload, base)
      /\ \/ dialog = "none" /\ UNCHANGED << dialog, leaving >>
         \/ dialog = "asked" /\ dialog' = "saving" /\ leaving' = s
  BY DEF Save, SaveButton, SaveAndLeave, Sends, document
<1>2. /\ Payload \in Contents /\ Built[Payload] = Payload /\ base \in Nat
  BY <1>1, PayloadIsBuilt DEF DesignerInv, TabInv, TabTypeOK
<1>3. /\ ServerInv' /\ VersionsKept /\ LogStep /\ PlanInv'
  BY <1>1, <1>2, RequestKeeps, RequestKeepsPlan DEF DesignerInv
<1>4. /\ ContentsKept /\ saves'[s].step = "sent" /\ saves'[s].content = Payload
  BY <1>1, <1>2, RequestKeepsContents DEF DesignerInv
<1>5. /\ mine' \in [Saves -> {"no", "canvas", "source"}] /\ mine'[s] # "no"
      /\ \A r \in Saves : r # s => mine'[r] = mine[r]
  BY <1>1 DEF DesignerInv, TabInv, TabTypeOK
<1>6. TabTypeOK'
  <2>1. /\ UNCHANGED << open, canvas, saved, base, source, loading, restoring, opening, ghost >>
        /\ \/ dialog = "none" /\ UNCHANGED << dialog, leaving >>
           \/ dialog = "asked" /\ dialog' = "saving" /\ leaving' = s
    BY <1>1
  <2>2. dialog' \in {"none", "asked", "saving"} /\ leaving' \in Saves \union {None}
    BY <2>1 DEF DesignerInv, TabInv, TabTypeOK
  <2>3. dialog' = "saving" <=> leaving' # None
    BY <2>1, TabAssumption DEF DesignerInv, TabInv, TabTypeOK
  <2>4. leaving' # None => InFlight(leaving)'
    BY <1>5, <2>1 DEF DesignerInv, TabInv, TabTypeOK, InFlight
  <2> QED BY <1>5, <2>1, <2>2, <2>3, <2>4 DEF DesignerInv, TabInv, TabTypeOK
<1>7. SavedIsStored' /\ BaseExists' /\ served' \in Versions' \union {0}
  BY <1>1, <1>3 DEF SavedIsStored, BaseExists, DesignerInv, TabInv, VersionsKept
<1>8. \A r \in Saves : MineInv(r)'
  <2>1. MineInv(s)'
    BY <1>2, <1>4 DEF MineInv
  <2>2. \A r \in Saves : r # s => MineInv(r)'
    BY <1>4, <1>5 DEF DesignerInv, TabInv, MineInv, InFlight, ContentsKept
  <2> QED BY <2>1, <2>2
<1> QED BY <1>3, <1>6, <1>7, <1>8 DEF TabInv, StepKeeps

LEMMA AnswerKeeps ==
    ASSUME DesignerInv, NEW s \in Saves, Answer(s)
    PROVE  StepKeeps
<1> DEFINE content == saves[s].content  version == saves[s].next
<1>1. /\ version \in Versions /\ versions[version] = content /\ version \in Nat
      /\ content \in Contents /\ InFlight(s) /\ Built[content] = content
  BY SavingFields DEF Answer, Answered, DesignerInv, ServerInv, RequestInv, TabInv, MineInv
<1>2. UNCHANGED << versions, saves >> /\ UNCHANGED versionVars /\ served' \in {0, served}
  BY DEF Answer, versionVars
<1>3. TabInv'
  <2>1. CASE s = leaving
    BY <1>2, <2>1, LeaveKeeps DEF Answer, Answered, DesignerInv
  <2>2. CASE s # leaving
    <3>1. /\ mine' = [mine EXCEPT ![s] = "no"] /\ base' = version /\ saved' = content
          /\ IF mine[s] = "source" THEN canvas' = content /\ source' = None
             ELSE UNCHANGED << canvas, source >>
          /\ UNCHANGED << open, loading, restoring, opening, dialog, leaving, ghost >>
      BY <2>2 DEF Answer, Answered, Stays, SnapshotOf
    <3>2. /\ mine' \in [Saves -> {"no", "canvas", "source"}]
          /\ \A r \in Saves : mine'[r] # "no" => mine[r] # "no"
          /\ \A r \in Saves : r # s => mine'[r] = mine[r]
      BY <3>1 DEF DesignerInv, TabInv, TabTypeOK
    <3>3. TabTypeOK'
      BY <1>1, <2>2, <3>1, <3>2 DEF DesignerInv, TabInv, TabTypeOK, InFlight
    <3>4. SavedIsStored' /\ BaseExists' /\ served' \in Versions' \union {0}
      BY <1>1, <1>2, <3>1 DEF SavedIsStored, BaseExists, DesignerInv, TabInv, Versions
    <3>5. \A r \in Saves : MineInv(r)'
      BY <1>2, <3>2 DEF DesignerInv, TabInv, MineInv, InFlight
    <3> QED BY <3>3, <3>4, <3>5 DEF TabInv
  <2> QED BY <2>1, <2>2
<1> QED BY <1>2, <1>3, TabKeepsServer DEF DesignerInv, StepKeeps

LEMMA NextKeeps == DesignerInv /\ Next => StepKeeps
<1> SUFFICES ASSUME DesignerInv, Next PROVE StepKeeps
  OBVIOUS
<1>1. CASE TheTab
  <2>1. TabAlone /\ UNCHANGED versionVars /\ served' \in {0, served}
    BY <1>1 DEF TheTab
  <2> QED BY <2>1, TabAloneKeeps, TabKeepsServer DEF DesignerInv, StepKeeps
<1>2. CASE Serve
  <2>1. /\ UNCHANGED versionVars /\ UNCHANGED tabVars /\ served' = current
        /\ UNCHANGED << versions, saves >>
    BY <1>2 DEF Serve, versionVars
  <2>2. TabInv'
    BY <2>1 DEF TabInv, DesignerInv, ServerInv, TabTypeOK, BaseExists, SavedIsStored, MineInv,
                InFlight, Versions, tabVars, document, requests
  <2> QED BY <2>1, <2>2, TabKeepsServer DEF DesignerInv, StepKeeps
<1>3. CASE Load \/ ChooseVersion \/ Restore
  BY <1>3, LoadKeeps, ChooseVersionKeeps, RestoreKeeps
<1>4. ASSUME NEW s \in Saves, Save(s) \/ Answer(s) PROVE StepKeeps
  BY <1>4, SaveKeeps, AnswerKeeps
<1>5. ASSUME NEW s \in Saves, SaveElsewhere(s) PROVE StepKeeps
  <2>1. PICK content \in Contents, b \in Versions \union {NoBase} : Request(s, content, b)
    BY <1>5 DEF SaveElsewhere
  <2>2. b \in Nat /\ UNCHANGED << tabVars, served >>
    BY <1>5 DEF SaveElsewhere, DesignerInv, ServerInv, VersionsTypeOK, NoBase
  <2>3. ServerInv' /\ VersionsKept /\ LogStep /\ PlanInv' /\ ContentsKept
    BY <2>1, <2>2, RequestKeeps, RequestKeepsPlan, RequestKeepsContents DEF DesignerInv
  <2> QED BY <2>2, <2>3, ServerKeepsTab DEF DesignerInv, StepKeeps
<1>6. ASSUME NEW s \in Saves, Server(s) PROVE StepKeeps
  <2>1. Handle(s) /\ UNCHANGED << tabVars, served >>
    BY <1>6 DEF Server
  <2>2. ServerInv' /\ VersionsKept /\ LogStep /\ PlanInv' /\ ContentsKept
    BY <2>1, HandleKeeps, HandleKeepsPlan, HandleKeepsContents DEF DesignerInv
  <2> QED BY <2>1, <2>2, ServerKeepsTab DEF DesignerInv, StepKeeps
<1> QED BY <1>1, <1>2, <1>3, <1>4, <1>5, <1>6 DEF Next

LEMMA StutterKeeps == DesignerInv /\ UNCHANGED vars => StepKeeps
<1> SUFFICES ASSUME DesignerInv, UNCHANGED vars PROVE StepKeeps
  OBVIOUS
<1>1. UNCHANGED versionVars /\ UNCHANGED << tabVars, served >>
  BY DEF vars
<1>2. VersionsKept /\ ContentsKept
  BY <1>1 DEF versionVars, VersionsKept, ContentsKept, Versions
<1> QED BY <1>1, <1>2, ServerKeepsTab, TabKeepsServer DEF DesignerInv, StepKeeps

LEMMA InitHolds == Init => DesignerInv /\ Log!Init
<1> SUFFICES ASSUME Init PROVE DesignerInv /\ Log!Init
  OBVIOUS
<1>1. /\ versions = [v \in {1} |-> Blank] /\ current = 1 /\ latest = 1 /\ plan = 1
      /\ saves = [s \in Saves |-> Unused] /\ overlap = FALSE
  BY DEF Init, VersionsInit
<1>2. Unused \in Saving /\ Unused.step = "unused"
  BY SchemasAssumption DEF Unused, NoBase, Saving, Steps
<1>3. \A s \in Saves : saves[s].step = "unused"
  BY <1>1, <1>2
<1>4. Versions = {1} /\ Versions = 1 .. latest
  BY <1>1 DEF Versions
<1>5. VersionsTypeOK
  <2>1. saves \in [Saves -> Saving]
    BY <1>1, <1>2
  <2>2. versions \in [Versions -> Contents]
    BY <1>1, <1>4, SchemasAssumption
  <2>3. /\ Versions \subseteq Nat /\ current \in Nat /\ latest \in Nat /\ plan \in Nat
    BY <1>1, <1>4, SMT
  <2>4. overlap \in BOOLEAN
    BY <1>1, Zenon
  <2> QED BY <2>1, <2>2, <2>3, <2>4, Zenon DEF VersionsTypeOK, Saving
<1>6. ServerInv
  BY <1>1, <1>3, <1>4, <1>5 DEF ServerInv, LatestOrOrphan, RequestInv, OneInserted
<1>7. PlanInv
  BY <1>1, <1>3 DEF PlanInv, InOrder, Running
<1>8. TabInv
  <2>1. NoLookup \in [of : {"no", "canvas", "source"}, canvas : Contents]
    BY SchemasAssumption DEF NoLookup
  <2>2. opening \in [Lookups -> [of : {"no", "canvas", "source"}, canvas : Contents]]
    BY <2>1 DEF Init, TabInit
  <2>3. TabTypeOK
    BY <2>2, SchemasAssumption DEF Init, TabInit, TabTypeOK, InFlight
  <2> QED BY <1>4, <2>3 DEF Init, TabInit, TabInv, BaseExists, SavedIsStored, MineInv, InFlight
<1>9. Log!Init
  BY <1>1, <1>4 DEF Log!Init, Versions
<1> QED BY <1>6, <1>7, <1>8, <1>9 DEF DesignerInv

-----------------------------------------------------------------------------
(* Theorems.                                                               *)

\* In every reachable state the versions have no gap and at most one number is given
\* out and not yet told, each save under way holds what it is going to tell, the plan
\* is the current version's unless saves met, and the tab refers to what is stored.
THEOREM DesignerInvariant == Spec => []DesignerInv
<1>1. DesignerInv /\ [Next]_vars => DesignerInv'
  BY NextKeeps, StutterKeeps DEF StepKeeps, DesignerInv
<1> QED BY <1>1, InitHolds, PTL DEF Spec

LEMMA DesignerInvShows ==
    DesignerInv => /\ TypeOK /\ CurrentExists /\ LatestOrOrphan /\ AnsweredIsStored
                   /\ PlanFollowsCurrent /\ SavedIsStored /\ BaseExists
<1> SUFFICES ASSUME DesignerInv
             PROVE  /\ TypeOK /\ CurrentExists /\ LatestOrOrphan /\ AnsweredIsStored
                    /\ PlanFollowsCurrent /\ SavedIsStored /\ BaseExists
  OBVIOUS
<1>1. TypeOK
  BY DEF DesignerInv, ServerInv, TabInv, TypeOK, VersionsTypeOK
<1>2. CurrentExists
  <2>1. latest \in Versions
    BY DEF DesignerInv, ServerInv, VersionsTypeOK, LatestOrOrphan
  <2> QED BY <2>1 DEF DesignerInv, ServerInv, CurrentExists
<1>3. AnsweredIsStored
  BY DEF DesignerInv, ServerInv, RequestInv, AnsweredIsStored
<1> QED BY <1>1, <1>2, <1>3, PlanInvShows DEF DesignerInv, ServerInv, TabInv

\* Type correctness; the dialog shows that it is saving exactly while its save is in flight.
THEOREM TypeCorrect == Spec => []TypeOK
BY DesignerInvariant, DesignerInvShows, PTL

\* The versions the form, its latest number and its storage plan name are stored.
THEOREM FormCanBeRead == Spec => []CurrentExists
BY DesignerInvariant, DesignerInvShows, PTL

\* The versions are numbered without a gap; at most one lies beyond the latest, that of a
\* save between its insert and its update or of one that broke off there.
THEOREM NoGaps == Spec => []LatestOrOrphan
BY DesignerInvariant, DesignerInvShows, PTL

\* A save that is answered has its schema stored under the number in the answer.
THEOREM SavesAreStored == Spec => []AnsweredIsStored
BY DesignerInvariant, DesignerInvShows, PTL

\* The storage plan is the current version's when no save is under way, unless two
\* overlapped or one broke off.
THEOREM PlanIsCurrent == Spec => []PlanFollowsCurrent
BY DesignerInvariant, DesignerInvShows, PTL

\* What the tab takes for saved can be read from the server.
THEOREM SavedCanBeRead == Spec => []SavedIsStored
BY DesignerInvariant, DesignerInvShows, PTL

\* No save of the tab is refused for the version it was made from.
THEOREM BaseIsKnown == Spec => []BaseExists
BY DesignerInvariant, DesignerInvShows, PTL

\* The server's versions, whatever saves overlap or break off, are a log: VersionLog is
\* implemented.
THEOREM FormLogImplemented == Spec => FormLog
<1>1. DesignerInv /\ [Next]_vars => LogStep
  BY NextKeeps, StutterKeeps DEF StepKeeps
<1>2. LogStep => [Log!Add \/ Log!Select]_<< versions, current >>
  BY DEF LogStep
<1> QED BY <1>1, <1>2, InitHolds, DesignerInvariant, PTL DEF Spec, FormLog, Log!Spec

\* Leaving takes an answered question, a handler of a designer that was left, or a check.
LEMMA WaysToLeave ==
    ASSUME DesignerInv, [Next]_vars, open, ~open'
    PROVE  LeaveUnasked \/ (\E l \in Lookups : FlowLeaves(l)) \/ dialog # "none" \/ ghost
<1>1. CASE TheTab
  <2>1. CASE OpenTab \/ LoadFails \/ Ask \/ Stay \/ GhostEnds
    BY <2>1 DEF OpenTab, LoadFails, Ask, Stay, GhostEnds
  <2>2. CASE LeaveUnasked \/ LeaveWithoutSaving \/ GhostLeaves
    BY <2>2 DEF LeaveWithoutSaving, GhostLeaves
  <2>3. CASE \E l \in Lookups : DesignFlow(l) \/ FlowLeaves(l) \/ FlowAsks(l) \/ FlowFails(l)
    BY <2>3 DEF DesignFlow, FlowAsks, FlowFails, LookupEnds
  <2>4. CASE \/ \E c \in Contents : Edit(c)
             \/ \E c \in Typed : EditSource(c)
             \/ \E s \in Saves : SaveFails(s)
             \/ \E version \in restoring : RestoreFails(version)
    BY <2>4 DEF Edit, EditSource, SaveFails, RestoreFails
  <2> QED BY <1>1, <2>1, <2>2, <2>3, <2>4 DEF TheTab, TabAlone
<1>2. CASE Serve \/ Load \/ ChooseVersion \/ Restore
  BY <1>2 DEF Serve, Load, LoadArrives, ChooseVersion, AskRestore, Restore, RestoreArrives, tabVars
<1>3. ASSUME NEW s \in Saves, Save(s) \/ SaveElsewhere(s) \/ Server(s) PROVE FALSE
  BY <1>3 DEF Save, SaveButton, SaveAndLeave, Sends, SaveElsewhere, Server, tabVars
<1>4. ASSUME NEW s \in Saves, Answer(s) PROVE dialog # "none"
  BY <1>4, TabAssumption DEF Answer, Answered, Stays, DesignerInv, TabInv, TabTypeOK
<1> QED BY <1>1, <1>2, <1>3, <1>4 DEF Next, vars, tabVars

\* The page is left without a question only if what the check looked at can be read
\* again, or by a handler of a designer that was left before.
THEOREM NothingIsLost == Spec => LeavesNothingUnsaved
<1>1. ASSUME DesignerInv, [Next]_vars
      PROVE  [/\ LeaveUnasked => source = None /\ Stored(canvas)
              /\ \A l \in Lookups : FlowLeaves(l) => Stored(opening[l].canvas)
              /\ open /\ ~open' =>
                  LeaveUnasked \/ (\E l \in Lookups : FlowLeaves(l)) \/ dialog # "none" \/ ghost]_vars
  <2>1. SavedIsStored
    BY <1>1, DesignerInvShows
  <2>2. LeaveUnasked => source = None /\ Stored(canvas)
    BY <2>1 DEF LeaveUnasked, NothingUnsaved, SavedIsStored, Stored
  <2>3. \A l \in Lookups : FlowLeaves(l) => Stored(opening[l].canvas)
    BY <2>1 DEF FlowLeaves, NothingWasUnsaved, SavedIsStored, Stored
  <2> QED BY <1>1, <2>2, <2>3, WaysToLeave
<1> QED BY <1>1, DesignerInvariant, PTL DEF Spec, LeavesNothingUnsaved
=============================================================================
