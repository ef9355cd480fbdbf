-------------------------- MODULE NavigationProofs --------------------------
(***************************************************************************)
(* Theorems about Navigation, for any items, any number of requests and    *)
(* any number of them that are cut off: as long as no request changes a    *)
(* row after another one has changed one under it, groups nest, nothing is *)
(* left behind in a group that is gone, and no detail form outlives its    *)
(* form.  And an item is where it was dropped, and numbering siblings anew *)
(* keeps their order, when nothing comes in between.                       *)
(***************************************************************************)
EXTENDS Navigation, FiniteSetTheorems, SequenceTheorems, TLAPS

-----------------------------------------------------------------------------
(* Trees.                                                                  *)

\* No set of groups has all its parents among itself.
Acyclic(n) ==
    \A S \in SUBSET (Groups \intersect DOMAIN n) : (\A g \in S : n[g].parent \in S) => S = {}

LEMMA AcyclicGroups ==
    ASSUME NEW n PROVE ~Cyclic(GroupsOf(n)) <=> Acyclic(n)
<1> DEFINE G == Groups \intersect DOMAIN n
<1>1. DOMAIN GroupsOf(n) = G /\ \A g \in G : GroupsOf(n)[g] = n[g]
  BY DEF GroupsOf
<1> QED BY <1>1 DEF Cyclic, Acyclic

\* What lies below an item is closed.
LEMMA DescendantsClosed ==
    ASSUME NEW n, NEW i
    PROVE  /\ Children(n, i) \subseteq Descendants(n, i)
           /\ \A j \in DOMAIN n : n[j].parent \in Descendants(n, i) => j \in Descendants(n, i)
BY DEF Descendants, ClosedBelow, Children

\* Rows that go away, rows that are no groups, and parents that are no groups do no harm.
LEMMA AcyclicFewer ==
    ASSUME NEW n, NEW m, Acyclic(n), Groups \intersect DOMAIN m \subseteq DOMAIN n,
           \A g \in Groups \intersect DOMAIN m :
              m[g].parent = n[g].parent \/ m[g].parent \notin Groups
    PROVE  Acyclic(m)
<1> SUFFICES ASSUME NEW S \in SUBSET (Groups \intersect DOMAIN m), \A g \in S : m[g].parent \in S
             PROVE  S = {}
  BY DEF Acyclic
<1>1. \A g \in S : n[g].parent \in S
  OBVIOUS
<1> QED BY <1>1 DEF Acyclic

\* A group that moves below one that is not below it.
LEMMA AcyclicMoved ==
    ASSUME NEW n, NEW m, Acyclic(n), DOMAIN m = DOMAIN n, NEW g \in Groups \intersect DOMAIN n,
           NEW p, MayHold(n, p, g), m[g].parent = p,
           \A i \in DOMAIN n \ {g} : m[i].parent = n[i].parent
    PROVE  Acyclic(m)
<1> SUFFICES ASSUME NEW S \in SUBSET (Groups \intersect DOMAIN m), \A i \in S : m[i].parent \in S
             PROVE  S = {}
  BY DEF Acyclic
<1>1. CASE g \notin S
  BY <1>1 DEF Acyclic
<1>2. CASE g \in S
  <2> DEFINE D == Descendants(n, g) \union {g}  T == S \ D
  <2>1. p \in T
    BY <1>2 DEF MayHold
  <2>2. ASSUME NEW i \in T PROVE n[i].parent \in T
    <3>1. i \in DOMAIN n /\ i # g /\ n[i].parent = m[i].parent /\ n[i].parent \in S
      OBVIOUS
    <3>2. n[i].parent \notin D
      BY <2>2, <3>1, DescendantsClosed DEF Children
    <3> QED BY <3>1, <3>2
  <2>3. T = {}
    <3>1. T \in SUBSET (Groups \intersect DOMAIN n)
      OBVIOUS
    <3> HIDE DEF T
    <3> QED BY <2>2, <3>1 DEF Acyclic
  <2> QED BY <2>1, <2>3
<1> QED BY <1>1, <1>2

\* A child that goes up to the parent of its group.
LEMMA AcyclicLifted ==
    ASSUME NEW n, NEW m, Acyclic(n), DOMAIN m = DOMAIN n, NEW g \in Groups \intersect DOMAIN n,
           NEW i \in DOMAIN n, i # g, n[i].parent = g, m[i].parent = n[g].parent,
           \A j \in DOMAIN n \ {i} : m[j].parent = n[j].parent
    PROVE  Acyclic(m)
<1> SUFFICES ASSUME NEW S \in SUBSET (Groups \intersect DOMAIN m), \A j \in S : m[j].parent \in S
             PROVE  S = {}
  BY DEF Acyclic
<1>1. CASE i \notin S
  BY <1>1 DEF Acyclic
<1>2. CASE i \in S
  <2> DEFINE T == S \union {g}
  <2>1. n[g].parent \in S
    BY <1>2
  <2>2. \A j \in T : n[j].parent \in T
    BY <2>1
  <2>3. T = {}
    <3>1. T \in SUBSET (Groups \intersect DOMAIN n)
      OBVIOUS
    <3> HIDE DEF T
    <3> QED BY <2>2, <3>1 DEF Acyclic
  <2> QED BY <2>3
<1> QED BY <1>1, <1>2

\* A new group, whose id no row has as its parent.
LEMMA AcyclicAdded ==
    ASSUME NEW n, NEW m, Acyclic(n), NEW g, g \notin DOMAIN n, DOMAIN m = DOMAIN n \union {g},
           \A i \in DOMAIN n : m[i].parent = n[i].parent /\ n[i].parent # g,
           m[g].parent # g
    PROVE  Acyclic(m)
<1> SUFFICES ASSUME NEW S \in SUBSET (Groups \intersect DOMAIN m), \A i \in S : m[i].parent \in S
             PROVE  S = {}
  BY DEF Acyclic
<1> DEFINE T == S \ {g}
<1>1. \A i \in T : n[i].parent \in T
  OBVIOUS
<1>2. T = {}
  <2>1. T \in SUBSET (Groups \intersect DOMAIN n)
    OBVIOUS
  <2> HIDE DEF T
  <2> QED BY <1>1, <2>1 DEF Acyclic
<1> QED BY <1>2

\* The same rows with the same parents have the same things below them.
LEMMA SameBelow ==
    ASSUME NEW n, NEW m, DOMAIN m = DOMAIN n, \A i \in DOMAIN n : m[i].parent = n[i].parent, NEW g
    PROVE  Descendants(m, g) = Descendants(n, g)
<1>1. Children(m, g) = Children(n, g)
  BY DEF Children
<1>2. \A S : ClosedBelow(m, S) <=> ClosedBelow(n, S)
  BY DEF ClosedBelow
<1> QED BY <1>1, <1>2 DEF Descendants

-----------------------------------------------------------------------------
(* Requests.                                                               *)

Columns == DOMAIN NoRequest

LEMMA RequestColumns ==
    ASSUME NEW does, NEW at, NEW todo, NEW i, NEW t, NEW place, NEW n, NEW main
    PROVE  /\ DOMAIN Request(does, at, todo, i, t, place, n, main) = Columns
           /\ Request(does, at, todo, i, t, place, n, main).does = does
           /\ Request(does, at, todo, i, t, place, n, main).at = at
           /\ Request(does, at, todo, i, t, place, n, main).todo = todo
           /\ Request(does, at, todo, i, t, place, n, main).item = i
BY DEF Columns, NoRequest, Request

LEMMA IdleIsAllowed ==
    ASSUME NEW n, NEW F
    PROVE  /\ DOMAIN NoRequest = Columns /\ NoRequest.at = "idle" /\ Allowed(n, F, NoRequest)
           /\ \A r : r.at \in {"idle", "tidy"} => Allowed(n, F, r)
BY DEF Columns, NoRequest, Request, Allowed

\* A request whose changes are all made may go on.
LEMMA SettledIsAllowed ==
    ASSUME NEW n, NEW F, NEW r, DOMAIN r = Columns, Allowed(n, F, r)
    PROVE  DOMAIN Settled(r) = Columns /\ Allowed(n, F, Settled(r))
<1>1. Columns = {"does", "at", "todo", "item", "target", "place", "num", "main", "seen"}
  BY DEF Columns, NoRequest, Request
<1>2. CASE Settled(r) = r
  BY <1>2
<1>3. CASE Settled(r) # r
  <2>1. r.at \in {"write", "sort"} /\ Settled(r) = Following(r)
    BY <1>3 DEF Settled
  <2>2. CASE r.at = "write" /\ r.does # "default"
    <3>1. Following(r) = [r EXCEPT !.at = "tidy"]
      BY <2>2 DEF Following
    <3>2. Following(r).at = "tidy" /\ DOMAIN Following(r) = Columns
      BY <1>1, <3>1
    <3> QED BY <2>1, <3>2, IdleIsAllowed
  <2>3. CASE ~(r.at = "write" /\ r.does # "default") /\ r.at = "sort" /\ r.does = "form"
    <3>1. Following(r) = [r EXCEPT !.at = "plan", !.seen = <<>>]
      BY <2>3 DEF Following
    <3>2. Following(r).at = "plan" /\ Following(r).does = "form" /\ DOMAIN Following(r) = Columns
      BY <1>1, <2>3, <3>1
    <3> QED BY <2>1, <3>2 DEF Allowed
  <2>4. CASE ~(r.at = "write" /\ r.does # "default") /\ ~(r.at = "sort" /\ r.does = "form")
    <3>1. Following(r) = NoRequest
      BY <2>4 DEF Following
    <3> QED BY <2>1, <3>1, IdleIsAllowed
  <2> QED BY <2>2, <2>3, <2>4
<1> QED BY <1>2, <1>3

-----------------------------------------------------------------------------
(* The rows and the requests, as long as none has been overtaken.          *)

Whole == Shape /\ Acyclic(nav) /\ ContentsKept /\ NoOrphanedForms
Plans == \A h \in Handlers \ stale : Allowed(nav, forms, req[h])

LEMMA Invariant == NavInv <=> raced \/ (Whole /\ Plans)
BY AcyclicGroups DEF NavInv, Whole, Plans

\* A step that changes no row.
LEMMA ReadStep ==
    ASSUME Whole, Plans, UNCHANGED rows, NEW h \in Handlers, NEW r, Becomes(h, r),
           DOMAIN r = Columns, stale \subseteq stale' \union {h},
           h \notin stale' => Allowed(nav, forms, r)
    PROVE  Whole' /\ Plans'
<1>1. DOMAIN req = Handlers /\ req' = [req EXCEPT ![h] = Settled(r)]
  BY DEF Whole, Shape, Becomes
<1>2. req'[h] = Settled(r) /\ \A g \in Handlers \ {h} : req'[g] = req[g]
  BY <1>1
<1>3. DOMAIN Settled(r) = Columns
  <2>1. \/ Settled(r) = r \/ Settled(r) = [r EXCEPT !.at = "tidy"]
        \/ Settled(r) = [r EXCEPT !.at = "plan", !.seen = <<>>] \/ Settled(r) = NoRequest
    BY DEF Settled, Following
  <2> QED BY <2>1, IdleIsAllowed
<1>4. nav' = nav /\ forms' = forms /\ source' = source /\ used' = used
  BY DEF rows
<1>5. Whole'
  <2>1. Shape'
    <3>1. DOMAIN req' = Handlers /\ \A g \in Handlers : DOMAIN req'[g] = DOMAIN NoRequest
      BY <1>1, <1>2, <1>3 DEF Whole, Shape, Columns
    <3>2. NoRequest' = NoRequest
      BY DEF NoRequest, Request
    <3> QED BY <1>4, <3>1, <3>2 DEF Whole, Shape, Present, Row
  <2>2. Acyclic(nav')
    BY <1>4 DEF Whole
  <2>3. ContentsKept' /\ NoOrphanedForms'
    BY <1>4 DEF Whole, ContentsKept, NoOrphanedForms, Present
  <2> QED BY <2>1, <2>2, <2>3 DEF Whole, Acyclic
<1>6. ASSUME NEW g \in Handlers \ stale' PROVE Allowed(nav, forms, req'[g])
  <2>1. CASE g = h
    BY <1>2, <1>6, <2>1, SettledIsAllowed
  <2>2. CASE g # h
    BY <1>2, <1>6, <2>2 DEF Plans
  <2> QED BY <2>1, <2>2
<1>7. Plans'
  BY <1>4, <1>6 DEF Plans, Allowed
<1> QED BY <1>5, <1>7

\* A request that is not overtaken changes rows: the others are.
LEMMA RowStep ==
    ASSUME Whole, Plans, NEW h \in Handlers, h \notin stale, NEW r, Becomes(h, r), Wrote(h),
           DOMAIN r = Columns, Allowed(nav', forms', r)
    PROVE  Plans' /\ DOMAIN req' = Handlers /\ \A g \in Handlers : DOMAIN req'[g] = Columns
<1>1. DOMAIN req = Handlers /\ req' = [req EXCEPT ![h] = Settled(r)]
  BY DEF Whole, Shape, Becomes
<1>2. req'[h] = Settled(r) /\ \A g \in Handlers \ {h} : req'[g] = req[g]
  BY <1>1
<1>3. DOMAIN Settled(r) = Columns /\ Allowed(nav', forms', Settled(r))
  BY SettledIsAllowed
<1>4. ASSUME NEW g \in Handlers \ stale' PROVE Allowed(nav', forms', req'[g])
  <2>1. CASE g = h
    BY <1>2, <1>3, <2>1
  <2>2. CASE g # h
    <3>1. g \notin Busy
      BY <1>4, <2>2 DEF Wrote
    <3>2. req[g].at = "idle"
      BY <3>1 DEF Busy
    <3>3. req'[g] = req[g]
      BY <1>2, <2>2
    <3>4. Allowed(nav', forms', req[g])
      BY <3>2 DEF Allowed
    <3> QED BY <3>3, <3>4
  <2> QED BY <2>1, <2>2
<1>5. Plans'
  BY <1>4 DEF Plans
<1>6. \A g \in Handlers : DOMAIN req'[g] = Columns
  BY <1>2, <1>3 DEF Whole, Shape, Columns
<1> QED BY <1>1, <1>5, <1>6

-----------------------------------------------------------------------------
(* Changing rows.                                                          *)

\* One column or more of one row are set.
LEMMA SettingColumns ==
    ASSUME Whole, NEW w, w.id \in Present, nav' = [nav EXCEPT ![w.id] = Changed(@, w.set)]
    PROVE  /\ Present' = Present /\ \A i \in Present \ {w.id} : nav'[i] = nav[i]
           /\ DOMAIN nav'[w.id] = DOMAIN nav[w.id]
           /\ "parent" \in DOMAIN w.set => nav'[w.id].parent = w.set.parent
           /\ "parent" \notin DOMAIN w.set => nav'[w.id].parent = nav[w.id].parent
<1>1. "parent" \in DOMAIN nav[w.id]
  BY DEF Whole, Shape, Row
<1>2. nav'[w.id] = Changed(nav[w.id], w.set) /\ DOMAIN nav' = DOMAIN nav
      /\ \A i \in Present \ {w.id} : nav'[i] = nav[i]
  BY DEF Present
<1> QED BY <1>1, <1>2 DEF Changed, Present

\* The changes of a request that gives the rows one parent.
LEMMA GivingOneParent ==
    ASSUME Whole, NEW i, NEW todo, OneParent(nav, i, todo), NEW w \in todo, w.id \in Present,
           nav' = [nav EXCEPT ![w.id] = Changed(@, w.set)], UNCHANGED <<forms, source, used>>,
           DOMAIN req' = Handlers, \A g \in Handlers : DOMAIN req'[g] = Columns
    PROVE  Whole' /\ OneParent(nav', i, todo \ {w})
<1>1. PICK p \in Items \union {Root} :
         /\ p \in Groups => p \in Present
         /\ \A v \in todo :
               /\ "gone" \notin DOMAIN v.set
               /\ "parent" \in DOMAIN v.set =>
                     /\ v.set.parent = p
                     /\ p \in Groups => \/ v.id \in Children(nav, p)
                                        \/ v.id = i /\ (i \in Groups => MayHold(nav, p, i))
  BY DEF OneParent, Present
<1>2. /\ Present' = Present /\ \A j \in Present \ {w.id} : nav'[j] = nav[j]
      /\ DOMAIN nav'[w.id] = DOMAIN nav[w.id]
      /\ "parent" \in DOMAIN w.set => nav'[w.id].parent = w.set.parent
      /\ "parent" \notin DOMAIN w.set => nav'[w.id].parent = nav[w.id].parent
  BY SettingColumns
<1>3. \/ nav'[w.id].parent = nav[w.id].parent
      \/ /\ nav'[w.id].parent = p
         /\ p \in Groups => w.id = i /\ (i \in Groups => MayHold(nav, p, i))
  BY <1>1, <1>2 DEF Children
<1>4. Acyclic(nav')
  <2>1. CASE w.id \in Groups /\ p \in Groups /\ nav'[w.id].parent # nav[w.id].parent
    <3>1. w.id = i /\ MayHold(nav, p, i) /\ nav'[i].parent = p /\ i \in Groups \intersect DOMAIN nav
      BY <1>3, <2>1 DEF Present
    <3>2. DOMAIN nav' = DOMAIN nav /\ \A j \in DOMAIN nav \ {i} : nav'[j].parent = nav[j].parent
      BY <1>2, <3>1 DEF Present
    <3> QED BY <3>1, <3>2, AcyclicMoved DEF Whole
  <2>2. CASE ~(w.id \in Groups /\ p \in Groups /\ nav'[w.id].parent # nav[w.id].parent)
    <3>1. \A g \in Groups \intersect DOMAIN nav' :
             nav'[g].parent = nav[g].parent \/ nav'[g].parent \notin Groups
      BY <1>2, <1>3, <2>2 DEF Present
    <3>2. Groups \intersect DOMAIN nav' \subseteq DOMAIN nav
      BY <1>2 DEF Present
    <3> QED BY <3>1, <3>2, AcyclicFewer DEF Whole
  <2> QED BY <2>1, <2>2
<1>5. ContentsKept'
  BY <1>1, <1>2, <1>3 DEF Whole, ContentsKept
<1>6. NoOrphanedForms'
  BY DEF Whole, NoOrphanedForms
<1>7. Shape'
  <2>1. \A j \in Present' : /\ DOMAIN nav'[j] = DOMAIN Row(Root, 0, 0, FALSE)
                            /\ nav'[j].parent \in Items \union {Root}
    BY <1>2, <1>3 DEF Whole, Shape
  <2>2. NoRequest' = NoRequest /\ Items' = Items
    BY DEF NoRequest, Request, Items
  <2> QED BY <1>2, <2>1, <2>2 DEF Whole, Shape, Columns, Row
<1>8. OneParent(nav', i, todo \ {w})
  <2>1. p \in Groups => p \in DOMAIN nav'
    BY <1>1, <1>2 DEF Present
  <2>2. ASSUME NEW v \in todo \ {w}, "parent" \in DOMAIN v.set, p \in Groups
        PROVE  v.id \in Children(nav', p) \/ (v.id = i /\ (i \in Groups => MayHold(nav', p, i)))
    <3>1. CASE nav'[w.id].parent = nav[w.id].parent
      <4>1. DOMAIN nav' = DOMAIN nav /\ \A j \in DOMAIN nav : nav'[j].parent = nav[j].parent
        BY <1>2, <3>1 DEF Present
      <4>2. MayHold(nav', p, i) <=> MayHold(nav, p, i)
        BY <4>1, SameBelow DEF MayHold
      <4>3. Children(nav', p) = Children(nav, p)
        BY <4>1 DEF Children
      <4> QED BY <1>1, <2>2, <4>2, <4>3
    <3>2. CASE nav'[w.id].parent # nav[w.id].parent
      <4>1. w.id = i /\ nav'[i].parent = p
        BY <1>3, <2>2, <3>2
      <4> QED BY <1>1, <1>2, <2>2, <4>1 DEF Children, Present
    <3> QED BY <3>1, <3>2
  <2> QED BY <1>1, <2>1, <2>2 DEF OneParent
<1> QED BY <1>4, <1>5, <1>6, <1>7, <1>8 DEF Whole, Acyclic

\* A group is dissolved: a child goes up to the group's parent, ...
LEMMA LiftingChild ==
    ASSUME Whole, NEW g \in Groups \intersect Present, NEW i \in Children(nav, g),
           NEW w, w = Change(i, [parent |-> nav[g].parent], 0),
           nav' = [nav EXCEPT ![w.id] = Changed(@, w.set)], UNCHANGED <<forms, source, used>>,
           DOMAIN req' = Handlers, \A h \in Handlers : DOMAIN req'[h] = Columns
    PROVE  Whole' /\ g \in Present' /\ Dissolving(nav', g) = Dissolving(nav, g) \ {w}
<1> DEFINE p == nav[g].parent
<1>1. w.id = i /\ i \in Present /\ nav[i].parent = g /\ "parent" \in DOMAIN w.set /\ w.set.parent = p
  BY DEF Change, Children, Present
<1>2. /\ Present' = Present /\ \A j \in Present \ {i} : nav'[j] = nav[j]
      /\ DOMAIN nav'[i] = DOMAIN nav[i] /\ nav'[i].parent = p
  BY <1>1, SettingColumns
<1>3. p # g
  <2>1. p = g => {g} \in SUBSET (Groups \intersect DOMAIN nav) /\ \A j \in {g} : nav[j].parent \in {g}
    BY DEF Present
  <2> QED BY <2>1 DEF Whole, Acyclic
<1>4. i # g
  BY <1>1, <1>3
<1>5. Acyclic(nav')
  <2>1. /\ DOMAIN nav' = DOMAIN nav /\ g \in Groups \intersect DOMAIN nav /\ i \in DOMAIN nav
        /\ \A j \in DOMAIN nav \ {i} : nav'[j].parent = nav[j].parent
    BY <1>1, <1>2 DEF Present
  <2> QED BY <1>1, <1>2, <1>4, <2>1, AcyclicLifted DEF Whole
<1>6. ContentsKept'
  BY <1>1, <1>2 DEF Whole, ContentsKept
<1>7. NoOrphanedForms'
  BY DEF Whole, NoOrphanedForms
<1>8. Shape'
  <2>1. \A j \in Present' : /\ DOMAIN nav'[j] = DOMAIN Row(Root, 0, 0, FALSE)
                            /\ nav'[j].parent \in Items \union {Root}
    BY <1>1, <1>2 DEF Whole, Shape
  <2>2. NoRequest' = NoRequest /\ Items' = Items
    BY DEF NoRequest, Request, Items
  <2> QED BY <1>2, <2>1, <2>2 DEF Whole, Shape, Columns, Row
<1>9. Dissolving(nav', g) = Dissolving(nav, g) \ {w}
  <2>1. nav'[g].parent = p /\ Children(nav', g) = Children(nav, g) \ {i}
    BY <1>2, <1>3, <1>4 DEF Children, Present
  <2>2. \A j : Change(j, [parent |-> p], 0) = w => j = i
    BY DEF Change
  <2>3. Removal(g, 1) # w
    <3>1. Removal(g, 1).rank = 1 /\ w.rank = 0
      BY DEF Removal, Change
    <3> QED BY <3>1
  <2> QED BY <2>1, <2>2, <2>3 DEF Dissolving
<1> QED BY <1>2, <1>5, <1>6, <1>7, <1>8, <1>9 DEF Whole, Acyclic

\* ... and rows are removed that are in nobody's way.
LEMMA RemovingRows ==
    ASSUME Whole, NEW gone, nav' = [i \in Present \ gone |-> nav[i]], UNCHANGED used,
           forms' \subseteq forms, DOMAIN source' \subseteq DOMAIN source,
           \A i \in Present \ gone : nav[i].parent \in Groups => nav[i].parent \notin gone,
           NoOrphanedForms',
           DOMAIN req' = Handlers, \A h \in Handlers : DOMAIN req'[h] = Columns
    PROVE  Whole'
<1>1. Present' = Present \ gone /\ \A i \in Present' : nav'[i] = nav[i] /\ i \in Present
  BY DEF Present
<1>2. Acyclic(nav')
  <2>1. /\ Groups \intersect DOMAIN nav' \subseteq DOMAIN nav
        /\ \A g \in Groups \intersect DOMAIN nav' : nav'[g].parent = nav[g].parent
    BY <1>1 DEF Present
  <2> QED BY <2>1, AcyclicFewer DEF Whole
<1>3. ContentsKept'
  BY <1>1 DEF Whole, ContentsKept
<1>4. Shape'
  <2>1. IsFiniteSet(Present')
    BY <1>1, FS_Subset DEF Whole, Shape
  <2>2. \A j \in Present' : /\ DOMAIN nav'[j] = DOMAIN Row(Root, 0, 0, FALSE)
                            /\ nav'[j].parent \in Items \union {Root}
    BY <1>1 DEF Whole, Shape
  <2>3. NoRequest' = NoRequest /\ Items' = Items
    BY DEF NoRequest, Request, Items
  <2> QED BY <1>1, <2>1, <2>2, <2>3 DEF Whole, Shape, Columns, Row
<1> QED BY <1>2, <1>3, <1>4 DEF Whole, Acyclic

\* A row of a new item is added.
LEMMA AddingRow ==
    ASSUME Whole, NEW i \in Items \ used, i # Home, NEW row,
           nav' = [j \in Present \union {i} |-> IF j = i THEN row ELSE nav[j]],
           used' = used \union {i},
           DOMAIN row = DOMAIN Row(Root, 0, 0, FALSE), row.parent \in Items \union {Root}, row.parent # i,
           row.parent \in Groups => row.parent \in Present,
           forms' \subseteq Forms, DOMAIN source' \subseteq Details, NoOrphanedForms',
           DOMAIN req' = Handlers, \A h \in Handlers : DOMAIN req'[h] = Columns
    PROVE  Whole'
<1>1. i \notin Present
  BY DEF Whole, Shape
<1>2. /\ Present' = Present \union {i} /\ nav'[i] = row
      /\ \A j \in Present : nav'[j] = nav[j] /\ j # i
  BY <1>1 DEF Present
<1>3. Acyclic(nav')
  <2>1. CASE i \in Groups
    <3>1. \A j \in DOMAIN nav : nav'[j].parent = nav[j].parent /\ nav[j].parent # i
      BY <1>1, <1>2, <2>1 DEF Whole, ContentsKept, Present
    <3>2. i \notin DOMAIN nav /\ DOMAIN nav' = DOMAIN nav \union {i} /\ nav'[i].parent # i
      BY <1>1, <1>2 DEF Present
    <3> QED BY <3>1, <3>2, AcyclicAdded DEF Whole
  <2>2. CASE i \notin Groups
    <3>1. /\ Groups \intersect DOMAIN nav' \subseteq DOMAIN nav
          /\ \A g \in Groups \intersect DOMAIN nav' : nav'[g].parent = nav[g].parent
      BY <1>2, <2>2 DEF Present
    <3> QED BY <3>1, AcyclicFewer DEF Whole
  <2> QED BY <2>1, <2>2
<1>4. ContentsKept'
  BY <1>2 DEF Whole, ContentsKept
<1>5. Shape'
  <2>1. IsFiniteSet(Present')
    BY <1>2, FS_AddElement DEF Whole, Shape
  <2>2. \A j \in Present' : /\ DOMAIN nav'[j] = DOMAIN Row(Root, 0, 0, FALSE)
                            /\ nav'[j].parent \in Items \union {Root}
    BY <1>2 DEF Whole, Shape
  <2>3. NoRequest' = NoRequest /\ Items' = Items
    BY DEF NoRequest, Request, Items
  <2> QED BY <1>2, <2>1, <2>2, <2>3 DEF Whole, Shape, Columns, Row
<1> QED BY <1>3, <1>4, <1>5 DEF Whole, Acyclic

LEMMA RequestsStayRecords ==
    ASSUME Whole, NEW h \in Handlers, NEW r, Becomes(h, r), DOMAIN r = Columns
    PROVE  DOMAIN req' = Handlers /\ \A g \in Handlers : DOMAIN req'[g] = Columns
<1>1. DOMAIN req = Handlers /\ req' = [req EXCEPT ![h] = Settled(r)]
  BY DEF Whole, Shape, Becomes
<1>2. req'[h] = Settled(r) /\ \A g \in Handlers \ {h} : req'[g] = req[g]
  BY <1>1
<1>3. \/ Settled(r) = r \/ Settled(r) = [r EXCEPT !.at = "tidy"]
      \/ Settled(r) = [r EXCEPT !.at = "plan", !.seen = <<>>] \/ Settled(r) = NoRequest
  BY DEF Settled, Following
<1>4. DOMAIN Settled(r) = Columns
  BY <1>3, IdleIsAllowed
<1> QED BY <1>1, <1>2, <1>4 DEF Whole, Shape, Columns

\* A request changes the next of its rows.
LEMMA WriteKeeps ==
    ASSUME Whole, Plans, ~raced', NEW h \in Handlers, Write(h)
    PROVE  Whole' /\ Plans'
<1>1. PICK w \in req[h].todo :
         /\ \A v \in req[h].todo : w.rank <= v.rank
         /\ IF w.id \notin Present /\ "gone" \notin DOMAIN w.set
            THEN Ends(h) /\ UNCHANGED <<nav, raced>>
            ELSE /\ nav' = IF "gone" \in DOMAIN w.set
                           THEN [i \in Present \ {w.id} |-> nav[i]]
                           ELSE [nav EXCEPT ![w.id] = Changed(@, w.set)]
                 /\ Becomes(h, [req[h] EXCEPT !.todo = @ \ {w}])
                 /\ Wrote(h)
  BY DEF Write
<1>2. req[h].at \in {"write", "sort"} /\ UNCHANGED <<forms, source, used>>
  BY DEF Write
<1>3. Columns = {"does", "at", "todo", "item", "target", "place", "num", "main", "seen"}
      /\ DOMAIN req[h] = Columns
  BY DEF Columns, NoRequest, Request, Whole, Shape
<1> DEFINE r == [req[h] EXCEPT !.todo = @ \ {w}]
<1>4. /\ DOMAIN r = Columns /\ r.todo = req[h].todo \ {w}
      /\ r.at = req[h].at /\ r.does = req[h].does /\ r.item = req[h].item
  BY <1>3
<1>5. CASE w.id \notin Present /\ "gone" \notin DOMAIN w.set
  <2>1. Becomes(h, NoRequest) /\ stale' = stale \ {h} /\ UNCHANGED rows
    BY <1>1, <1>2, <1>5 DEF Ends, rows
  <2>2. stale \subseteq stale' \union {h}
    BY <2>1
  <2> QED BY <2>1, <2>2, IdleIsAllowed, ReadStep
<1>6. CASE ~(w.id \notin Present /\ "gone" \notin DOMAIN w.set)
  <2>1. /\ nav' = IF "gone" \in DOMAIN w.set THEN [i \in Present \ {w.id} |-> nav[i]]
                  ELSE [nav EXCEPT ![w.id] = Changed(@, w.set)]
        /\ Becomes(h, r) /\ Wrote(h)
    BY <1>1, <1>6
  <2>2. h \notin stale
    BY <2>1 DEF Wrote
  <2>3. Allowed(nav, forms, req[h])
    BY <2>2 DEF Plans
  <2>4. DOMAIN req' = Handlers /\ \A g \in Handlers : DOMAIN req'[g] = Columns
    BY <1>4, <2>1, RequestsStayRecords
  <2>5. CASE req[h].at = "write" /\ req[h].does = "delete"
    <3> DEFINE g == req[h].item
    <3>1. g \in Groups \intersect Present /\ req[h].todo = Dissolving(nav, g)
      BY <2>3, <2>5 DEF Allowed, Present
    <3>2. CASE \E i \in Children(nav, g) : w = Change(i, [parent |-> nav[g].parent], 0)
      <4>1. "gone" \notin DOMAIN w.set
        BY <3>2 DEF Change
      <4>2. nav' = [nav EXCEPT ![w.id] = Changed(@, w.set)]
        BY <2>1, <4>1
      <4>3. Whole' /\ g \in Present' /\ Dissolving(nav', g) = Dissolving(nav, g) \ {w}
        BY <1>2, <2>4, <3>1, <3>2, <4>2, LiftingChild
      <4>4. Allowed(nav', forms', r)
        BY <1>4, <2>5, <3>1, <4>3 DEF Allowed, Present
      <4>5. Plans'
        BY <1>4, <2>1, <2>2, <4>4, RowStep
      <4> QED BY <4>3, <4>5
    <3>3. CASE w = Removal(g, 1)
      <4>1. "gone" \in DOMAIN w.set /\ w.id = g /\ w.rank = 1
        BY <3>3 DEF Removal, Change
      <4>2. Children(nav, g) = {}
        <5> SUFFICES ASSUME NEW i \in Children(nav, g) PROVE FALSE
          OBVIOUS
        <5>1. Change(i, [parent |-> nav[g].parent], 0) \in req[h].todo
          BY <3>1 DEF Dissolving
        <5>2. Change(i, [parent |-> nav[g].parent], 0).rank = 0
          BY DEF Change
        <5>3. 1 <= 0
          BY <1>1, <4>1, <5>1, <5>2
        <5> QED BY <5>3
      <4>3. nav' = [i \in Present \ {g} |-> nav[i]]
        BY <2>1, <4>1
      <4>4. Whole'
        <5>1. \A i \in Present \ {g} : nav[i].parent \in Groups => nav[i].parent \notin {g}
          BY <4>2 DEF Children, Present
        <5>2. NoOrphanedForms' /\ forms' \subseteq forms /\ DOMAIN source' \subseteq DOMAIN source
          BY <1>2 DEF Whole, NoOrphanedForms
        <5> QED BY <1>2, <2>4, <4>3, <5>1, <5>2, RemovingRows
      <4> DEFINE q == [r EXCEPT !.at = "tidy"]
      <4>5. DOMAIN q = Columns /\ q.at = "tidy"
        BY <1>3, <1>4
      <4>6. Becomes(h, q)
        <5>1. r.todo = {}
          BY <1>4, <3>1, <3>3, <4>2 DEF Dissolving
        <5>2. Settled(r) = q
          BY <1>4, <2>5, <5>1 DEF Settled, Following
        <5>3. Settled(q) = q
          BY <4>5 DEF Settled
        <5> QED BY <2>1, <5>2, <5>3 DEF Becomes
      <4>7. Allowed(nav', forms', q)
        BY <4>5 DEF Allowed
      <4>8. Plans'
        BY <2>1, <2>2, <4>5, <4>6, <4>7, RowStep
      <4> QED BY <4>4, <4>8
    <3> QED BY <3>1, <3>2, <3>3 DEF Dissolving
  <2>6. CASE ~(req[h].at = "write" /\ req[h].does = "delete")
    <3>1. OneParent(nav, req[h].item, req[h].todo)
      BY <1>2, <2>3, <2>6 DEF Allowed
    <3>2. "gone" \notin DOMAIN w.set
      BY <3>1 DEF OneParent
    <3>3. nav' = [nav EXCEPT ![w.id] = Changed(@, w.set)] /\ w.id \in Present
      BY <1>6, <2>1, <3>2
    <3>4. Whole' /\ OneParent(nav', req[h].item, req[h].todo \ {w})
      BY <1>2, <2>4, <3>1, <3>3, GivingOneParent
    <3>5. Allowed(nav', forms', r)
      BY <1>2, <1>4, <2>6, <3>4 DEF Allowed
    <3>6. Plans'
      BY <1>4, <2>1, <2>2, <3>5, RowStep
    <3> QED BY <3>4, <3>6
  <2> QED BY <2>5, <2>6
<1> QED BY <1>5, <1>6

\* A new item is put in.
LEMMA InsertKeeps ==
    ASSUME Whole, Plans, ~raced', NEW h \in Handlers,
           InsertGroup(h) \/ InsertForm(h) \/ InsertDetail(h)
    PROVE  Whole' /\ Plans'
<1>1. Columns = {"does", "at", "todo", "item", "target", "place", "num", "main", "seen"}
      /\ DOMAIN req[h] = Columns
  BY DEF Columns, NoRequest, Request, Whole, Shape
<1>3. ASSUME NEW i \in Items \ used, i # Home, NEW p, NEW n, NEW age, NEW main,
             NEW q, DOMAIN q = Columns, q.at \in {"idle", "tidy"},
             Insert(h, i, Row(p, n, age, main), q),
             p \in Items \union {Root}, p # i, p \in Groups => p \in Present,
             forms' \subseteq Forms, DOMAIN source' \subseteq Details, NoOrphanedForms'
      PROVE  Whole' /\ Plans'
  <2>1. /\ nav' = [j \in Present \union {i} |-> IF j = i THEN Row(p, n, age, main) ELSE nav[j]]
        /\ used' = used \union {i} /\ Becomes(h, q) /\ Wrote(h)
    BY <1>3 DEF Insert
  <2>2. DOMAIN req' = Handlers /\ \A g \in Handlers : DOMAIN req'[g] = Columns
    BY <1>3, <2>1, RequestsStayRecords
  <2>3. Whole'
    <3> DEFINE row == Row(p, n, age, main)
    <3>1. /\ DOMAIN row = DOMAIN Row(Root, 0, 0, FALSE) /\ row.parent \in Items \union {Root}
          /\ row.parent # i /\ (row.parent \in Groups => row.parent \in Present)
      <4>1. DOMAIN row = DOMAIN Row(Root, 0, 0, FALSE) /\ row.parent = p
        BY DEF Row
      <4> HIDE DEF row
      <4> QED BY <1>3, <4>1
    <3>2. nav' = [j \in Present \union {i} |-> IF j = i THEN row ELSE nav[j]]
      BY <2>1
    <3> HIDE DEF row
    <3> QED BY <1>3, <2>1, <2>2, <3>1, <3>2, AddingRow
  <2>4. h \notin stale
    BY <2>1 DEF Wrote
  <2>5. Allowed(nav', forms', q)
    BY <1>3 DEF Allowed
  <2> QED BY <1>3, <2>1, <2>3, <2>4, <2>5, RowStep
<1>4. h \notin stale /\ Allowed(nav, forms, req[h])
  <2>1. h \notin stale
    BY DEF InsertGroup, InsertForm, InsertDetail, Insert, Wrote
  <2> QED BY <2>1 DEF Plans
<1>5. forms \subseteq Forms /\ DOMAIN source \subseteq Details /\ NoOrphanedForms
  BY DEF Whole, Shape
<1>6. Present \subseteq Items /\ Home \in Items
  BY DEF Whole, Shape, Items
<1>7. CASE InsertGroup(h)
  <2>1. PICK g \in Groups \ used : Insert(h, g, Row(req[h].item, req[h].num, NewAge, FALSE),
                                          [req[h] EXCEPT !.at = "tidy"])
    BY <1>7 DEF InsertGroup
  <2>2. MayContain(nav, req[h].item) /\ UNCHANGED <<forms, source>>
    BY <1>4, <1>7 DEF InsertGroup, Allowed
  <2>3. g \in Items \ used /\ g # Home /\ g # Root /\ g \notin Present
    BY NavigationAssumption DEF Items, Whole, Shape
  <2>4. DOMAIN [req[h] EXCEPT !.at = "tidy"] = Columns /\ [req[h] EXCEPT !.at = "tidy"].at = "tidy"
    BY <1>1
  <2>5. NoOrphanedForms' /\ forms' \subseteq Forms /\ DOMAIN source' \subseteq Details
    BY <1>5, <2>2 DEF NoOrphanedForms
  <2>6. /\ req[h].item \in Items \union {Root} /\ req[h].item # g
        /\ req[h].item \in Groups => req[h].item \in Present
    BY <1>6, <2>2, <2>3, NavigationAssumption DEF MayContain, Present, Items
  <2> QED BY <1>3, <2>1, <2>3, <2>4, <2>5, <2>6
<1>8. CASE InsertForm(h)
  <2>1. PICK f \in Forms \ used :
           /\ forms' = forms \union {f}
           /\ Insert(h, f, Row(req[h].item, req[h].num, NewAge, req[h].main), NoRequest)
    BY <1>8 DEF InsertForm
  <2>2. MayContain(nav, req[h].item) /\ UNCHANGED source
    BY <1>4, <1>8 DEF InsertForm, Allowed
  <2>3. f \in Items \ used /\ f # Home /\ f # Root /\ f \notin Present
    BY NavigationAssumption DEF Items, Whole, Shape
  <2>5. NoOrphanedForms' /\ forms' \subseteq Forms /\ DOMAIN source' \subseteq Details
    BY <1>5, <2>1, <2>2 DEF NoOrphanedForms
  <2>6. /\ req[h].item \in Items \union {Root} /\ req[h].item # f
        /\ req[h].item \in Groups => req[h].item \in Present
    BY <1>6, <2>2, <2>3, NavigationAssumption DEF MayContain, Present, Items
  <2> QED BY <1>3, <2>1, <2>3, <2>5, <2>6, IdleIsAllowed
<1>9. CASE InsertDetail(h)
  <2> DEFINE f == req[h].item  p == IF f \in Present THEN f ELSE Root
  <2>1. PICK d \in Details \ used :
           /\ source' = [e \in DOMAIN source \union {d} |-> IF e = d THEN f ELSE source[e]]
           /\ Insert(h, d, Row(p, NextNumber(nav, p), NewAge, FALSE), NoRequest)
    BY <1>9 DEF InsertDetail
  <2>2. f \in forms /\ UNCHANGED forms
    BY <1>4, <1>9 DEF InsertDetail, Allowed
  <2>3. d \in Items \ used /\ d # Home /\ d # Root /\ d \notin Forms /\ d \notin Present
    BY NavigationAssumption DEF Items, Whole, Shape
  <2>4. DOMAIN source' \subseteq Details /\ forms' \subseteq Forms
    BY <1>5, <2>1, <2>2
  <2>5. NoOrphanedForms'
    BY <1>5, <2>1, <2>2 DEF NoOrphanedForms
  <2>6. p \in Items \union {Root} /\ p # d /\ (p \in Groups => p \in Present)
    BY <1>5, <1>6, <2>2, <2>3, NavigationAssumption DEF Items
  <2> QED BY <1>3, <2>1, <2>3, <2>4, <2>5, <2>6, IdleIsAllowed
<1> QED BY <1>7, <1>8, <1>9

-----------------------------------------------------------------------------
(* Reading the rows and deciding what to change.                           *)

LEMMA BeginKeeps ==
    ASSUME Whole, Plans, NEW h \in Handlers, NEW r, Begin(h, r), DOMAIN r = Columns,
           Allowed(nav, forms, r)
    PROVE  Whole' /\ Plans'
<1>1. UNCHANGED rows /\ Becomes(h, r) /\ stale \subseteq stale' \union {h}
  BY DEF Begin, history
<1> QED BY <1>1, ReadStep

LEMMA EndsKeeps ==
    ASSUME Whole, Plans, UNCHANGED rows, NEW h \in Handlers, Ends(h) PROVE Whole' /\ Plans'
<1>1. Becomes(h, NoRequest) /\ stale \subseteq stale' \union {h}
  BY DEF Ends
<1> QED BY <1>1, IdleIsAllowed, ReadStep

\* Numbering gives no row another parent than the root, where it was.
LEMMA RenumberingIsAllowed ==
    ASSUME Whole, NEW i PROVE OneParent(nav, i, Renumbering(nav))
<1>1. ASSUME NEW p, NEW w \in Numbering(nav, p)
      PROVE  "gone" \notin DOMAIN w.set /\ ("parent" \in DOMAIN w.set => w.set.parent = Root)
  <2>1. PICK i1, n : \/ p = Root /\ w = Change(i1, [parent |-> Root, order |-> n], 0)
                     \/ w = Change(i1, [order |-> n], 1)
    BY <1>1 DEF Numbering
  <2> QED BY <2>1 DEF Change
<1>2. \A w \in Renumbering(nav) :
         "gone" \notin DOMAIN w.set /\ ("parent" \in DOMAIN w.set => w.set.parent = Root)
  BY <1>1 DEF Renumbering
<1>3. Root \notin Groups
  BY NavigationAssumption
<1> QED BY <1>2, <1>3 DEF OneParent

\* The siblings with the item among them.
LEMMA PlacedAmong ==
    ASSUME NEW S, IsFiniteSet(S), NEW n, NEW s \in Listings(n, S), NEW t, NEW place, NEW i
    PROVE  \A k \in DOMAIN InsertAt(s, PlaceIn(s, t, place), i) :
              InsertAt(s, PlaceIn(s, t, place), i)[k] \in S \union {i}
<1> DEFINE l == PlaceIn(s, t, place)
<1>1. s \in Seq(S)
  <2>1. Cardinality(S) \in Nat
    BY FS_CardinalityType
  <2>2. s \in [1..Cardinality(S) -> S]
    BY DEF Listings, SetToSeqs
  <2> QED BY <2>1, <2>2
<1>2. l \in 1..(Len(s) + 1)
  <2>1. CASE place = "inside" \/ t \notin Range(s)
    BY <1>1, <2>1 DEF PlaceIn
  <2>2. CASE ~(place = "inside" \/ t \notin Range(s))
    <3> DEFINE k == CHOOSE x \in DOMAIN s : s[x] = t
    <3>1. k \in DOMAIN s
      BY <2>2 DEF Range
    <3>2. l = IF place = "before" THEN k ELSE k + 1
      BY <2>2 DEF PlaceIn
    <3> HIDE DEF k
    <3> QED BY <1>1, <3>1, <3>2
  <2> QED BY <2>1, <2>2
<1> HIDE DEF l
<1>3. SubSeq(s, 1, l - 1) \in Seq(S \union {i}) /\ SubSeq(s, l, Len(s)) \in Seq(S \union {i})
  <2>1. s \in Seq(S \union {i})
    BY <1>1
  <2>2. \A m \in 1..(l-1) : m \in 1..Len(s)
    BY <1>1, <1>2
  <2>3. \A m \in l..Len(s) : m \in 1..Len(s)
    BY <1>1, <1>2
  <2> QED BY <1>1, <1>2, <2>1, <2>2, <2>3
<1>4. InsertAt(s, l, i) \in Seq(S \union {i})
  <2>1. <<i>> \in Seq(S \union {i})
    OBVIOUS
  <2>2. SubSeq(s, 1, l - 1) \o <<i>> \in Seq(S \union {i})
    BY <1>3, <2>1, ConcatProperties
  <2>3. (SubSeq(s, 1, l - 1) \o <<i>>) \o SubSeq(s, l, Len(s)) \in Seq(S \union {i})
    BY <1>3, <2>2, ConcatProperties
  <2> QED BY <2>3 DEF InsertAt
<1> QED BY <1>4 DEF l

\* A single item that gets another parent.
LEMMA OneChange ==
    ASSUME NEW i, NEW p \in Items \union {Root}, p \in Groups => p \in Present,
           i \in Groups => MayHold(nav, p, i), NEW n
    PROVE  OneParent(nav, i, {Change(i, [parent |-> p, order |-> n], 0)})
<1> DEFINE w == Change(i, [parent |-> p, order |-> n], 0)
<1>1. "gone" \notin DOMAIN w.set /\ w.set.parent = p /\ w.id = i
  BY DEF Change
<1> HIDE DEF w
<1>2. OneParent(nav, i, {w})
  BY <1>1 DEF OneParent, Present
<1> QED BY <1>2 DEF w

\* A request that begins has read the rows as they are.
LEMMA FirstStepKeeps ==
    ASSUME Whole, Plans, NEW h \in Handlers,
           \/ CreateGroup(h) \/ UpdateGroup(h) \/ DeleteGroup(h) \/ Reorder(h) \/ MoveForm(h)
           \/ SetDefault(h) \/ CreateForm(h) \/ CreateDetail(h) \/ ListItems(h)
    PROVE  Whole' /\ Plans'
<1>1. ASSUME NEW does, NEW todo, NEW i, NEW t, NEW place, NEW n, NEW main, does # "delete",
             Begin(h, Request(does, "write", todo, i, t, place, n, main)), OneParent(nav, i, todo)
      PROVE  Whole' /\ Plans'
  <2> DEFINE r == Request(does, "write", todo, i, t, place, n, main)
  <2>1. DOMAIN r = Columns /\ r.does = does /\ r.at = "write" /\ r.todo = todo /\ r.item = i
    BY RequestColumns
  <2> HIDE DEF r
  <2>2. Allowed(nav, forms, r)
    BY <1>1, <2>1 DEF Allowed
  <2> QED BY <1>1, <2>1, <2>2, BeginKeeps DEF r
<1>2. Present \subseteq Items /\ Root \notin Groups
  BY NavigationAssumption DEF Whole, Shape, Items
<1>3. CASE CreateGroup(h)
  <2>1. PICK p \in Groups \union {Root} :
           /\ MayContain(nav, p)
           /\ Begin(h, Request("group", "insert", {}, p, NoItem, "", NextNumber(nav, p), FALSE))
    BY <1>3 DEF CreateGroup
  <2> DEFINE r == Request("group", "insert", {}, p, NoItem, "", NextNumber(nav, p), FALSE)
  <2>2. DOMAIN r = Columns /\ r.does = "group" /\ r.at = "insert" /\ r.item = p
    BY DEF Request, NoRequest, Columns
  <2> HIDE DEF r
  <2>3. Allowed(nav, forms, r)
    BY <2>1, <2>2 DEF Allowed
  <2> QED BY <2>1, <2>2, <2>3, BeginKeeps DEF r
<1>4. CASE UpdateGroup(h)
  <2>1. PICK g \in Groups \intersect Present, p \in Groups \union {Root} :
           /\ MayContain(nav, p) /\ MayHold(nav, p, g)
           /\ \E m : Begin(h, Request("update", "write",
                                     {Change(g, [parent |-> p, order |-> m], 0)},
                                     g, p, "", 0, FALSE))
    BY <1>4 DEF UpdateGroup
  <2> PICK n : Begin(h, Request("update", "write", {Change(g, [parent |-> p, order |-> n], 0)},
                                g, p, "", 0, FALSE))
    BY <2>1
  <2>2. OneParent(nav, g, {Change(g, [parent |-> p, order |-> n], 0)})
    <3>1. p \in Items \union {Root} /\ (p \in Groups => p \in Present) /\ MayHold(nav, p, g)
      BY <1>2, <2>1 DEF MayContain, Items, Present
    <3> QED BY <3>1, OneChange
  <2> QED BY <1>1, <2>1, <2>2
<1>5. CASE DeleteGroup(h)
  <2>1. PICK g \in Groups \intersect Present :
           Begin(h, Request("delete", "write", Dissolving(nav, g), g, NoItem, "", 0, FALSE))
    BY <1>5 DEF DeleteGroup
  <2> DEFINE r == Request("delete", "write", Dissolving(nav, g), g, NoItem, "", 0, FALSE)
  <2>2. DOMAIN r = Columns /\ r.does = "delete" /\ r.at = "write" /\ r.item = g
        /\ r.todo = Dissolving(nav, g)
    BY DEF Request, NoRequest, Columns
  <2> HIDE DEF r
  <2>3. Allowed(nav, forms, r)
    BY <2>1, <2>2 DEF Allowed, Present
  <2> QED BY <2>1, <2>2, <2>3, BeginKeeps DEF r
<1>6. CASE Reorder(h)
  <2>1. PICK i \in Present \ {Home}, t \in Present, place \in {"inside", "before", "after"} :
           /\ i # t /\ (place = "inside" => t \in Groups) /\ t \notin Descendants(nav, i)
           /\ \E s \in Listings(nav, Children(nav, Destination(nav, t, place)) \ {i, Home}) :
                 Begin(h, Request("reorder", "write",
                                  Placing(nav, InsertAt(s, PlaceIn(s, t, place), i),
                                          Destination(nav, t, place)),
                                  i, t, place, nav[i].order, FALSE))
    BY <1>6 DEF Reorder
  <2> DEFINE p == Destination(nav, t, place)  S == Children(nav, p) \ {i, Home}
  <2>2. PICK s \in Listings(nav, S) :
           Begin(h, Request("reorder", "write", Placing(nav, InsertAt(s, PlaceIn(s, t, place), i), p),
                            i, t, place, nav[i].order, FALSE))
    BY <2>1
  <2>3. /\ p \in Items \union {Root} /\ (p \in Groups => p \in Present)
        /\ MayHold(nav, p, i)
    <3>1. CASE place = "inside"
      <4>1. p = t
        BY <3>1 DEF Destination
      <4> QED BY <1>2, <2>1, <3>1, <4>1 DEF MayHold
    <3>2. CASE place # "inside"
      <4>1. p = nav[t].parent
        BY <3>2 DEF Destination
      <4>2. p \notin Descendants(nav, i) /\ p # i
        BY <2>1, <4>1, DescendantsClosed DEF Children, Present
      <4> QED BY <2>1, <4>1, <4>2 DEF MayHold, Whole, Shape, ContentsKept
    <3> QED BY <3>1, <3>2
  <2>4. IsFiniteSet(S)
    <3>1. S \subseteq Present
      BY DEF Children, Present
    <3> QED BY <3>1, FS_Subset DEF Whole, Shape
  <2> DEFINE new == InsertAt(s, PlaceIn(s, t, place), i)
  <2>5. \A k \in DOMAIN new : new[k] \in Children(nav, p) \union {i}
    <3>1. \A k \in DOMAIN new : new[k] \in S \union {i}
      <4> HIDE DEF S
      <4> QED BY <2>4, PlacedAmong
    <3> QED BY <3>1
  <2> HIDE DEF p, new
  <2>6. OneParent(nav, i, Placing(nav, new, p))
    <3>1. ASSUME NEW w \in Placing(nav, new, p)
          PROVE  /\ "gone" \notin DOMAIN w.set /\ w.set.parent = p
                 /\ w.id \in Children(nav, p) \union {i}
      <4>1. PICK k \in DOMAIN new : \E n : w = Change(new[k], [parent |-> p, order |-> n], k)
        BY <3>1 DEF Placing
      <4> QED BY <2>5, <4>1 DEF Change
    <3> QED BY <2>3, <3>1 DEF OneParent, Present
  <2> QED BY <1>1, <2>2, <2>6 DEF p, new
<1>7. CASE MoveForm(h)
  <2>1. PICK f \in (Forms \union Details) \intersect Present, p \in Groups \union {Root} :
           /\ MayContain(nav, p)
           /\ \E m : Begin(h, Request("move", "write",
                                     {Change(f, [parent |-> p, order |-> m], 0)},
                                     f, p, "", 0, FALSE))
    BY <1>7 DEF MoveForm
  <2> PICK n : Begin(h, Request("move", "write", {Change(f, [parent |-> p, order |-> n], 0)},
                                f, p, "", 0, FALSE))
    BY <2>1
  <2>2. f \notin Groups
    BY NavigationAssumption
  <2>3. OneParent(nav, f, {Change(f, [parent |-> p, order |-> n], 0)})
    BY <1>2, <2>1, <2>2, OneChange DEF MayContain, Items, Present
  <2> QED BY <1>1, <2>1, <2>3
<1>8. CASE SetDefault(h)
  <2>1. PICK t \in Present \ Groups :
           Begin(h, Request("default", "write",
                            {Change(i, [main |-> i = t], 0) : i \in {j \in Present : nav[j].main # (j = t)}}
                                \union {Change(t, [main |-> TRUE], 1)},
                            t, NoItem, "", 0, FALSE))
    BY <1>8 DEF SetDefault
  <2> DEFINE todo == {Change(i, [main |-> i = t], 0) : i \in {j \in Present : nav[j].main # (j = t)}}
                         \union {Change(t, [main |-> TRUE], 1)}
  <2>2. \A w \in todo : DOMAIN w.set = {"main"}
    BY DEF Change
  <2> HIDE DEF todo
  <2>3. OneParent(nav, t, todo)
    BY <1>2, <2>2 DEF OneParent
  <2> QED BY <1>1, <2>1, <2>3 DEF todo
<1>9. CASE CreateForm(h) \/ ListItems(h)
  <2>1. PICK does, i : Begin(h, Request(does, "tidy", {}, i, NoItem, "", 0, FALSE))
    BY <1>9 DEF CreateForm, ListItems
  <2> DEFINE r == Request(does, "tidy", {}, i, NoItem, "", 0, FALSE)
  <2>2. DOMAIN r = Columns /\ r.at = "tidy"
    BY DEF Request, NoRequest, Columns
  <2> HIDE DEF r
  <2>3. Allowed(nav, forms, r)
    BY <2>2 DEF Allowed
  <2> QED BY <2>1, <2>2, <2>3, BeginKeeps DEF r
<1>10. CASE CreateDetail(h)
  <2>1. PICK f \in forms : Begin(h, Request("detail", "insert", {}, f, NoItem, "", 0, FALSE))
    BY <1>10 DEF CreateDetail
  <2> DEFINE r == Request("detail", "insert", {}, f, NoItem, "", 0, FALSE)
  <2>2. DOMAIN r = Columns /\ r.does = "detail" /\ r.at = "insert" /\ r.item = f
    BY DEF Request, NoRequest, Columns
  <2> HIDE DEF r
  <2>3. Allowed(nav, forms, r)
    BY <2>1, <2>2 DEF Allowed
  <2> QED BY <2>1, <2>2, <2>3, BeginKeeps DEF r
<1> QED BY <1>3, <1>4, <1>5, <1>6, <1>7, <1>8, <1>9, <1>10

-----------------------------------------------------------------------------
(* All steps.                                                              *)

LEMMA LaterStepKeeps ==
    ASSUME Whole, Plans, NEW h \in Handlers, Tidy(h) \/ Overflow(h) \/ Plan(h) \/ Drop(h)
    PROVE  Whole' /\ Plans'
<1>1. Columns = {"does", "at", "todo", "item", "target", "place", "num", "main", "seen"}
      /\ DOMAIN req[h] = Columns
  BY DEF Columns, NoRequest, Request, Whole, Shape
<1>2. CASE Tidy(h)
  <2> DEFINE r == [req[h] EXCEPT !.at = "sort", !.todo = Renumbering(nav), !.seen = nav]
  <2>1. Becomes(h, r) /\ UNCHANGED rows /\ stale \subseteq stale' \union {h}
    BY <1>2 DEF Tidy
  <2>2. /\ DOMAIN r = Columns /\ r.at = "sort" /\ r.todo = Renumbering(nav)
        /\ r.does = req[h].does /\ r.item = req[h].item
    BY <1>1
  <2> HIDE DEF r
  <2>3. Allowed(nav, forms, r)
    BY <2>2, RenumberingIsAllowed DEF Allowed
  <2> QED BY <2>1, <2>2, <2>3, ReadStep
<1>3. CASE Overflow(h)
  <2>1. UNCHANGED <<nav, forms, source, used>> /\ req' = [g \in Handlers |-> NoRequest]
    BY <1>3 DEF Overflow, rows
  <2>2. DOMAIN req' = Handlers /\ \A g \in Handlers : DOMAIN req'[g] = Columns
    BY <2>1 DEF Columns
  <2>3. Whole'
    <3>1. NoRequest' = NoRequest
      BY DEF NoRequest, Request
    <3>2. Shape'
      BY <2>1, <2>2, <3>1 DEF Whole, Shape, Columns, Present, Row
    <3> QED BY <2>1, <3>2 DEF Whole, Acyclic, ContentsKept, NoOrphanedForms, Present
  <2>4. Plans'
    BY <2>1, IdleIsAllowed DEF Plans
  <2> QED BY <2>3, <2>4
<1>4. CASE Plan(h)
  <2>1. UNCHANGED rows /\ req[h].at = "plan"
    BY <1>4 DEF Plan
  <2>2. CASE MayContain(nav, req[h].item)
    <3> DEFINE r == [req[h] EXCEPT !.at = "insert", !.num = NextNumber(nav, req[h].item),
                                   !.main = ~HasEntry(nav)]
    <3>1. Becomes(h, r) /\ stale' = stale
      BY <1>4, <2>2 DEF Plan
    <3>2. DOMAIN r = Columns /\ r.at = "insert" /\ r.does = req[h].does /\ r.item = req[h].item
      BY <1>1
    <3> HIDE DEF r
    <3>3. ASSUME h \notin stale' PROVE Allowed(nav, forms, r)
      <4>1. Allowed(nav, forms, req[h])
        BY <3>1, <3>3 DEF Plans
      <4>2. req[h].does = "form"
        BY <2>1, <4>1 DEF Allowed
      <4> QED BY <2>2, <3>2, <4>2 DEF Allowed
    <3> QED BY <2>1, <3>1, <3>2, <3>3, ReadStep
  <2>3. CASE ~MayContain(nav, req[h].item)
    <3>1. Ends(h)
      BY <1>4, <2>3 DEF Plan
    <3> QED BY <2>1, <3>1, EndsKeeps
  <2> QED BY <2>2, <2>3
<1>5. CASE Drop(h)
  BY <1>5, EndsKeeps DEF Drop
<1> QED BY <1>2, <1>3, <1>4, <1>5

\* A form is deleted together with its detail forms, and all requests are overtaken.
LEMMA DeleteKeeps ==
    ASSUME Whole, Plans, DeleteForm \/ DeleteDetail PROVE Whole' /\ Plans'
<1>1. ASSUME NEW gone \in SUBSET (Forms \union Details), RemoveRows(gone),
             \A d \in DOMAIN source \ gone : source[d] \notin gone
      PROVE  Whole' /\ Plans'
  <2>1. /\ nav' = [i \in Present \ gone |-> nav[i]] /\ forms' = forms \ gone
        /\ source' = [d \in DOMAIN source \ gone |-> source[d]]
        /\ stale' = stale \union Busy /\ UNCHANGED <<used, req>>
    BY <1>1 DEF RemoveRows
  <2>2. NoOrphanedForms'
    BY <1>1, <2>1 DEF Whole, NoOrphanedForms
  <2>3. \A i \in Present \ gone : nav[i].parent \in Groups => nav[i].parent \notin gone
    BY NavigationAssumption
  <2>4. DOMAIN req' = Handlers /\ \A g \in Handlers : DOMAIN req'[g] = Columns
    BY <2>1 DEF Whole, Shape, Columns
  <2>5. Whole'
    <3>1. forms' \subseteq forms /\ DOMAIN source' \subseteq DOMAIN source
      BY <2>1
    <3> QED BY <2>1, <2>2, <2>3, <2>4, <3>1, RemovingRows
  <2>6. Plans'
    <3> SUFFICES ASSUME NEW g \in Handlers \ stale' PROVE Allowed(nav', forms', req'[g])
      BY DEF Plans
    <3>1. req'[g].at = "idle"
      BY <2>1 DEF Busy
    <3> QED BY <3>1 DEF Allowed
  <2> QED BY <2>5, <2>6
<1>2. forms \subseteq Forms /\ DOMAIN source \subseteq Details /\ Forms \intersect Details = {}
      /\ \A d \in DOMAIN source : source[d] \in forms
  BY NavigationAssumption DEF Whole, Shape, NoOrphanedForms
<1>3. CASE DeleteForm
  <2>1. PICK f \in forms : RemoveRows({f} \union DetailsOf(f))
    BY <1>3 DEF DeleteForm
  <2>2. {f} \union DetailsOf(f) \in SUBSET (Forms \union Details)
    BY <1>2 DEF DetailsOf
  <2>3. \A d \in DOMAIN source \ ({f} \union DetailsOf(f)) : source[d] \notin {f} \union DetailsOf(f)
    BY <1>2 DEF DetailsOf
  <2> QED BY <1>1, <2>1, <2>2, <2>3
<1>4. CASE DeleteDetail
  <2>1. PICK d \in DOMAIN source : RemoveRows({d})
    BY <1>4 DEF DeleteDetail
  <2>2. {d} \in SUBSET (Forms \union Details) /\ \A e \in DOMAIN source \ {d} : source[e] \notin {d}
    BY <1>2
  <2> QED BY <1>1, <2>1, <2>2
<1> QED BY <1>3, <1>4

\* A request that has been overtaken and changes a row is remembered for good.
LEMMA RaceRemembered ==
    ASSUME [Next]_vars, raced PROVE raced'
<1> USE DEF history, Begin
<1>1. ASSUME NEW h \in Handlers,
             \/ CreateGroup(h) \/ UpdateGroup(h) \/ DeleteGroup(h) \/ Reorder(h) \/ MoveForm(h)
             \/ SetDefault(h) \/ CreateForm(h) \/ CreateDetail(h) \/ ListItems(h)
      PROVE  raced'
  BY <1>1 DEF CreateGroup, UpdateGroup, DeleteGroup, Reorder, MoveForm, SetDefault, CreateForm,
              CreateDetail, ListItems
<1>2. ASSUME NEW h \in Handlers, Write(h) \/ InsertGroup(h) \/ InsertForm(h) \/ InsertDetail(h)
      PROVE  raced'
  BY <1>2 DEF Write, InsertGroup, InsertForm, InsertDetail, Insert, Wrote
<1>3. ASSUME NEW h \in Handlers, Tidy(h) \/ Overflow(h) \/ Plan(h) \/ Drop(h) PROVE raced'
  BY <1>3 DEF Tidy, Overflow, Plan, Drop
<1>4. CASE DeleteForm \/ DeleteDetail
  BY <1>4 DEF DeleteForm, DeleteDetail, RemoveRows
<1>5. CASE UNCHANGED vars
  BY <1>5 DEF vars
<1> QED BY <1>1, <1>2, <1>3, <1>4, <1>5 DEF Next

LEMMA StepKeeps ==
    ASSUME NavInv, [Next]_vars PROVE NavInv'
<1>1. CASE raced'
  BY <1>1 DEF NavInv
<1>2. CASE ~raced'
  <2>1. Whole /\ Plans
    BY <1>2, RaceRemembered, Invariant
  <2>2. Whole' /\ Plans'
    <3>1. CASE UNCHANGED vars
      <4>1. UNCHANGED <<nav, forms, source, used, req, stale>>
        BY <3>1 DEF vars, rows, history
      <4>2. NoRequest' = NoRequest /\ Items' = Items
        BY DEF NoRequest, Request, Items
      <4>3. Whole'
        BY <2>1, <4>1, <4>2 DEF Whole, Shape, Acyclic, ContentsKept, NoOrphanedForms, Present, Row
      <4>4. Plans'
        BY <2>1, <4>1 DEF Plans, Allowed
      <4> QED BY <4>3, <4>4
    <3> QED BY <1>2, <2>1, <3>1, FirstStepKeeps, WriteKeeps, InsertKeeps, LaterStepKeeps, DeleteKeeps
        DEF Next
  <2>3. Acyclic(nav') <=> ~Cyclic(GroupsOf(nav'))
    BY AcyclicGroups
  <2> QED BY <2>2, <2>3 DEF NavInv, Whole, Plans
<1> QED BY <1>1, <1>2

LEMMA Starts == Init => NavInv
<1> SUFFICES ASSUME Init PROVE Whole /\ Plans
  BY Invariant
<1>1. /\ nav = [i \in {Home} |-> Row(Root, 0, 0, TRUE)] /\ forms = {} /\ source = <<>> /\ used = {}
      /\ req = [h \in Handlers |-> NoRequest] /\ stale = {}
  BY DEF Init
<1>2. Present = {Home} /\ nav[Home].parent = Root /\ DOMAIN nav[Home] = DOMAIN Row(Root, 0, 0, FALSE)
  BY <1>1 DEF Present, Row
<1>3. DOMAIN source = {} /\ IsFiniteSet({Home})
  <2>1. DOMAIN source = {}
    BY <1>1
  <2>2. IsFiniteSet({Home})
    BY FS_Singleton, Zenon
  <2> QED BY <2>1, <2>2
<1>4. Shape
  BY <1>1, <1>2, <1>3 DEF Shape, Items
<1>5. Acyclic(nav)
  BY <1>2, NavigationAssumption DEF Acyclic, Present
<1>6. ContentsKept /\ NoOrphanedForms
  BY <1>2, <1>3, NavigationAssumption DEF ContentsKept, NoOrphanedForms
<1>7. Plans
  BY <1>1, IdleIsAllowed DEF Plans
<1> QED BY <1>4, <1>5, <1>6, <1>7 DEF Whole

\* As long as no request changes a row after another one has changed one under it, every
\* request does to the rows as they are what it has checked on the rows it has read,
\* wherever requests are cut off and whichever forms are deleted meanwhile.
THEOREM NavigationInvariant == Spec => []NavInv
BY Starts, StepKeeps, PTL DEF Spec

\* Groups then never lie below each other in a circle: navigation can be numbered and shown.
THEOREM GroupsStayNested == Spec => []NestUnlessRaced
<1>1. NavInv => NestUnlessRaced
  BY DEF NavInv, NestUnlessRaced
<1> QED BY <1>1, NavigationInvariant, PTL

\* No row is then left behind below a group that is gone, even by a request cut off while
\* it dissolves a group.
THEOREM ContentsStay == Spec => []KeptUnlessRaced
<1>1. NavInv => KeptUnlessRaced
  BY DEF NavInv, KeptUnlessRaced
<1> QED BY <1>1, NavigationInvariant, PTL

\* And no detail form outlives its form.
THEOREM DetailsGoAlong == Spec => []OrphansOnlyByRace
<1>1. NavInv => OrphansOnlyByRace
  BY DEF NavInv, OrphansOnlyByRace
<1> QED BY <1>1, NavigationInvariant, PTL

-----------------------------------------------------------------------------
(* The order of siblings.                                                  *)

LEMMA RowColumns == DOMAIN Row(Root, 0, 0, FALSE) = {"parent", "order", "born", "main"}
BY DEF Row

LEMMA FirstNumberIsInt == \A p : FirstNumber(p) \in Int
BY DEF FirstNumber, RootBase

LEMMA NumberIsInt ==
    ASSUME NEW n, IsFiniteSet(DOMAIN n), NEW i PROVE Number(n, i) \in Int
<1> DEFINE E == {j \in Siblings(n, i) : Comes(n, j, i)}
<1>1. E \subseteq DOMAIN n
  BY DEF Siblings, Children
<1>2. Cardinality(E) \in Nat
  <2> HIDE DEF E
  <2> QED BY <1>1, FS_Subset, FS_CardinalityType
<1>3. Number(n, i) = FirstNumber(n[i].parent) + Cardinality(E)
  BY DEF Number
<1> HIDE DEF E
<1> QED BY <1>2, <1>3, FirstNumberIsInt

LEMMA NextNumberIsInt ==
    ASSUME NEW n, IsFiniteSet(DOMAIN n), NEW p PROVE NextNumber(n, p) \in Int
<1> DEFINE E == Children(n, p) \ {Home}
<1>1. E \subseteq DOMAIN n
  BY DEF Children
<1>2. Cardinality(E) \in Nat
  <2> HIDE DEF E
  <2> QED BY <1>1, FS_Subset, FS_CardinalityType
<1>3. NextNumber(n, p) = FirstNumber(p) + Cardinality(E)
  BY DEF NextNumber
<1> HIDE DEF E
<1> QED BY <1>2, <1>3, FirstNumberIsInt

\* Who comes first gets the smaller number.
LEMMA NumbersFollowOrder ==
    ASSUME NEW n, IsFiniteSet(DOMAIN n), \A k \in DOMAIN n : n[k].order \in Int /\ n[k].born \in Int,
           NEW i \in DOMAIN n \ {Home}, NEW j \in DOMAIN n \ {Home},
           n[i].parent = n[j].parent, Comes(n, i, j)
    PROVE  Number(n, i) < Number(n, j)
<1> DEFINE E == {k \in Siblings(n, i) : Comes(n, k, i)}
           F == {k \in Siblings(n, j) : Comes(n, k, j)}
<1>1. i # j
  BY DEF Comes
<1>2. i \in F /\ i \notin E
  BY <1>1 DEF Siblings, Children
<1>3. E \subseteq F
  <2> SUFFICES ASSUME NEW k \in E PROVE k \in F
    OBVIOUS
  <2>1. k \in DOMAIN n /\ n[k].parent = n[i].parent /\ k # Home /\ Comes(n, k, i)
    BY DEF Siblings, Children
  <2>2. Comes(n, k, j) /\ k # j
    BY <2>1 DEF Comes
  <2> QED BY <2>1, <2>2 DEF Siblings, Children
<1>4. F \subseteq DOMAIN n
  BY DEF Siblings, Children
<1>5. Number(n, i) = FirstNumber(n[i].parent) + Cardinality(E)
      /\ Number(n, j) = FirstNumber(n[i].parent) + Cardinality(F)
  BY DEF Number
<1> HIDE DEF E, F
<1>6. Cardinality(E) \in Nat /\ Cardinality(F) \in Nat /\ Cardinality(E) < Cardinality(F)
  <2>1. IsFiniteSet(F) /\ E \in SUBSET F
    BY <1>3, <1>4, FS_Subset
  <2>2. Cardinality(E) <= Cardinality(F) /\ (Cardinality(F) = Cardinality(E) => F = E)
    BY <2>1, FS_Subset
  <2>3. Cardinality(E) \in Nat /\ Cardinality(F) \in Nat
    BY <2>1, FS_Subset, FS_CardinalityType
  <2> QED BY <1>2, <2>2, <2>3
<1> QED BY <1>5, <1>6, FirstNumberIsInt

\* The changes that number rows anew.
Renumbers(n, p) == p = Root \/ (p \in Groups \intersect DOMAIN n /\ n[p].parent # Root)

RenumberedRow(n, i) ==
    IF n[i].parent = Root THEN Change(i, [parent |-> Root, order |-> Number(n, i)], 0)
    ELSE Change(i, [order |-> Number(n, i)], 1)

LEMMA RenumberingIs ==
    ASSUME NEW n
    PROVE  Renumbering(n) =
              {RenumberedRow(n, i) : i \in {j \in DOMAIN n \ {Home} :
                   Renumbers(n, n[j].parent) /\ n[j].order # Number(n, j)}}
<1>1. \A p : Numbering(n, p) =
          {IF p = Root THEN Change(i, [parent |-> Root, order |-> Number(n, i)], 0)
           ELSE Change(i, [order |-> Number(n, i)], 1) :
              i \in {j \in DOMAIN n : n[j].parent = p /\ j # Home /\ n[j].order # Number(n, j)}}
  BY DEF Numbering, Children
<1>2. \A p : Numbering(n, p) =
          {RenumberedRow(n, i) :
              i \in {j \in DOMAIN n : n[j].parent = p /\ j # Home /\ n[j].order # Number(n, j)}}
  BY <1>1 DEF RenumberedRow
<1>3. Renumbering(n) = UNION {Numbering(n, p) : p \in {q \in {Root} \union Groups : Renumbers(n, q)}}
  BY NavigationAssumption DEF Renumbering, Renumbers
<1>4. ASSUME NEW i \in DOMAIN n, Renumbers(n, n[i].parent)
      PROVE  n[i].parent \in {q \in {Root} \union Groups : Renumbers(n, q)}
  BY <1>4 DEF Renumbers
<1> QED BY <1>2, <1>3, <1>4

LEMMA RenumberedRowIs ==
    ASSUME NEW n, IsFiniteSet(DOMAIN n), NEW i \in DOMAIN n \ {Home}
    PROVE  /\ RenumberedRow(n, i).id = i /\ RenumberedRow(n, i).set.order = Number(n, i)
           /\ "order" \in DOMAIN RenumberedRow(n, i).set
           /\ DOMAIN RenumberedRow(n, i).set \subseteq {"parent", "order"}
           /\ "parent" \in DOMAIN RenumberedRow(n, i).set =>
                 RenumberedRow(n, i).set.parent = n[i].parent
           /\ ChangeIsSound(RenumberedRow(n, i))
<1>1. Number(n, i) \in Int
  BY NumberIsInt
<1>2. CASE n[i].parent = Root
  BY <1>1, <1>2 DEF RenumberedRow, Change, ChangeIsSound
<1>3. CASE n[i].parent # Root
  BY <1>1, <1>3 DEF RenumberedRow, Change, ChangeIsSound
<1> QED BY <1>2, <1>3

-----------------------------------------------------------------------------
(* Requests.                                                               *)

RequestIsSound(r) ==
    /\ DOMAIN r = Columns /\ r.num \in Int
    /\ \A w \in r.todo : ChangeIsSound(w)

LEMMA IdleIsSound == RequestIsSound(NoRequest) /\ \A n : Placed(n, NoRequest) /\ Numbered(n, NoRequest)
BY DEF RequestIsSound, NoRequest, Request, Columns, Placed, Numbered

LEMMA SettledIsSound ==
    ASSUME NEW r, RequestIsSound(r)
    PROVE  /\ RequestIsSound(Settled(r))
           /\ \A n : Placed(n, r) /\ Numbered(n, r) =>
                        Placed(n, Settled(r)) /\ Numbered(n, Settled(r))
<1>1. Columns = {"does", "at", "todo", "item", "target", "place", "num", "main", "seen"}
  BY DEF Columns, NoRequest, Request
<1>2. CASE Settled(r) = r
  BY <1>2
<1>3. CASE Settled(r) # r
  <2>1. r.at \in {"write", "sort"} /\ r.todo = {} /\ Settled(r) = Following(r)
    BY <1>3 DEF Settled
  <2>2. CASE r.at = "write" /\ r.does # "default"
    <3> DEFINE q == [r EXCEPT !.at = "tidy"]
    <3>1. Settled(r) = q
      BY <2>1, <2>2 DEF Following
    <3>2. /\ DOMAIN q = Columns /\ q.at = "tidy" /\ q.todo = {} /\ q.does = r.does /\ q.num = r.num
          /\ q.item = r.item /\ q.target = r.target /\ q.place = r.place
      BY <1>1, <2>1 DEF RequestIsSound
    <3> HIDE DEF q
    <3>3. RequestIsSound(q)
      BY <3>2 DEF RequestIsSound
    <3>4. ASSUME NEW n, Placed(n, r) PROVE Placed(n, q) /\ Numbered(n, q)
      <4>1. Numbered(n, q)
        BY <3>2 DEF Numbered
      <4>2. \A x : ListedAsAsked(x, q) <=> ListedAsAsked(x, r)
        BY <3>2 DEF ListedAsAsked
      <4>3. Placed(n, q)
        BY <2>1, <2>2, <3>2, <3>4, <4>2 DEF Placed
      <4> QED BY <4>1, <4>3
    <3> QED BY <3>1, <3>3, <3>4
  <2>3. CASE ~(r.at = "write" /\ r.does # "default") /\ r.at = "sort" /\ r.does = "form"
    <3> DEFINE q == [r EXCEPT !.at = "plan", !.seen = <<>>]
    <3>1. Settled(r) = q
      BY <2>1, <2>3 DEF Following
    <3>2. DOMAIN q = Columns /\ q.at = "plan" /\ q.todo = {} /\ q.num = r.num
      BY <1>1, <2>1 DEF RequestIsSound
    <3> HIDE DEF q
    <3> QED BY <3>1, <3>2 DEF RequestIsSound, Placed, Numbered
  <2>4. CASE ~(r.at = "write" /\ r.does # "default") /\ ~(r.at = "sort" /\ r.does = "form")
    <3>1. Settled(r) = NoRequest
      BY <2>1, <2>4 DEF Following
    <3> QED BY <3>1, IdleIsSound
  <2> QED BY <2>2, <2>3, <2>4
<1> QED BY <1>2, <1>3

\* One request goes on.
LEMMA RequestGoesOn ==
    ASSUME RequestsAreSound, NEW h \in Handlers, NEW r, RequestIsSound(r), Becomes(h, r)
    PROVE  /\ RequestsAreSound' /\ req'[h] = Settled(r)
           /\ \A g \in Handlers \ {h} : req'[g] = req[g]
<1>1. DOMAIN req = Handlers /\ req' = [req EXCEPT ![h] = Settled(r)]
  BY DEF RequestsAreSound, Becomes
<1>2. req'[h] = Settled(r) /\ \A g \in Handlers \ {h} : req'[g] = req[g]
  BY <1>1
<1>3. \A g \in Handlers : RequestIsSound(req'[g])
  BY <1>2, SettledIsSound DEF RequestsAreSound, RequestIsSound, Columns
<1>4. DOMAIN req' = Handlers
  BY <1>1
<1>5. NoRequest' = NoRequest /\ \A w : ChangeIsSound(w)' <=> ChangeIsSound(w)
  BY DEF NoRequest, Request, ChangeIsSound
<1>6. RequestsAreSound'
  BY <1>3, <1>4, <1>5 DEF RequestsAreSound, RequestIsSound, Columns
<1> QED BY <1>2, <1>6

\* The other requests either see the same rows or have been overtaken.
LEMMA OthersStay ==
    ASSUME OrderInv, NEW h \in Handlers, \A g \in Handlers \ {h} : req'[g] = req[g],
           stale \subseteq stale' \union {h}, nav' = nav \/ Busy \ {h} \subseteq stale',
           h \notin stale' => Placed(nav', req'[h]) /\ Numbered(nav', req'[h])
    PROVE  \A g \in Handlers \ stale' : Placed(nav', req'[g]) /\ Numbered(nav', req'[g])
<1> SUFFICES ASSUME NEW g \in Handlers \ stale', g # h
             PROVE  Placed(nav', req[g]) /\ Numbered(nav', req[g])
  OBVIOUS
<1>1. CASE nav' = nav
  BY <1>1 DEF OrderInv
<1>2. CASE Busy \ {h} \subseteq stale'
  <2>1. req[g].at = "idle"
    BY <1>2 DEF Busy
  <2> QED BY <2>1 DEF Placed, Numbered
<1> QED BY <1>1, <1>2

\* A step that changes no row.
LEMMA ReadingKeepsOrder ==
    ASSUME OrderInv, UNCHANGED rows, NEW h \in Handlers, NEW r, RequestIsSound(r), Becomes(h, r),
           stale \subseteq stale' \union {h},
           h \notin stale' => Placed(nav, r) /\ Numbered(nav, r)
    PROVE  OrderInv'
<1>1. nav' = nav /\ forms' = forms /\ source' = source /\ used' = used
  BY DEF rows
<1>2. RowsAreSound'
  BY <1>1 DEF OrderInv, RowsAreSound, Present, Row, Items
<1>3. /\ RequestsAreSound' /\ req'[h] = Settled(r) /\ \A g \in Handlers \ {h} : req'[g] = req[g]
  BY RequestGoesOn DEF OrderInv
<1>4. h \notin stale' => Placed(nav', req'[h]) /\ Numbered(nav', req'[h])
  BY <1>1, <1>3, SettledIsSound
<1>5. \A g \in Handlers \ stale' : Placed(nav', req'[g]) /\ Numbered(nav', req'[g])
  BY <1>1, <1>3, <1>4, OthersStay
<1> QED BY <1>2, <1>3, <1>5 DEF OrderInv

-----------------------------------------------------------------------------
(* Writing an item of a reordered list, or a new number.                   *)

LEMMA OneRowChanged ==
    ASSUME NEW n, NEW w, w.id \in DOMAIN n, DOMAIN n[w.id] = {"parent", "order", "born", "main"},
           NEW m, m = [n EXCEPT ![w.id] = Changed(@, w.set)]
    PROVE  /\ DOMAIN m = DOMAIN n /\ \A j \in DOMAIN n \ {w.id} : m[j] = n[j]
           /\ DOMAIN m[w.id] = {"parent", "order", "born", "main"}
           /\ "parent" \in DOMAIN w.set => m[w.id].parent = w.set.parent
           /\ "parent" \notin DOMAIN w.set => m[w.id].parent = n[w.id].parent
           /\ "order" \in DOMAIN w.set => m[w.id].order = w.set.order
           /\ "order" \notin DOMAIN w.set => m[w.id].order = n[w.id].order
           /\ "born" \notin DOMAIN w.set => m[w.id].born = n[w.id].born
<1>1. DOMAIN m = DOMAIN n /\ m[w.id] = Changed(n[w.id], w.set)
      /\ \A j \in DOMAIN n \ {w.id} : m[j] = n[j]
  OBVIOUS
<1>2. Changed(n[w.id], w.set) =
        [f \in {"parent", "order", "born", "main"} |->
            IF f \in DOMAIN w.set THEN w.set[f] ELSE n[w.id][f]]
  BY DEF Changed
<1> QED BY <1>1, <1>2

LEMMA WritingPlace ==
    ASSUME NEW n, \A i \in DOMAIN n : DOMAIN n[i] = {"parent", "order", "born", "main"},
           NEW r, DOMAIN r = Columns, r.does = "reorder", r.at = "write", Placed(n, r),
           NEW w \in r.todo, NEW m, m = [n EXCEPT ![w.id] = Changed(@, w.set)]
    PROVE  /\ w.id \in DOMAIN n /\ "gone" \notin DOMAIN w.set
           /\ Placed(m, [r EXCEPT !.todo = @ \ {w}])
<1> DEFINE p == Destination(n, r.target, r.place)
           s == [r EXCEPT !.todo = @ \ {w}]
<1>1. /\ r.item \in DOMAIN n \ {Home, r.target} /\ r.target \in DOMAIN n
      /\ r.place \in {"inside", "before", "after"}
      /\ n[r.item].parent = p \/ n[r.item].order = r.num
  BY DEF Placed
<1>2. PICK q \in Seq(DOMAIN n) :
              /\ \A k, l \in DOMAIN q : q[k] = q[l] => k = l
              /\ Range(q) = (Children(n, p) \ {Home}) \union {r.item}
              /\ r.todo = Placing(n, q, p)
              /\ ListedAsAsked(q, r)
  BY DEF Placed
<1>3. /\ s.item = r.item /\ s.target = r.target /\ s.place = r.place /\ s.num = r.num
      /\ s.at = "write" /\ s.todo = r.todo \ {w}
  BY DEF Columns, NoRequest, Request
<1> HIDE DEF s, p
<1>4. PICK k \in DOMAIN q : /\ w = Change(q[k], [parent |-> p, order |-> FirstNumber(p) + k - 1], k)
                            /\ n[q[k]].order # FirstNumber(p) + k - 1
  BY <1>2 DEF Placing
<1>5. /\ w.id = q[k] /\ DOMAIN w.set = {"parent", "order"} /\ w.set.parent = p
      /\ w.set.order = FirstNumber(p) + k - 1
  BY <1>4 DEF Change
<1>6. w.id \in DOMAIN n
  BY <1>2, <1>5, ElementOfSeq, LenProperties
<1>7. /\ DOMAIN m = DOMAIN n /\ \A j \in DOMAIN n \ {w.id} : m[j] = n[j]
      /\ m[w.id].parent = p /\ m[w.id].order = FirstNumber(p) + k - 1
  BY <1>5, <1>6, OneRowChanged
<1>8. Destination(m, r.target, r.place) = p
  <2>1. CASE r.place = "inside"
    BY <2>1 DEF Destination, p
  <2>2. CASE r.place # "inside"
    <3>1. p = n[r.target].parent /\ Destination(m, r.target, r.place) = m[r.target].parent
      BY <2>2 DEF Destination, p
    <3> QED BY <1>1, <1>7, <3>1
  <2> QED BY <2>1, <2>2
<1>9. m[r.item].parent = p \/ m[r.item].order = r.num
  BY <1>1, <1>7
<1>10. Range(q) = (Children(m, p) \ {Home}) \union {r.item}
  <2>1. \A j \in DOMAIN n \ {w.id} : j \in Children(m, p) <=> j \in Children(n, p)
    BY <1>7 DEF Children
  <2>2. w.id \in Children(m, p) /\ w.id \in Range(q)
    BY <1>5, <1>6, <1>7 DEF Children, Range
  <2>3. Children(m, p) \subseteq DOMAIN n /\ Children(n, p) \subseteq DOMAIN n
    BY <1>7 DEF Children
  <2>4. w.id # Home
    <3>1. Home \notin Range(q)
      BY <1>1, <1>2
    <3> QED BY <2>2, <3>1
  <2> QED BY <1>1, <1>2, <2>1, <2>2, <2>3, <2>4
<1>11. r.todo \ {w} = Placing(m, q, p)
  <2>1. DOMAIN q \subseteq Nat
    BY <1>2, LenProperties
  <2>2. ASSUME NEW l \in DOMAIN q
        PROVE  m[q[l]].order # FirstNumber(p) + l - 1
                  <=> n[q[l]].order # FirstNumber(p) + l - 1 /\ l # k
    <3>1. CASE l = k
      BY <1>5, <1>7, <3>1
    <3>2. CASE l # k
      <4>1. q[l] # w.id /\ q[l] \in DOMAIN n
        BY <1>2, <1>5, <3>2, ElementOfSeq, LenProperties
      <4> QED BY <1>7, <3>2, <4>1
    <3> QED BY <3>1, <3>2
  <2>3. \A l \in DOMAIN q :
           Change(q[l], [parent |-> p, order |-> FirstNumber(p) + l - 1], l) = w <=> l = k
    <3> SUFFICES ASSUME NEW l \in DOMAIN q,
                        Change(q[l], [parent |-> p, order |-> FirstNumber(p) + l - 1], l) = w
                 PROVE  l = k
      BY <1>4
    <3>1. Change(q[l], [parent |-> p, order |-> FirstNumber(p) + l - 1], l).rank = l
      BY DEF Change
    <3>2. w.rank = k
      BY <1>4 DEF Change
    <3> QED BY <3>1, <3>2
  <2>4. Placing(m, q, p) =
          {Change(q[l], [parent |-> p, order |-> FirstNumber(p) + l - 1], l) :
              l \in {x \in DOMAIN q : n[q[x]].order # FirstNumber(p) + x - 1} \ {k}}
    BY <2>2 DEF Placing
  <2>5. r.todo =
          {Change(q[l], [parent |-> p, order |-> FirstNumber(p) + l - 1], l) :
              l \in {x \in DOMAIN q : n[q[x]].order # FirstNumber(p) + x - 1}}
    BY <1>2 DEF Placing
  <2> QED BY <2>3, <2>4, <2>5
<1>12. ListedAsAsked(q, s)
  BY <1>2, <1>3 DEF ListedAsAsked
<1>13. Placed(m, s)
  <2>1. /\ q \in Seq(DOMAIN m)
        /\ \A x, l \in DOMAIN q : q[x] = q[l] => x = l
        /\ Range(q) = (Children(m, p) \ {Home}) \union {s.item}
        /\ s.todo = Placing(m, q, p) /\ ListedAsAsked(q, s)
    BY <1>2, <1>3, <1>7, <1>10, <1>11, <1>12
  <2>2. /\ Destination(m, s.target, s.place) = p
        /\ s.item \in DOMAIN m \ {Home, s.target} /\ s.target \in DOMAIN m
        /\ s.place \in {"inside", "before", "after"}
        /\ m[s.item].parent = p \/ m[s.item].order = s.num
        /\ s.at # "tidy"
    BY <1>1, <1>3, <1>7, <1>8, <1>9
  <2> QED BY <2>1, <2>2 DEF Placed
<1> QED BY <1>5, <1>6, <1>13 DEF s

LEMMA WritingNumber ==
    ASSUME NEW n, IsFiniteSet(DOMAIN n),
           \A i \in DOMAIN n : DOMAIN n[i] = {"parent", "order", "born", "main"},
           NEW r, DOMAIN r = Columns, r.at = "sort", Numbered(n, r),
           NEW w \in r.todo, NEW m, m = [n EXCEPT ![w.id] = Changed(@, w.set)]
    PROVE  /\ w.id \in DOMAIN n /\ "gone" \notin DOMAIN w.set
           /\ Numbered(m, [r EXCEPT !.todo = @ \ {w}])
<1> DEFINE s == [r EXCEPT !.todo = @ \ {w}]
           a == r.seen
<1>1. /\ DOMAIN a = DOMAIN n /\ ~Cyclic(GroupsOf(a))
      /\ r.todo = {v \in Renumbering(a) : n[v.id].order # v.set.order}
      /\ \A i \in DOMAIN n :
            /\ n[i].parent = a[i].parent /\ n[i].born = a[i].born /\ a[i].order \in Int
            /\ \/ n[i].order = a[i].order
               \/ \E v \in Renumbering(a) : v.id = i /\ n[i].order = v.set.order
  BY DEF Numbered
<1>2. s.seen = a /\ s.at = "sort" /\ s.todo = r.todo \ {w}
  BY DEF Columns, NoRequest, Request
<1> HIDE DEF s, a
<1>3. \A v \in Renumbering(a) : v.id \in DOMAIN n /\ v = RenumberedRow(a, v.id)
  <2> SUFFICES ASSUME NEW v \in Renumbering(a) PROVE v.id \in DOMAIN n /\ v = RenumberedRow(a, v.id)
    OBVIOUS
  <2>1. PICK i \in DOMAIN a \ {Home} : v = RenumberedRow(a, i)
    BY RenumberingIs
  <2> QED BY <1>1, <2>1, RenumberedRowIs
<1>4. w \in Renumbering(a) /\ w.id \in DOMAIN n
  BY <1>1, <1>3
<1>5. /\ DOMAIN w.set \subseteq {"parent", "order"} /\ "order" \in DOMAIN w.set
      /\ "parent" \in DOMAIN w.set => w.set.parent = a[w.id].parent
  <2>1. PICK i \in DOMAIN a \ {Home} : w = RenumberedRow(a, i)
    BY <1>4, RenumberingIs
  <2> QED BY <1>1, <2>1, RenumberedRowIs
<1>6. /\ DOMAIN m = DOMAIN n /\ \A j \in DOMAIN n \ {w.id} : m[j] = n[j]
      /\ m[w.id].parent = n[w.id].parent /\ m[w.id].born = n[w.id].born
      /\ m[w.id].order = w.set.order
  <2>1. "born" \notin DOMAIN w.set /\ n[w.id].parent = a[w.id].parent
    BY <1>1, <1>4, <1>5
  <2> QED BY <1>4, <1>5, <2>1, OneRowChanged
<1>7. s.todo = {v \in Renumbering(a) : m[v.id].order # v.set.order}
  <2>1. \A v \in Renumbering(a) : v.id = w.id => v = w
    BY <1>3, <1>4
  <2>2. ASSUME NEW v \in Renumbering(a)
        PROVE  v \in s.todo <=> m[v.id].order # v.set.order
    <3>1. CASE v = w
      BY <1>2, <1>6, <3>1
    <3>2. CASE v # w
      <4>1. m[v.id] = n[v.id]
        BY <1>3, <1>6, <2>1, <3>2
      <4> QED BY <1>1, <1>2, <3>2, <4>1
    <3> QED BY <3>1, <3>2
  <2> QED BY <1>1, <1>2, <2>2
<1>8. ASSUME NEW i \in DOMAIN m
      PROVE  /\ m[i].parent = a[i].parent /\ m[i].born = a[i].born /\ a[i].order \in Int
             /\ \/ m[i].order = a[i].order
                \/ \E v \in Renumbering(a) : v.id = i /\ m[i].order = v.set.order
  <2>1. CASE i = w.id
    BY <1>1, <1>4, <1>6, <2>1
  <2>2. CASE i # w.id
    BY <1>1, <1>6, <1>8, <2>2
  <2> QED BY <2>1, <2>2
<1>9. Numbered(m, s)
  BY <1>1, <1>2, <1>6, <1>7, <1>8 DEF Numbered
<1> QED BY <1>4, <1>5, <1>9 DEF s


-----------------------------------------------------------------------------
(* The rows that steps leave behind.                                       *)

LEMMA RowsRemovedAreSound ==
    ASSUME RowsAreSound, NEW gone, Home \notin gone, nav' = [i \in Present \ gone |-> nav[i]],
           used' = used, forms' \subseteq forms, DOMAIN source' \subseteq DOMAIN source
    PROVE  RowsAreSound'
<1>1. Present' = Present \ gone /\ \A i \in Present' : nav'[i] = nav[i]
  BY DEF Present
<1>2. Items' = Items /\ DOMAIN Row(Root, 0, 0, FALSE)' = DOMAIN Row(Root, 0, 0, FALSE)
  BY DEF Items, Row
<1>3. Home \in Present' /\ nav'[Home].parent = Root
  BY <1>1 DEF RowsAreSound
<1>4. \A i \in Present' : /\ DOMAIN nav'[i] = DOMAIN Row(Root, 0, 0, FALSE)
                          /\ nav'[i].order \in Int /\ nav'[i].born \in 0..Cardinality(used')
  BY <1>1 DEF RowsAreSound
<1>5. \A i, j \in Present' : nav'[i].born = nav'[j].born => i = j
  BY <1>1 DEF RowsAreSound
<1>6. IsFiniteSet(used') /\ used' \subseteq Items \ {Home} /\ Present' \subseteq used' \union {Home}
      /\ forms' \subseteq Forms /\ DOMAIN source' \subseteq Details
  BY <1>1 DEF RowsAreSound
<1> QED BY <1>2, <1>3, <1>4, <1>5, <1>6 DEF RowsAreSound

LEMMA RowsWrittenAreSound ==
    ASSUME RowsAreSound, NEW w, ChangeIsSound(w), w.id \in Present,
           nav' = [nav EXCEPT ![w.id] = Changed(@, w.set)],
           UNCHANGED <<forms, source, used>>
    PROVE  RowsAreSound'
<1>1. DOMAIN nav[w.id] = {"parent", "order", "born", "main"}
  BY RowColumns DEF RowsAreSound
<1>2. /\ DOMAIN nav' = DOMAIN nav /\ \A j \in DOMAIN nav \ {w.id} : nav'[j] = nav[j]
      /\ DOMAIN nav'[w.id] = {"parent", "order", "born", "main"}
      /\ "parent" \notin DOMAIN w.set => nav'[w.id].parent = nav[w.id].parent
      /\ "order" \in DOMAIN w.set => nav'[w.id].order = w.set.order
      /\ "order" \notin DOMAIN w.set => nav'[w.id].order = nav[w.id].order
      /\ "born" \notin DOMAIN w.set => nav'[w.id].born = nav[w.id].born
  BY <1>1, OneRowChanged DEF Present
<1>3. nav'[w.id].order \in Int /\ nav'[w.id].born = nav[w.id].born
      /\ (w.id = Home => nav'[w.id].parent = nav[w.id].parent)
  BY <1>2 DEF ChangeIsSound, RowsAreSound
<1>4. Present' = Present
  BY <1>2 DEF Present
<1>5. Items' = Items /\ DOMAIN Row(Root, 0, 0, FALSE)' = {"parent", "order", "born", "main"}
  BY RowColumns DEF Items, Row
<1>6. Home \in Present' /\ nav'[Home].parent = Root
  BY <1>2, <1>3, <1>4 DEF RowsAreSound, Present
<1>7. \A i \in Present' : nav'[i].born = nav[i].born
  BY <1>2, <1>3, <1>4 DEF Present
<1>8. \A i \in Present' : /\ DOMAIN nav'[i] = {"parent", "order", "born", "main"}
                          /\ nav'[i].order \in Int /\ nav'[i].born \in 0..Cardinality(used')
  <2> SUFFICES ASSUME NEW i \in Present'
               PROVE  /\ DOMAIN nav'[i] = {"parent", "order", "born", "main"}
                      /\ nav'[i].order \in Int /\ nav'[i].born \in 0..Cardinality(used')
    OBVIOUS
  <2>1. nav'[i].born \in 0..Cardinality(used')
    BY <1>4, <1>7 DEF RowsAreSound
  <2>2. CASE i = w.id
    BY <1>2, <1>3, <2>1, <2>2
  <2>3. CASE i # w.id
    BY <1>2, <1>4, <2>1, <2>3, RowColumns DEF RowsAreSound, Present
  <2> QED BY <2>2, <2>3
<1>9. \A i, j \in Present' : nav'[i].born = nav'[j].born => i = j
  BY <1>4, <1>7 DEF RowsAreSound
<1>10. IsFiniteSet(used') /\ used' \subseteq Items \ {Home} /\ Present' \subseteq used' \union {Home}
      /\ forms' \subseteq Forms /\ DOMAIN source' \subseteq Details
  BY <1>4 DEF RowsAreSound
<1> QED BY <1>5, <1>6, <1>8, <1>9, <1>10 DEF RowsAreSound

LEMMA SoundRows ==
    ASSUME RowsAreSound
    PROVE  /\ IsFiniteSet(DOMAIN nav)
           /\ \A i \in DOMAIN nav : DOMAIN nav[i] = {"parent", "order", "born", "main"}
<1>1. IsFiniteSet(used \union {Home})
  BY FS_AddElement DEF RowsAreSound
<1>2. IsFiniteSet(DOMAIN nav)
  BY <1>1, FS_Subset DEF RowsAreSound, Present
<1> QED BY <1>2, RowColumns DEF RowsAreSound, Present

\* Every change that is still to be made keeps the rows sound.
LEMMA WritingKeepsOrder ==
    ASSUME OrderInv, NEW h \in Handlers, Write(h) PROVE OrderInv'
<1>1. PICK w \in req[h].todo :
          IF w.id \notin Present /\ "gone" \notin DOMAIN w.set
          THEN Ends(h) /\ UNCHANGED <<nav, raced>>
          ELSE /\ nav' = IF "gone" \in DOMAIN w.set
                         THEN [i \in Present \ {w.id} |-> nav[i]]
                         ELSE [nav EXCEPT ![w.id] = Changed(@, w.set)]
               /\ Becomes(h, [req[h] EXCEPT !.todo = @ \ {w}])
               /\ Wrote(h)
  BY DEF Write
<1>2. req[h].at \in {"write", "sort"} /\ UNCHANGED <<forms, source, used>>
  BY DEF Write
<1>3. CASE w.id \notin Present /\ "gone" \notin DOMAIN w.set
  <2>1. UNCHANGED rows /\ Becomes(h, NoRequest) /\ stale' = stale \ {h}
    BY <1>1, <1>2, <1>3 DEF rows, Ends
  <2> QED BY <2>1, IdleIsSound, ReadingKeepsOrder
<1>4. CASE ~(w.id \notin Present /\ "gone" \notin DOMAIN w.set)
  <2> DEFINE r == [req[h] EXCEPT !.todo = @ \ {w}]
  <2>1. /\ nav' = IF "gone" \in DOMAIN w.set
                  THEN [i \in Present \ {w.id} |-> nav[i]]
                  ELSE [nav EXCEPT ![w.id] = Changed(@, w.set)]
        /\ Becomes(h, r) /\ Wrote(h)
    BY <1>1, <1>4
  <2>2. RowsAreSound /\ RequestsAreSound /\ ChangeIsSound(w) /\ DOMAIN req[h] = Columns
    BY DEF OrderInv, RequestsAreSound, Columns
  <2>3. /\ DOMAIN r = Columns /\ r.num = req[h].num /\ r.todo = req[h].todo \ {w}
        /\ r.at = req[h].at /\ r.does = req[h].does
    BY <2>2 DEF Columns, NoRequest, Request
  <2>4. RequestIsSound(r)
    BY <2>2, <2>3 DEF RequestIsSound, RequestsAreSound, Columns
  <2>5. /\ RequestsAreSound' /\ req'[h] = Settled(r)
        /\ \A g \in Handlers \ {h} : req'[g] = req[g]
    BY <2>1, <2>2, <2>4, RequestGoesOn
  <2>6. RowsAreSound'
    <3>1. CASE "gone" \in DOMAIN w.set
      <4>1. nav' = [i \in Present \ {w.id} |-> nav[i]] /\ Home \notin {w.id}
        BY <2>1, <2>2, <3>1 DEF ChangeIsSound
      <4> QED BY <1>2, <2>2, <4>1, RowsRemovedAreSound
    <3>2. CASE "gone" \notin DOMAIN w.set
      BY <1>2, <1>4, <2>1, <2>2, <3>2, RowsWrittenAreSound
    <3> QED BY <3>1, <3>2
  <2>7. stale \subseteq stale' \union {h} /\ Busy \ {h} \subseteq stale'
        /\ (h \in stale => h \in stale' \/ req'[h].at = "idle")
    BY <2>1 DEF Wrote
  <2>8. ASSUME h \notin stale PROVE Placed(nav', r) /\ Numbered(nav', r)
    <3>1. Placed(nav, req[h]) /\ Numbered(nav, req[h])
      BY <2>8 DEF OrderInv
    <3>2. IsFiniteSet(DOMAIN nav)
          /\ \A i \in DOMAIN nav : DOMAIN nav[i] = {"parent", "order", "born", "main"}
      BY <2>2, SoundRows
    <3>3. CASE req[h].at = "write" /\ req[h].does = "reorder"
      <4> DEFINE m == [nav EXCEPT ![w.id] = Changed(@, w.set)]
      <4>1. /\ "gone" \notin DOMAIN w.set
            /\ Placed(m, r)
        BY <2>2, <3>1, <3>2, <3>3, WritingPlace
      <4>2. nav' = m
        BY <2>1, <4>1
      <4>3. Numbered(m, r)
        BY <2>3, <3>3 DEF Numbered
      <4> HIDE DEF m, r
      <4> QED BY <4>1, <4>2, <4>3
    <3>4. CASE req[h].at = "write" /\ req[h].does # "reorder"
      BY <2>3, <3>4 DEF Placed, Numbered
    <3>5. CASE req[h].at = "sort"
      <4> DEFINE m == [nav EXCEPT ![w.id] = Changed(@, w.set)]
      <4>1. "gone" \notin DOMAIN w.set /\ Numbered(m, r)
        BY <2>2, <3>1, <3>2, <3>5, WritingNumber
      <4>2. nav' = m
        BY <2>1, <4>1
      <4>3. Placed(m, r)
        BY <2>3, <3>5 DEF Placed
      <4> HIDE DEF m, r
      <4> QED BY <4>1, <4>2, <4>3
    <3> QED BY <1>2, <3>3, <3>4, <3>5
  <2>9. h \notin stale' => Placed(nav', req'[h]) /\ Numbered(nav', req'[h])
    <3>1. CASE req'[h].at = "idle"
      BY <3>1 DEF Placed, Numbered
    <3>2. CASE req'[h].at # "idle"
      <4> HIDE DEF r
      <4> QED BY <2>4, <2>5, <2>7, <2>8, <3>2, SettledIsSound
    <3> QED BY <3>1, <3>2
  <2>10. \A g \in Handlers \ stale' : Placed(nav', req'[g]) /\ Numbered(nav', req'[g])
    BY <2>5, <2>7, <2>9, OthersStay
  <2> QED BY <2>5, <2>6, <2>10 DEF OrderInv
<1> QED BY <1>3, <1>4


LEMMA RowsAddedAreSound ==
    ASSUME RowsAreSound, NEW i \in (Groups \union Forms \union Details) \ used,
           NEW p, NEW n \in Int, NEW main,
           nav' = [j \in Present \union {i} |-> IF j = i THEN Row(p, n, NewAge, main) ELSE nav[j]],
           used' = used \union {i}, forms' \subseteq Forms, DOMAIN source' \subseteq Details
    PROVE  RowsAreSound'
<1> DEFINE row == Row(p, n, NewAge, main)
<1>1. i # Home /\ i \in Items /\ i \notin Present
  BY NavigationAssumption DEF RowsAreSound, Items
<1>2. /\ Present' = Present \union {i} /\ nav'[i] = row
      /\ \A j \in Present : nav'[j] = nav[j]
  BY <1>1 DEF Present
<1>3. IsFiniteSet(used') /\ Cardinality(used') = Cardinality(used) + 1 /\ Cardinality(used) \in Nat
  BY FS_AddElement, FS_CardinalityType DEF RowsAreSound
<1>4. DOMAIN row = {"parent", "order", "born", "main"} /\ row.order = n
      /\ row.born = Cardinality(used) + 1
  BY <1>3 DEF Row, NewAge
<1> HIDE DEF row
<1>5. \A j \in Present : nav[j].born \in 0..Cardinality(used)
  BY DEF RowsAreSound
<1>6. \A j \in Present' : nav'[j].born \in 0..Cardinality(used')
  BY <1>2, <1>3, <1>4, <1>5
<1>7. \A j, k \in Present' : nav'[j].born = nav'[k].born => j = k
  <2>1. \A j \in Present : nav'[j].born # nav'[i].born
    BY <1>2, <1>3, <1>4, <1>5
  <2>2. \A j, k \in Present : nav'[j].born = nav'[k].born => j = k
    BY <1>2 DEF RowsAreSound
  <2> QED BY <1>2, <2>1, <2>2
<1>8. Items' = Items /\ DOMAIN Row(Root, 0, 0, FALSE)' = {"parent", "order", "born", "main"}
  BY RowColumns DEF Items, Row
<1>9. \A j \in Present' : /\ DOMAIN nav'[j] = {"parent", "order", "born", "main"}
                          /\ nav'[j].order \in Int
  BY <1>2, <1>4, RowColumns DEF RowsAreSound
<1>10. Home \in Present' /\ nav'[Home].parent = Root
  BY <1>1, <1>2 DEF RowsAreSound
<1>11. used' \subseteq Items \ {Home} /\ Present' \subseteq used' \union {Home}
  BY <1>1, <1>2 DEF RowsAreSound
<1> QED BY <1>3, <1>6, <1>7, <1>8, <1>9, <1>10, <1>11 DEF RowsAreSound

LEMMA InsertingKeepsOrder ==
    ASSUME OrderInv, NEW h \in Handlers, InsertGroup(h) \/ InsertForm(h) \/ InsertDetail(h)
    PROVE  OrderInv'
<1>1. RowsAreSound /\ RequestsAreSound /\ DOMAIN req[h] = Columns /\ req[h].num \in Int
  BY DEF OrderInv, RequestsAreSound, Columns
<1>2. ASSUME NEW i \in (Groups \union Forms \union Details) \ used, NEW p, NEW n \in Int, NEW main,
             NEW next, RequestIsSound(next), next.at = "idle" \/ (next.does = "group" /\ next.at = "tidy"),
             Insert(h, i, Row(p, n, NewAge, main), next),
             forms' \subseteq Forms, DOMAIN source' \subseteq Details
      PROVE  OrderInv'
  <2>1. /\ nav' = [j \in Present \union {i} |-> IF j = i THEN Row(p, n, NewAge, main) ELSE nav[j]]
        /\ used' = used \union {i} /\ Becomes(h, next) /\ Wrote(h)
    BY <1>2 DEF Insert
  <2>2. RowsAreSound'
    BY <1>1, <1>2, <2>1, RowsAddedAreSound
  <2>3. /\ RequestsAreSound' /\ req'[h] = Settled(next)
        /\ \A g \in Handlers \ {h} : req'[g] = req[g]
    BY <1>1, <1>2, <2>1, RequestGoesOn
  <2>4. stale \subseteq stale' \union {h} /\ Busy \ {h} \subseteq stale'
    BY <2>1 DEF Wrote
  <2>5. Placed(nav', req'[h]) /\ Numbered(nav', req'[h])
    <3>1. Placed(nav', next) /\ Numbered(nav', next)
      BY <1>2 DEF Placed, Numbered
    <3> QED BY <1>2, <2>3, <3>1, SettledIsSound
  <2>6. \A g \in Handlers \ stale' : Placed(nav', req'[g]) /\ Numbered(nav', req'[g])
    BY <2>3, <2>4, <2>5, OthersStay
  <2> QED BY <2>2, <2>3, <2>6 DEF OrderInv
<1>3. CASE InsertGroup(h)
  <2>1. PICK g \in Groups \ used :
            Insert(h, g, Row(req[h].item, req[h].num, NewAge, FALSE), [req[h] EXCEPT !.at = "tidy"])
    BY <1>3 DEF InsertGroup
  <2>2. UNCHANGED <<forms, source>> /\ req[h].does = "group"
    BY <1>3 DEF InsertGroup
  <2> DEFINE next == [req[h] EXCEPT !.at = "tidy"]
  <2>3. /\ DOMAIN next = Columns /\ next.at = "tidy" /\ next.does = "group"
        /\ next.todo = req[h].todo /\ next.num = req[h].num
    BY <1>1, <2>2 DEF Columns, NoRequest, Request
  <2>4. RequestIsSound(next)
    <3> HIDE DEF next
    <3> QED BY <1>1, <2>3 DEF RequestIsSound, RequestsAreSound
  <2>5. Insert(h, g, Row(req[h].item, req[h].num, NewAge, FALSE), next)
    BY <2>1
  <2> HIDE DEF next
  <2>6. forms' \subseteq Forms /\ DOMAIN source' \subseteq Details
    BY <1>1, <2>2 DEF RowsAreSound
  <2> QED BY <1>1, <1>2, <2>3, <2>4, <2>5, <2>6
<1>4. RequestIsSound(NoRequest) /\ NoRequest.at = "idle"
  BY IdleIsSound DEF NoRequest, Request
<1>5. CASE InsertForm(h)
  <2>1. PICK f \in Forms \ used :
            /\ forms' = forms \union {f}
            /\ Insert(h, f, Row(req[h].item, req[h].num, NewAge, req[h].main), NoRequest)
    BY <1>5 DEF InsertForm
  <2>2. forms' \subseteq Forms /\ DOMAIN source' \subseteq Details
    BY <1>1, <1>5, <2>1 DEF InsertForm, RowsAreSound
  <2> QED BY <1>1, <1>2, <1>4, <2>1, <2>2
<1>6. CASE InsertDetail(h)
  <2> DEFINE f == req[h].item  p == IF f \in Present THEN f ELSE Root
  <2>1. PICK d \in Details \ used :
            /\ source' = [e \in DOMAIN source \union {d} |-> IF e = d THEN f ELSE source[e]]
            /\ Insert(h, d, Row(p, NextNumber(nav, p), NewAge, FALSE), NoRequest)
    BY <1>6 DEF InsertDetail
  <2>2. forms' \subseteq Forms /\ DOMAIN source' \subseteq Details
    BY <1>1, <1>6, <2>1 DEF InsertDetail, RowsAreSound
  <2>3. NextNumber(nav, p) \in Int
    BY <1>1, SoundRows, NextNumberIsInt
  <2> HIDE DEF p
  <2> QED BY <1>2, <1>4, <2>1, <2>2, <2>3
<1> QED BY <1>3, <1>5, <1>6

-----------------------------------------------------------------------------
(* Steps that read the rows again, and those that end.                     *)

LEMMA RenumberingIsSound ==
    ASSUME NEW n, IsFiniteSet(DOMAIN n), ~Cyclic(GroupsOf(n)),
           \A i \in DOMAIN n : n[i].order \in Int,
           NEW r, RequestIsSound(r),
           NEW s, s = [r EXCEPT !.at = "sort", !.todo = Renumbering(n), !.seen = n]
    PROVE  RequestIsSound(s) /\ Placed(n, s) /\ Numbered(n, s)
<1>1. /\ DOMAIN s = Columns /\ s.at = "sort" /\ s.todo = Renumbering(n) /\ s.seen = n
      /\ s.num = r.num
  BY DEF RequestIsSound, Columns, NoRequest, Request
<1>2. \A w \in Renumbering(n) : ChangeIsSound(w) /\ n[w.id].order # w.set.order
  <2> SUFFICES ASSUME NEW w \in Renumbering(n) PROVE ChangeIsSound(w) /\ n[w.id].order # w.set.order
    OBVIOUS
  <2>1. PICK j \in DOMAIN n \ {Home} : w = RenumberedRow(n, j) /\ n[j].order # Number(n, j)
    BY RenumberingIs
  <2> QED BY <2>1, RenumberedRowIs
<1>3. RequestIsSound(s)
  BY <1>1, <1>2 DEF RequestIsSound
<1>4. Numbered(n, s)
  BY <1>1, <1>2 DEF Numbered
<1>5. Placed(n, s)
  BY <1>1 DEF Placed
<1> QED BY <1>3, <1>4, <1>5

LEMMA LaterStepKeepsOrder ==
    ASSUME OrderInv, NEW h \in Handlers, Tidy(h) \/ Overflow(h) \/ Plan(h) \/ Drop(h)
    PROVE  OrderInv'
<1>1. RowsAreSound /\ RequestsAreSound /\ RequestIsSound(req[h])
  BY DEF OrderInv, RequestsAreSound, RequestIsSound, Columns
<1>2. IsFiniteSet(DOMAIN nav) /\ \A i \in DOMAIN nav : nav[i].order \in Int
  BY <1>1, SoundRows DEF RowsAreSound, Present
<1>3. CASE Tidy(h)
  <2> DEFINE r == [req[h] EXCEPT !.at = "sort", !.todo = Renumbering(nav), !.seen = nav]
  <2>1. /\ ~Cyclic(GroupsOf(nav)) /\ Becomes(h, r) /\ UNCHANGED rows
        /\ stale \subseteq stale' \union {h}
    BY <1>3 DEF Tidy
  <2>2. RequestIsSound(r) /\ Placed(nav, r) /\ Numbered(nav, r)
    BY <1>1, <1>2, <2>1, RenumberingIsSound
  <2> HIDE DEF r
  <2> QED BY <2>1, <2>2, ReadingKeepsOrder
<1>4. CASE Overflow(h)
  <2>1. req' = [g \in Handlers |-> NoRequest] /\ UNCHANGED rows
    BY <1>4 DEF Overflow
  <2>2. nav' = nav /\ forms' = forms /\ source' = source /\ used' = used
    BY <2>1 DEF rows
  <2>3. RowsAreSound'
    BY <1>1, <2>2 DEF RowsAreSound, Present, Row, Items
  <2>4. DOMAIN req' = Handlers /\ \A g \in Handlers : req'[g] = NoRequest
    BY <2>1
  <2>5. RequestsAreSound'
    <3>1. \A g \in Handlers : RequestIsSound(req'[g])
      BY <2>4, IdleIsSound
    <3>2. NoRequest' = NoRequest
      BY DEF NoRequest, Request
    <3> QED BY <2>4, <3>1, <3>2 DEF RequestsAreSound, RequestIsSound, ChangeIsSound, Columns
  <2>6. \A g \in Handlers : Placed(nav', req'[g]) /\ Numbered(nav', req'[g])
    BY <2>4, IdleIsSound
  <2> QED BY <2>3, <2>5, <2>6 DEF OrderInv
<1>5. ASSUME Ends(h), UNCHANGED rows PROVE OrderInv'
  BY <1>5, IdleIsSound, ReadingKeepsOrder DEF Ends
<1>6. CASE Plan(h) /\ MayContain(nav, req[h].item)
  <2> DEFINE r == [req[h] EXCEPT !.at = "insert", !.num = NextNumber(nav, req[h].item),
                                 !.main = ~HasEntry(nav)]
  <2>1. Becomes(h, r) /\ UNCHANGED rows /\ stale' = stale
    BY <1>6 DEF Plan
  <2>2. /\ DOMAIN r = Columns /\ r.at = "insert" /\ r.todo = req[h].todo
        /\ r.num = NextNumber(nav, req[h].item)
    BY <1>1 DEF RequestIsSound, Columns, NoRequest, Request
  <2> HIDE DEF r
  <2>3. RequestIsSound(r)
    BY <1>1, <1>2, <2>2, NextNumberIsInt DEF RequestIsSound
  <2>4. Placed(nav, r) /\ Numbered(nav, r)
    BY <2>2 DEF Placed, Numbered
  <2> QED BY <2>1, <2>3, <2>4, ReadingKeepsOrder
<1>7. CASE Plan(h) /\ ~MayContain(nav, req[h].item)
  BY <1>5, <1>7 DEF Plan
<1>8. CASE Drop(h)
  BY <1>5, <1>8 DEF Drop
<1> QED BY <1>3, <1>4, <1>6, <1>7, <1>8

\* Requests that are under way while a form is deleted are overtaken.
LEMMA DeletingKeepsOrder ==
    ASSUME OrderInv, DeleteForm \/ DeleteDetail PROVE OrderInv'
<1>1. RowsAreSound /\ RequestsAreSound
  BY DEF OrderInv
<1>2. PICK gone : RemoveRows(gone) /\ Home \notin gone
  <2>1. forms \subseteq Forms /\ DOMAIN source \subseteq Details
    BY <1>1 DEF RowsAreSound
  <2>2. CASE DeleteForm
    <3>1. PICK f \in forms : RemoveRows({f} \union DetailsOf(f))
      BY <2>2 DEF DeleteForm
    <3>2. Home \notin {f} \union DetailsOf(f)
      BY <2>1, NavigationAssumption DEF DetailsOf
    <3> QED BY <3>1, <3>2
  <2>3. CASE DeleteDetail
    <3>1. PICK d \in DOMAIN source : RemoveRows({d})
      BY <2>3 DEF DeleteDetail
    <3>2. Home \notin {d}
      BY <2>1, NavigationAssumption
    <3> QED BY <3>1, <3>2
  <2> QED BY <2>2, <2>3
<1>3. /\ nav' = [i \in Present \ gone |-> nav[i]] /\ forms' = forms \ gone
      /\ source' = [d \in DOMAIN source \ gone |-> source[d]]
      /\ stale' = stale \union Busy /\ used' = used /\ req' = req
  BY <1>2 DEF RemoveRows
<1>4. RowsAreSound'
  <2>1. forms' \subseteq forms /\ DOMAIN source' \subseteq DOMAIN source
    BY <1>3
  <2> QED BY <1>1, <1>2, <1>3, <2>1, RowsRemovedAreSound
<1>5. RequestsAreSound'
  BY <1>1, <1>3 DEF RequestsAreSound, NoRequest, Request, ChangeIsSound
<1>6. ASSUME NEW g \in Handlers \ stale' PROVE Placed(nav', req'[g]) /\ Numbered(nav', req'[g])
  <2>1. req'[g].at = "idle"
    BY <1>3 DEF Busy
  <2> QED BY <2>1 DEF Placed, Numbered
<1> QED BY <1>4, <1>5, <1>6 DEF OrderInv


-----------------------------------------------------------------------------
(* Lists of siblings.                                                      *)

\* The sequence q has every element of S once.
Lists(q, S) == /\ q \in Seq(S) /\ Range(q) = S
               /\ \A k, l \in DOMAIN q : q[k] = q[l] => k = l

\* The sequence q is s with i before the l-th element.
Inserted(q, S, s, l, i) ==
    /\ q \in Seq(S \union {i}) /\ Len(q) = Len(s) + 1
    /\ \A k \in 1..(Len(s) + 1) : q[k] = IF k < l THEN s[k] ELSE IF k = l THEN i ELSE s[k - 1]

LEMMA InsertAtIs ==
    ASSUME NEW S, NEW s \in Seq(S), NEW l \in 1..(Len(s) + 1), NEW i
    PROVE  Inserted(InsertAt(s, l, i), S, s, l, i)
<1> DEFINE T == S \union {i}
           a == SubSeq(s, 1, l - 1)
           b == SubSeq(s, l, Len(s))
<1>1. Len(s) \in Nat /\ \A k \in 1..Len(s) : s[k] \in T
  BY LenProperties, ElementOfSeq
<1>2. /\ a \in Seq(T) /\ Len(a) = l - 1 /\ \A k \in 1..(l - 1) : a[k] = s[k]
  <2>1. 1 \in Int /\ l - 1 \in Int /\ \A k \in 1..(l - 1) : s[k] \in T
    BY <1>1
  <2>2. /\ a \in Seq(T) /\ Len(a) = (IF 1 <= l - 1 THEN (l - 1) - 1 + 1 ELSE 0)
        /\ \A k \in 1..((l - 1) - 1 + 1) : a[k] = s[1 + k - 1]
    <3> HIDE DEF T
    <3> QED BY <2>1, SubSeqProperties
  <2> HIDE DEF a, T
  <2> QED BY <1>1, <2>2
<1>3. /\ b \in Seq(T) /\ Len(b) = Len(s) - l + 1 /\ \A k \in 1..(Len(s) - l + 1) : b[k] = s[l + k - 1]
  <2>1. Len(s) \in Int /\ l \in Int /\ \A k \in l..Len(s) : s[k] \in T
    BY <1>1
  <2>2. /\ b \in Seq(T) /\ Len(b) = (IF l <= Len(s) THEN Len(s) - l + 1 ELSE 0)
        /\ \A k \in 1..(Len(s) - l + 1) : b[k] = s[l + k - 1]
    <3> HIDE DEF T
    <3> QED BY <2>1, SubSeqProperties
  <2> HIDE DEF b, T
  <2> QED BY <1>1, <2>2
<1>4. <<i>> \in Seq(T) /\ Len(<<i>>) = 1 /\ <<i>>[1] = i
  OBVIOUS
<1>5. InsertAt(s, l, i) = (a \o <<i>>) \o b
  BY DEF InsertAt
<1> HIDE DEF a, b, T
<1> DEFINE c == a \o <<i>>
<1>6. c \in Seq(T) /\ Len(c) = l /\ \A k \in 1..l : c[k] = IF k < l THEN s[k] ELSE i
  <2>1. c \in Seq(T) /\ Len(c) = Len(a) + 1
        /\ \A k \in 1..(Len(a) + 1) : c[k] = IF k <= Len(a) THEN a[k] ELSE <<i>>[k - Len(a)]
    BY <1>2, <1>4, ConcatProperties
  <2> HIDE DEF c
  <2>2. \A k \in 1..l : c[k] = IF k < l THEN s[k] ELSE i
    <3> SUFFICES ASSUME NEW k \in 1..l PROVE c[k] = IF k < l THEN s[k] ELSE i
      OBVIOUS
    <3>1. CASE k < l
      BY <1>2, <2>1, <3>1
    <3>2. CASE k = l
      <4>1. k - Len(a) = 1 /\ ~(k <= Len(a)) /\ k \in 1..(Len(a) + 1)
        BY <1>2, <3>2
      <4> QED BY <1>4, <2>1, <3>2, <4>1
    <3> QED BY <3>1, <3>2
  <2> QED BY <1>2, <2>1, <2>2
<1> HIDE DEF c
<1>7. /\ c \o b \in Seq(T) /\ Len(c \o b) = Len(s) + 1
      /\ \A k \in 1..(Len(s) + 1) : (c \o b)[k] = IF k <= l THEN c[k] ELSE b[k - l]
  <2>1. /\ c \o b \in Seq(T) /\ Len(c \o b) = Len(c) + Len(b)
        /\ \A k \in 1..(Len(c) + Len(b)) : (c \o b)[k] = IF k <= Len(c) THEN c[k] ELSE b[k - Len(c)]
    BY <1>3, <1>6, ConcatProperties
  <2>2. Len(c) + Len(b) = Len(s) + 1
    BY <1>1, <1>3, <1>6
  <2> QED BY <1>6, <2>1, <2>2
<1>8. ASSUME NEW k \in 1..(Len(s) + 1)
      PROVE  (c \o b)[k] = IF k < l THEN s[k] ELSE IF k = l THEN i ELSE s[k - 1]
  <2>1. CASE k <= l
    BY <1>1, <1>6, <1>7, <2>1
  <2>2. CASE ~(k <= l)
    <3>1. k - l \in 1..(Len(s) - l + 1) /\ l + (k - l) - 1 = k - 1
      BY <1>1, <2>2
    <3> QED BY <1>1, <1>3, <1>7, <2>2, <3>1
  <2> QED BY <2>1, <2>2
<1>9. InsertAt(s, l, i) = c \o b
  BY <1>5 DEF c
<1> QED BY <1>7, <1>8, <1>9 DEF T, Inserted

\* A listing has every sibling once.
LEMMA ListingIs ==
    ASSUME NEW n, NEW S, IsFiniteSet(S), NEW s \in Listings(n, S)
    PROVE  Lists(s, S)
<1> DEFINE D == 1..Cardinality(S)
<1>1. s \in [D -> S] /\ \A k, l \in D : k # l => s[k] # s[l]
  BY DEF Listings, SetToSeqs
<1>2. Cardinality(S) \in Nat
  BY FS_CardinalityType
<1>3. s \in Seq(S)
  BY <1>1, <1>2
<1>4. Cardinality(D) = Cardinality(S)
  BY <1>2, FS_Interval
<1> HIDE DEF D
<1>5. s \in Injection(D, S)
  BY <1>1 DEF Injection, IsInjective
<1>6. s \in Surjection(D, S)
  BY <1>4, <1>5, FS_Injection
<1>7. Range(s) = S
  BY <1>1, <1>6 DEF Surjection, Range
<1> QED BY <1>1, <1>3, <1>7 DEF Lists

\* An item that is put into a list of others is next to what it was dropped on.
LEMMA InsertedIs ==
    ASSUME NEW S, NEW s, Lists(s, S), NEW r, r.item \notin S, Home \notin S,
           r.place \in {"inside", "before", "after"},
           r.place = "inside" \/ r.target = Home \/ r.target \in S,
           NEW q, q = InsertAt(s, PlaceIn(s, r.target, r.place), r.item)
    PROVE  Lists(q, S \union {r.item}) /\ ListedAsAsked(q, r)
<1> DEFINE i == r.item  t == r.target  place == r.place
<1> DEFINE l == PlaceIn(s, t, place)
<1>1. /\ DOMAIN s = 1..Len(s) /\ Len(s) \in Nat /\ \A k \in 1..Len(s) : s[k] \in S
      /\ s \in Seq(S) /\ Range(s) = S /\ \A k, x \in DOMAIN s : s[k] = s[x] => k = x
  BY LenProperties, ElementOfSeq DEF Lists
<1>2. /\ place = "inside" \/ t = Home => l = Len(s) + 1
      /\ ~(place = "inside" \/ t = Home) =>
            \E k \in 1..Len(s) : s[k] = t /\ l = IF place = "before" THEN k ELSE k + 1
  <2>1. CASE place = "inside" \/ t = Home
    BY <1>1, <2>1 DEF PlaceIn
  <2>2. CASE ~(place = "inside" \/ t = Home)
    <3>1. t \in Range(s) /\ \E k \in DOMAIN s : s[k] = t
      BY <1>1, <2>2 DEF Range
    <3> DEFINE k == CHOOSE x \in DOMAIN s : s[x] = t
    <3>2. k \in DOMAIN s /\ s[k] = t
      BY <3>1
    <3>3. l = IF place = "before" THEN k ELSE k + 1
      BY <2>2, <3>1 DEF PlaceIn
    <3> QED BY <1>1, <2>2, <3>2, <3>3
  <2> QED BY <2>1, <2>2
<1>3. l \in 1..(Len(s) + 1) /\ i \notin S
  <2> HIDE DEF l
  <2> QED BY <1>1, <1>2
<1>4. /\ q \in Seq(S \union {i}) /\ Len(q) = Len(s) + 1
      /\ \A k \in 1..(Len(s) + 1) : q[k] = IF k < l THEN s[k] ELSE IF k = l THEN i ELSE s[k - 1]
  <2>1. q = InsertAt(s, l, i)
    OBVIOUS
  <2> HIDE DEF l, i
  <2>2. Inserted(q, S, s, l, i)
    BY <1>1, <1>3, <2>1, InsertAtIs
  <2> QED BY <2>2 DEF Inserted
<1> HIDE DEF l, i, t, place
<1>5. DOMAIN q = 1..(Len(s) + 1)
  BY <1>4, LenProperties
<1>6. \A k \in DOMAIN q : /\ k < l => k \in 1..Len(s) /\ q[k] = s[k]
                          /\ k = l => q[k] = i
                          /\ k > l => k - 1 \in 1..Len(s) /\ q[k] = s[k - 1]
  BY <1>1, <1>3, <1>4, <1>5
<1>7. \A k, x \in DOMAIN q : q[k] = q[x] => k = x
  <2> SUFFICES ASSUME NEW k \in DOMAIN q, NEW x \in DOMAIN q, q[k] = q[x] PROVE k = x
    OBVIOUS
  <2>1. k \in Int /\ x \in Int /\ l \in Int
    BY <1>3, <1>5
  <2>2. CASE k = l
    <3>1. q[x] = i
      BY <1>6, <2>2
    <3> QED BY <1>1, <1>3, <1>6, <2>1, <2>2, <3>1
  <2>3. CASE x = l
    <3>1. q[k] = i
      BY <1>6, <2>3
    <3> QED BY <1>1, <1>3, <1>6, <2>1, <2>3, <3>1
  <2>4. CASE k # l /\ x # l
    <3> DEFINE a == IF k < l THEN k ELSE k - 1  b == IF x < l THEN x ELSE x - 1
    <3>1. a \in DOMAIN s /\ b \in DOMAIN s /\ s[a] = q[k] /\ s[b] = q[x]
      BY <1>1, <1>6, <2>1, <2>4
    <3>2. a = b
      <4> HIDE DEF a, b
      <4> QED BY <1>1, <3>1
    <3> QED BY <2>1, <2>4, <3>2
  <2> QED BY <2>2, <2>3, <2>4
<1>8. Range(q) = S \union {i}
  <2>1. Range(q) \subseteq S \union {i}
    BY <1>4, <1>5, ElementOfSeq DEF Range
  <2>2. i \in Range(q)
    BY <1>3, <1>5, <1>6 DEF Range
  <2>3. ASSUME NEW x \in S PROVE x \in Range(q)
    <3>1. PICK k \in 1..Len(s) : s[k] = x
      BY <1>1 DEF Range
    <3>2. CASE k < l
      <4>1. k \in DOMAIN q /\ q[k] = x
        BY <1>1, <1>5, <1>6, <3>1, <3>2
      <4> QED BY <4>1 DEF Range
    <3>3. CASE ~(k < l)
      <4>1. k + 1 \in DOMAIN q /\ q[k + 1] = x
        <5>1. k + 1 \in DOMAIN q /\ k + 1 > l /\ (k + 1) - 1 = k
          BY <1>1, <1>3, <1>5, <3>3
        <5> QED BY <1>6, <3>1, <5>1
      <4> QED BY <4>1 DEF Range
    <3> QED BY <3>2, <3>3
  <2> QED BY <2>1, <2>2, <2>3
<1>9. ListedAsAsked(q, r)
  <2>1. CASE place = "inside" \/ t = Home
    <3>1. q[Len(q)] = i
      BY <1>1, <1>2, <1>4, <1>5, <1>6, <2>1
    <3> QED BY <2>1, <3>1 DEF ListedAsAsked, i, t, place
  <2>2. CASE ~(place = "inside" \/ t = Home)
    <3>1. PICK k \in 1..Len(s) : s[k] = t /\ l = IF place = "before" THEN k ELSE k + 1
      BY <1>2, <2>2
    <3>2. k \in 1..(Len(q) - 1) /\ k \in DOMAIN q /\ k + 1 \in DOMAIN q /\ (k + 1) - 1 = k
      BY <1>1, <1>4, <1>5
    <3>3. CASE place = "before"
      <4>1. q[k] = i /\ q[k + 1] = t
        BY <1>6, <3>1, <3>2, <3>3
      <4> QED BY <2>2, <3>2, <3>3, <4>1 DEF ListedAsAsked, i, t, place
    <3>4. CASE place # "before"
      <4>1. q[k] = t /\ q[k + 1] = i
        <5>1. l = k + 1 /\ s[k] = t /\ k \in Int
          BY <3>1, <3>4
        <5> QED BY <1>6, <3>2, <5>1
      <4> QED BY <2>2, <3>2, <3>4, <4>1 DEF ListedAsAsked, i, t, place
    <3> QED BY <3>3, <3>4
  <2> QED BY <2>1, <2>2
<1> QED BY <1>4, <1>7, <1>8, <1>9 DEF Lists, i

\* What a reorder request decides on the rows it has read.
LEMMA ReorderIsPlaced ==
    ASSUME RowsAreSound, NEW i \in Present \ {Home}, NEW t \in Present, i # t,
           NEW place \in {"inside", "before", "after"}, NEW p, p = Destination(nav, t, place),
           NEW s \in Listings(nav, Children(nav, p) \ {i, Home}),
           NEW r, r = Request("reorder", "write",
                              Placing(nav, InsertAt(s, PlaceIn(s, t, place), i), p),
                              i, t, place, nav[i].order, FALSE)
    PROVE  RequestIsSound(r) /\ Placed(nav, r)
<1> DEFINE S == Children(nav, p) \ {i, Home}
           q == InsertAt(s, PlaceIn(s, t, place), i)
<1>1. /\ DOMAIN r = Columns /\ r.does = "reorder" /\ r.at = "write" /\ r.todo = Placing(nav, q, p)
      /\ r.item = i /\ r.target = t /\ r.place = place /\ r.num = nav[i].order
  BY DEF Columns, NoRequest, Request
<1>2. S \subseteq DOMAIN nav /\ IsFiniteSet(S)
  BY SoundRows, FS_Subset DEF Children
<1>3. place = "inside" \/ t = Home \/ t \in S
  BY DEF Destination, Children, Present
<1>4. Lists(s, S)
  BY <1>2, ListingIs
<1>5. i \notin S /\ Home \notin S
  OBVIOUS
<1>6. S \union {i} = (Children(nav, p) \ {Home}) \union {i}
  OBVIOUS
<1> HIDE DEF S
<1>7. Lists(q, S \union {r.item}) /\ ListedAsAsked(q, r)
  <2>1. q = InsertAt(s, PlaceIn(s, r.target, r.place), r.item)
    BY <1>1
  <2>2. /\ r.item \notin S /\ r.place \in {"inside", "before", "after"}
        /\ r.place = "inside" \/ r.target = Home \/ r.target \in S
    BY <1>1, <1>3, <1>5
  <2> HIDE DEF q
  <2> QED BY <1>4, <1>5, <2>1, <2>2, InsertedIs
<1>8. q \in Seq(DOMAIN nav)
  <2> HIDE DEF q
  <2>1. S \union {i} \subseteq DOMAIN nav
    BY <1>2 DEF Present
  <2> QED BY <1>1, <1>7, <2>1, SeqMonotonic DEF Lists
<1> HIDE DEF q
<1>9. Placed(nav, r)
  BY <1>1, <1>6, <1>7, <1>8 DEF Placed, Present, Lists
<1>10. \A w \in r.todo : ChangeIsSound(w)
  <2> SUFFICES ASSUME NEW w \in Placing(nav, q, p) PROVE ChangeIsSound(w)
    BY <1>1
  <2>1. PICK k \in DOMAIN q : w = Change(q[k], [parent |-> p, order |-> FirstNumber(p) + k - 1], k)
    BY DEF Placing
  <2>2. k \in Int /\ q[k] \in S \union {i}
    <3>1. q \in Seq(S \union {i})
      BY <1>1, <1>7 DEF Lists
    <3>2. k \in 1..Len(q) /\ Len(q) \in Nat
      BY <3>1, LenProperties
    <3> QED BY <3>1, <3>2, ElementOfSeq
  <2>3. q[k] # Home
    BY <1>5, <2>2
  <2>4. FirstNumber(p) + k - 1 \in Int
    BY <2>2, FirstNumberIsInt
  <2> QED BY <2>1, <2>3, <2>4 DEF ChangeIsSound, Change
<1>11. r.num \in Int
  BY <1>1 DEF RowsAreSound
<1> QED BY <1>1, <1>9, <1>10, <1>11 DEF RequestIsSound


LEMMA SoundRequest ==
    ASSUME NEW r, DOMAIN r = Columns, r.does # "reorder", r.at # "sort", r.num \in Int,
           \A w \in r.todo : ChangeIsSound(w)
    PROVE  RequestIsSound(r) /\ Placed(nav, r) /\ Numbered(nav, r)
BY DEF RequestIsSound, Placed, Numbered

LEMMA BeginningKeepsOrder ==
    ASSUME OrderInv, NEW h \in Handlers,
           \/ CreateGroup(h) \/ UpdateGroup(h) \/ DeleteGroup(h) \/ Reorder(h) \/ MoveForm(h)
           \/ SetDefault(h) \/ CreateForm(h) \/ CreateDetail(h) \/ ListItems(h)
    PROVE  OrderInv'
<1>1. RowsAreSound /\ RequestsAreSound
  BY DEF OrderInv
<1>2. ASSUME NEW r, Begin(h, r), RequestIsSound(r), Placed(nav, r), Numbered(nav, r)
      PROVE  OrderInv'
  <2>1. UNCHANGED rows /\ Becomes(h, r) /\ stale' = stale
    BY <1>2 DEF Begin, history
  <2> QED BY <1>2, <2>1, ReadingKeepsOrder
<1>3. ASSUME NEW i, i # Home, NEW p, NEW n \in Int
      PROVE  \A w \in {Change(i, [parent |-> p, order |-> n], 0)} : ChangeIsSound(w)
  BY <1>3 DEF Change, ChangeIsSound
<1>4. Home \notin Groups \union Forms \union Details
  BY NavigationAssumption
<1>5. \A p : NextNumber(nav, p) \in Int
  BY <1>1, SoundRows, NextNumberIsInt
<1>6. CASE CreateGroup(h)
  <2>1. PICK p \in Groups \union {Root} :
            Begin(h, Request("group", "insert", {}, p, NoItem, "", NextNumber(nav, p), FALSE))
    BY <1>6 DEF CreateGroup
  <2> DEFINE r == Request("group", "insert", {}, p, NoItem, "", NextNumber(nav, p), FALSE)
  <2>2. RequestIsSound(r) /\ Placed(nav, r) /\ Numbered(nav, r)
    <3>1. DOMAIN r = Columns /\ r.does = "group" /\ r.at = "insert" /\ r.num = NextNumber(nav, p)
          /\ r.todo = {}
      BY DEF Columns, NoRequest, Request
    <3> HIDE DEF r
    <3> QED BY <1>5, <3>1, SoundRequest
  <2> HIDE DEF r
  <2> QED BY <1>2, <2>1, <2>2 DEF r
<1>7. CASE UpdateGroup(h)
  <2> DEFINE R(g, p, n) == Request("update", "write", {Change(g, [parent |-> p, order |-> n], 0)},
                                   g, p, "", 0, FALSE)
  <2>1. PICK g \in Groups \intersect Present, p \in Groups \union {Root} :
            Begin(h, R(g, p, IF nav[g].parent = p THEN nav[g].order ELSE NextNumber(nav, p)))
    BY <1>7 DEF UpdateGroup
  <2> DEFINE n == IF nav[g].parent = p THEN nav[g].order ELSE NextNumber(nav, p)
             r == R(g, p, n)
  <2>2. n \in Int /\ g # Home
    BY <1>1, <1>4, <1>5 DEF RowsAreSound
  <2>3. Begin(h, r)
    BY <2>1
  <2> HIDE DEF n
  <2>4. RequestIsSound(r) /\ Placed(nav, r) /\ Numbered(nav, r)
    <3>1. DOMAIN r = Columns /\ r.does = "update" /\ r.at = "write" /\ r.num = 0
          /\ r.todo = {Change(g, [parent |-> p, order |-> n], 0)}
      BY DEF Columns, NoRequest, Request
    <3> HIDE DEF r
    <3> QED BY <1>3, <2>2, <3>1, SoundRequest
  <2> HIDE DEF r
  <2> QED BY <1>2, <2>3, <2>4
<1>8. CASE DeleteGroup(h)
  <2>1. PICK g \in Groups \intersect Present :
            Begin(h, Request("delete", "write", Dissolving(nav, g), g, NoItem, "", 0, FALSE))
    BY <1>8 DEF DeleteGroup
  <2>2. \A w \in Dissolving(nav, g) : ChangeIsSound(w)
    <3> SUFFICES ASSUME NEW w \in Dissolving(nav, g) PROVE ChangeIsSound(w)
      OBVIOUS
    <3>1. CASE w = Removal(g, 1)
      BY <1>4, <3>1 DEF Removal, Change, ChangeIsSound
    <3>2. CASE w # Removal(g, 1)
      <4>1. PICK i \in Children(nav, g) : w = Change(i, [parent |-> nav[g].parent], 0)
        BY <3>2 DEF Dissolving
      <4>2. i # Home
        BY <1>1, NavigationAssumption DEF Children, RowsAreSound
      <4> QED BY <4>1, <4>2 DEF Change, ChangeIsSound
    <3> QED BY <3>1, <3>2
  <2> DEFINE r == Request("delete", "write", Dissolving(nav, g), g, NoItem, "", 0, FALSE)
  <2>3. RequestIsSound(r) /\ Placed(nav, r) /\ Numbered(nav, r)
    <3>1. DOMAIN r = Columns /\ r.does = "delete" /\ r.at = "write" /\ r.num = 0
          /\ r.todo = Dissolving(nav, g)
      BY DEF Columns, NoRequest, Request
    <3> HIDE DEF r
    <3> QED BY <2>2, <3>1, SoundRequest
  <2> HIDE DEF r
  <2> QED BY <1>2, <2>1, <2>3 DEF r
<1>9. CASE Reorder(h)
  <2> DEFINE R(i, t, place, s) ==
                Request("reorder", "write",
                        Placing(nav, InsertAt(s, PlaceIn(s, t, place), i), Destination(nav, t, place)),
                        i, t, place, nav[i].order, FALSE)
  <2>1. PICK i \in Present \ {Home}, t \in Present, place \in {"inside", "before", "after"} :
            /\ i # t
            /\ \E s \in Listings(nav, Children(nav, Destination(nav, t, place)) \ {i, Home}) :
                  Begin(h, R(i, t, place, s))
    BY <1>9 DEF Reorder
  <2>2. PICK s \in Listings(nav, Children(nav, Destination(nav, t, place)) \ {i, Home}) :
            Begin(h, R(i, t, place, s))
    BY <2>1
  <2> DEFINE r == R(i, t, place, s)
  <2>3. RequestIsSound(r) /\ Placed(nav, r)
    BY <1>1, <2>1, ReorderIsPlaced
  <2>4. Numbered(nav, r)
    BY DEF Numbered, Request
  <2>5. Begin(h, r)
    BY <2>2
  <2> HIDE DEF r
  <2> QED BY <1>2, <2>3, <2>4, <2>5
<1>10. CASE MoveForm(h)
  <2>1. PICK f \in (Forms \union Details) \intersect Present, p \in Groups \union {Root} :
            Begin(h, Request("move", "write",
                             {Change(f, [parent |-> p, order |-> NextNumber(nav, p)], 0)},
                             f, p, "", 0, FALSE))
    BY <1>10 DEF MoveForm
  <2> DEFINE n == NextNumber(nav, p)
             r == Request("move", "write", {Change(f, [parent |-> p, order |-> n], 0)},
                          f, p, "", 0, FALSE)
  <2>2. Begin(h, r) /\ n \in Int /\ f # Home
    BY <1>4, <1>5, <2>1
  <2> HIDE DEF n
  <2>3. RequestIsSound(r) /\ Placed(nav, r) /\ Numbered(nav, r)
    <3>1. DOMAIN r = Columns /\ r.does = "move" /\ r.at = "write" /\ r.num = 0
          /\ r.todo = {Change(f, [parent |-> p, order |-> n], 0)}
      BY DEF Columns, NoRequest, Request
    <3> HIDE DEF r
    <3> QED BY <1>3, <2>2, <3>1, SoundRequest
  <2> HIDE DEF r
  <2> QED BY <1>2, <2>2, <2>3
<1>11. CASE SetDefault(h)
  <2> DEFINE T(t) == {Change(i, [main |-> i = t], 0) : i \in {j \in Present : nav[j].main # (j = t)}}
                        \union {Change(t, [main |-> TRUE], 1)}
  <2>1. PICK t \in Present \ Groups :
            Begin(h, Request("default", "write", T(t), t, NoItem, "", 0, FALSE))
    BY <1>11 DEF SetDefault
  <2>2. ChangeIsSound(Change(t, [main |-> TRUE], 1))
        /\ \A i : ChangeIsSound(Change(i, [main |-> i = t], 0))
    BY DEF Change, ChangeIsSound
  <2>3. \A w \in T(t) : ChangeIsSound(w)
    BY <2>2
  <2> DEFINE todo == T(t)  r == Request("default", "write", todo, t, NoItem, "", 0, FALSE)
  <2>4. Begin(h, r)
    BY <2>1
  <2>5. \A w \in todo : ChangeIsSound(w)
    BY <2>3
  <2> HIDE DEF todo
  <2>6. RequestIsSound(r) /\ Placed(nav, r) /\ Numbered(nav, r)
    <3>1. DOMAIN r = Columns /\ r.does = "default" /\ r.at = "write" /\ r.num = 0 /\ r.todo = todo
      BY DEF Columns, NoRequest, Request
    <3> HIDE DEF r
    <3> QED BY <2>5, <3>1, SoundRequest
  <2> HIDE DEF r
  <2> QED BY <1>2, <2>4, <2>6
<1>12. ASSUME NEW does, does # "reorder", NEW at, at # "sort", NEW i,
              Begin(h, Request(does, at, {}, i, NoItem, "", 0, FALSE))
       PROVE  OrderInv'
  <2> DEFINE r == Request(does, at, {}, i, NoItem, "", 0, FALSE)
  <2>1. RequestIsSound(r) /\ Placed(nav, r) /\ Numbered(nav, r)
    <3>1. DOMAIN r = Columns /\ r.does = does /\ r.at = at /\ r.num = 0 /\ r.todo = {}
      BY DEF Columns, NoRequest, Request
    <3> HIDE DEF r
    <3>2. does # "reorder" /\ at # "sort"
      BY <1>12, Zenon
    <3> QED BY <3>1, <3>2, SoundRequest
  <2>2. Begin(h, r)
    BY <1>12
  <2> HIDE DEF r
  <2> QED BY <1>2, <2>1, <2>2
<1>13. CASE CreateForm(h) \/ CreateDetail(h) \/ ListItems(h)
  BY <1>12, <1>13 DEF CreateForm, CreateDetail, ListItems
<1> QED BY <1>6, <1>7, <1>8, <1>9, <1>10, <1>11, <1>13

LEMMA StepKeepsOrder ==
    ASSUME OrderInv, [Next]_vars PROVE OrderInv'
<1>1. CASE UNCHANGED vars
  <2>1. UNCHANGED <<nav, forms, source, used, req, stale>>
    BY <1>1 DEF vars, rows, history
  <2>2. RowsAreSound'
    BY <2>1 DEF OrderInv, RowsAreSound, Present, Row, Items
  <2>3. RequestsAreSound'
    BY <2>1 DEF OrderInv, RequestsAreSound, NoRequest, Request, ChangeIsSound
  <2>4. \A g \in Handlers \ stale' : Placed(nav', req'[g]) /\ Numbered(nav', req'[g])
    BY <2>1 DEF OrderInv
  <2> QED BY <2>2, <2>3, <2>4 DEF OrderInv
<1> QED BY <1>1, BeginningKeepsOrder, WritingKeepsOrder, InsertingKeepsOrder, LaterStepKeepsOrder,
           DeletingKeepsOrder DEF Next

LEMMA OrderStarts == Init => OrderInv
<1> SUFFICES ASSUME Init PROVE OrderInv
  OBVIOUS
<1>1. /\ nav = [i \in {Home} |-> Row(Root, 0, 0, TRUE)] /\ forms = {} /\ source = <<>> /\ used = {}
      /\ req = [h \in Handlers |-> NoRequest] /\ stale = {}
  BY DEF Init
<1>2. /\ Present = {Home} /\ nav[Home] = Row(Root, 0, 0, TRUE)
      /\ DOMAIN nav[Home] = DOMAIN Row(Root, 0, 0, FALSE)
  BY <1>1 DEF Present, Row
<1>3. DOMAIN source = {} /\ IsFiniteSet(used) /\ Cardinality(used) = 0
  BY <1>1, FS_EmptySet
<1>4. nav[Home].parent = Root /\ nav[Home].order = 0 /\ nav[Home].born = 0
  BY <1>2 DEF Row
<1>5. RowsAreSound
  <2>1. \A i \in Present : /\ i = Home /\ DOMAIN nav[i] = DOMAIN Row(Root, 0, 0, FALSE)
                           /\ nav[i].order \in Int /\ nav[i].born \in 0..Cardinality(used)
    <3>1. 0 \in Int /\ 0 \in 0..Cardinality(used)
      BY <1>3
    <3> QED BY <1>2, <1>4, <3>1, Zenon
  <2>2. used \subseteq Items \ {Home} /\ forms \subseteq Forms /\ DOMAIN source \subseteq Details
    BY <1>1, <1>3
  <2>3. Home \in Present /\ Present \subseteq used \union {Home}
    BY <1>2
  <2> QED BY <1>3, <1>4, <2>1, <2>2, <2>3 DEF RowsAreSound
<1>6. \A h \in Handlers : RequestIsSound(req[h]) /\ Placed(nav, req[h]) /\ Numbered(nav, req[h])
  BY <1>1, IdleIsSound
<1>7. RequestsAreSound
  BY <1>1, <1>6 DEF RequestsAreSound, RequestIsSound, Columns
<1> QED BY <1>5, <1>6, <1>7 DEF OrderInv

\* A request that nothing has come in between is always at the point that its reads have set
\* out: what it still has to change is what it has not changed, and nothing else differs.
THEOREM OrderInvariant == Spec => []OrderInv
BY OrderStarts, StepKeepsOrder, PTL DEF Spec


-----------------------------------------------------------------------------
(* A dropped item.                                                         *)

LEMMA ListedInOrder ==
    ASSUME NEW n, NEW S, \A i \in S : n[i].born \in Int,
           NEW q, Lists(q, S), NEW p, Placing(n, q, p) = {}
    PROVE  \A k, l \in DOMAIN q : Comes(n, q[k], q[l]) <=> k < l
<1>1. DOMAIN q \subseteq Int
  BY LenProperties DEF Lists
<1>2. \A k \in DOMAIN q : n[q[k]].order = FirstNumber(p) + k - 1
  BY DEF Placing
<1> SUFFICES ASSUME NEW k \in DOMAIN q, NEW l \in DOMAIN q PROVE Comes(n, q[k], q[l]) <=> k < l
  OBVIOUS
<1>3. k \in Int /\ l \in Int /\ FirstNumber(p) \in Int
  BY <1>1, FirstNumberIsInt
<1>4. n[q[k]].order < n[q[l]].order <=> k < l
  BY <1>2, <1>3
<1>5. n[q[k]].order = n[q[l]].order <=> k = l
  BY <1>2, <1>3
<1>6. k = l => ~Comes(n, q[k], q[l])
  <2>1. n[q[k]].born \in Int
    BY DEF Lists, Range
  <2> QED BY <1>2, <1>3, <2>1 DEF Comes
<1> QED BY <1>3, <1>4, <1>5, <1>6 DEF Comes


LEMMA ReorderedIsAsAsked ==
    ASSUME RowsAreSound, NEW r, r.does = "reorder", r.at = "tidy", Placed(nav, r)
    PROVE  AsAsked(r) \/ nav[r.item].order = r.num
<1> DEFINE p == Destination(nav, r.target, r.place)  i == r.item  t == r.target
           S == Children(nav, p) \ {Home}
<1> SUFFICES ASSUME nav[i].order # r.num PROVE AsAsked(r)
  OBVIOUS
<1>1. /\ i \in DOMAIN nav \ {Home, t} /\ t \in DOMAIN nav /\ nav[i].parent = p
      /\ r.place \in {"inside", "before", "after"} /\ r.todo = {}
  BY DEF Placed
<1>2. i \in S
  BY <1>1 DEF Children
<1>3. PICK q \in Seq(DOMAIN nav) :
              /\ \A k, l \in DOMAIN q : q[k] = q[l] => k = l
              /\ Range(q) = S \union {i}
              /\ r.todo = Placing(nav, q, p)
              /\ ListedAsAsked(q, r)
  BY DEF Placed
<1>4. Range(q) = S /\ Lists(q, S)
  <2>1. Range(q) = S
    BY <1>2, <1>3
  <2>2. q \in Seq(S)
    BY <1>3, <2>1, SeqOfRange
  <2> HIDE DEF S
  <2> QED BY <1>3, <2>1, <2>2 DEF Lists
<1>5. \A k, l \in DOMAIN q : Comes(nav, q[k], q[l]) <=> k < l
  <2>1. \A j \in S : nav[j].born \in Int
    <3>1. S \subseteq Present
      BY DEF Children, Present
    <3>2. \A j \in Present : nav[j].born \in 0..Cardinality(used)
      BY DEF RowsAreSound
    <3>3. \A b \in 0..Cardinality(used) : b \in Int
      OBVIOUS
    <3> HIDE DEF S
    <3> QED BY <3>1, <3>2, <3>3
  <2>2. Placing(nav, q, p) = {}
    BY <1>1, <1>3
  <2> HIDE DEF S, p
  <2> QED BY <1>4, <2>1, <2>2, ListedInOrder
<1>6. DOMAIN q = 1..Len(q) /\ Len(q) \in Nat /\ \A j \in S : \E k \in DOMAIN q : q[k] = j
  BY <1>3, <1>4, LenProperties DEF Range
<1>7. Siblings(nav, i) = S \ {i}
  BY <1>1 DEF Siblings
<1>8. t # Home /\ r.place # "inside" => nav[t].parent = p /\ t \in S /\ Siblings(nav, t) = S \ {t}
  BY <1>1 DEF Destination, Siblings, Children
<1>9. r.place = "inside" => p = t
  BY DEF Destination
<1>10. t = Home /\ r.place # "inside" => p = Root
  BY DEF Destination, RowsAreSound
<1> HIDE DEF S, p
<1>11. CASE r.place = "inside" \/ t = Home
  <2>1. q[Len(q)] = i
    BY <1>3, <1>11 DEF ListedAsAsked
  <2>2. Len(q) \in DOMAIN q
    <3>1. \E k \in 1..Len(q) : q[k] = i
      BY <1>2, <1>6
    <3> QED BY <1>6, <3>1
  <2>3. ASSUME NEW j \in S \ {i} PROVE Comes(nav, j, i)
    <3>1. PICK k \in DOMAIN q : q[k] = j
      BY <1>6
    <3>2. k < Len(q)
      BY <1>6, <2>1, <3>1
    <3> QED BY <1>5, <2>1, <2>2, <3>1, <3>2
  <2>4. LastIn(p, i)
    BY <1>1, <1>7, <2>3 DEF LastIn
  <2> QED BY <1>9, <1>10, <1>11, <2>4 DEF AsAsked
<1>12. ASSUME NEW a \in S, NEW b \in S, NEW k \in 1..(Len(q) - 1), q[k] = a, q[k + 1] = b,
              Siblings(nav, a) = S \ {a}
       PROVE  NextTo(a, b)
  <2>1. k \in DOMAIN q /\ k + 1 \in DOMAIN q /\ k \in Int
    BY <1>6
  <2>2. Comes(nav, a, b) /\ a # b
    <3>1. k < k + 1 /\ k # k + 1
      BY <2>1
    <3> QED BY <1>3, <1>5, <1>12, <2>1, <3>1
  <2>3. ASSUME NEW j \in S PROVE ~(Comes(nav, a, j) /\ Comes(nav, j, b))
    <3>1. PICK l \in DOMAIN q : q[l] = j
      BY <1>6
    <3>2. l \in Int /\ ~(k < l /\ l < k + 1)
      BY <1>6, <2>1
    <3> QED BY <1>5, <1>12, <2>1, <3>1, <3>2
  <2> QED BY <1>12, <2>2, <2>3 DEF NextTo
<1>13. CASE ~(r.place = "inside" \/ t = Home) /\ r.place = "before"
  <2>1. PICK k \in 1..(Len(q) - 1) : q[k] = i /\ q[k + 1] = t
    BY <1>3, <1>13 DEF ListedAsAsked
  <2>2. NextTo(i, t)
    BY <1>2, <1>7, <1>8, <1>12, <1>13, <2>1
  <2> QED BY <1>13, <2>2 DEF AsAsked
<1>14. CASE ~(r.place = "inside" \/ t = Home) /\ r.place # "before"
  <2>1. PICK k \in 1..(Len(q) - 1) : q[k] = t /\ q[k + 1] = i
    BY <1>3, <1>14 DEF ListedAsAsked
  <2>2. NextTo(t, i)
    BY <1>2, <1>8, <1>12, <1>14, <2>1
  <2> QED BY <1>14, <2>2 DEF AsAsked
<1> QED BY <1>11, <1>13, <1>14

\* A reorder that nothing comes in between leaves its item where it was dropped, except when it
\* is to get the number that it has: then it stays where it was.
THEOREM DroppedInPlace == Spec => []DroppedUnlessSameNumber
<1>1. OrderInv => DroppedUnlessSameNumber
  <2> SUFFICES ASSUME OrderInv, NEW h \in Handlers, Reordered(h)
               PROVE  AsAsked(req[h]) \/ nav[req[h].item].order = req[h].num
    BY DEF DroppedUnlessSameNumber
  <2>1. RowsAreSound /\ Placed(nav, req[h]) /\ req[h].does = "reorder" /\ req[h].at = "tidy"
    BY DEF OrderInv, Reordered
  <2> QED BY <2>1, ReorderedIsAsAsked
<1> QED BY <1>1, OrderInvariant, PTL

-----------------------------------------------------------------------------
(* Numbering anew.                                                         *)

LEMMA NumberingKeepsOrder ==
    ASSUME NEW n, IsFiniteSet(DOMAIN n),
           \A k \in DOMAIN n : n[k].order \in Int /\ n[k].born \in Int,
           \A k, l \in DOMAIN n : n[k].born = n[l].born => k = l,
           NEW m, DOMAIN m = DOMAIN n,
           \A k \in DOMAIN n : /\ m[k].parent = n[k].parent /\ m[k].born = n[k].born
                               /\ \/ m[k].order = n[k].order
                                  \/ \E w \in Renumbering(n) : w.id = k /\ m[k].order = w.set.order,
           \A w \in Renumbering(n) : m[w.id].order = w.set.order,
           NEW i \in DOMAIN n \ {Home}, NEW j \in DOMAIN n \ {Home}, n[i].parent = n[j].parent
    PROVE  Comes(n, i, j) <=> Comes(m, i, j)
<1>1. CASE ~Renumbers(n, n[i].parent)
  <2>1. \A w \in Renumbering(n) : w.id \notin {i, j}
    <3> SUFFICES ASSUME NEW w \in Renumbering(n) PROVE w.id \notin {i, j}
      OBVIOUS
    <3>1. PICK k \in DOMAIN n \ {Home} : w = RenumberedRow(n, k) /\ Renumbers(n, n[k].parent)
      BY RenumberingIs
    <3> QED BY <1>1, <3>1, RenumberedRowIs
  <2>2. m[i].order = n[i].order /\ m[j].order = n[j].order
    BY <2>1
  <2> QED BY <2>2 DEF Comes
<1>2. CASE Renumbers(n, n[i].parent)
  <2>1. ASSUME NEW k \in {i, j} PROVE m[k].order = Number(n, k)
    <3>1. CASE n[k].order # Number(n, k)
      <4>1. RenumberedRow(n, k) \in Renumbering(n)
        BY <1>2, <3>1, RenumberingIs
      <4> QED BY <4>1, RenumberedRowIs
    <3>2. CASE n[k].order = Number(n, k)
      <4>1. ASSUME NEW w \in Renumbering(n), w.id = k PROVE w.set.order = Number(n, k)
        <5>1. PICK l \in DOMAIN n \ {Home} : w = RenumberedRow(n, l)
          BY RenumberingIs
        <5> QED BY <4>1, <5>1, RenumberedRowIs
      <4> QED BY <3>2, <4>1
    <3> QED BY <3>1, <3>2
  <2>2. Number(n, i) \in Int /\ Number(n, j) \in Int
    BY NumberIsInt
  <2>3. CASE i = j
    <3>1. ~Comes(n, i, i)
      BY DEF Comes
    <3>2. ~Comes(m, i, i)
      BY <2>1, <2>2 DEF Comes
    <3> QED BY <2>3, <3>1, <3>2
  <2>4. CASE i # j /\ Comes(n, i, j)
    <3>1. Number(n, i) < Number(n, j)
      BY <2>4, NumbersFollowOrder
    <3> QED BY <2>1, <2>4, <3>1 DEF Comes
  <2>5. CASE i # j /\ ~Comes(n, i, j)
    <3>1. Comes(n, j, i)
      BY <2>5 DEF Comes
    <3>2. Number(n, j) < Number(n, i)
      BY <3>1, NumbersFollowOrder
    <3> QED BY <2>1, <2>2, <2>5, <3>2 DEF Comes
  <2> QED BY <2>3, <2>4, <2>5
<1> QED BY <1>1, <1>2


\* Steps of the other requests leave request h as it is.
LEMMA OnlyItsWriteEndsSorting ==
    ASSUME OrderInv, drops \in Nat, [Next]_vars, drops' = drops,
           NEW h \in Handlers \ stale, req[h].at = "sort", req'[h].at # "sort"
    PROVE  Write(h)
<1>1. RequestsAreSound /\ Numbered(nav, req[h]) /\ DOMAIN req = Handlers
  BY DEF OrderInv, RequestsAreSound
<1>2. ASSUME NEW g \in Handlers, NEW r, Becomes(g, r), g # h PROVE FALSE
  <2>1. req'[h] = req[h]
    BY <1>1, <1>2 DEF Becomes
  <2> QED BY <2>1
<1>3. req' # req
  OBVIOUS
<1>4. ASSUME NEW g \in Handlers, NEW r, Begin(g, r) PROVE FALSE
  <2>1. Becomes(g, r) /\ g # h
    BY <1>4 DEF Begin
  <2> QED BY <1>2, <2>1
<1>5. ASSUME NEW g \in Handlers,
             \/ CreateGroup(g) \/ UpdateGroup(g) \/ DeleteGroup(g) \/ Reorder(g) \/ MoveForm(g)
             \/ SetDefault(g) \/ CreateForm(g) \/ CreateDetail(g) \/ ListItems(g)
      PROVE  FALSE
  BY <1>4, <1>5, Zenon DEF CreateGroup, UpdateGroup, DeleteGroup, Reorder, MoveForm, SetDefault,
                           CreateForm, CreateDetail, ListItems
<1>6. ASSUME NEW g \in Handlers, Write(g), g # h PROVE FALSE
  BY <1>2, <1>6, Zenon DEF Write, Ends
<1>7. ASSUME NEW g \in Handlers, Tidy(g) \/ Plan(g) PROVE FALSE
  <2>1. g # h
    BY <1>7 DEF Tidy, Plan
  <2> QED BY <1>2, <1>7, <2>1, Zenon DEF Tidy, Plan, Ends
<1>8. ASSUME NEW g \in Handlers, InsertGroup(g) \/ InsertForm(g) \/ InsertDetail(g) PROVE FALSE
  <2>1. g # h
    BY <1>8 DEF InsertGroup, InsertForm, InsertDetail
  <2> QED BY <1>2, <1>8, <2>1, Zenon DEF InsertGroup, InsertForm, InsertDetail, Insert
<1>9. ASSUME NEW g \in Handlers, Overflow(g) PROVE FALSE
  <2>1. Acyclic(req[h].seen) /\ ~Acyclic(nav)
    BY <1>1, <1>9, AcyclicGroups DEF Numbered, Overflow
  <2>2. DOMAIN req[h].seen = DOMAIN nav /\ \A i \in DOMAIN nav : nav[i].parent = req[h].seen[i].parent
    BY <1>1 DEF Numbered
  <2> QED BY <2>1, <2>2, AcyclicFewer
<1>10. ASSUME NEW g \in Handlers, Drop(g) PROVE FALSE
  BY <1>10 DEF Drop
<1>11. CASE DeleteForm \/ DeleteDetail
  BY <1>3, <1>11 DEF DeleteForm, DeleteDetail, RemoveRows
<1>12. CASE UNCHANGED vars
  BY <1>3, <1>12 DEF vars
<1> QED BY <1>5, <1>6, <1>7, <1>8, <1>9, <1>10, <1>11, <1>12 DEF Next

LEMMA LastWriteKeepsOrder ==
    ASSUME OrderInv, NEW h \in Handlers \ stale, req[h].at = "sort", req'[h].at # "sort", Write(h),
           NEW i \in DOMAIN nav', NEW j \in DOMAIN nav'
    PROVE  /\ nav'[i].parent = req[h].seen[i].parent
           /\ nav'[i].parent = nav'[j].parent /\ Home \notin {i, j}
                 => (Comes(req[h].seen, i, j) <=> Comes(nav', i, j))
<1>1. RowsAreSound /\ RequestsAreSound /\ Numbered(nav, req[h]) /\ DOMAIN req[h] = Columns
  BY DEF OrderInv, RequestsAreSound, Columns
<1>2. IsFiniteSet(DOMAIN nav)
      /\ \A k \in DOMAIN nav : DOMAIN nav[k] = {"parent", "order", "born", "main"}
  BY <1>1, SoundRows
<1>3. PICK w \in req[h].todo :
          IF w.id \notin Present /\ "gone" \notin DOMAIN w.set
          THEN Ends(h) /\ UNCHANGED <<nav, raced>>
          ELSE /\ nav' = IF "gone" \in DOMAIN w.set
                         THEN [k \in Present \ {w.id} |-> nav[k]]
                         ELSE [nav EXCEPT ![w.id] = Changed(@, w.set)]
               /\ Becomes(h, [req[h] EXCEPT !.todo = @ \ {w}])
               /\ Wrote(h)
  BY DEF Write
<1> DEFINE m == [nav EXCEPT ![w.id] = Changed(@, w.set)]
           s == [req[h] EXCEPT !.todo = @ \ {w}]
           n == req[h].seen
<1>4. w.id \in DOMAIN nav /\ "gone" \notin DOMAIN w.set /\ Numbered(m, s)
  BY <1>1, <1>2, WritingNumber
<1>5. nav' = m /\ Becomes(h, s)
  BY <1>3, <1>4 DEF Present
<1>6. /\ DOMAIN s = Columns /\ s.at = "sort" /\ s.seen = n
  BY <1>1 DEF Columns, NoRequest, Request
<1> HIDE DEF m, s, n
<1>7. s.todo = {}
  <2>1. req'[h] = Settled(s)
    BY <1>1, <1>5 DEF Becomes, RequestsAreSound
  <2> QED BY <1>6, <2>1 DEF Settled
<1>8. /\ DOMAIN n = DOMAIN m /\ {v \in Renumbering(n) : m[v.id].order # v.set.order} = {}
      /\ \A k \in DOMAIN m :
            /\ m[k].parent = n[k].parent /\ m[k].born = n[k].born /\ n[k].order \in Int
            /\ \/ m[k].order = n[k].order
               \/ \E v \in Renumbering(n) : v.id = k /\ m[k].order = v.set.order
  BY <1>4, <1>6, <1>7 DEF Numbered
<1>9. /\ DOMAIN n = DOMAIN nav /\ \A k \in DOMAIN nav : n[k].born = nav[k].born /\ nav[k].born \in Int
      /\ \A k, l \in DOMAIN nav : nav[k].born = nav[l].born => k = l
  <2>1. \A k \in DOMAIN nav : nav[k].born \in 0..Cardinality(used)
    BY <1>1 DEF RowsAreSound, Present
  <2>2. \A b \in 0..Cardinality(used) : b \in Int
    OBVIOUS
  <2>3. DOMAIN n = DOMAIN nav /\ \A k \in DOMAIN nav : n[k].born = nav[k].born
    BY <1>1 DEF Numbered, n
  <2>4. \A k, l \in DOMAIN nav : nav[k].born = nav[l].born => k = l
    BY <1>1 DEF RowsAreSound, Present
  <2> QED BY <2>1, <2>2, <2>3, <2>4
<1>10. ASSUME m[i].parent = m[j].parent, Home \notin {i, j}
       PROVE  Comes(n, i, j) <=> Comes(m, i, j)
  <2>1. i \in DOMAIN n \ {Home} /\ j \in DOMAIN n \ {Home} /\ n[i].parent = n[j].parent
    BY <1>5, <1>8, <1>10
  <2>2. /\ IsFiniteSet(DOMAIN n)
        /\ \A k \in DOMAIN n : n[k].order \in Int /\ n[k].born \in Int
        /\ \A k, l \in DOMAIN n : n[k].born = n[l].born => k = l
    BY <1>2, <1>8, <1>9
  <2>3. \A v \in Renumbering(n) : m[v.id].order = v.set.order
    BY <1>8
  <2> QED BY <1>8, <2>1, <2>2, <2>3, NumberingKeepsOrder
<1> QED BY <1>5, <1>8, <1>10 DEF n

LEMMA DropsAreCounted == Spec => [](drops \in Nat)
<1>1. Init => drops \in Nat
  BY DEF Init
<1>2. drops \in Nat /\ [Next]_vars => (drops \in Nat)'
  <2> SUFFICES ASSUME drops \in Nat, [Next]_vars PROVE drops' \in Nat
    OBVIOUS
  <2> USE DEF Begin
  <2>1. ASSUME NEW h \in Handlers,
               \/ CreateGroup(h) \/ UpdateGroup(h) \/ DeleteGroup(h) \/ Reorder(h) \/ MoveForm(h)
               \/ SetDefault(h) \/ CreateForm(h) \/ CreateDetail(h) \/ ListItems(h)
        PROVE  drops' \in Nat
    BY <2>1 DEF CreateGroup, UpdateGroup, DeleteGroup, Reorder, MoveForm, SetDefault, CreateForm,
                CreateDetail, ListItems
  <2>2. ASSUME NEW h \in Handlers, Write(h) \/ InsertGroup(h) \/ InsertForm(h) \/ InsertDetail(h)
        PROVE  drops' \in Nat
    BY <2>2 DEF Write, InsertGroup, InsertForm, InsertDetail, Insert
  <2>3. ASSUME NEW h \in Handlers, Tidy(h) \/ Overflow(h) \/ Plan(h) \/ Drop(h)
        PROVE  drops' \in Nat
    BY <2>3 DEF Tidy, Overflow, Plan, Drop
  <2>4. CASE DeleteForm \/ DeleteDetail
    BY <2>4 DEF DeleteForm, DeleteDetail, RemoveRows
  <2>5. CASE UNCHANGED vars
    BY <2>5 DEF vars
  <2> QED BY <2>1, <2>2, <2>3, <2>4, <2>5 DEF Next
<1> QED BY <1>1, <1>2, PTL DEF Spec

\* Numbering siblings anew changes neither where they are nor the order they are shown in, as
\* long as nothing comes in between: for any numbers they had, and with any parents and ages.
THEOREM TidyingKeepsOrder == Spec => TidyKeepsOrder
<1>1. OrderInv /\ drops \in Nat /\ [Next]_vars =>
         [\A h \in Handlers \ stale :
             req[h].at = "sort" /\ req'[h].at # "sort" /\ drops' = drops =>
                 \A i, j \in DOMAIN nav' :
                     /\ nav'[i].parent = req[h].seen[i].parent
                     /\ nav'[i].parent = nav'[j].parent /\ Home \notin {i, j}
                         => (Comes(req[h].seen, i, j) <=> Comes(nav', i, j))]_vars
  BY OnlyItsWriteEndsSorting, LastWriteKeepsOrder
<1> QED BY <1>1, OrderInvariant, DropsAreCounted, PTL DEF Spec, TidyKeepsOrder
=============================================================================
