----------------------------- MODULE Navigation -----------------------------
(***************************************************************************)
(* The navigation of one application: rows of app_navigation_items, which  *)
(* form a tree of groups, forms and detail forms under their parent_id     *)
(* (api/src/modules/navigation.rs, and creating and deleting in forms.rs). *)
(* There is no foreign key and no lock.  A request reads the rows, works   *)
(* out which ones to change, changes them one by one, each in a statement  *)
(* that commits by itself, and then reads again to number the siblings     *)
(* anew.  It may be dropped anywhere.  A request that is refused by what   *)
(* it reads changes nothing and is left out.  Asking for the navigation    *)
(* numbers the siblings anew, too.                                         *)
(***************************************************************************)
EXTENDS Integers, Sequences, FiniteSets, SequencesExt

CONSTANTS
    Groups, Forms, Details,    \* ids that groups, forms and detail forms may come to have
    Home,                      \* the system item, of which one stands for four
    Root, NoItem,
    Handlers,
    MaxWork,                   \* bound: requests
    MaxDrops                   \* bound: requests cut off

ASSUME NavigationAssumption ==
    /\ Root \notin Groups \union Forms \union Details \union {Home}
    /\ Home \notin Groups \union Forms \union Details
    /\ Groups \intersect (Forms \union Details) = {} /\ Forms \intersect Details = {}
    /\ MaxWork \in Nat /\ MaxDrops \in Nat

VARIABLES
    nav,            \* the rows: item -> its parent, number, age, and whether it is the default entry
    forms, source,  \* forms that are defined; defined detail forms and the form of each
    used,           \* groups and forms that once were there: ids are fresh
    req,            \* the requests under way
    work, drops,
    stale,          \* history: requests under way while another one changed a row
    raced           \* history: one of these has changed a row itself

rows == <<nav, forms, source, used>>
history == <<stale, raced>>
vars == <<rows, req, work, drops, history>>

Items == Groups \union Forms \union Details \union {Home}
Present == DOMAIN nav
Kinds == {"group", "update", "delete", "reorder", "move", "default", "form", "detail",
          "list"}

Row(p, n, age, main) == [parent |-> p, order |-> n, born |-> age, main |-> main]

(***************************************************************************)
(* A request: what it is for; what it does next; the row changes it still  *)
(* has to make; the item, parent or target and placement it is about; the  *)
(* number and default mark it has read; the rows it has read to renumber.  *)
(***************************************************************************)
Request(does, at, todo, i, t, place, n, main) ==
    [does |-> does, at |-> at, todo |-> todo, item |-> i, target |-> t, place |-> place,
     num |-> n, main |-> main, seen |-> <<>>]

NoRequest == Request("group", "idle", {}, NoItem, NoItem, "", 0, FALSE)

Busy == {h \in Handlers : req[h].at # "idle"}

\* A change of some columns of a row, or its removal; lower ranks go first.
Change(i, set, rank) == [id |-> i, set |-> set, rank |-> rank]
Removal(i, rank) == Change(i, [gone |-> TRUE], rank)

\* Fields of a row that are not set stay as they are.
Changed(row, set) == [f \in DOMAIN row |-> IF f \in DOMAIN set THEN set[f] ELSE row[f]]

(***************************************************************************)
(* Reading the tree.                                                       *)
(***************************************************************************)
Children(n, p) == {i \in DOMAIN n : n[i].parent = p}

\* ORDER BY sort_order, created_at
Comes(n, a, b) ==
    n[a].order < n[b].order \/ (n[a].order = n[b].order /\ n[a].born < n[b].born)

ByAge(n, a, b) == n[a].born < n[b].born

Siblings(n, i) == Children(n, n[i].parent) \ {Home, i}

\* ORDER BY sort_order alone: rows with one number come in any order.
Listings(n, S) ==
    {s \in SetToSeqs(S) : \A k, l \in DOMAIN s : k < l => n[s[k]].order <= n[s[l]].order}

\* collect_navigation_descendants: the least set that holds the children of i and theirs.
ClosedBelow(n, S) == \A j \in DOMAIN n : n[j].parent \in S => j \in S
Descendants(n, i) ==
    {d \in DOMAIN n :
        \A S \in SUBSET DOMAIN n : Children(n, i) \subseteq S /\ ClosedBelow(n, S) => d \in S}

\* Some of the rows have all their parents among themselves.
Cyclic(n) == \E S \in (SUBSET DOMAIN n) \ {{}} : \A i \in S : n[i].parent \in S

GroupsOf(n) == [g \in Groups \intersect DOMAIN n |-> n[g]]

\* ROOT_NON_SYSTEM_SORT_BASE
RootBase == 100
FirstNumber(p) == IF p = Root THEN RootBase ELSE 0

NextNumberBelow(n, p) == FirstNumber(p) + Cardinality(Children(n, p) \ {Home}) - 1

\* next_navigation_sort_order counts the siblings.
NextNumber(n, p) == FirstNumber(p) + Cardinality(Children(n, p) \ {Home})

\* resolve_group_parent_id
MayContain(n, p) == p = Root \/ p \in Groups \intersect DOMAIN n

\* created_at
NewAge == 1 + Cardinality(used)

(***************************************************************************)
(* normalize_navigation_orders.  Items at the root are numbered, and then  *)
(* those in groups that have a parent; the children of a group at the root *)
(* stay as they are.  Numbering an item of the root writes its parent as   *)
(* well.                                                                   *)
(***************************************************************************)
NumberByAge(n, i) ==
    FirstNumber(n[i].parent) + Cardinality({j \in Siblings(n, i) : ByAge(n, j, i)})

\* The index among the siblings in their order.
Number(n, i) ==
    FirstNumber(n[i].parent) + Cardinality({j \in Siblings(n, i) : Comes(n, j, i)})

Numbering(n, p) ==
    {IF p = Root THEN Change(i, [parent |-> Root, order |-> Number(n, i)], 0)
     ELSE Change(i, [order |-> Number(n, i)], 1) :
        i \in {j \in Children(n, p) \ {Home} : n[j].order # Number(n, j)}}

Renumbering(n) ==
    Numbering(n, Root) \union
    UNION {Numbering(n, g) : g \in {x \in Groups \intersect DOMAIN n : n[x].parent # Root}}

(***************************************************************************)
(* What requests share.                                                    *)
(***************************************************************************)
\* What follows when all changes are made; handlers that change places renumber.
Following(r) ==
    CASE r.at = "write" /\ r.does # "default" -> [r EXCEPT !.at = "tidy"]
      [] r.at = "sort" /\ r.does = "form"     -> [r EXCEPT !.at = "plan", !.seen = <<>>]
      [] OTHER                                -> NoRequest

Settled(r) == IF r.at \in {"write", "sort"} /\ r.todo = {} THEN Following(r) ELSE r

Becomes(h, r) == req' = [req EXCEPT ![h] = Settled(r)]

\* Handler h has changed rows.
Wrote(h) ==
    /\ stale' = (stale \union (Busy \ {h})) \ (IF req'[h].at = "idle" THEN {h} ELSE {})
    /\ raced' = (raced \/ h \in stale)

Ends(h) == Becomes(h, NoRequest) /\ stale' = stale \ {h}

\* The first reads of a request have gone well.
Begin(h, r) ==
    /\ req[h].at = "idle" /\ work < MaxWork /\ work' = work + 1
    /\ Becomes(h, r)
    /\ UNCHANGED <<rows, drops, history>>

(***************************************************************************)
(* The requests' first steps.                                              *)
(***************************************************************************)
CreateGroup(h) ==
    \E p \in Groups \union {Root} :
        /\ MayContain(nav, p)
        /\ Begin(h, Request("group", "insert", {}, p, NoItem, "", NextNumber(nav, p), FALSE))

MayHoldAnything(n, p, g) == p # g

\* A group may not be put into itself or into what is below it.
MayHold(n, p, g) == p # g /\ p \notin Descendants(n, g)

\* update_navigation_group: a group that keeps its parent keeps its number.
UpdateGroup(h) ==
    \E g \in Groups \intersect Present, p \in Groups \union {Root} :
        /\ MayContain(nav, p) /\ MayHold(nav, p, g)
        /\ LET n == IF nav[g].parent = p THEN nav[g].order ELSE NextNumber(nav, p)
           IN  Begin(h, Request("update", "write",
                                {Change(g, [parent |-> p, order |-> n], 0)}, g, p, "", 0, FALSE))

DissolvingFirst(n, g) ==
    {Change(i, [parent |-> n[g].parent], 1) : i \in Children(n, g)} \union {Removal(g, 0)}

\* The children go to the group's parent one by one; the group goes last.
Dissolving(n, g) ==
    {Change(i, [parent |-> n[g].parent], 0) : i \in Children(n, g)} \union {Removal(g, 1)}

DeleteGroup(h) ==
    \E g \in Groups \intersect Present :
        Begin(h, Request("delete", "write", Dissolving(nav, g), g, NoItem, "", 0, FALSE))

PlaceBefore(s, t, place) ==
    IF place = "inside" \/ t \notin Range(s) THEN Len(s) + 1
    ELSE CHOOSE l \in DOMAIN s : s[l] = t

\* The place in the list of siblings; a target that is not among them counts as the end.
PlaceIn(s, t, place) ==
    IF place = "inside" \/ t \notin Range(s) THEN Len(s) + 1
    ELSE LET k == CHOOSE l \in DOMAIN s : s[l] = t
         IN  IF place = "before" THEN k ELSE k + 1

\* apply_navigation_reorder: the siblings are numbered with the item among them.  The
\* moved item is compared after its parent has been changed, so that it is written only
\* if its number changes.
Placing(n, s, p) ==
    {Change(s[k], [parent |-> p, order |-> FirstNumber(p) + k - 1], k) :
        k \in {l \in DOMAIN s : n[s[l]].order # FirstNumber(p) + l - 1}}

Destination(n, t, place) == IF place = "inside" THEN t ELSE n[t].parent

Reorder(h) ==
    \E i \in Present \ {Home}, t \in Present, place \in {"inside", "before", "after"} :
        /\ i # t
        /\ place = "inside" => t \in Groups
        /\ t \notin Descendants(nav, i)
        /\ LET p == Destination(nav, t, place) IN
           \E s \in Listings(nav, Children(nav, p) \ {i, Home}) :
              LET new == InsertAt(s, PlaceIn(s, t, place), i)
              IN  Begin(h, Request("reorder", "write", Placing(nav, new, p), i, t, place, nav[i].order, FALSE))

\* move_form_navigation_to_group: nothing happens if the form is there already.
MoveForm(h) ==
    \E f \in (Forms \union Details) \intersect Present, p \in Groups \union {Root} :
        /\ MayContain(nav, p) /\ nav[f].parent # p
        /\ Begin(h, Request("move", "write",
                            {Change(f, [parent |-> p, order |-> NextNumber(nav, p)], 0)},
                            f, p, "", 0, FALSE))

\* set_default_navigation_entry: first every row that differs, then the target once more.
SetDefault(h) ==
    \E t \in Present \ Groups :
        LET differ == {i \in Present : nav[i].main # (i = t)}
            todo == {Change(i, [main |-> i = t], 0) : i \in differ} \union {Change(t, [main |-> TRUE], 1)}
        IN  Begin(h, Request("default", "write", todo, t, NoItem, "", 0, FALSE))

\* create_blank_form numbers the siblings before anything else.
CreateForm(h) ==
    \E p \in Groups \union {Root} :
        Begin(h, Request("form", "tidy", {}, p, NoItem, "", 0, FALSE))

\* list_navigation_items
ListItems(h) == Begin(h, Request("list", "tidy", {}, NoItem, NoItem, "", 0, FALSE))

CreateDetail(h) ==
    \E f \in forms : Begin(h, Request("detail", "insert", {}, f, NoItem, "", 0, FALSE))

(***************************************************************************)
(* What follows.                                                           *)
(***************************************************************************)
\* One row is changed.  A row that is gone cannot be changed, and the request fails;
\* it can be removed again.
Write(h) ==
    /\ req[h].at \in {"write", "sort"}
    /\ \E w \in req[h].todo :
          /\ \A v \in req[h].todo : w.rank <= v.rank
          /\ IF w.id \notin Present /\ "gone" \notin DOMAIN w.set
             THEN Ends(h) /\ UNCHANGED <<nav, raced>>
             ELSE /\ nav' = IF "gone" \in DOMAIN w.set
                            THEN [i \in Present \ {w.id} |-> nav[i]]
                            ELSE [nav EXCEPT ![w.id] = Changed(@, w.set)]
                  /\ Becomes(h, [req[h] EXCEPT !.todo = @ \ {w}])
                  /\ Wrote(h)
    /\ UNCHANGED <<forms, source, used, work, drops>>

\* The rows are read once more and numbered.
Tidy(h) ==
    /\ req[h].at = "tidy" /\ ~Cyclic(GroupsOf(nav))
    /\ Becomes(h, [req[h] EXCEPT !.at = "sort", !.todo = Renumbering(nav), !.seen = nav])
    /\ stale' = IF req'[h].at = "idle" THEN stale \ {h} ELSE stale
    /\ UNCHANGED <<rows, work, drops, raced>>

\* normalize_child_orders_recursive follows a cycle of groups until the stack is used up,
\* which ends the process with all its requests.
Overflow(h) ==
    /\ req[h].at = "tidy" /\ Cyclic(GroupsOf(nav))
    /\ req' = [g \in Handlers |-> NoRequest]
    /\ stale' = {}
    /\ UNCHANGED <<rows, work, drops, raced>>

\* create_blank_form reads the parent, whether there is a default entry, and the number.
HasEntry(n) == \E i \in DOMAIN n : n[i].main

Plan(h) ==
    LET p == req[h].item IN
    /\ req[h].at = "plan"
    /\ IF MayContain(nav, p)
       THEN /\ Becomes(h, [req[h] EXCEPT !.at = "insert", !.num = NextNumber(nav, p),
                                         !.main = ~HasEntry(nav)])
            /\ UNCHANGED stale
       ELSE Ends(h)
    /\ UNCHANGED <<rows, work, drops, raced>>

Insert(h, i, row, next) ==
    /\ nav' = [j \in Present \union {i} |-> IF j = i THEN row ELSE nav[j]]
    /\ used' = used \union {i}
    /\ Becomes(h, next)
    /\ Wrote(h)
    /\ UNCHANGED <<work, drops>>

InsertGroup(h) ==
    /\ req[h].at = "insert" /\ req[h].does = "group"
    /\ \E g \in Groups \ used :
          Insert(h, g, Row(req[h].item, req[h].num, NewAge, FALSE),
                 [req[h] EXCEPT !.at = "tidy"])
    /\ UNCHANGED <<forms, source>>

InsertForm(h) ==
    /\ req[h].at = "insert" /\ req[h].does = "form"
    /\ \E f \in Forms \ used :
          /\ forms' = forms \union {f}
          /\ Insert(h, f, Row(req[h].item, req[h].num, NewAge, req[h].main), NoRequest)
    /\ UNCHANGED source

\* create_detail_form_definition: one transaction; the item goes below the form's, or to
\* the root if there is none.
InsertDetail(h) ==
    /\ req[h].at = "insert" /\ req[h].does = "detail"
    /\ \E d \in Details \ used :
          LET f == req[h].item
              p == IF f \in Present THEN f ELSE Root
          IN  /\ source' = [e \in DOMAIN source \union {d} |-> IF e = d THEN f ELSE source[e]]
              /\ Insert(h, d, Row(p, NextNumber(nav, p), NewAge, FALSE), NoRequest)
    /\ UNCHANGED forms

NoDetailsOf(f) == {}
DetailsOf(f) == {d \in DOMAIN source : source[d] = f}

\* delete_form_definition: one transaction, which asks nobody and changes no other row.
RemoveRows(gone) ==
    /\ work < MaxWork /\ work' = work + 1
    /\ nav' = [i \in Present \ gone |-> nav[i]]
    /\ forms' = forms \ gone
    /\ source' = [d \in DOMAIN source \ gone |-> source[d]]
    /\ stale' = stale \union Busy
    /\ UNCHANGED <<used, req, drops, raced>>

DeleteForm == \E f \in forms : RemoveRows({f} \union DetailsOf(f))
DeleteDetail == \E d \in DOMAIN source : RemoveRows({d})

Drop(h) ==
    /\ req[h].at # "idle" /\ drops < MaxDrops /\ drops' = drops + 1
    /\ Ends(h)
    /\ UNCHANGED <<rows, work, raced>>

-----------------------------------------------------------------------------
Init ==
    /\ nav = [i \in {Home} |-> Row(Root, 0, 0, TRUE)]
    /\ forms = {} /\ source = <<>> /\ used = {}
    /\ req = [h \in Handlers |-> NoRequest]
    /\ work = 0 /\ drops = 0
    /\ stale = {} /\ raced = FALSE

Next ==
    \/ \E h \in Handlers :
          \/ CreateGroup(h) \/ UpdateGroup(h) \/ DeleteGroup(h)
          \/ Reorder(h) \/ MoveForm(h) \/ SetDefault(h)
          \/ CreateForm(h) \/ CreateDetail(h) \/ ListItems(h)
          \/ Write(h) \/ Tidy(h) \/ Overflow(h) \/ Plan(h)
          \/ InsertGroup(h) \/ InsertForm(h) \/ InsertDetail(h)
          \/ Drop(h)
    \/ DeleteForm \/ DeleteDetail

Spec == Init /\ [][Next]_vars

-----------------------------------------------------------------------------
(* Properties.                                                             *)

\* Rows and requests have their types.
TypeOK ==
    /\ Present \subseteq Items
    /\ \A i \in Present : /\ nav[i].parent \in Items \union {Root}
                          /\ nav[i].order \in Nat /\ nav[i].born \in Nat /\ nav[i].main \in BOOLEAN
    /\ forms \subseteq Forms /\ DOMAIN source \subseteq Details
    /\ used \subseteq Items /\ stale \subseteq Handlers
    /\ \A h \in Handlers : req[h].does \in Kinds

\* No item ever lies below itself (navigation.rs:196): it would not be shown anywhere.
GroupsNest == ~Cyclic(nav)

\* Groups alone never do, as long as requests do not overlap (navigation.rs:191): a cycle
\* leads through a form, beside whose details a group was dropped.
NestUnlessRaced == raced \/ ~Cyclic(GroupsOf(nav))

\* Deleting a group leaves none of its contents behind under a parent that is gone
\* (navigation.rs:246).
ContentsKept == \A i \in Present : nav[i].parent \in Groups => nav[i].parent \in Present

\* ... which holds as long as requests do not overlap, wherever one is cut off.
KeptUnlessRaced == raced \/ ContentsKept

\* A detail form goes with its form (forms.rs:1058).
NoOrphanedForms == \A d \in DOMAIN source : source[d] \in forms

\* ... which holds unless it was being made while the form was deleted.
OrphansOnlyByRace == raced \/ NoOrphanedForms

LastIn(p, i) == nav[i].parent = p /\ \A j \in Siblings(nav, i) : Comes(nav, j, i)

NextTo(i, j) ==
    /\ j \in Siblings(nav, i) /\ Comes(nav, i, j)
    /\ \A k \in Siblings(nav, i) : ~(Comes(nav, i, k) /\ Comes(nav, k, j))

\* Where a reorder request asks its item to be: in the target, as the last, or next to it.
AsAsked(r) ==
    CASE r.place = "inside" -> LastIn(r.target, r.item)
      [] r.place # "inside" /\ r.target = Home -> LastIn(Root, r.item)
      [] r.place = "before" /\ r.target # Home -> NextTo(r.item, r.target)
      [] OTHER -> NextTo(r.target, r.item)

Reordered(h) == req[h].does = "reorder" /\ req[h].at = "tidy" /\ h \notin stale

\* A reorder that nothing comes in between puts the item where it was dropped
\* (navigation.rs:711).
DroppedWhereAsked == \A h \in Handlers : Reordered(h) => AsAsked(req[h])

\* ... unless it is to get the number it has: then it is not moved at all.
DroppedUnlessSameNumber ==
    \A h \in Handlers : Reordered(h) => AsAsked(req[h]) \/ nav[req[h].item].order = req[h].num

\* Numbering siblings anew, when nothing comes in between, changes neither their parent nor
\* their order (navigation.rs:523).
TidyKeepsOrder ==
    [][\A h \in Handlers \ stale :
          req[h].at = "sort" /\ req'[h].at # "sort" /\ drops' = drops =>
              \A i, j \in DOMAIN nav' :
                  /\ nav'[i].parent = req[h].seen[i].parent
                  /\ nav'[i].parent = nav'[j].parent /\ Home \notin {i, j}
                      => (Comes(req[h].seen, i, j) <=> Comes(nav', i, j))]_vars

(***************************************************************************)
(* The inductive invariant behind them.  It says what the requests are to  *)
(* do to the rows as they are now, for those that no other one has         *)
(* overtaken.                                                              *)
(***************************************************************************)
\* What is to be changed gives the rows one parent p, which the item alone may not have
\* yet; a group is not put below itself.
OneParent(n, i, todo) ==
    \E p \in Items \union {Root} :
        /\ p \in Groups => p \in DOMAIN n
        /\ \A w \in todo :
              /\ "gone" \notin DOMAIN w.set
              /\ "parent" \in DOMAIN w.set =>
                    /\ w.set.parent = p
                    /\ p \in Groups => \/ w.id \in Children(n, p)
                                       \/ w.id = i /\ (i \in Groups => MayHold(n, p, i))

\* Request r is about to do what its reads have allowed, with the rows n and the forms F.
Allowed(n, F, r) ==
    /\ r.at = "write" /\ r.does = "delete" =>
          r.item \in Groups \intersect DOMAIN n /\ r.todo = Dissolving(n, r.item)
    /\ r.at = "sort" \/ (r.at = "write" /\ r.does # "delete") => OneParent(n, r.item, r.todo)
    /\ r.at = "insert" /\ r.does \in {"group", "form"} => MayContain(n, r.item)
    /\ r.at = "insert" /\ r.does = "detail" => r.item \in F
    /\ r.at = "plan" => r.does = "form"

\* Rows and requests have their columns, and ids are fresh.
Shape ==
    /\ IsFiniteSet(Present) /\ Present \subseteq used \union {Home} /\ used \subseteq Items
    /\ \A i \in Present : /\ DOMAIN nav[i] = DOMAIN Row(Root, 0, 0, FALSE)
                          /\ nav[i].parent \in Items \union {Root}
    /\ DOMAIN req = Handlers /\ \A h \in Handlers : DOMAIN req[h] = DOMAIN NoRequest
    /\ forms \subseteq Forms /\ DOMAIN source \subseteq Details

NavInv ==
    raced \/ /\ Shape
             /\ ~Cyclic(GroupsOf(nav)) /\ ContentsKept /\ NoOrphanedForms
             /\ \A h \in Handlers \ stale : Allowed(nav, forms, req[h])

(***************************************************************************)
(* The inductive invariant behind the order of items.  It speaks of raced  *)
(* rows as well.                                                           *)
(***************************************************************************)
\* Rows have ages of their own, the home item stays at the root, and no request is about
\* to move or remove it.
RowsAreSound ==
    /\ IsFiniteSet(used) /\ used \subseteq Items \ {Home}
    /\ Home \in Present /\ Present \subseteq used \union {Home} /\ nav[Home].parent = Root
    /\ \A i \in Present : /\ DOMAIN nav[i] = DOMAIN Row(Root, 0, 0, FALSE)
                          /\ nav[i].order \in Int /\ nav[i].born \in 0..Cardinality(used)
    /\ \A i, j \in Present : nav[i].born = nav[j].born => i = j
    /\ forms \subseteq Forms /\ DOMAIN source \subseteq Details

ChangeIsSound(w) ==
    /\ "order" \in DOMAIN w.set => w.set.order \in Int
    /\ "born" \notin DOMAIN w.set
    /\ w.id = Home => "parent" \notin DOMAIN w.set /\ "gone" \notin DOMAIN w.set

RequestsAreSound ==
    /\ DOMAIN req = Handlers
    /\ \A h \in Handlers : /\ DOMAIN req[h] = DOMAIN NoRequest /\ req[h].num \in Int
                           /\ \A w \in req[h].todo : ChangeIsSound(w)

\* In the list q of siblings the item has the place that was asked for.
ListedAsAsked(q, r) ==
    CASE r.place = "inside" \/ r.target = Home -> q[Len(q)] = r.item
      [] r.place = "before" /\ r.target # Home ->
            \E k \in 1..(Len(q) - 1) : q[k] = r.item /\ q[k + 1] = r.target
      [] OTHER -> \E k \in 1..(Len(q) - 1) : q[k] = r.target /\ q[k + 1] = r.item

\* What a reorder request still has to do numbers its item and the siblings by such a
\* list; an item that has not been written has the number that was read.
Placed(n, r) ==
    r.does = "reorder" /\ r.at \in {"write", "tidy"} =>
        LET p == Destination(n, r.target, r.place) IN
        /\ r.item \in DOMAIN n \ {Home, r.target} /\ r.target \in DOMAIN n
        /\ r.place \in {"inside", "before", "after"}
        /\ n[r.item].parent = p \/ n[r.item].order = r.num
        /\ r.at = "tidy" => r.todo = {}
        /\ \E q \in Seq(DOMAIN n) :
              /\ \A k, l \in DOMAIN q : q[k] = q[l] => k = l
              /\ Range(q) = (Children(n, p) \ {Home}) \union {r.item}
              /\ r.todo = Placing(n, q, p)
              /\ ListedAsAsked(q, r)

\* What a request still has to number anew is what has not yet the number that follows
\* from the rows it has read; nothing else has changed in them.
Numbered(n, r) ==
    r.at = "sort" =>
        /\ DOMAIN r.seen = DOMAIN n /\ ~Cyclic(GroupsOf(r.seen))
        /\ r.todo = {w \in Renumbering(r.seen) : n[w.id].order # w.set.order}
        /\ \A i \in DOMAIN n :
              /\ n[i].parent = r.seen[i].parent /\ n[i].born = r.seen[i].born
              /\ r.seen[i].order \in Int
              /\ \/ n[i].order = r.seen[i].order
                 \/ \E w \in Renumbering(r.seen) : w.id = i /\ n[i].order = w.set.order

OrderInv ==
    /\ RowsAreSound /\ RequestsAreSound
    /\ \A h \in Handlers \ stale : Placed(nav, req[h]) /\ Numbered(nav, req[h])
=============================================================================
