---------------------------- MODULE LayoutTerms -----------------------------
(***************************************************************************)
(* The words of LayoutProofs: what a layout in order is (Tree, Sound, Good)*)
(* and how the two loops of the canvas, ExpandToFit and GiveWay, change    *)
(* one (Keeps, Holds, ClimbStates, PushStates).                            *)
(***************************************************************************)
EXTENDS DesignerCanvas

-----------------------------------------------------------------------------
(* Layouts, and a field in one. *)
(* A palette without subforms, and the fields and layouts made of it: an id
   appears once. *)
PlainTypes == {Text, Area, Group, RichText}
Fields ==
    [id : FieldIds, type : PlainTypes, row : Int, column : Int,
     rowSpan : Nat \ {0}, colSpan : Nat \ {0}, parent : FieldIds \union {Root}]
OneEach(L) == \A i, j \in DOMAIN L : L[i].id = L[j].id => i = j
Layouts == {L \in Seq(Fields) : OneEach(L)}

-----------------------------------------------------------------------------
(* Trees: what is in a field, directly or further down. *)
(* The function of DescendantsOf, by its recursive equation. *)
IsWithin(L, P, w) ==
    w = [i \in DOMAIN L |-> \/ L[i].parent \in P
                              \/ \E j \in DOMAIN L : /\ L[j].id = L[i].parent
                                                     /\ IsContainer(L[j].type)
                                                     /\ w[j]]

Parent(L, x) == Find(L, x).parent

(* Parents are groups of the layout and form no cycle: every set of fields has
   one whose parent is outside of it. *)
Tree(L) ==
    /\ \A x \in Ids(L) : Parent(L, x) # Root =>
            /\ Parent(L, x) \in Ids(L)
            /\ Find(L, Parent(L, x)).type = Group
    /\ \A S \in SUBSET Ids(L) : S # {} => \E x \in S : Parent(L, x) \notin S

(* Fields, and all that is in them. *)
Moved(L, P) == P \union DescendantsOf(L, P)

(* A translation: each field in or among P is shifted, the others stay. *)
Shifted(f, dr, dc) == [f EXCEPT !.row = f.row + dr, !.column = f.column + dc]

IsShift(L, M, P, dr, dc) ==
    /\ M \in Layouts /\ Ids(M) = Ids(L) /\ Len(M) = Len(L)
    /\ \A x \in Ids(L) : Find(M, x) =
            IF x \in Moved(L, P) THEN Shifted(Find(L, x), dr, dc) ELSE Find(L, x)

-----------------------------------------------------------------------------
(* The invariant. *)
(* A rich text fills its scope; a field lies in the columns of its scope, and
   not above it; two siblings do not lie on each other, a rich text taking its
   whole rows. *)
ScopeRow(L, p) == IF p = Root THEN 0 ELSE Find(L, p).row

Fills(L, x) ==
    Find(L, x).type = RichText =>
        /\ Find(L, x).column = ScopeColumn(L, Parent(L, x))
        /\ Find(L, x).colSpan = ScopeColumns(L, Parent(L, x))
Scoped(L, x) ==
    /\ Find(L, x).row >= ScopeRow(L, Parent(L, x))
    /\ Find(L, x).type # RichText =>
        /\ Find(L, x).column >= ScopeColumn(L, Parent(L, x))
        /\ Right(Find(L, x)) <= ScopeColumn(L, Parent(L, x)) + ScopeColumns(L, Parent(L, x))
Meet(f, g) == f.row < Bottom(g) /\ g.row < Bottom(f)
Clash(f, g) ==
    /\ Meet(f, g)
    /\ \/ f.type = RichText \/ g.type = RichText
       \/ f.column < Right(g) /\ g.column < Right(f)

(* D: the dragged field, Q: the grid that is being rearranged. *)
Sound(L, D, Q) ==
    /\ L \in Layouts /\ Tree(L)
    /\ \A x \in Ids(L) \ D : Scoped(L, x)
    /\ \A x, y \in Ids(L) \ D :
            x # y /\ Parent(L, x) = Parent(L, y) /\ Parent(L, x) \notin Q
                => ~Clash(Find(L, x), Find(L, y))
Filled(L) == \A x \in Ids(L) : Fills(L, x)

(* The inductive invariant of the canvas. *)
Good(L) == Sound(L, {}, {}) /\ Filled(L)

(* Two layouts of the same fields, each in the same group; how far a group, or
   the canvas, lies from where it lay. *)
SameTree(L, M) ==
    /\ Ids(M) = Ids(L)
    /\ \A x \in Ids(L) : Parent(M, x) = Parent(L, x) /\ Find(M, x).type = Find(L, x).type

RowShift(L, M, p) == IF p = Root THEN 0 ELSE Find(M, p).row - Find(L, p).row
ColumnShift(L, M, p) == IF p = Root THEN 0 ELSE Find(M, p).column - Find(L, p).column
SameWidths(L, M) == \A x \in Ids(L) : Find(M, x).colSpan = Find(L, x).colSpan

-----------------------------------------------------------------------------
(* Paths from the canvas inwards, and what follows its group. *)
(* The canvas and the groups from one of them inwards, at most one per level. *)
Path(L, K) ==
    /\ Root \in K /\ K \subseteq Ids(L) \union {Root}
    /\ \A x \in K \ {Root} : Parent(L, x) \in K
    /\ \A x, y \in K \ {Root} : Parent(L, x) = Parent(L, y) => x = y

(* The groups around the children of p. *)
Around(L, p, K) == Path(L, K) /\ p \in K /\ \A x \in Ids(L) : Parent(L, x) = p => x \notin K

(* The grids around a grid, and that grid. *)
Up(L, p) == {z \in Ids(L) : p \in Moved(L, {z})} \union {Root}

(* Whoever is not in a grid of K moves as what it lies in does; a rich text
   only down or up with it. *)
Follows(L, M, K) ==
    /\ SameTree(L, M)
    /\ \A x \in Ids(L) : Parent(L, x) \notin K =>
            /\ RowShift(L, M, x) = RowShift(L, M, Parent(L, x))
            /\ Find(L, x).type # RichText =>
                    ColumnShift(L, M, x) = ColumnShift(L, M, Parent(L, x))

(* The groups on the path stay where they are. *)
Stays(L, M, T) ==
    \A x \in Ids(L) \cap T :
        /\ Find(M, x).row = Find(L, x).row
        /\ Find(L, x).type # RichText => Find(M, x).column = Find(L, x).column

-----------------------------------------------------------------------------
(* Siblings are moved. *)
SameHeights(L, M) == \A x \in Ids(L) : Find(M, x).rowSpan = Find(L, x).rowSpan

(* Some of the fields of one grid. *)
InGrid(L, P, q) == P \subseteq Ids(L) /\ \A x \in P : Parent(L, x) = q

-----------------------------------------------------------------------------
(* A group grows, what is below it makes room. *)
(* A group grew by d rows: what is below it in its grid moved down. *)
Taller(f, n) == [f EXCEPT !.rowSpan = f.rowSpan + n]

IsGrown(L, M, c, d) ==
    \E N \in Layouts :
        /\ IsShift(L, N, BelowIn(L, Find(L, c)), d, 0)
        /\ M \in Layouts /\ Ids(M) = Ids(L) /\ Len(M) = Len(L)
        /\ \A x \in Ids(L) : Find(M, x) = IF x = c THEN Taller(Find(N, x), d) ELSE Find(N, x)

(* How a loop turns L into M: who hangs on K may move by himself, the groups
   of T may grow where they are. *)
Keeps(L, M, K, T) ==
    /\ M \in Layouts /\ Len(M) = Len(L) /\ Follows(L, M, K) /\ Stays(L, M, T)
    /\ SameWidths(L, M)
    /\ \A x \in Ids(L) : Fills(L, x) => Fills(M, x)
    /\ \A x \in Ids(L) : IF x \in T THEN Find(M, x).rowSpan >= Find(L, x).rowSpan
                                    ELSE Find(M, x).rowSpan = Find(L, x).rowSpan

-----------------------------------------------------------------------------
(* Rich texts fill their scopes. *)
Wide(f, c, n) == [f EXCEPT !.column = c, !.colSpan = n]

IsNormal(L, M) ==
    /\ M \in Layouts /\ Ids(M) = Ids(L) /\ Len(M) = Len(L)
    /\ \A x \in Ids(L) : Find(M, x) =
            IF Find(L, x).type # RichText THEN Find(L, x)
            ELSE Wide(Find(L, x), ScopeColumn(L, Parent(L, x)), ScopeColumns(L, Parent(L, x)))

-----------------------------------------------------------------------------
(* ExpandToFit: a climb from group to group. *)
(* The states of a climb from p, T the groups around it and p itself. *)
ClimbStates(L, p, T) ==
    {s \in [fields : Layouts, container : Ids(L) \union {Root}] :
        /\ Sound(s.fields, {}, {}) /\ Keeps(L, s.fields, T \ {p}, T)
        /\ s.container \in T}

(* One group grows, and the climb goes on at its parent. *)
ClimbStep(s, n) ==
    IF Grows(s.fields, s.container, n)
    THEN [fields |-> Grown(s.fields, s.container, n),
          container |-> Find(s.fields, s.container).parent]
    ELSE s

(* The function of Climb, by its recursive equation. *)
IsClimb(h, L, p, n) ==
    h = [i \in Nat |->
            IF i = 0 THEN [fields |-> L, container |-> p]
            ELSE LET s == h[i - 1]
                 IN  IF Grows(s.fields, s.container, n)
                     THEN [fields |-> Grown(s.fields, s.container, n),
                           container |-> Find(s.fields, s.container).parent]
                     ELSE s]

(* What a climb from p has done when it is over. *)
Expanded(L, N, p, T) ==
    /\ \E n \in Int : N = ExpandToFit(L, p, n)
    /\ \A x \in Ids(L) \ T : Find(N, x).rowSpan = Find(L, x).rowSpan
    /\ Sound(N, {}, {}) /\ SameTree(L, N) /\ Len(N) = Len(L)
    /\ Follows(L, N, T \ {p}) /\ Stays(L, N, T)
    /\ Filled(L) => Filled(N) /\ Keeps(L, N, T \ {p}, T)

-----------------------------------------------------------------------------
(* Groups that grow hold their fields again. *)
(* A field ends where its group ends, or before; one beside it grew.  The
   layout L may lack some of the fields of M. *)
Contained(L, x) ==
    Parent(L, x) \in Ids(L) /\ Bottom(Find(L, x)) <= Bottom(Find(L, Parent(L, x)))
GrewBeside(L, M, x) ==
    \E c \in Ids(L) \ {x} :
        /\ Find(L, c).type = Group /\ Parent(L, c) = Parent(L, x)
        /\ Find(M, c).rowSpan > Find(L, c).rowSpan
Holds(L, M, Y) ==
    \A x \in Y : Contained(L, x) => Contained(M, x) \/ GrewBeside(L, M, x)
IsIn(L, M) ==
    /\ Ids(L) \subseteq Ids(M)
    /\ \A x \in Ids(L) : Parent(M, x) = Parent(L, x) /\ Find(M, x).type = Find(L, x).type

(* What a climb in M has done to the fields Y of L: those in the group that
   is next end at n, or before. *)
ClimbHolds(L, s, n, Y) ==
    /\ s.container \in Ids(L) \union {Root}
    /\ \A x \in Y : Contained(L, x) =>
            \/ Contained(s.fields, x)
            \/ GrewBeside(L, s.fields, x)
            \/ Parent(L, x) = s.container /\ Bottom(Find(s.fields, x)) <= n
Rises(L, M, p, T, Y) ==
    /\ L \in Layouts /\ Tree(L) /\ IsIn(L, M) /\ Sound(M, {}, {}) /\ Around(M, p, T)
    /\ p \in Ids(L) \union {Root} /\ Y \subseteq Ids(L)
    /\ \A c \in T \cap Ids(L) : Find(M, c).rowSpan >= Find(L, c).rowSpan

(* What a growing group does to the others. *)
GrowsBy(L, M, c, d) ==
    /\ SameTree(L, M)
    /\ \A x \in Ids(L) \ {c} : Find(M, x).rowSpan = Find(L, x).rowSpan
    /\ Find(M, c).rowSpan = Find(L, c).rowSpan + d
    /\ Bottom(Find(M, c)) = Bottom(Find(L, c)) + d
    /\ \A x \in Ids(L) : Parent(L, x) = c => Bottom(Find(M, x)) = Bottom(Find(L, x))
    /\ \A x \in Ids(L) :
            /\ Parent(L, x) \in Ids(L) \ {c} /\ Parent(L, x) # Parent(L, c)
            /\ Contained(L, x)
            => Contained(M, x)

(* The groups around a field, with it. *)
Above(L, x) == {z \in Ids(L) : x \in Moved(L, {z})}

-----------------------------------------------------------------------------
(* The first of some fields. *)
(* Positions in reading order: FirstOf finds the first. *)
Leads(L, i, j) == Before(L[i], L[j]) \/ (~Before(L[j], L[i]) /\ i < j)

-----------------------------------------------------------------------------
(* GiveWay: the queue of rectangles that push. *)
(* The rectangles in a queue. *)
Waiting(queue) == {queue[k].rect : k \in DOMAIN queue}
Queues(R) == Seq([fresh : BOOLEAN, rect : R])

-----------------------------------------------------------------------------
(* What holds as long as rectangles push. *)
(* A rectangle on the grid, and a field that lies on it. *)
IsRect(r) ==
    /\ r.row \in Int /\ r.column \in Int
    /\ r.rowSpan \in Nat \ {0} /\ r.colSpan \in Nat \ {0}

SamePlace(r, f) ==
    r.row = f.row /\ r.column = f.column /\ r.rowSpan = f.rowSpan /\ r.colSpan = f.colSpan

(* The rectangle of a field, as it lies there now, will still push. *)
Waits(queue, M, x) == \E r \in Waiting(queue) : r.id = x /\ SamePlace(r, Find(M, x))

(* The rich texts of one grid fill it. *)
FilledIn(M, p) == \A x \in Ids(M) : Parent(M, x) = p => Fills(M, x)

(* Rows give way in a grid, or the columns of its scope. *)
GivesWay(way, L, p) ==
    \/ way = Downwards
    \/ way = Sideways(ScopeColumn(L, p), ScopeColumn(L, p) + ScopeColumns(L, p), FALSE)

(* What holds as long as rectangles push: two siblings that overlap are still to
   be settled, because one of them waits in the queue as it lies. *)
PushStates(L, p, T, R, way) ==
    {s \in [fields : Layouts, pushes : Nat, queue : Queues(R)] :
        /\ Sound(s.fields, {}, {p}) /\ FilledIn(s.fields, p)
        /\ Keeps(L, s.fields, {p}, T) /\ SameHeights(L, s.fields)
        /\ \A r \in Waiting(s.queue) : way.down \/ r.column >= way.first
        /\ \A x, y \in Ids(s.fields) :
              /\ x # y /\ Parent(s.fields, x) = p /\ Parent(s.fields, y) = p
              /\ Overlap(Find(s.fields, x), Find(s.fields, y))
              => Waits(s.queue, s.fields, x) \/ Waits(s.queue, s.fields, y)}

(* Where a pushed field goes lies in the scope. *)
Pushable(way, r, b, first, n) ==
    /\ IsRect(r) /\ b \in Fields /\ first \in Int /\ n \in Int
    /\ way = Downwards \/ way = Sideways(first, first + n, FALSE)
    /\ way.down \/ r.column >= way.first
    /\ b.type # RichText => b.column >= first /\ Right(b) <= first + n
    /\ b.type = RichText => b.column = first /\ b.colSpan = n

(* One field of a grid is moved, to a place in the scope. *)
Moves(M, N, p, T, x, dr, dc) ==
    /\ Sound(M, {}, {p}) /\ Path(M, T) /\ p \in T
    /\ x \in Ids(M) /\ Parent(M, x) = p /\ x \notin T
    /\ dr \in Nat /\ dc \in Int /\ IsShift(M, N, {x}, dr, dc)
    /\ Find(M, x).type = RichText => dc = 0
    /\ Find(M, x).column + dc >= ScopeColumn(M, p)
    /\ Find(M, x).column + dc + Find(M, x).colSpan <= ScopeColumn(M, p) + ScopeColumns(M, p)

HasMoved(M, N, p, T, x, dr, dc) ==
    /\ Sound(N, {}, {p}) /\ Keeps(M, N, {p}, T) /\ SameHeights(M, N)
    /\ Find(N, x) = Shifted(Find(M, x), dr, dc) /\ Find(N, x) \in Fields
    /\ \A y \in Ids(M) \ {x} : Parent(M, y) = p => Find(N, y) = Find(M, y)

=============================================================================
