--------------------------- MODULE DesignerLayout ---------------------------
(***************************************************************************)
(* The layout rules of the form designer (designer-layout.ts,              *)
(* designer-clipboard.ts): where a field may stand on the grid, and how    *)
(* the others give way when one is inserted between them or resized.       *)
(*                                                                         *)
(* A layout is the designer's array of placed fields.  Fields with the     *)
(* same parent are siblings and share one grid; a group's children use the *)
(* canvas coordinates, a subform's children the columns of its table.      *)
(***************************************************************************)
EXTENDS Integers, FiniteSets, Sequences, FiniteSetsExt, SequencesExt

CONSTANTS
    COLUMN_COUNT,       \* columns of the canvas and of a subform's table
    MIN_ROW_COUNT,      \* rows the canvas shows at least
    Root                \* the parent of a field that lies on the canvas itself

(* Stand-ins for the component types: what they may do is all that counts. *)
Text == "singleLineText"            \* one row, columns can be dragged
Area == "multiLineText"             \* rows and columns can be dragged
Group == "groupContainer"
Subform == "subform"
RichText == "richText"              \* as wide as its scope
ComponentTypes == {Text, Area, Group, Subform, RichText}

IsContainer(type) == type \in {Group, Subform}
ResizesColumns(type) == type \in {Text, Area, Group}
ResizesRows(type) == type \in {Area, Group, RichText}

---------------------------------------------------------------------------
(* Arrays of fields.                                                       *)

(* fields.map(Op), built as a tuple so that TLC evaluates it once.         *)
Each(fields, Op(_)) == << >> \o [i \in DOMAIN fields |-> Op(fields[i])]
Ids(fields) == {fields[i].id : i \in DOMAIN fields}
HasField(fields, id) == \E i \in DOMAIN fields : fields[i].id = id
Find(fields, id) == fields[CHOOSE i \in DOMAIN fields : fields[i].id = id]
TypeOf(fields, id) ==
    IF HasField(fields, id) THEN Find(fields, id).type ELSE "canvas"

Siblings(fields, parent) ==
    {fields[i] : i \in {j \in DOMAIN fields : fields[j].parent = parent}}

(* filter: the fields with these ids, in their order.                      *)
Only(fields, ids) ==
    LET only[n \in 0 .. Len(fields)] ==
            IF n = 0 THEN << >>
            ELSE IF fields[n].id \in ids THEN Append(only[n - 1], fields[n])
            ELSE only[n - 1]
    IN  only[Len(fields)]
Without(fields, ids) == Only(fields, Ids(fields) \ ids)

Bottom(f) == f.row + f.rowSpan
Right(f) == f.column + f.colSpan

Larger(a, b) == IF a >= b THEN a ELSE b
Smaller(a, b) == IF a <= b THEN a ELSE b

(* The rows some fields reach: the bottom of the lowest of them, or low.   *)
LowestBottom(some, low) == Max({low} \union {Bottom(f) : f \in some})

RowCount(fields) == Larger(MIN_ROW_COUNT, LowestBottom(Siblings(fields, Root), 0) + 1)

Overlap(a, b) ==
    /\ a.row < Bottom(b) /\ b.row < Bottom(a)
    /\ a.column < Right(b) /\ b.column < Right(a)

CellCovered(some, row, column) ==
    \E f \in some :
        Overlap([row |-> row, column |-> column, rowSpan |-> 1, colSpan |-> 1], f)

(* Everything inside some containers, directly or further down; parents    *)
(* form no cycle.                                                          *)
DescendantsOf(fields, parents) ==
    LET within[i \in DOMAIN fields] ==
            \/ fields[i].parent \in parents
            \/ \E j \in DOMAIN fields :
                /\ fields[j].id = fields[i].parent
                /\ IsContainer(fields[j].type)
                /\ within[j]
    IN  {fields[i].id : i \in {j \in DOMAIN fields : within[j]}}

Descendants(fields, id) ==
    IF IsContainer(TypeOf(fields, id)) THEN DescendantsOf(fields, {id}) ELSE {}

---------------------------------------------------------------------------
(* A rich text fills its group or the canvas.                              *)

ScopeColumn(fields, parent) ==
    IF TypeOf(fields, parent) = Group THEN Find(fields, parent).column ELSE 0
ScopeColumns(fields, parent) ==
    IF TypeOf(fields, parent) = Group THEN Find(fields, parent).colSpan ELSE COLUMN_COUNT

NormalizeRichText(fields) ==
    Each(fields, LAMBDA f :
        IF f.type # RichText THEN f
        ELSE [f EXCEPT !.column = ScopeColumn(fields, f.parent),
                       !.colSpan = ScopeColumns(fields, f.parent),
                       !.parent = IF TypeOf(fields, f.parent) = Subform
                                  THEN Root ELSE f.parent])

---------------------------------------------------------------------------
(* May a rectangle stand there, the field "ignored" set aside?             *)

InsideParent(fields, r, parent) ==
    LET p == Find(fields, parent)
    IN  /\ HasField(fields, parent)
        /\ \/ /\ p.type = Subform
              /\ r.row >= p.row
              /\ r.rowSpan = 1 /\ r.colSpan = 1
              /\ Right(r) <= COLUMN_COUNT
           \/ /\ p.type = Group
              /\ r.row >= p.row /\ r.column >= p.column
              /\ Bottom(r) <= Bottom(p) /\ Right(r) <= Right(p)

CanPlace(fields, ignored, r, parent) ==
    /\ r.row >= 0 /\ r.column >= 0
    /\ TypeOf(fields, parent) # Subform => Right(r) <= COLUMN_COUNT
    /\ parent # Root => InsideParent(fields, r, parent)
    /\ \A i \in DOMAIN fields :
        \/ fields[i].id = ignored
        \/ fields[i].parent # parent
        \/ ~Overlap(r, fields[i])

---------------------------------------------------------------------------
(* Moving whole subtrees, and growing a group with what is below it.       *)

TranslateRoots(fields, roots, deltaRow, deltaColumn) ==
    Each(fields, LAMBDA f :
        IF f.id \notin roots THEN f
        ELSE [f EXCEPT !.row = @ + deltaRow, !.column = @ + deltaColumn])

Translate(fields, roots, deltaRow, deltaColumn) ==
    LET moved == roots \union DescendantsOf(fields, roots)
    IN  Each(fields, LAMBDA f :
            IF f.id \notin moved THEN f
            ELSE [f EXCEPT !.row = @ + deltaRow, !.column = @ + deltaColumn])

Growth(container, requiredBottom) == Larger(0, requiredBottom - Bottom(container))

FurtherBelowIn(fields, container) ==
    {id \in Ids(fields) \ {container.id} :
        /\ Find(fields, id).parent = container.parent
        /\ Find(fields, id).row > Bottom(container)}

BelowIn(fields, container) ==
    {id \in Ids(fields) \ {container.id} :
        /\ Find(fields, id).parent = container.parent
        /\ Find(fields, id).row >= Bottom(container)}

Grows(fields, container, requiredBottom) ==
    /\ TypeOf(fields, container) = Group
    /\ Growth(Find(fields, container), requiredBottom) > 0

Grown(fields, container, requiredBottom) ==
    LET c == Find(fields, container)
        delta == Growth(c, requiredBottom)
    IN  Each(Translate(fields, BelowIn(fields, c), delta, 0), LAMBDA f :
            IF f.id = container THEN [f EXCEPT !.rowSpan = @ + delta] ELSE f)

(* From group to group as long as one has to grow; a field has fewer       *)
(* groups around it than there are fields.                                 *)
Climb(fields, container, requiredBottom) ==
    LET climb[n \in Nat] ==
            IF n = 0 THEN [fields |-> fields, container |-> container]
            ELSE LET s == climb[n - 1]
                 IN  IF Grows(s.fields, s.container, requiredBottom)
                     THEN [fields |-> Grown(s.fields, s.container, requiredBottom),
                           container |-> Find(s.fields, s.container).parent]
                     ELSE s
    IN  climb

(* Every level normalizes the rich texts after the next one returned, one  *)
(* right after the other: the first time makes the others change nothing.  *)
ExpandToFit(fields, container, requiredBottom) ==
    IF Grows(fields, container, requiredBottom)
    THEN NormalizeRichText(Climb(fields, container, requiredBottom)[Len(fields)].fields)
    ELSE fields

(* After a rearrangement in its grid a group encloses all its children.    *)
EncloseChildren(fields, parent, low) ==
    ExpandToFit(fields, parent, LowestBottom(Siblings(fields, parent), low))

---------------------------------------------------------------------------
(* Giving way: a rectangle pushes the first sibling it overlaps, which     *)
(* pushes others in turn.                                                  *)

Blockers(fields, pusher, parent) ==
    {i \in DOMAIN fields :
        /\ fields[i].id # pusher.id
        /\ fields[i].parent = parent
        /\ Overlap(pusher, fields[i])}

Before(a, b) ==
    \/ a.row < b.row
    \/ a.row = b.row /\ a.column < b.column

(* sort(compareFieldPosition)[0], a stable sort.                           *)
FirstOf(fields, indices) ==
    CHOOSE i \in indices : \A j \in indices \ {i} :
        \/ Before(fields[i], fields[j])
        \/ ~Before(fields[j], fields[i]) /\ i < j

(* Where a pushed field goes: below its pusher when rows give way, else to *)
(* its right and, at the end of the scope, to the next line; a subform's   *)
(* table has one line and takes it beyond the end.                         *)
Downwards == [down |-> TRUE]
Sideways(first, end, table) ==
    [down |-> FALSE, first |-> first, end |-> end, table |-> table]

NewPlaceBeyond(way, pusher, blocker) ==
    IF way.down
    THEN [row |-> Larger(Bottom(pusher), blocker.row + 1), column |-> blocker.column]
    ELSE IF Right(pusher) < way.end \/ way.table
    THEN [row |-> blocker.row, column |-> Right(pusher)]
    ELSE [row |-> Larger(blocker.row, pusher.row) + 1, column |-> way.first]

NewPlace(way, pusher, blocker) ==
    IF way.down
    THEN [row |-> Larger(Bottom(pusher), blocker.row + 1), column |-> blocker.column]
    ELSE IF Right(pusher) + blocker.colSpan <= way.end
    THEN [row |-> blocker.row, column |-> Right(pusher)]
    ELSE IF way.table
    THEN [row |-> blocker.row, column |-> way.end]
    ELSE [row |-> Larger(blocker.row, pusher.row) + 1, column |-> way.first]

(* The queue holds rectangles as they were when they were pushed; one that *)
(* is not fresh has begun to push.                                         *)
Finished(s, limit) == s.queue = << >> \/ (Head(s.queue).fresh /\ s.pushes >= limit)

PushOnce(s, parent, way) ==
    LET pusher == Head(s.queue).rect
        blockers == Blockers(s.fields, pusher, parent)
        blocker == s.fields[FirstOf(s.fields, blockers)]
        place == NewPlace(way, pusher, blocker)
        moved == Translate(s.fields, {blocker.id}, place.row - blocker.row,
                           place.column - blocker.column)
    IN  IF blockers = {}
        THEN [s EXCEPT !.queue = Tail(@)]
        ELSE [fields |-> moved, pushes |-> s.pushes + 1,
              queue |-> << [fresh |-> FALSE, rect |-> pusher] >> \o Tail(s.queue)
                        \o << [fresh |-> TRUE, rect |-> Find(moved, blocker.id)] >>]

Push(fields, pusher, parent, way, limit) ==
    LET push[n \in Nat] ==
            IF n = 0
            THEN [fields |-> fields, pushes |-> 0,
                  queue |-> << [fresh |-> TRUE, rect |-> pusher] >>]
            ELSE LET s == push[n - 1]
                 IN  IF Finished(s, limit) THEN s ELSE PushOnce(s, parent, way)
    IN  push

(* Bound: steps of a push, more than it can take.  A rectangle is taken    *)
(* from the queue once and pushes a field once, or, when rows are filled   *)
(* up, once for each of its rows; the last may begin below the limit.      *)
MaxSteps(fields, pusher, limit) ==
    LET rows == Max({pusher.rowSpan} \union {fields[i].rowSpan : i \in DOMAIN fields})
    IN  2 * (limit + Len(fields) * (rows + 1)) + 1

GiveWay(fields, pusher, parent, way) ==
    LET limit == Len(fields) * Len(fields) + 10
        last == Push(fields, pusher, parent, way, limit)[MaxSteps(fields, pusher, limit)]
    IN  [fields |-> last.fields,
         tooComplex |-> last.pushes >= limit \/ last.queue # << >>]

---------------------------------------------------------------------------
(* planFieldInsertion: room for "incoming" beside a placed field.          *)

Directions == {"before-row", "after-row", "before-column", "after-column"}
IsRow(direction) == direction \in {"before-row", "after-row"}

Refused(fields, target) == [valid |-> FALSE, fields |-> fields, target |-> target]

(* The size an incoming field takes in the scope of the target.            *)
SizeIn(fields, incoming, parent) ==
    LET in == TypeOf(fields, parent)
    IN  CASE in = Subform -> [incoming EXCEPT !.rowSpan = 1, !.colSpan = 1]
          [] in # Subform /\ incoming.type = RichText ->
                [incoming EXCEPT !.colSpan = ScopeColumns(fields, parent)]
          [] in = Group /\ incoming.type = Subform ->
                [incoming EXCEPT !.rowSpan = 1, !.colSpan = ScopeColumns(fields, parent)]
          [] OTHER -> incoming

Rect(incoming, target) ==
    [id |-> "incoming", row |-> target.row, column |-> target.column,
     rowSpan |-> incoming.rowSpan, colSpan |-> incoming.colSpan]

PlanRow(fields, incoming, beside, direction) ==
    LET parent == beside.parent
        target == [row |-> IF direction = "after-row" THEN Bottom(beside) ELSE beside.row,
                   column |-> IF incoming.type \in {Subform, RichText}
                              THEN ScopeColumn(fields, parent)
                              ELSE Smaller(beside.column, COLUMN_COUNT - incoming.colSpan),
                   parent |-> parent]
        pushed == GiveWay(fields, Rect(incoming, target), parent, Downwards)
        room == EncloseChildren(pushed.fields, parent, target.row + incoming.rowSpan)
    IN  IF pushed.tooComplex \/ ~CanPlace(room, "incoming", Rect(incoming, target), parent)
        THEN Refused(fields, target)
        ELSE [valid |-> TRUE, fields |-> room, target |-> target]

PlanColumn(fields, incoming, beside, direction) ==
    LET parent == beside.parent
        table == TypeOf(fields, parent) = Subform
        first == IF HasField(fields, parent) THEN Find(fields, parent).column ELSE 0
        siblings == Siblings(fields, parent)
        end == CASE table -> Max({first + 1} \union
                                 {Right(f) : f \in siblings})
                             + incoming.colSpan + Cardinality(siblings)
                 [] ~table /\ HasField(fields, parent) -> Right(Find(fields, parent))
                 [] OTHER -> COLUMN_COUNT
        column == IF direction = "after-column" THEN Right(beside) ELSE beside.column
        target == IF column + incoming.colSpan > end /\ ~table
                  THEN [row |-> beside.row + 1, column |-> first, parent |-> parent]
                  ELSE [row |-> beside.row, column |-> column, parent |-> parent]
        pushed == GiveWay(fields, Rect(incoming, target), parent,
                          Sideways(first, end, table))
    IN  IF \/ pushed.tooComplex
           \/ ~CanPlace(pushed.fields, "incoming", Rect(incoming, target), parent)
        THEN Refused(fields, target)
        ELSE [valid |-> TRUE, target |-> target,
              fields |-> EncloseChildren(pushed.fields, parent,
                                         target.row + incoming.rowSpan)]

(* "dragged" is the subtree that is dragged, empty for a new component.    *)
MayInsert(fields, incoming, dragged, beside, direction) ==
    LET in == TypeOf(fields, beside.parent)
    IN  /\ beside.id # incoming.id
        /\ in = Subform => ~IsContainer(incoming.type) /\ incoming.type # RichText
        /\ beside.parent \notin dragged \ {incoming.id}
        /\ IF IsRow(direction)
           THEN in # Subform
           ELSE incoming.type \notin {Subform, RichText} /\ beside.type # RichText

PlanInsertion(fields, incoming, beside, direction) ==
    LET dragged == IF HasField(fields, incoming.id)
                   THEN {incoming.id} \union Descendants(fields, incoming.id) ELSE {}
        others == Without(fields, dragged)
        sized == SizeIn(fields, incoming, beside.parent)
        plan == IF IsRow(direction)
                THEN PlanRow(others, sized, beside, direction)
                ELSE PlanColumn(others, sized, beside, direction)
    IN  IF ~MayInsert(fields, incoming, dragged, beside, direction) \/ ~plan.valid
        THEN Refused(fields, beside)
        ELSE [plan EXCEPT !.fields = @ \o Only(fields, dragged)]

---------------------------------------------------------------------------
(* moveField: a placed field goes to a cell, with everything inside it.    *)

MoveField(fields, id, row, column, parent) ==
    LET f == Find(fields, id)
        in == TypeOf(fields, parent)
        full == f.type \in {Subform, RichText}
        place == [id |-> id, row |-> row,
                  column |-> IF full THEN ScopeColumn(fields, parent) ELSE column,
                  rowSpan |-> IF in = Subform THEN 1 ELSE f.rowSpan,
                  colSpan |-> IF full THEN ScopeColumns(fields, parent)
                              ELSE IF in = Subform THEN 1 ELSE f.colSpan]
        adopted == Each(fields, LAMBDA g :
                        IF g.id = id THEN [g EXCEPT !.parent = parent] ELSE g)
    IN  IF \/ parent = id
           \/ IsContainer(f.type) /\ parent \in Descendants(fields, id)
           \/ in = Subform /\ (IsContainer(f.type) \/ f.type = RichText)
           \/ f.row = row /\ f.column = place.column /\ f.parent = parent
           \/ ~CanPlace(fields, id, place, parent)
        THEN fields
        ELSE IF IsContainer(f.type)
        THEN Translate(adopted, {id}, row - f.row, place.column - f.column)
        ELSE NormalizeRichText(Each(adopted, LAMBDA g :
                IF g.id # id THEN g
                ELSE [g EXCEPT !.row = row, !.column = place.column,
                               !.rowSpan = place.rowSpan, !.colSpan = place.colSpan]))

---------------------------------------------------------------------------
(* resizeField: siblings below give way, a group never leaves a child out. *)

Clamp(value, low, high) == Smaller(Larger(value, low), high)

HoldsChildrenAcross(fields, group, rowSpan, colSpan) ==
    \A id \in Descendants(fields, group.id) :
        Right(Find(fields, id)) <= group.column + colSpan

HoldsChildren(fields, group, rowSpan, colSpan) ==
    LET size == [group EXCEPT !.rowSpan = rowSpan, !.colSpan = colSpan]
    IN  \A id \in Descendants(fields, group.id) :
            LET f == Find(fields, id)
            IN  \/ f.type = RichText /\ f.parent = group.id
                \/ /\ f.row >= size.row /\ f.column >= size.column
                   /\ Bottom(f) <= Bottom(size) /\ Right(f) <= Right(size)

ResizeField(fields, id, rowSpan, colSpan) ==
    LET f == Find(fields, id)
        in == TypeOf(fields, f.parent)
        columns == IF ResizesColumns(f.type)
                   THEN Clamp(colSpan, 1, COLUMN_COUNT - f.column) ELSE f.colSpan
        rows == IF ResizesRows(f.type) THEN Larger(1, rowSpan) ELSE f.rowSpan
        sized == [f EXCEPT !.rowSpan = rows, !.colSpan = columns]
        resized == Each(fields, LAMBDA g : IF g.id = id THEN sized ELSE g)
        pushed == GiveWay(resized, sized, f.parent, Downwards)
    IN  IF \/ sized = f
           \/ f.type = Group /\ ~HoldsChildren(fields, f, rows, columns)
           \/ in # Subform /\ Right(sized) > COLUMN_COUNT
           \/ in = Group /\ Right(sized) > Right(Find(fields, f.parent))
           \/ pushed.tooComplex
        THEN fields
        ELSE NormalizeRichText(EncloseChildren(pushed.fields, f.parent, 0))

---------------------------------------------------------------------------
(* placePastedFields: the first free rectangle in the scope of the copied  *)
(* field, rows from the top, columns by their distance from the original.  *)

Nearer(a, b, column) ==
    LET away(c) == IF c < column THEN column - c ELSE c - column
    IN  away(a) < away(b) \/ (away(a) = away(b) /\ a <= b)

(* copies[1] is the root of the copied subtree.                            *)
PastePlaces(fields, root, rowSpan, colSpan) ==
    LET in == TypeOf(fields, root.parent)
        siblings == Siblings(fields, root.parent)
        start == ScopeColumn(fields, root.parent)
        top == IF HasField(fields, root.parent) THEN Find(fields, root.parent).row ELSE 0
    IN  {p \in [row : top .. LowestBottom(siblings, top),
                column : start .. (start + ScopeColumns(fields, root.parent) - colSpan)] :
            \A f \in siblings :
                ~Overlap([row |-> p.row, column |-> p.column,
                          rowSpan |-> rowSpan, colSpan |-> colSpan], f)}

CanPaste(fields, copies) ==
    LET root == copies[1]
        table == TypeOf(fields, root.parent) = Subform
    IN  /\ root.parent = Root \/ HasField(fields, root.parent)
        /\ PastePlaces(fields, root, IF table THEN 1 ELSE root.rowSpan,
                       IF table THEN 1 ELSE root.colSpan) # {}

PasteFields(fields, copies) ==
    LET root == copies[1]
        table == TypeOf(fields, root.parent) = Subform
        rowSpan == IF table THEN 1 ELSE root.rowSpan
        colSpan == IF table THEN 1 ELSE root.colSpan
        places == PastePlaces(fields, root, rowSpan, colSpan)
        place == CHOOSE p \in places : \A q \in places :
                    p.row < q.row \/ (p.row = q.row /\ Nearer(p.column, q.column, root.column))
        moved == Each(copies, LAMBDA f :
            [f EXCEPT !.row = @ + place.row - root.row,
                      !.column = IF TypeOf(copies, f.parent) = Subform THEN @
                                 ELSE @ + place.column - root.column,
                      !.rowSpan = IF f.id = root.id THEN rowSpan ELSE @,
                      !.colSpan = IF f.id = root.id THEN colSpan ELSE @])
    IN  ExpandToFit(fields \o moved, root.parent, place.row + rowSpan)

---------------------------------------------------------------------------
(* A schema on its way to the server and back: buildSchema sorts, the      *)
(* validators refuse, normalizeSubformChildLayouts repairs.                *)

Sorted(fields) ==
    LET rank(i) == Cardinality({j \in DOMAIN fields :
                        \/ Before(fields[j], fields[i])
                        \/ ~Before(fields[i], fields[j]) /\ j <= i})
    IN  [r \in DOMAIN fields |-> fields[CHOOSE i \in DOMAIN fields : rank(i) = r]]

BuildSchema(fields) == Sorted(NormalizeRichText(fields))

(* validateDesignerSchema: no container is empty.                          *)
SchemaValid(fields) ==
    \A id \in Ids(fields) : IsContainer(TypeOf(fields, id)) => Siblings(fields, id) # {}

(* What parseDesignerSource refuses of a layout.                           *)
Parses(fields) ==
    /\ SchemaValid(fields)
    /\ \A i \in DOMAIN fields :
        /\ fields[i].row >= 0 /\ fields[i].column >= 0
        /\ fields[i].rowSpan >= 1 /\ fields[i].colSpan >= 1
        /\ Right(fields[i]) <= COLUMN_COUNT
        /\ fields[i].parent # Root => IsContainer(TypeOf(fields, fields[i].parent))

TablePlace(table, occupied, child, maxRow) ==
    LET taken(row, column) ==
            \E i \in DOMAIN occupied : occupied[i].row = row /\ occupied[i].column = column
        row == Larger(table.row, child.row)
        free == CHOOSE n \in 0 .. Len(occupied) :
                    /\ ~taken(table.row + n \div COLUMN_COUNT, n % COLUMN_COUNT)
                    /\ \A m \in 0 .. n - 1 :
                        taken(table.row + m \div COLUMN_COUNT, m % COLUMN_COUNT)
    IN  IF row > maxRow \/ child.column \notin 0 .. COLUMN_COUNT - 1 \/ taken(row, child.column)
        THEN [row |-> table.row + free \div COLUMN_COUNT, column |-> free % COLUMN_COUNT]
        ELSE [row |-> row, column |-> child.column]

NormalizeTable(fields, table) ==
    LET children == Sorted(SelectSeq(fields, LAMBDA f : f.parent = table.id))
        maxRow == table.row + Larger(0, Len(children) - 1) \div COLUMN_COUNT
        Put(occupied, child) ==
            LET place == TablePlace(table, occupied, child, maxRow)
            IN  Append(occupied, [child EXCEPT !.row = place.row, !.column = place.column,
                                               !.rowSpan = 1, !.colSpan = 1])
        placed == FoldLeft(Put, << >>, children)
    IN  Each(fields, LAMBDA f : IF HasField(placed, f.id) THEN Find(placed, f.id) ELSE f)

NormalizeSubforms(fields) ==
    FoldLeft(NormalizeTable, fields, Only(fields, {id \in Ids(fields) : TypeOf(fields, id) = Subform}))

=============================================================================
