--------------------------- MODULE DesignerCanvas ---------------------------
(***************************************************************************)
(* The canvas of the form designer (DesignerScreen.tsx,                    *)
(* DesignerCanvas.tsx): drops of new and of placed fields on cells and     *)
(* beside fields, resizing, removal, copy and paste, and opening a saved   *)
(* schema again.                                                           *)
(***************************************************************************)
EXTENDS DesignerLayout

CONSTANTS
    FieldIds,           \* the ids that may be given out
    Types,              \* the component types of the palette
    MaxRow,             \* bound: layouts that reach further down are left out
    MaxSame,            \* bound: layouts with more fields of a type are left out
    MaxPlaced,          \* bound: with so many fields nothing is added or copied;
                        \* with more, on a stale canvas with as many, only removed
    MaxKept             \* bound: with more fields, placed and copied together,
                        \* a copy is pasted at once or not at all

ASSUME DesignerAssumption ==
    /\ COLUMN_COUNT \in Nat \ {0} /\ MIN_ROW_COUNT \in Nat /\ MaxRow \in Nat
    /\ MaxPlaced \in Nat /\ MaxSame \in Nat /\ MaxKept \in Nat
    /\ Root \notin FieldIds /\ "incoming" \notin FieldIds
    /\ Types \subseteq ComponentTypes

VARIABLES
    fields,             \* the array of placed fields
    clipboard,          \* copiedFieldsRef: a field first, then what is inside
    stale               \* auxiliary: since the designer was blank, a rich text
                        \* was pasted that is narrower than its group

canvasVars == << fields, clipboard, stale >>

Placed == Ids(fields)
Field(id) == Find(fields, id)
Children(id) == Siblings(fields, id)

---------------------------------------------------------------------------
(* What the canvas shows: a field in the cell of its upper left corner, if *)
(* its parent has that cell; the other cells are free or covered.          *)

CellsOf(parent) ==
    IF parent = Root
    THEN (0 .. RowCount(fields) - 1) \X (0 .. COLUMN_COUNT - 1)
    ELSE LET p == Field(parent)
         IN  IF p.type = Group
             THEN (p.row .. Bottom(p) - 1) \X (p.column .. Right(p) - 1)
             ELSE (p.row .. Max({p.row} \union {f.row : f \in Children(parent)}))
                  \X (0 .. COLUMN_COUNT - 1)

FreeCells(parent) ==
    LET children == Children(parent)
    IN  {cell \in CellsOf(parent) : ~CellCovered(children, cell[1], cell[2])}

InItsCell(id) ==
    LET f == Field(id)
    IN  /\ <<f.row, f.column>> \in CellsOf(f.parent)
        /\ \A other \in Placed \ {id} :
            \/ Field(other).parent # f.parent
            \/ Field(other).row # f.row \/ Field(other).column # f.column

Shown(id) ==
    /\ InItsCell(id)
    /\ \A above \in Placed : id \in Descendants(fields, above) => InItsCell(above)

Scopes == {Root} \union {id \in Placed : IsContainer(Field(id).type) /\ Shown(id)}

(* Where a drag may end: in a free cell, or in the room that an insertion  *)
(* beside a field makes.                                                   *)
CellPlans ==
    UNION {{[fields |-> fields,
             target |-> [row |-> cell[1], column |-> cell[2], parent |-> parent]] :
                cell \in FreeCells(parent)} : parent \in Scopes}

InsertionPlans(incoming) ==
    {[fields |-> plan.fields, target |-> plan.target] :
        plan \in {p \in UNION {{PlanInsertion(fields, incoming, Field(id), d) : d \in Directions} :
                            id \in {g \in Placed : Shown(g)}} : p.valid}}

Plans(incoming) == CellPlans \union InsertionPlans(incoming)

Within(layout) ==
    /\ LowestBottom(Range(layout), 0) <= MaxRow
    /\ \A type \in Types : Len(SelectSeq(layout, LAMBDA f : f.type = type)) <= MaxSame
Few == Cardinality(Placed) <= IF stale THEN MaxPlaced - 1 ELSE MaxPlaced

---------------------------------------------------------------------------
(* Operations.                                                             *)

InitialSize(type) ==
    [rowSpan |-> IF type \in {Group, Area} THEN 2 ELSE 1,
     colSpan |-> CASE type = Group -> 2
                   [] type \in {Subform, RichText} -> COLUMN_COUNT
                   [] OTHER -> 1]

(* A component of the palette is dropped (handleDesignerDragEnd).          *)
Dropped(plan, incoming) ==
    LET parent == plan.target.parent
        full == incoming.type \in {Subform, RichText}
        sized == SizeIn(plan.fields, incoming, parent)
        field == [id |-> incoming.id, type |-> incoming.type, row |-> plan.target.row,
                  column |-> IF full THEN ScopeColumn(plan.fields, parent)
                             ELSE plan.target.column,
                  rowSpan |-> sized.rowSpan, colSpan |-> sized.colSpan, parent |-> parent]
        room == ExpandToFit(plan.fields, parent, field.row + field.rowSpan)
    IN  IF \/ /\ TypeOf(plan.fields, parent) = Subform
              /\ IsContainer(incoming.type) \/ incoming.type = RichText
           \/ ~CanPlace(room, Root, field, parent)
        THEN fields
        ELSE NormalizeRichText(Append(room, field))

\* No id is given out twice; what was copied remembers where it was.
CopiedFrom(id) == clipboard # << >> /\ clipboard[1].parent = id

AddField(id, type) ==
    LET incoming == [id |-> id, type |-> type, rowSpan |-> InitialSize(type).rowSpan,
                     colSpan |-> InitialSize(type).colSpan]
    IN  /\ id \notin Placed /\ ~CopiedFrom(id) /\ Cardinality(Placed) < MaxPlaced
        /\ \E layout \in {Dropped(plan, incoming) : plan \in Plans(incoming)} \ {fields} :
            Within(layout) /\ fields' = layout

(* A placed field is dragged (handleDesignerDragEnd).                      *)
Dragged(plan, id) ==
    LET t == plan.target
        height == IF TypeOf(plan.fields, t.parent) = Subform THEN 1 ELSE Field(id).rowSpan
    IN  MoveField(ExpandToFit(plan.fields, t.parent, t.row + height),
                  id, t.row, t.column, t.parent)

DragField(id) ==
    /\ id \in Placed /\ Shown(id) /\ Few
    /\ \E layout \in {Dragged(plan, id) : plan \in Plans(Field(id))} \ {fields} :
        Within(layout) /\ fields' = layout

(* A handle of the selected field is dragged as far as one likes           *)
(* (endResizing): resizeField cuts what is too small or leaves the canvas. *)
Resize(id) ==
    /\ id \in Placed /\ Shown(id) /\ Few
    /\ \E layout \in {ResizeField(fields, id, rowSpan, colSpan) :
                        rowSpan \in IF ResizesRows(Field(id).type) THEN 1 .. MaxRow ELSE {1},
                        colSpan \in IF ResizesColumns(Field(id).type)
                                    THEN 1 .. COLUMN_COUNT ELSE {1}} \ {fields} :
        Within(layout) /\ fields' = layout

(* removeField: with everything inside.                                    *)
RemoveField(id) ==
    /\ id \in Placed /\ Shown(id)
    /\ fields' = Without(fields, {id} \union Descendants(fields, id))

(* Ctrl-C keeps a field and everything inside it as they are now; Ctrl-V   *)
(* gives the copies new ids, under which they keep to each other, and      *)
(* places them with the sizes they had.                                    *)
Subtree(id) == << Field(id) >> \o Only(fields, Descendants(fields, id))

Copy(id) ==
    /\ id \in Placed /\ Shown(id) /\ Cardinality(Placed) < MaxPlaced
    /\ clipboard' = Subtree(id)
    /\ UNCHANGED << fields, stale >>

Renamed(subtree, fresh) ==
    LET new(old) == IF old \in Ids(subtree) THEN fresh[old] ELSE old
    IN  Each(subtree, LAMBDA f : [f EXCEPT !.id = new(@), !.parent = new(@)])

Narrow(root) == root.type = RichText /\ root.colSpan # ScopeColumns(fields, root.parent)

\* The clipboard outlives every change; MaxKept bounds how long.
KeepsClipboard ==
    clipboard' = IF Cardinality(Placed') + Len(clipboard) <= MaxKept THEN clipboard ELSE << >>

StaysStale == stale /\ (fields' # << >> \/ clipboard' # << >>)

Paste ==
    /\ clipboard # << >> /\ Few
    /\ \E fresh \in Injection(Ids(clipboard), FieldIds \ Placed) :
        /\ CanPaste(fields, Renamed(clipboard, fresh))
        /\ fields' = PasteFields(fields, Renamed(clipboard, fresh))
        /\ Within(fields')
    /\ KeepsClipboard /\ stale' = (Narrow(clipboard[1]) \/ StaysStale)

(* The schema is saved (persistCurrentSchema) and opened: in a new tab     *)
(* (loadSchema), where one that is refused leaves the designer blank, or   *)
(* in this one (handleRestore), which keeps what was copied.               *)
Opened(layout) == NormalizeSubforms(NormalizeRichText(BuildSchema(layout)))

Reopen ==
    /\ Few /\ SchemaValid(fields)
    /\ fields' = IF Parses(BuildSchema(fields)) THEN Opened(fields) ELSE << >>
    /\ clipboard' = << >> /\ stale' = StaysStale

ShowSaved ==
    /\ Few /\ SchemaValid(fields) /\ Parses(BuildSchema(fields))
    /\ fields' = Opened(fields)
    /\ KeepsClipboard /\ stale' = StaysStale

CanvasInit == fields = << >> /\ clipboard = << >> /\ stale = FALSE

Rearrange ==
    /\ \E id \in FieldIds :
        \/ \E type \in Types : AddField(id, type)
        \/ DragField(id) \/ Resize(id) \/ RemoveField(id)
    /\ KeepsClipboard /\ stale' = StaysStale

CanvasNext ==
    \/ Rearrange
    \/ \E id \in FieldIds : Copy(id)
    \/ Paste \/ Reopen \/ ShowSaved

CanvasSpec == CanvasInit /\ [][CanvasNext]_canvasVars

---------------------------------------------------------------------------
(* Two fields of one grid never cover the same cell, whatever was dropped, *)
(* pushed aside, grown or pasted: the canvas would render one of them over *)
(* the other's cells, and the covered one could not be reached again.  The *)
(* code has one exception: a rich text that was copied, and pasted after   *)
(* its group had become wider, lies too narrow until a later edit spreads  *)
(* it over whatever was put beside it (placePastedFields,                  *)
(* normalizeRichTextLayouts).  When that edit makes room for a drop, the   *)
(* room is covered, the drop is refused, and whoever made room stays on    *)
(* the field that was to be dragged: from then on nothing is sure.         *)
NoOverlap ==
    ~stale => \A a, b \in Placed :
        a # b /\ Field(a).parent = Field(b).parent => ~Overlap(Field(a), Field(b))

(* A schema that the validation before a save lets pass is one that the    *)
(* designer can open again: no field is pushed over the last column.       *)
OpensAgain == SchemaValid(fields) => Parses(BuildSchema(fields))

Kept == {id \in Placed : HasField(fields', id)}

(* A group takes what it holds with it: pushed aside, pulled down by a     *)
(* growing neighbour or dragged, what stays in it keeps its place in it.   *)
MovesWithItsParent(f, g) ==
    f.parent \in Kept /\ g.parent = f.parent /\ f.type # RichText =>
        LET p == Find(fields, f.parent) q == Find(fields', f.parent)
        IN  q.row # p.row \/ q.column # p.column =>
                /\ g.row - f.row = q.row - p.row
                /\ g.column - f.column = q.column - p.column

GroupsMoveWhole ==
    [][\A id \in Kept : MovesWithItsParent(Find(fields, id), Find(fields', id))]_fields

(* A child of a group lies on the cells of the group.                      *)
InsideGroup(layout, f) ==
    TypeOf(layout, f.parent) = Group =>
        LET p == Find(layout, f.parent)
        IN  /\ f.row >= p.row /\ f.column >= p.column
            /\ Bottom(f) <= Bottom(p) /\ Right(f) <= Right(p)

(* A field leaves the cells of its group, and with them the screen, in two *)
(* ways only.  A group beside it grows: it pushes what is below it, and    *)
(* the group around them follows its new end, not what it pushed.  Or the  *)
(* group is resized: its rich texts are not asked (resizeField).           *)
NeighbourGrows(f) ==
    \E id \in Kept \ {f.id} :
        LET h == Find(fields, id)
        IN  /\ h.type = Group /\ h.parent = f.parent
            /\ Find(fields', id).rowSpan > h.rowSpan

Escapes(f, g) ==
    g.parent = f.parent /\ ~InsideGroup(fields', g) /\ InsideGroup(fields, f)

EscapesOnlyWhenGrown ==
    [][\A id \in Kept :
        LET f == Find(fields, id)
        IN  Escapes(f, Find(fields', id)) =>
                \/ NeighbourGrows(f)
                \/ /\ f.type = RichText
                   /\ Find(fields', f.parent).rowSpan < Find(fields, f.parent).rowSpan]_fields

=============================================================================
