---------------------------- MODULE LayoutProofs ----------------------------
(***************************************************************************)
(* The layout rules of the form designer keep a form in order, whatever    *)
(* its fields are.  Good, which a step of DesignerCanvas keeps, says that  *)
(* parents are groups without a cycle (Tree), every field lies in the      *)
(* columns of its scope and not above it (Scoped), siblings do not lie on  *)
(* each other (~Clash) and rich texts fill their scopes (Fills).  It lasts *)
(* until a rich text is pasted that was copied while its group was         *)
(* narrower: the canvas is then stale.  What was copied and is kept goes   *)
(* with it in the inductive invariant (InOrder): it is a subtree of some   *)
(* layout K that was good, and what it hangs on in the canvas is a group.  *)
(*                                                                         *)
(* The canvas changes by two procedures, each a loop: ExpandToFit climbs   *)
(* from group to group, and GiveWay pushes siblings aside.  Both come with *)
(* a predicate on their intermediate states (ClimbStates, PushStates) that *)
(* a step keeps.  While a push goes on siblings do overlap: PushStates     *)
(* says that one of any two such siblings still waits in the queue, as it  *)
(* lies.  Keeps(L, M, K, T) says how such a loop turns L into M: whoever's *)
(* parent is not in K moves as its parent does, and the groups in T stay   *)
(* where they are, though they may grow.  Holds(L, M, Y) says that the     *)
(* fields Y that lay in the rows of their groups in L do so in M, or one   *)
(* beside them grew; a climb that is not over yet holds the fields of      *)
(* the group that is next by the row it has to reach (ClimbHolds).         *)
(***************************************************************************)
EXTENDS LayoutTerms, WellFoundedInduction, FiniteSetTheorems, SequenceTheorems, TLAPS

-----------------------------------------------------------------------------
(* Layouts, and a field in one. *)

LEMMA EmptyConcat ==
  ASSUME NEW S, NEW s \in Seq(S)
  PROVE  << >> \o s = s
  BY ConcatEmptySeq

LEMMA FirstNumbers ==
  ASSUME NEW n \in Nat
  PROVE  IsFiniteSet(1 .. n) /\ Cardinality(1 .. n) = n
  BY FS_Interval

LEMMA LayoutFacts ==
  ASSUME NEW L \in Layouts
  PROVE  /\ DOMAIN L = 1 .. Len(L) /\ Len(L) \in Nat
         /\ \A i \in DOMAIN L : L[i] \in Fields /\ L[i].id \in Ids(L) /\ Find(L, L[i].id) = L[i]
         /\ \A x \in Ids(L) : \E i \in DOMAIN L : L[i].id = x /\ Find(L, x) = L[i]
         /\ \A x : HasField(L, x) <=> x \in Ids(L)
         /\ \A x : TypeOf(L, x) = IF x \in Ids(L) THEN Find(L, x).type ELSE "canvas"
<1>1. /\ DOMAIN L = 1 .. Len(L) /\ Len(L) \in Nat
      /\ \A i \in DOMAIN L : L[i] \in Fields
  BY DEF Layouts
<1>2. ASSUME NEW i \in DOMAIN L PROVE Find(L, L[i].id) = L[i]
  <2> DEFINE j == CHOOSE j \in DOMAIN L : L[j].id = L[i].id
  <2>1. j \in DOMAIN L /\ L[j].id = L[i].id
    OBVIOUS
  <2>2. j = i
    BY <2>1 DEF Layouts, OneEach
  <2> QED BY <2>2 DEF Find
<1>3. \A i \in DOMAIN L : L[i].id \in Ids(L)
  BY DEF Ids
<1>4. \A x \in Ids(L) : \E i \in DOMAIN L : L[i].id = x /\ Find(L, x) = L[i]
  BY <1>2 DEF Ids
<1>5. \A x : HasField(L, x) <=> x \in Ids(L)
  BY DEF HasField, Ids
<1> QED BY <1>1, <1>2, <1>3, <1>4, <1>5 DEF TypeOf

LEMMA FindIsField ==
  ASSUME NEW L \in Layouts, NEW x \in Ids(L)
  PROVE  Find(L, x) \in Fields /\ Find(L, x).id = x /\ x \in FieldIds
  BY LayoutFacts DEF Fields

LEMMA Mapped ==
  ASSUME NEW L \in Layouts, NEW G, DOMAIN G = DOMAIN L,
         \A i \in DOMAIN L : G[i] \in Fields /\ G[i].id = L[i].id,
         G = [i \in DOMAIN G |-> G[i]]
  PROVE  /\ << >> \o G = G /\ G \in Layouts /\ Ids(G) = Ids(L) /\ Len(G) = Len(L)
         /\ \A i \in DOMAIN L : Find(G, L[i].id) = G[i]
<1>1. G \in Seq(Fields) /\ Len(G) = Len(L)
  <2>1. DOMAIN G = 1 .. Len(L) /\ Len(L) \in Nat
    BY LayoutFacts
  <2> QED BY <2>1
<1>2. << >> \o G = G
  BY <1>1, EmptyConcat
<1>3. OneEach(G)
  BY DEF OneEach, Layouts
<1>4. G \in Layouts
  BY <1>1, <1>3 DEF Layouts
<1>5. Ids(G) = Ids(L)
  BY DEF Ids
<1> QED BY <1>1, <1>2, <1>4, <1>5, LayoutFacts

-----------------------------------------------------------------------------
(* Trees: what is in a field, directly or further down. *)

LEMMA WithinExists ==
  ASSUME NEW L, NEW P
  PROVE  \E w : IsWithin(L, P, w)
<1> DEFINE Enters(i, S) == \/ L[i].parent \in P
                           \/ \E j \in DOMAIN L : /\ L[j].id = L[i].parent
                                                  /\ IsContainer(L[j].type)
                                                  /\ j \in S
           Closed(S) == \A i \in DOMAIN L : Enters(i, S) => i \in S
           Least == {i \in DOMAIN L : \A S \in SUBSET DOMAIN L : Closed(S) => i \in S}
           w == [i \in DOMAIN L |-> i \in Least]
<1>1. Closed(Least)
  <2>1. SUFFICES ASSUME NEW i \in DOMAIN L, Enters(i, Least),
                        NEW S \in SUBSET DOMAIN L, Closed(S)
                 PROVE  i \in S
    OBVIOUS
  <2>2. Enters(i, S)
    BY <2>1
  <2> QED BY <2>1, <2>2
<1>2. ASSUME NEW i \in Least PROVE Enters(i, Least)
  <2>1. SUFFICES ASSUME ~Enters(i, Least) PROVE FALSE
    OBVIOUS
  <2>2. Closed(Least \ {i})
    BY <1>1, <2>1
  <2> QED BY <2>2
<1>3. \A i \in DOMAIN L : i \in Least <=> Enters(i, Least)
  BY <1>1, <1>2
<1> HIDE DEF Least
<1>4. \A i \in DOMAIN L : w[i] <=> Enters(i, Least)
  BY <1>3
<1>5. \A i \in DOMAIN L : Enters(i, Least) <=>
                              \/ L[i].parent \in P
                              \/ \E j \in DOMAIN L : /\ L[j].id = L[i].parent
                                                     /\ IsContainer(L[j].type)
                                                     /\ w[j]
  OBVIOUS
<1> DEFINE Body(v, i) == \/ L[i].parent \in P
                         \/ \E j \in DOMAIN L : /\ L[j].id = L[i].parent
                                                /\ IsContainer(L[j].type)
                                                /\ v[j]
           In(i) == i \in Least
<1>6. \A i \in DOMAIN L : In(i) = Body(w, i)
  <2> SUFFICES ASSUME NEW i \in DOMAIN L PROVE In(i) = Body(w, i)
    OBVIOUS
  <2>1. In(i) <=> Body(w, i)
    BY <1>3, <1>5, Zenon
  <2>2. CASE i \in Least
    <3>1. In(i) = TRUE
      BY <2>2, Zenon
    <3>2. Body(w, i) = TRUE
      BY <2>1, <2>2, Zenon
    <3> HIDE DEF In, Body
    <3> QED BY <3>1, <3>2, Zenon
  <2>3. CASE i \notin Least
    <3>1. In(i) = FALSE
      BY <2>3
    <3>2. Body(w, i) = FALSE
      BY <2>1, <2>3
    <3> HIDE DEF In, Body
    <3> QED BY <3>1, <3>2, Zenon
  <2> QED BY <2>2, <2>3
<1>7. w = [i \in DOMAIN L |-> Body(w, i)]
  <2> HIDE DEF Body
  <2>1. w = [i \in DOMAIN L |-> In(i)]
    BY Zenon
  <2> HIDE DEF In, w
  <2>2. [i \in DOMAIN L |-> In(i)] = [i \in DOMAIN L |-> Body(w, i)]
    BY <1>6, Zenon
  <2> QED BY <2>1, <2>2, Zenon
<1> HIDE DEF w
<1>8. IsWithin(L, P, w)
  BY <1>7 DEF IsWithin
<1> QED BY <1>8

LEMMA DescendantsUnfold ==
  ASSUME NEW L \in Layouts, NEW P
  PROVE  /\ DescendantsOf(L, P) \in SUBSET Ids(L)
         /\ \A x \in Ids(L) : x \in DescendantsOf(L, P) <=>
                \/ Find(L, x).parent \in P
                \/ /\ Find(L, x).parent \in Ids(L)
                   /\ IsContainer(Find(L, Find(L, x).parent).type)
                   /\ Find(L, x).parent \in DescendantsOf(L, P)
<1> DEFINE w == CHOOSE w : IsWithin(L, P, w)
<1>1. IsWithin(L, P, w)
  BY WithinExists
<1>2. DescendantsOf(L, P) = {L[i].id : i \in {j \in DOMAIN L : w[j]}}
  BY DEF DescendantsOf, IsWithin
<1> HIDE DEF w
<1>3. \A i \in DOMAIN L : w[i] <=> \/ L[i].parent \in P
                                   \/ \E j \in DOMAIN L : /\ L[j].id = L[i].parent
                                                          /\ IsContainer(L[j].type)
                                                          /\ w[j]
  BY <1>1, Zenon DEF IsWithin
<1>4. \A i \in DOMAIN L : L[i].id \in DescendantsOf(L, P) <=> w[i]
  BY <1>2 DEF Layouts, OneEach
<1>5. DescendantsOf(L, P) \in SUBSET Ids(L)
  BY <1>2 DEF Ids
<1>6. ASSUME NEW x \in Ids(L)
      PROVE  x \in DescendantsOf(L, P) <=>
                \/ Find(L, x).parent \in P
                \/ /\ Find(L, x).parent \in Ids(L)
                   /\ IsContainer(Find(L, Find(L, x).parent).type)
                   /\ Find(L, x).parent \in DescendantsOf(L, P)
  <2>1. PICK i \in DOMAIN L : L[i].id = x /\ Find(L, x) = L[i]
    BY LayoutFacts
  <2>2. x \in DescendantsOf(L, P) <=> w[i]
    BY <1>4, <2>1
  <2>3. (\E j \in DOMAIN L : L[j].id = L[i].parent /\ IsContainer(L[j].type) /\ w[j])
        <=> /\ L[i].parent \in Ids(L)
            /\ IsContainer(Find(L, L[i].parent).type)
            /\ L[i].parent \in DescendantsOf(L, P)
    BY <1>4, LayoutFacts
  <2> QED BY <1>3, <2>1, <2>2, <2>3
<1> QED BY <1>5, <1>6

LEMMA RootIsNoId ==
  ASSUME NEW L \in Layouts
  PROVE  Root \notin Ids(L) /\ "incoming" \notin Ids(L)
  BY FindIsField, DesignerAssumption

LEMMA InsideTree ==
  ASSUME NEW L \in Layouts, Tree(L), NEW P
  PROVE  /\ DescendantsOf(L, P) \in SUBSET Ids(L)
         /\ \A x \in Ids(L) : x \in DescendantsOf(L, P)
                <=> Parent(L, x) \in P \/ Parent(L, x) \in DescendantsOf(L, P)
<1>1. DescendantsOf(L, P) \in SUBSET Ids(L)
  BY DescendantsUnfold
<1>2. ASSUME NEW x \in Ids(L)
      PROVE  x \in DescendantsOf(L, P)
                <=> Parent(L, x) \in P \/ Parent(L, x) \in DescendantsOf(L, P)
  <2>1. CASE Parent(L, x) \in DescendantsOf(L, P)
    <3>1. Parent(L, x) \in Ids(L) /\ Parent(L, x) # Root
      BY <1>1, <2>1, RootIsNoId
    <3>2. IsContainer(Find(L, Parent(L, x)).type)
      BY <3>1 DEF Tree, IsContainer
    <3> QED BY <2>1, <3>1, <3>2, DescendantsUnfold DEF Parent
  <2>2. CASE Parent(L, x) \notin DescendantsOf(L, P)
    BY <2>2, DescendantsUnfold DEF Parent
  <2> QED BY <2>1, <2>2
<1> QED BY <1>1, <1>2

LEMMA NoCircle ==
  ASSUME NEW L, Tree(L), NEW S \in SUBSET Ids(L), \A x \in S : Parent(L, x) \in S
  PROVE  S = {}
  BY DEF Tree

LEMMA MovedTree ==
  ASSUME NEW L \in Layouts, Tree(L), NEW P \in SUBSET Ids(L)
  PROVE  /\ Moved(L, P) \in SUBSET Ids(L) /\ P \subseteq Moved(L, P)
         /\ Root \notin Moved(L, P)
         /\ \A x \in Ids(L) : Parent(L, x) \in Moved(L, P) => x \in Moved(L, P)
         /\ \A x \in Ids(L) : x \in Moved(L, P) => x \in P \/ Parent(L, x) \in Moved(L, P)
  BY InsideTree, RootIsNoId DEF Moved

LEMMA SiblingsMoved ==
  ASSUME NEW L \in Layouts, Tree(L), NEW P \in SUBSET Ids(L), NEW q,
         \A x \in P : Parent(L, x) = q
  PROVE  /\ q \notin Moved(L, P)
         /\ \A x \in Ids(L) : Parent(L, x) = q => (x \in Moved(L, P) <=> x \in P)
<1>1. ASSUME q \in Moved(L, P) PROVE FALSE
  <2>1. \A x \in Moved(L, P) : Parent(L, x) \in Moved(L, P)
    BY <1>1, MovedTree
  <2>2. Moved(L, P) = {}
    BY <2>1, MovedTree, NoCircle
  <2> QED BY <1>1, <2>2
<1> QED BY <1>1, MovedTree

LEMMA ShiftedFacts ==
  ASSUME NEW f \in Fields, NEW dr \in Int, NEW dc \in Int
  PROVE  /\ Shifted(f, dr, dc) \in Fields /\ Shifted(f, dr, dc).id = f.id
         /\ Shifted(f, dr, dc).type = f.type /\ Shifted(f, dr, dc).parent = f.parent
         /\ Shifted(f, dr, dc).rowSpan = f.rowSpan /\ Shifted(f, dr, dc).colSpan = f.colSpan
         /\ Shifted(f, dr, dc).row = f.row + dr /\ Shifted(f, dr, dc).column = f.column + dc
<1>1. f.row + dr \in Int /\ f.column + dc \in Int
  BY DEF Fields
<1>2. Shifted(f, dr, dc) \in Fields
  BY <1>1 DEF Shifted, Fields
<1> QED BY <1>2 DEF Shifted, Fields

LEMMA TranslateIs ==
  ASSUME NEW L \in Layouts, NEW P \in SUBSET Ids(L), NEW dr \in Int, NEW dc \in Int
  PROVE  IsShift(L, Translate(L, P, dr, dc), P, dr, dc)
<1> DEFINE Op(f) == IF f.id \notin Moved(L, P) THEN f
                    ELSE [f EXCEPT !.row = @ + dr, !.column = @ + dc]
           G == [i \in DOMAIN L |-> Op(L[i])]
<1>1. Translate(L, P, dr, dc) = << >> \o G
  BY DEF Translate, Each, Moved
<1>2. ASSUME NEW f \in Fields PROVE Op(f) \in Fields /\ Op(f).id = f.id
  <2>1. CASE f.id \notin Moved(L, P)
    BY <2>1
  <2>2. CASE f.id \in Moved(L, P)
    <3>1. Op(f) = [f EXCEPT !.row = @ + dr, !.column = @ + dc]
      BY <2>2
    <3>2. f.row + dr \in Int /\ f.column + dc \in Int
      BY DEF Fields
    <3> QED BY <3>1, <3>2 DEF Fields
  <2> QED BY <2>1, <2>2
<1>3. DOMAIN G = DOMAIN L /\ G = [i \in DOMAIN G |-> G[i]] /\ \A i \in DOMAIN L : G[i] = Op(L[i])
  OBVIOUS
<1> HIDE DEF G, Op
<1>4. /\ << >> \o G = G /\ G \in Layouts /\ Ids(G) = Ids(L) /\ Len(G) = Len(L)
      /\ \A i \in DOMAIN L : Find(G, L[i].id) = G[i]
  BY <1>2, <1>3, LayoutFacts, Mapped
<1>5. \A x \in Ids(L) : Find(G, x) = Op(Find(L, x)) /\ Find(L, x).id = x
  BY <1>3, <1>4, LayoutFacts
<1>6. \A x \in Ids(L) : Op(Find(L, x)) = IF x \in Moved(L, P) THEN Shifted(Find(L, x), dr, dc)
                                        ELSE Find(L, x)
  BY <1>5 DEF Op, Shifted
<1> QED BY <1>1, <1>4, <1>5, <1>6 DEF IsShift

-----------------------------------------------------------------------------
(* The invariant. *)

LEMMA SameTreeTree ==
  ASSUME NEW L, NEW M, Tree(L), SameTree(L, M)
  PROVE  Tree(M)
<1>1. ASSUME NEW x \in Ids(M), Parent(M, x) # Root
      PROVE  Parent(M, x) \in Ids(M) /\ Find(M, Parent(M, x)).type = Group
  BY <1>1 DEF Tree, SameTree
<1>2. ASSUME NEW S \in SUBSET Ids(M), S # {} PROVE \E x \in S : Parent(M, x) \notin S
  <2>1. PICK x \in S : Parent(L, x) \notin S
    BY <1>2 DEF Tree, SameTree
  <2> QED BY <2>1 DEF SameTree
<1> QED BY <1>1, <1>2 DEF Tree

LEMMA SameTreeTrans ==
  ASSUME NEW L, NEW M, NEW N, SameTree(L, M), SameTree(M, N)
  PROVE  SameTree(L, N)
  BY DEF SameTree

(* What a field's parent gives it. *)
LEMMA ScopeFacts ==
  ASSUME NEW L \in Layouts, Tree(L), NEW x \in Ids(L)
  PROVE  /\ Find(L, x) \in Fields /\ Find(L, x).id = x
         /\ Parent(L, x) = Root \/ Parent(L, x) \in Ids(L)
         /\ Parent(L, x) \in Ids(L) => /\ Parent(L, x) # Root
                                       /\ Find(L, Parent(L, x)) \in Fields
                                       /\ Find(L, Parent(L, x)).type = Group
                                       /\ TypeOf(L, Parent(L, x)) = Group
         /\ Parent(L, x) = Root => TypeOf(L, Parent(L, x)) = "canvas"
         /\ ScopeColumn(L, Parent(L, x)) = IF Parent(L, x) = Root THEN 0 ELSE Find(L, Parent(L, x)).column
         /\ ScopeColumns(L, Parent(L, x)) = IF Parent(L, x) = Root THEN COLUMN_COUNT ELSE Find(L, Parent(L, x)).colSpan
         /\ ScopeRow(L, Parent(L, x)) \in Int /\ ScopeColumn(L, Parent(L, x)) \in Int
         /\ ScopeColumns(L, Parent(L, x)) \in Nat \ {0}
<1>1. Find(L, x) \in Fields /\ Find(L, x).id = x
  BY FindIsField
<1>2. Parent(L, x) = Root \/ Parent(L, x) \in Ids(L)
  BY DEF Tree
<1>3. Root \notin Ids(L)
  BY RootIsNoId
<1>4. CASE Parent(L, x) = Root
  <2>1. TypeOf(L, Parent(L, x)) = "canvas"
    BY <1>3, <1>4, LayoutFacts
  <2>2. ScopeColumn(L, Parent(L, x)) = 0 /\ ScopeColumns(L, Parent(L, x)) = COLUMN_COUNT
    BY <2>1 DEF ScopeColumn, ScopeColumns, Group
  <2> QED BY <1>1, <1>3, <1>4, <2>1, <2>2, DesignerAssumption DEF ScopeRow
<1>5. CASE Parent(L, x) \in Ids(L)
  <2>1. Parent(L, x) # Root
    BY <1>3, <1>5
  <2>2. Find(L, Parent(L, x)) \in Fields /\ Find(L, Parent(L, x)).type = Group
    BY <1>5, <2>1, FindIsField DEF Tree
  <2>3. TypeOf(L, Parent(L, x)) = Group
    BY <1>5, <2>2, LayoutFacts
  <2>4. ScopeColumn(L, Parent(L, x)) = Find(L, Parent(L, x)).column
        /\ ScopeColumns(L, Parent(L, x)) = Find(L, Parent(L, x)).colSpan
    BY <2>3 DEF ScopeColumn, ScopeColumns
  <2>5. Find(L, Parent(L, x)).row \in Int /\ Find(L, Parent(L, x)).column \in Int
        /\ Find(L, Parent(L, x)).colSpan \in Nat \ {0}
    BY <2>2 DEF Fields
  <2> QED BY <1>1, <1>5, <2>1, <2>2, <2>3, <2>4, <2>5 DEF ScopeRow
<1> QED BY <1>2, <1>4, <1>5

LEMMA ScopedKept ==
  ASSUME NEW L \in Layouts, Tree(L), NEW M \in Layouts, SameTree(L, M), NEW x \in Ids(L),
         RowShift(L, M, x) >= RowShift(L, M, Parent(L, x)),
         ColumnShift(L, M, x) = ColumnShift(L, M, Parent(L, x)),
         SameWidths(L, M)
  PROVE  (Scoped(L, x) => Scoped(M, x)) /\ (Fills(L, x) => Fills(M, x))
<1> DEFINE p == Parent(L, x)
<1>1. Tree(M) /\ x \in Ids(M) /\ Parent(M, x) = p /\ Find(M, x).type = Find(L, x).type
      /\ Find(M, x).colSpan = Find(L, x).colSpan /\ x # Root
  BY SameTreeTree, RootIsNoId DEF SameTree, SameWidths
<1>2. Find(L, x) \in Fields /\ Find(M, x) \in Fields
  BY <1>1, FindIsField
<1>3. CASE p = Root
  <2>1. ScopeColumn(L, p) = 0 /\ ScopeColumns(L, p) = COLUMN_COUNT /\ ScopeRow(L, p) = 0
        /\ ScopeColumn(M, p) = 0 /\ ScopeColumns(M, p) = COLUMN_COUNT /\ ScopeRow(M, p) = 0
    BY <1>1, <1>3, ScopeFacts DEF ScopeRow
  <2>2. Find(M, x).row >= Find(L, x).row /\ Find(M, x).column = Find(L, x).column
    BY <1>1, <1>2, <1>3 DEF RowShift, ColumnShift, Fields
  <2> HIDE DEF p
  <2>3. Scoped(L, x) => Scoped(M, x)
    BY <1>1, <1>2, <2>1, <2>2 DEF Scoped, Right, Fields, p
  <2> QED BY <1>1, <2>1, <2>2, <2>3 DEF Fills, p
<1>4. CASE p \in Ids(L)
  <2>1. p # Root /\ Find(L, p) \in Fields /\ Find(M, p) \in Fields
        /\ Find(M, p).colSpan = Find(L, p).colSpan
    BY <1>4, RootIsNoId, FindIsField DEF SameTree, SameWidths
  <2>2. /\ ScopeColumn(L, p) = Find(L, p).column /\ ScopeColumns(L, p) = Find(L, p).colSpan
        /\ ScopeRow(L, p) = Find(L, p).row
        /\ ScopeColumn(M, p) = Find(M, p).column /\ ScopeColumns(M, p) = Find(M, p).colSpan
        /\ ScopeRow(M, p) = Find(M, p).row
    BY <1>1, <2>1, ScopeFacts DEF ScopeRow
  <2>3. /\ Find(M, x).row - Find(L, x).row >= Find(M, p).row - Find(L, p).row
        /\ Find(M, x).column - Find(L, x).column = Find(M, p).column - Find(L, p).column
    BY <1>1, <2>1 DEF RowShift, ColumnShift
  <2> HIDE DEF p
  <2>4. Scoped(L, x) => Scoped(M, x)
    BY <1>1, <1>2, <2>1, <2>2, <2>3 DEF Scoped, Right, Fields, p
  <2>5. Fills(L, x) => Fills(M, x)
    BY <1>1, <1>2, <2>1, <2>2, <2>3 DEF Fills, Fields, p
  <2> QED BY <2>4, <2>5
<1> QED BY <1>3, <1>4, ScopeFacts

-----------------------------------------------------------------------------
(* Paths from the canvas inwards, and what follows its group. *)

LEMMA MovedUp ==
  ASSUME NEW L \in Layouts, Tree(L), NEW x \in Ids(L), Parent(L, x) \in Ids(L)
  PROVE  Moved(L, {x}) \subseteq Moved(L, {Parent(L, x)})
<1> DEFINE S == Moved(L, {x}) \ Moved(L, {Parent(L, x)})
<1>1. \A z \in S : Parent(L, z) \in S
  <2> SUFFICES ASSUME NEW z \in S PROVE Parent(L, z) \in S
    OBVIOUS
  <2>0. z \in Ids(L)
    BY MovedTree
  <2>1. Parent(L, x) \in Moved(L, {Parent(L, x)})
    BY MovedTree
  <2>2. z # x
    BY <2>0, <2>1, MovedTree
  <2>3. Parent(L, z) \in Moved(L, {x})
    BY <2>0, <2>2, MovedTree
  <2>4. Parent(L, z) \notin Moved(L, {Parent(L, x)})
    BY <2>0, MovedTree
  <2> QED BY <2>3, <2>4
<1>2. S \in SUBSET Ids(L)
  BY MovedTree
<1> HIDE DEF S
<1>3. S = {}
  BY <1>1, <1>2, NoCircle
<1> QED BY <1>3 DEF S

LEMMA SubtreesApart ==
  ASSUME NEW L \in Layouts, Tree(L), NEW x \in Ids(L), NEW y \in Ids(L), x # y,
         Parent(L, x) = Parent(L, y)
  PROVE  Moved(L, {x}) \cap Moved(L, {y}) = {}
<1> DEFINE S == Moved(L, {x}) \cap Moved(L, {y})
<1>0. Parent(L, x) \notin Moved(L, {x}) /\ Parent(L, x) \notin Moved(L, {y})
  BY SiblingsMoved
<1>1. ASSUME NEW z \in S PROVE Parent(L, z) \in S
  <2>1. z \in Ids(L)
    BY MovedTree
  <2>2. z # x
    <3> SUFFICES ASSUME x \in Moved(L, {y}) PROVE FALSE
      OBVIOUS
    <3> QED BY <1>0, MovedTree
  <2>3. z # y
    <3> SUFFICES ASSUME y \in Moved(L, {x}) PROVE FALSE
      OBVIOUS
    <3> QED BY <1>0, MovedTree
  <2> QED BY <2>1, <2>2, <2>3, MovedTree
<1>2. S \in SUBSET Ids(L)
  BY MovedTree
<1> QED BY <1>1, <1>2, NoCircle

LEMMA UpIs ==
  ASSUME NEW L \in Layouts, Tree(L), NEW p \in Ids(L) \union {Root}
  PROVE  Around(L, p, Up(L, p))
<1>0. Root \notin Ids(L)
  BY RootIsNoId
<1>1. CASE p = Root
  <2>1. Path(L, {Root})
    BY DEF Path
  <2>2. \A z \in Ids(L) : Root \notin Moved(L, {z})
    BY MovedTree
  <2>3. Up(L, p) = {Root}
    BY <1>1, <2>2 DEF Up
  <2> QED BY <1>0, <1>1, <2>1, <2>3 DEF Around
<1>2. CASE p \in Ids(L)
  <2> DEFINE A == {z \in Ids(L) : p \in Moved(L, {z})}
             K == A \union {Root}
  <2>1. p \in K
    BY <1>2, MovedTree
  <2>2. ASSUME NEW x \in A PROVE Parent(L, x) \in K
    <3>1. CASE Parent(L, x) = Root
      BY <3>1
    <3>2. CASE Parent(L, x) \in Ids(L)
      BY <3>2, MovedUp
    <3> QED BY <3>1, <3>2 DEF Tree
  <2>3. ASSUME NEW x \in A, NEW y \in A, Parent(L, x) = Parent(L, y) PROVE x = y
    BY <2>3, SubtreesApart
  <2>4. ASSUME NEW x \in Ids(L), Parent(L, x) = p PROVE x \notin A
    <3>1. p \notin Moved(L, {x})
      BY <2>4, SiblingsMoved
    <3> QED BY <3>1
  <2>5. Path(L, K)
    BY <1>0, <2>2, <2>3 DEF Path
  <2> QED BY <1>0, <2>1, <2>4, <2>5 DEF Around, Up
<1> QED BY <1>1, <1>2

LEMMA PathExists ==
  ASSUME NEW L \in Layouts, Tree(L), NEW p \in Ids(L) \union {Root}
  PROVE  \E K : Around(L, p, K)
BY UpIs

(* Whoever does not hold p holds nothing of what is around it. *)
LEMMA UpApart ==
  ASSUME NEW L \in Layouts, Tree(L), NEW x \in Ids(L), NEW p, p \notin Moved(L, {x})
  PROVE  Moved(L, {x}) \cap Up(L, p) = {}
<1>1. /\ Moved(L, {x}) \in SUBSET Ids(L) /\ Root \notin Moved(L, {x})
      /\ \A y \in Ids(L) : Parent(L, y) \in Moved(L, {x}) => y \in Moved(L, {x})
  BY MovedTree
<1>2. ASSUME NEW z \in Moved(L, {x}), z \in Up(L, p) PROVE FALSE
  <2>1. z \in Ids(L) /\ p \in Moved(L, {z})
    BY <1>1, <1>2 DEF Up
  <2>2. /\ Moved(L, {z}) \in SUBSET Ids(L)
        /\ \A y \in Moved(L, {z}) : y = z \/ Parent(L, y) \in Moved(L, {z})
    BY <2>1, MovedTree
  <2> DEFINE S == Moved(L, {z}) \ Moved(L, {x})
  <2>3. S \in SUBSET Ids(L)
    BY <2>2
  <2>4. ASSUME NEW y \in S PROVE Parent(L, y) \in S
    BY <1>1, <1>2, <2>2, <2>4
  <2> HIDE DEF S
  <2>5. S = {}
    BY <2>3, <2>4, NoCircle
  <2> QED BY <2>1, <2>5 DEF S
<1> QED BY <1>2

LEMMA PathSame ==
  ASSUME NEW L, NEW M, NEW K, Path(L, K), SameTree(L, M), L \in Layouts
  PROVE  Path(M, K)
<1>1. K \ {Root} \subseteq Ids(L)
  BY DEF Path
<1> QED BY <1>1 DEF Path, SameTree

LEMMA PathNotMoved ==
  ASSUME NEW L \in Layouts, Tree(L), NEW K, Path(L, K), NEW P \in SUBSET Ids(L), P \cap K = {}
  PROVE  Moved(L, P) \cap K = {}
<1>1. \A z \in Moved(L, P) \cap K : Parent(L, z) \in Moved(L, P) \cap K
  BY MovedTree DEF Path
<1>2. Moved(L, P) \cap K \in SUBSET Ids(L)
  BY MovedTree
<1> QED BY <1>1, <1>2, NoCircle

LEMMA StaysTrans ==
  ASSUME NEW L, NEW M, NEW N, NEW T, SameTree(L, M), Stays(L, M, T), Stays(M, N, T)
  PROVE  Stays(L, N, T)
  BY DEF Stays, SameTree

LEMMA FollowsSelf ==
  ASSUME NEW L \in Layouts, Tree(L), NEW K, NEW T
  PROVE  Follows(L, L, K) /\ Stays(L, L, T)
<1>1. ASSUME NEW x \in Ids(L) \union {Root} PROVE RowShift(L, L, x) = 0 /\ ColumnShift(L, L, x) = 0
  BY FindIsField DEF RowShift, ColumnShift, Fields
<1>2. \A x \in Ids(L) : Parent(L, x) \in Ids(L) \union {Root}
  BY DEF Tree
<1> QED BY <1>1, <1>2 DEF Follows, Stays, SameTree

LEMMA FollowsTrans ==
  ASSUME NEW L \in Layouts, Tree(L), NEW M \in Layouts, NEW N \in Layouts, NEW K,
         Follows(L, M, K), Follows(M, N, K)
  PROVE  Follows(L, N, K)
<1>1. SameTree(L, M) /\ SameTree(M, N) /\ SameTree(L, N)
  BY SameTreeTrans DEF Follows
<1>2. ASSUME NEW x \in Ids(L) \union {Root}
      PROVE  /\ RowShift(L, N, x) = RowShift(L, M, x) + RowShift(M, N, x)
             /\ ColumnShift(L, N, x) = ColumnShift(L, M, x) + ColumnShift(M, N, x)
  <2>1. CASE x = Root
    BY <2>1 DEF RowShift, ColumnShift
  <2>2. CASE x \in Ids(L)
    <3>1. x # Root
      BY <2>2, RootIsNoId
    <3>2. Find(L, x) \in Fields /\ Find(M, x) \in Fields /\ Find(N, x) \in Fields
      BY <1>1, <2>2, FindIsField DEF SameTree
    <3> QED BY <3>1, <3>2 DEF RowShift, ColumnShift, Fields
  <2> QED BY <2>1, <2>2
<1>3. ASSUME NEW x \in Ids(L), Parent(L, x) \notin K
      PROVE  /\ RowShift(L, N, x) = RowShift(L, N, Parent(L, x))
             /\ Find(L, x).type # RichText =>
                    ColumnShift(L, N, x) = ColumnShift(L, N, Parent(L, x))
  <2>1. Parent(L, x) \in Ids(L) \union {Root}
    BY DEF Tree
  <2>2. /\ RowShift(L, M, x) = RowShift(L, M, Parent(L, x))
        /\ Find(L, x).type # RichText =>
                    ColumnShift(L, M, x) = ColumnShift(L, M, Parent(L, x))
    BY <1>3 DEF Follows
  <2>3. /\ RowShift(M, N, x) = RowShift(M, N, Parent(L, x))
        /\ Find(L, x).type # RichText =>
                    ColumnShift(M, N, x) = ColumnShift(M, N, Parent(L, x))
    BY <1>1, <1>3 DEF Follows, SameTree
  <2> QED BY <1>2, <2>1, <2>2, <2>3
<1> QED BY <1>1, <1>3 DEF Follows

-----------------------------------------------------------------------------
(* Siblings are moved. *)

(* Siblings are moved, with everything in them. *)
LEMMA TranslateShifts ==
  ASSUME NEW L \in Layouts, Tree(L), NEW q, NEW P, InGrid(L, P, q), NEW dr \in Int, NEW dc \in Int,
         NEW M, IsShift(L, M, P, dr, dc)
  PROVE  /\ M \in Layouts /\ SameTree(L, M) /\ Tree(M) /\ Len(M) = Len(L)
         /\ SameWidths(L, M) /\ SameHeights(L, M)
         /\ \A x \in Ids(L) \union {Root} :
                /\ RowShift(L, M, x) = IF x \in Moved(L, P) THEN dr ELSE 0
                /\ ColumnShift(L, M, x) = IF x \in Moved(L, P) THEN dc ELSE 0
         /\ \A x \in Ids(L) : Parent(L, x) = q =>
                Find(M, x) = IF x \in P
                             THEN Shifted(Find(L, x), dr, dc)
                             ELSE Find(L, x)
         /\ q \in Ids(L) => Find(M, q) = Find(L, q)
<1>1. /\ M \in Layouts /\ Ids(M) = Ids(L) /\ Len(M) = Len(L)
      /\ \A x \in Ids(L) : Find(M, x) =
                IF x \in Moved(L, P)
                THEN Shifted(Find(L, x), dr, dc)
                ELSE Find(L, x)
  BY DEF IsShift, InGrid
<1>2. \A x \in Ids(L) : Find(L, x) \in Fields
  BY FindIsField
<1>3. ASSUME NEW x \in Ids(L)
      PROVE  /\ Parent(M, x) = Parent(L, x) /\ Find(M, x).type = Find(L, x).type
             /\ Find(M, x).colSpan = Find(L, x).colSpan /\ Find(M, x).rowSpan = Find(L, x).rowSpan
             /\ Find(M, x).row - Find(L, x).row = IF x \in Moved(L, P) THEN dr ELSE 0
             /\ Find(M, x).column - Find(L, x).column = IF x \in Moved(L, P) THEN dc ELSE 0
  BY <1>1, <1>2, ShiftedFacts DEF Parent, Fields
<1>4. SameTree(L, M) /\ SameWidths(L, M) /\ SameHeights(L, M)
  BY <1>1, <1>3 DEF SameTree, SameWidths, SameHeights
<1>5. Tree(M)
  BY <1>4, SameTreeTree
<1>6. Root \notin Ids(L) /\ Root \notin Moved(L, P)
  BY MovedTree, RootIsNoId DEF InGrid
<1>7. ASSUME NEW x \in Ids(L) \union {Root}
      PROVE  /\ RowShift(L, M, x) = IF x \in Moved(L, P) THEN dr ELSE 0
             /\ ColumnShift(L, M, x) = IF x \in Moved(L, P) THEN dc ELSE 0
  BY <1>3, <1>6 DEF RowShift, ColumnShift
<1>8. \A x \in Ids(L) : Parent(L, x) = q =>
                Find(M, x) = IF x \in P
                             THEN Shifted(Find(L, x), dr, dc)
                             ELSE Find(L, x)
  BY <1>1, SiblingsMoved DEF InGrid
<1>9. q \in Ids(L) => Find(M, q) = Find(L, q)
  BY <1>1, SiblingsMoved DEF InGrid
<1> QED BY <1>1, <1>4, <1>5, <1>7, <1>8, <1>9

LEMMA TranslateFollows ==
  ASSUME NEW L \in Layouts, Tree(L), NEW q, NEW P, InGrid(L, P, q), NEW dr \in Int, NEW dc \in Int,
         NEW M, IsShift(L, M, P, dr, dc), NEW K, q \in K
  PROVE  Follows(L, M, K)
<1>1. /\ SameTree(L, M)
      /\ \A x \in Ids(L) \union {Root} :
                /\ RowShift(L, M, x) = IF x \in Moved(L, P) THEN dr ELSE 0
                /\ ColumnShift(L, M, x) = IF x \in Moved(L, P) THEN dc ELSE 0
  BY TranslateShifts
<1>2. ASSUME NEW x \in Ids(L), Parent(L, x) \notin K
      PROVE  RowShift(L, M, x) = RowShift(L, M, Parent(L, x))
             /\ ColumnShift(L, M, x) = ColumnShift(L, M, Parent(L, x))
  <2>1. Parent(L, x) \in Ids(L) \union {Root}
    BY DEF Tree
  <2>2. x \in Moved(L, P) <=> Parent(L, x) \in Moved(L, P)
    BY <1>2, MovedTree DEF InGrid
  <2> QED BY <1>1, <2>1, <2>2
<1> QED BY <1>1, <1>2 DEF Follows

LEMMA TranslateStays ==
  ASSUME NEW L \in Layouts, Tree(L), NEW P \in SUBSET Ids(L),
         NEW dr \in Int, NEW dc \in Int,
         NEW M, IsShift(L, M, P, dr, dc), NEW T, Path(L, T), P \cap T = {}
  PROVE  Stays(L, M, T)
<1>1. \A x \in Ids(L) : x \notin Moved(L, P) => Find(M, x) = Find(L, x)
  BY DEF IsShift, InGrid
<1> QED BY <1>1, PathNotMoved DEF Stays

LEMMA TranslateScoped ==
  ASSUME NEW L \in Layouts, Tree(L), NEW q, NEW P, InGrid(L, P, q), NEW dr \in Int, NEW dc \in Int,
         NEW M, IsShift(L, M, P, dr, dc), NEW x \in Ids(L),
         x \notin P \/ (dr >= 0 /\ dc = 0)
  PROVE  (Scoped(L, x) => Scoped(M, x)) /\ (Fills(L, x) => Fills(M, x))
<1>1. /\ M \in Layouts /\ SameTree(L, M) /\ SameWidths(L, M)
      /\ \A z \in Ids(L) \union {Root} :
                /\ RowShift(L, M, z) = IF z \in Moved(L, P) THEN dr ELSE 0
                /\ ColumnShift(L, M, z) = IF z \in Moved(L, P) THEN dc ELSE 0
  BY TranslateShifts
<1>2. Parent(L, x) \in Ids(L) \union {Root}
  BY DEF Tree
<1>3. RowShift(L, M, x) >= RowShift(L, M, Parent(L, x))
      /\ ColumnShift(L, M, x) = ColumnShift(L, M, Parent(L, x))
  <2>1. CASE x \notin P
    <3>1. x \in Moved(L, P) <=> Parent(L, x) \in Moved(L, P)
      BY <2>1, MovedTree DEF InGrid
    <3> QED BY <1>1, <1>2, <3>1
  <2>2. CASE x \in P
    <3>1. Parent(L, x) \notin Moved(L, P) /\ x \in Moved(L, P) /\ dr >= 0 /\ dc = 0
      BY <2>2, SiblingsMoved, MovedTree DEF InGrid
    <3> QED BY <1>1, <1>2, <3>1
  <2> QED BY <2>1, <2>2
<1> QED BY <1>1, <1>3, ScopedKept

(* Two fields that are moved alike meet as they did. *)
LEMMA ClashKept ==
  ASSUME NEW f \in Fields, NEW g \in Fields, NEW h \in Fields, NEW k \in Fields,
         NEW dr \in Int, NEW dc \in Int,
         h.type = f.type, h.colSpan = f.colSpan, h.rowSpan = f.rowSpan,
         k.type = g.type, k.colSpan = g.colSpan, k.rowSpan = g.rowSpan,
         h.row = f.row + dr, k.row = g.row + dr,
         h.column = f.column + dc, k.column = g.column + dc
  PROVE  Clash(h, k) <=> Clash(f, g)
  BY DEF Clash, Meet, Bottom, Right, Fields

LEMMA TranslateApart ==
  ASSUME NEW L \in Layouts, Tree(L), NEW q, NEW P, InGrid(L, P, q), NEW dr \in Int, NEW dc \in Int,
         NEW M, IsShift(L, M, P, dr, dc), NEW x \in Ids(L), NEW y \in Ids(L),
         Parent(L, x) = Parent(L, y), Parent(L, x) # q
  PROVE  Clash(Find(M, x), Find(M, y)) <=> Clash(Find(L, x), Find(L, y))
<1>1. /\ M \in Layouts /\ Ids(M) = Ids(L)
      /\ \A z \in Ids(L) : Find(M, z) =
                IF z \in Moved(L, P)
                THEN Shifted(Find(L, z), dr, dc)
                ELSE Find(L, z)
  BY DEF IsShift, InGrid
<1>2. Find(L, x) \in Fields /\ Find(L, y) \in Fields /\ Find(M, x) \in Fields /\ Find(M, y) \in Fields
  BY <1>1, FindIsField
<1>3. x \in Moved(L, P) <=> y \in Moved(L, P)
  BY MovedTree DEF InGrid
<1>4. CASE x \in Moved(L, P)
  <2>1. /\ Find(M, x) = Shifted(Find(L, x), dr, dc)
        /\ Find(M, y) = Shifted(Find(L, y), dr, dc)
    BY <1>1, <1>3, <1>4
  <2> HIDE DEF Clash
  <2> DEFINE f == Find(L, x) g == Find(L, y) h == Find(M, x) k == Find(M, y)
  <2>2. /\ h.type = f.type /\ h.colSpan = f.colSpan /\ h.rowSpan = f.rowSpan
        /\ k.type = g.type /\ k.colSpan = g.colSpan /\ k.rowSpan = g.rowSpan
        /\ h.row = f.row + dr /\ k.row = g.row + dr
        /\ h.column = f.column + dc /\ k.column = g.column + dc
    BY <1>2, <2>1, ShiftedFacts
  <2> HIDE DEF f, g, h, k
  <2>3. Clash(h, k) <=> Clash(f, g)
    <3>1. f \in Fields /\ g \in Fields /\ h \in Fields /\ k \in Fields
      BY <1>2 DEF f, g, h, k
    <3> QED BY <2>2, <3>1, ClashKept
  <2> QED BY <2>3 DEF f, g, h, k
<1>5. CASE x \notin Moved(L, P)
  BY <1>1, <1>3, <1>5
<1> QED BY <1>4, <1>5

-----------------------------------------------------------------------------
(* A group grows, what is below it makes room. *)

LEMMA TallerFacts ==
  ASSUME NEW f \in Fields, NEW n \in Nat
  PROVE  /\ Taller(f, n) \in Fields /\ Taller(f, n).id = f.id
         /\ Taller(f, n).type = f.type /\ Taller(f, n).parent = f.parent
         /\ Taller(f, n).row = f.row /\ Taller(f, n).column = f.column
         /\ Taller(f, n).colSpan = f.colSpan /\ Taller(f, n).rowSpan = f.rowSpan + n
<1>1. f.rowSpan + n \in Nat \ {0}
  BY DEF Fields
<1>2. Taller(f, n) \in Fields
  BY <1>1 DEF Taller, Fields
<1> QED BY <1>2 DEF Taller, Fields

LEMMA BelowFacts ==
  ASSUME NEW L \in Layouts, NEW c \in Ids(L)
  PROVE  /\ BelowIn(L, Find(L, c)) =
                {x \in Ids(L) \ {c} : /\ Parent(L, x) = Parent(L, c)
                                      /\ Find(L, x).row >= Bottom(Find(L, c))}
         /\ InGrid(L, BelowIn(L, Find(L, c)), Parent(L, c))
<1>1. Find(L, c).id = c
  BY FindIsField
<1> QED BY <1>1 DEF BelowIn, Parent, InGrid

LEMMA GrowthFacts ==
  ASSUME NEW f \in Fields, NEW n \in Int
  PROVE  Growth(f, n) \in Nat /\ Bottom(f) + Growth(f, n) >= n
  BY DEF Growth, Bottom, Larger, Fields

LEMMA GrownIs ==
  ASSUME NEW L \in Layouts, NEW c \in Ids(L), NEW n \in Int
  PROVE  IsGrown(L, Grown(L, c, n), c, Growth(Find(L, c), n))
<1> DEFINE d == Growth(Find(L, c), n)
           N == Translate(L, BelowIn(L, Find(L, c)), d, 0)
           Op(f) == IF f.id = c THEN [f EXCEPT !.rowSpan = @ + d] ELSE f
           G == [i \in DOMAIN N |-> Op(N[i])]
<1>0. d \in Nat
  BY FindIsField, GrowthFacts
<1>1. Grown(L, c, n) = << >> \o G
  BY DEF Grown, Each
<1>2. BelowIn(L, Find(L, c)) \in SUBSET Ids(L)
  BY BelowFacts
<1> HIDE DEF d
<1>3. IsShift(L, N, BelowIn(L, Find(L, c)), d, 0)
  BY <1>0, <1>2, TranslateIs
<1> HIDE DEF N
<1>4. N \in Layouts /\ Ids(N) = Ids(L) /\ Len(N) = Len(L)
  BY <1>3 DEF IsShift
<1>5. ASSUME NEW f \in Fields
      PROVE  Op(f) = (IF f.id = c THEN Taller(f, d) ELSE f) /\ Op(f) \in Fields /\ Op(f).id = f.id
  <2>1. Op(f) = IF f.id = c THEN Taller(f, d) ELSE f
    BY DEF Taller
  <2> QED BY <1>0, <2>1, TallerFacts
<1>6. DOMAIN G = DOMAIN N /\ G = [i \in DOMAIN G |-> G[i]] /\ \A i \in DOMAIN N : G[i] = Op(N[i])
  OBVIOUS
<1> HIDE DEF G, Op
<1>7. /\ << >> \o G = G /\ G \in Layouts /\ Ids(G) = Ids(N) /\ Len(G) = Len(N)
      /\ \A i \in DOMAIN N : Find(G, N[i].id) = G[i]
  BY <1>4, <1>5, <1>6, LayoutFacts, Mapped
<1>8. \A x \in Ids(N) : Find(G, x) = Op(Find(N, x)) /\ Find(N, x).id = x /\ Find(N, x) \in Fields
  BY <1>4, <1>6, <1>7, LayoutFacts
<1>9. \A x \in Ids(N) : Find(G, x) = IF x = c THEN Taller(Find(N, x), d) ELSE Find(N, x)
  BY <1>5, <1>8
<1> QED BY <1>1, <1>3, <1>4, <1>7, <1>9 DEF IsGrown, d

LEMMA KeptSelf ==
  ASSUME NEW L \in Layouts, Tree(L), NEW K, NEW T
  PROVE  Keeps(L, L, K, T)
<1>1. \A x \in Ids(L) : Find(L, x).rowSpan >= Find(L, x).rowSpan
  BY FindIsField DEF Fields
<1> QED BY <1>1, FollowsSelf DEF Keeps, SameWidths

LEMMA KeptTrans ==
  ASSUME NEW L \in Layouts, Tree(L), NEW M, NEW N, NEW K, NEW T, Keeps(L, M, K, T), Keeps(M, N, K, T)
  PROVE  Keeps(L, N, K, T)
<1>1. M \in Layouts /\ N \in Layouts /\ Len(N) = Len(L) /\ SameTree(L, M) /\ SameTree(M, N)
      /\ Ids(M) = Ids(L)
  BY DEF Keeps, Follows, SameTree
<1>2. Follows(L, N, K)
  BY <1>1, FollowsTrans DEF Keeps
<1>3. Stays(L, N, T)
  BY <1>1, StaysTrans DEF Keeps
<1>4. SameWidths(L, N) /\ \A x \in Ids(L) : Fills(L, x) => Fills(N, x)
  BY <1>1 DEF Keeps, SameWidths
<1>5. ASSUME NEW x \in Ids(L)
      PROVE  IF x \in T THEN Find(N, x).rowSpan >= Find(L, x).rowSpan
                        ELSE Find(N, x).rowSpan = Find(L, x).rowSpan
  <2>1. Find(L, x) \in Fields /\ Find(M, x) \in Fields /\ Find(N, x) \in Fields
    BY <1>1, FindIsField DEF SameTree
  <2>2. /\ IF x \in T THEN Find(M, x).rowSpan >= Find(L, x).rowSpan
                        ELSE Find(M, x).rowSpan = Find(L, x).rowSpan
        /\ IF x \in T THEN Find(N, x).rowSpan >= Find(M, x).rowSpan
                        ELSE Find(N, x).rowSpan = Find(M, x).rowSpan
    BY <1>1 DEF Keeps
  <2> QED BY <2>1, <2>2 DEF Fields
<1> QED BY <1>1, <1>2, <1>3, <1>4, <1>5 DEF Keeps

LEMMA GrownKeeps ==
  ASSUME NEW L \in Layouts, Tree(L), NEW T, Path(L, T), NEW K, NEW c \in Ids(L) \cap T,
         Parent(L, c) \in K, NEW d \in Nat, NEW M, IsGrown(L, M, c, d)
  PROVE  Keeps(L, M, K, T)
<1> DEFINE P == BelowIn(L, Find(L, c))
           q == Parent(L, c)
<1>1. PICK N \in Layouts :
        /\ IsShift(L, N, P, d, 0)
        /\ M \in Layouts /\ Ids(M) = Ids(L) /\ Len(M) = Len(L)
        /\ \A x \in Ids(L) : Find(M, x) = IF x = c THEN Taller(Find(N, x), d) ELSE Find(N, x)
  BY DEF IsGrown
<1>2. InGrid(L, P, q) /\ c \notin P
  BY BelowFacts
<1>3. P \cap T = {} /\ Root \notin Ids(L)
  BY <1>2, RootIsNoId DEF Path, InGrid
<1> HIDE DEF P, q
<1>4. Ids(N) = Ids(L) /\ \A x \in Ids(L) : Find(N, x) \in Fields
  BY <1>1, FindIsField DEF IsShift
<1>5. ASSUME NEW x \in Ids(L)
      PROVE  /\ Find(M, x).row = Find(N, x).row /\ Find(M, x).column = Find(N, x).column
             /\ Find(M, x).type = Find(N, x).type /\ Find(M, x).colSpan = Find(N, x).colSpan
             /\ Parent(M, x) = Parent(N, x)
             /\ Find(M, x).rowSpan = IF x = c THEN Find(N, x).rowSpan + d ELSE Find(N, x).rowSpan
  <2>1. Find(N, x) \in Fields
    BY <1>4
  <2>2. CASE x = c
    <3>1. Find(M, x) = Taller(Find(N, x), d)
      BY <1>1, <2>2
    <3> QED BY <2>1, <2>2, <3>1, TallerFacts DEF Parent
  <2>3. CASE x # c
    BY <1>1, <2>3 DEF Parent
  <2> QED BY <2>2, <2>3
<1>6. /\ SameTree(L, N) /\ Len(N) = Len(L) /\ SameWidths(L, N) /\ SameHeights(L, N)
  BY <1>1, <1>2, TranslateShifts
<1>7. SameTree(L, M) /\ SameWidths(L, M)
  BY <1>1, <1>5, <1>6 DEF SameTree, SameWidths
<1>8. Follows(L, N, K)
  BY <1>1, <1>2, TranslateFollows DEF q
<1>9. Stays(L, N, T)
  BY <1>1, <1>2, <1>3, TranslateStays DEF InGrid
<1>10. \A x \in Ids(L) \union {Root} : RowShift(L, M, x) = RowShift(L, N, x)
                                       /\ ColumnShift(L, M, x) = ColumnShift(L, N, x)
  BY <1>5 DEF RowShift, ColumnShift
<1>11. Follows(L, M, K)
  <2>1. \A x \in Ids(L) : Parent(L, x) \in Ids(L) \union {Root}
    BY DEF Tree
  <2> QED BY <1>7, <1>8, <1>10, <2>1 DEF Follows
<1>12. Stays(L, M, T)
  BY <1>5, <1>9 DEF Stays
<1>13. ASSUME NEW x \in Ids(L), Fills(L, x) PROVE Fills(M, x)
  <2>1. Fills(N, x)
    BY <1>1, <1>2, <1>13, TranslateScoped
  <2>2. Tree(N) /\ Tree(M)
    BY <1>6, <1>7, SameTreeTree
  <2>3. ScopeColumn(N, Parent(N, x)) = ScopeColumn(M, Parent(M, x))
        /\ ScopeColumns(N, Parent(N, x)) = ScopeColumns(M, Parent(M, x))
    <3>1. Parent(M, x) = Parent(N, x) /\ x \in Ids(N) /\ x \in Ids(M)
      BY <1>1, <1>4, <1>5
    <3>2. CASE Parent(N, x) = Root
      BY <1>1, <2>2, <3>1, <3>2, ScopeFacts
    <3>3. CASE Parent(N, x) \in Ids(N)
      <4>1. /\ Find(M, Parent(N, x)).column = Find(N, Parent(N, x)).column
            /\ Find(M, Parent(N, x)).colSpan = Find(N, Parent(N, x)).colSpan
        BY <1>4, <1>5, <3>3
      <4>2. Parent(N, x) # Root
        BY <3>3, RootIsNoId
      <4> QED BY <1>1, <2>2, <3>1, <4>1, <4>2, ScopeFacts
    <3> QED BY <2>2, <3>1, <3>2, <3>3, ScopeFacts
  <2> QED BY <1>5, <2>1, <2>3 DEF Fills
<1>14. ASSUME NEW x \in Ids(L)
      PROVE  IF x \in T THEN Find(M, x).rowSpan >= Find(L, x).rowSpan
                        ELSE Find(M, x).rowSpan = Find(L, x).rowSpan
  BY <1>4, <1>5, <1>6 DEF SameHeights, Fields
<1> QED BY <1>1, <1>7, <1>11, <1>12, <1>13, <1>14 DEF Keeps

LEMMA ClashSym ==
  ASSUME NEW f, NEW g
  PROVE  Clash(f, g) <=> Clash(g, f)
  BY DEF Clash, Meet

LEMMA GrowthApart ==
  ASSUME NEW f \in Fields, NEW g \in Fields, NEW d \in Nat, NEW b \in Int
  PROVE  /\ ~Clash(f, g) /\ f.row >= b /\ g.row < b => ~Clash(Shifted(f, d, 0), g)
         /\ ~Clash(f, g) /\ g.row < Bottom(f) => ~Clash(Taller(f, d), g)
         /\ g.row >= Bottom(f) => ~Clash(Taller(f, d), Shifted(g, d, 0))
<1>1. /\ Shifted(f, d, 0).type = f.type /\ Shifted(f, d, 0).rowSpan = f.rowSpan
      /\ Shifted(f, d, 0).colSpan = f.colSpan /\ Shifted(f, d, 0).row = f.row + d
      /\ Shifted(f, d, 0).column = f.column
      /\ Shifted(g, d, 0).row = g.row + d
      /\ Taller(f, d).type = f.type /\ Taller(f, d).rowSpan = f.rowSpan + d
      /\ Taller(f, d).colSpan = f.colSpan /\ Taller(f, d).row = f.row
      /\ Taller(f, d).column = f.column
  <2>1. /\ Shifted(f, d, 0).type = f.type /\ Shifted(f, d, 0).rowSpan = f.rowSpan
        /\ Shifted(f, d, 0).colSpan = f.colSpan /\ Shifted(f, d, 0).row = f.row + d
        /\ Shifted(f, d, 0).column = f.column + 0
        /\ Shifted(g, d, 0).row = g.row + d
    BY ShiftedFacts
  <2>2. f.column + 0 = f.column
    BY DEF Fields
  <2> QED BY <2>1, <2>2, TallerFacts
<1>2. /\ f.row \in Int /\ g.row \in Int /\ f.rowSpan \in Nat \ {0} /\ g.rowSpan \in Nat \ {0}
      /\ f.column \in Int /\ g.column \in Int /\ f.colSpan \in Nat \ {0} /\ g.colSpan \in Nat \ {0}
  BY DEF Fields
<1>3. ~Clash(f, g) /\ f.row >= b /\ g.row < b => ~Clash(Shifted(f, d, 0), g)
  BY <1>1, <1>2 DEF Clash, Meet, Bottom, Right
<1>4. ~Clash(f, g) /\ g.row < Bottom(f) => ~Clash(Taller(f, d), g)
  <2>1. Right(Taller(f, d)) = Right(f) /\ Taller(f, d).column = f.column
        /\ Taller(f, d).type = f.type /\ Taller(f, d).row = f.row
    BY <1>1 DEF Right
  <2>2. SUFFICES ASSUME Clash(Taller(f, d), g), g.row < Bottom(f) PROVE Clash(f, g)
    OBVIOUS
  <2>3. f.row < Bottom(g)
    BY <2>1, <2>2 DEF Clash, Meet
  <2> QED BY <2>1, <2>2, <2>3 DEF Clash, Meet
<1>5. g.row >= Bottom(f) => ~Clash(Taller(f, d), Shifted(g, d, 0))
  BY <1>1, <1>2 DEF Clash, Meet, Bottom
<1> QED BY <1>3, <1>4, <1>5

LEMMA GrownSound ==
  ASSUME NEW L, Sound(L, {}, {}), NEW c \in Ids(L), NEW d \in Nat, NEW M, IsGrown(L, M, c, d)
  PROVE  Sound(M, {}, {})
<1> DEFINE P == BelowIn(L, Find(L, c))
           q == Parent(L, c)
           C == Find(L, c)
<1>0. L \in Layouts /\ Tree(L)
  BY DEF Sound
<1>1. PICK N \in Layouts :
        /\ IsShift(L, N, P, d, 0)
        /\ M \in Layouts /\ Ids(M) = Ids(L) /\ Len(M) = Len(L)
        /\ \A x \in Ids(L) : Find(M, x) = IF x = c THEN Taller(Find(N, x), d) ELSE Find(N, x)
  BY DEF IsGrown
<1>2. InGrid(L, P, q)
      /\ P = {x \in Ids(L) \ {c} : Parent(L, x) = q /\ Find(L, x).row >= Bottom(C)}
  BY <1>0, BelowFacts
<1>3. c \notin P /\ \A x \in Ids(L) \ {c} : Parent(L, x) = q => (x \in P <=> Find(L, x).row >= Bottom(C))
  BY <1>2
<1> HIDE DEF P, q
<1>4. /\ SameTree(L, N) /\ Tree(N) /\ Ids(N) = Ids(L)
      /\ \A x \in Ids(L) : Parent(L, x) = q =>
                Find(N, x) = IF x \in P THEN Shifted(Find(L, x), d, 0) ELSE Find(L, x)
  BY <1>0, <1>1, <1>2, TranslateShifts DEF SameTree
<1>5. \A x \in Ids(L) : Find(L, x) \in Fields /\ Find(N, x) \in Fields
  BY <1>0, <1>1, <1>4, FindIsField
<1>6. ASSUME NEW x \in Ids(L)
      PROVE  /\ Find(M, x).row = Find(N, x).row /\ Find(M, x).column = Find(N, x).column
             /\ Find(M, x).type = Find(N, x).type /\ Find(M, x).colSpan = Find(N, x).colSpan
             /\ Parent(M, x) = Parent(N, x)
  <2>1. CASE x = c
    <3>1. Find(M, x) = Taller(Find(N, x), d)
      BY <1>1, <2>1
    <3> QED BY <1>5, <3>1, TallerFacts DEF Parent
  <2>2. CASE x # c
    BY <1>1, <2>2 DEF Parent
  <2> QED BY <2>1, <2>2
<1>7. SameTree(N, M) /\ SameWidths(N, M) /\ SameTree(L, M)
  BY <1>1, <1>4, <1>6 DEF SameTree, SameWidths
<1>8. ASSUME NEW x \in Ids(M) PROVE Scoped(M, x)
  <2>1. Scoped(L, x)
    BY <1>1, <1>8 DEF Sound
  <2>2. Scoped(N, x)
    BY <1>0, <1>1, <1>2, <1>8, <2>1, TranslateScoped
  <2>3. \A z \in Ids(L) \union {Root} : RowShift(N, M, z) = 0 /\ ColumnShift(N, M, z) = 0
    BY <1>5, <1>6 DEF RowShift, ColumnShift, Fields
  <2>4. x \in Ids(N) /\ Parent(N, x) \in Ids(L) \union {Root} /\ x \in Ids(L)
    BY <1>1, <1>4, <1>8 DEF Tree
  <2>5. RowShift(N, M, x) = 0 /\ ColumnShift(N, M, x) = 0
        /\ RowShift(N, M, Parent(N, x)) = 0 /\ ColumnShift(N, M, Parent(N, x)) = 0
    BY <2>3, <2>4
  <2>6. RowShift(N, M, x) >= RowShift(N, M, Parent(N, x))
    BY <2>5
  <2> QED BY <1>1, <1>4, <1>7, <2>2, <2>4, <2>5, <2>6, ScopedKept
<1>9. ASSUME NEW x \in Ids(M), NEW y \in Ids(M), x # y, Parent(M, x) = Parent(M, y)
      PROVE  ~Clash(Find(M, x), Find(M, y))
  <2>0. x \in Ids(L) /\ y \in Ids(L) /\ Parent(L, x) = Parent(M, x) /\ Parent(L, y) = Parent(L, x)
    BY <1>7, <1>9 DEF SameTree
  <2>1. ~Clash(Find(L, x), Find(L, y)) /\ Find(L, x) \in Fields /\ Find(L, y) \in Fields
    BY <1>5, <1>9, <2>0 DEF Sound
  <2>2. CASE Parent(L, x) # q
    <3>1. ~Clash(Find(N, x), Find(N, y))
      BY <1>0, <1>1, <1>2, <2>0, <2>1, <2>2, TranslateApart
    <3>2. Find(M, x) = Find(N, x) /\ Find(M, y) = Find(N, y)
      BY <1>1, <2>0, <2>2 DEF q
    <3> QED BY <3>1, <3>2
  <2>3. ASSUME NEW z \in {x, y}, NEW w \in {x, y}, z # w, Parent(L, x) = q, z = c
        PROVE  ~Clash(Find(M, z), Find(M, w))
    <3>1. ~Clash(Find(L, z), Find(L, w)) /\ z \in Ids(L) /\ w \in Ids(L) /\ Parent(L, w) = q
          /\ Parent(L, z) = q
      BY <2>0, <2>1, <2>3, ClashSym
    <3>2. Find(M, z) = Taller(C, d)
      BY <1>1, <1>3, <1>4, <2>3, <3>1
    <3>3. Find(M, w) = IF w \in P THEN Shifted(Find(L, w), d, 0) ELSE Find(L, w)
      BY <1>1, <1>4, <2>3, <3>1
    <3>4. C \in Fields /\ Find(L, w) \in Fields /\ C = Find(L, z)
      BY <1>5, <2>3, <3>1
    <3>5. w \in P <=> Find(L, w).row >= Bottom(C)
      BY <1>3, <2>3, <3>1
    <3>6. Bottom(C) \in Int /\ Find(L, w).row \in Int
      BY <3>4 DEF Bottom, Fields
    <3> HIDE DEF C
    <3>7. CASE w \in P
      BY <3>2, <3>3, <3>4, <3>5, <3>6, <3>7, GrowthApart
    <3>8. CASE w \notin P
      <4>1. Find(L, w).row < Bottom(C)
        BY <3>5, <3>6, <3>8
      <4> QED BY <3>1, <3>2, <3>3, <3>4, <3>6, <3>8, <4>1, GrowthApart
    <3> QED BY <3>7, <3>8
  <2>4. ASSUME Parent(L, x) = q, x # c, y # c
        PROVE  ~Clash(Find(M, x), Find(M, y))
    <3>1. /\ Find(M, x) = IF x \in P THEN Shifted(Find(L, x), d, 0) ELSE Find(L, x)
          /\ Find(M, y) = IF y \in P THEN Shifted(Find(L, y), d, 0) ELSE Find(L, y)
      BY <1>1, <1>4, <2>0, <2>4
    <3>2. /\ x \in P <=> Find(L, x).row >= Bottom(C)
          /\ y \in P <=> Find(L, y).row >= Bottom(C)
      BY <1>3, <2>0, <2>4
    <3>3. Bottom(C) \in Int /\ Find(L, x).row \in Int /\ Find(L, y).row \in Int
      BY <1>5, <2>0 DEF Bottom, Fields
    <3> DEFINE b == Bottom(C) f == Find(L, x) g == Find(L, y)
    <3>4. /\ ~Clash(f, g) /\ ~Clash(g, f) /\ f \in Fields /\ g \in Fields /\ b \in Int
          /\ f.row \in Int /\ g.row \in Int
      BY <2>1, <3>3, ClashSym
    <3> HIDE DEF b, f, g
    <3>5. CASE x \in P /\ y \in P
      <4>1. Find(M, x) = Shifted(f, d, 0) /\ Find(M, y) = Shifted(g, d, 0)
        BY <3>1, <3>5 DEF f, g
      <4>2. ~Clash(Shifted(f, d, 0), Shifted(g, d, 0))
        <5>1. /\ Shifted(f, d, 0).type = f.type /\ Shifted(f, d, 0).rowSpan = f.rowSpan
              /\ Shifted(f, d, 0).colSpan = f.colSpan /\ Shifted(f, d, 0).row = f.row + d
              /\ Shifted(f, d, 0).column = f.column + 0 /\ Shifted(f, d, 0) \in Fields
          BY <3>4, ShiftedFacts
        <5>2. /\ Shifted(g, d, 0).type = g.type /\ Shifted(g, d, 0).rowSpan = g.rowSpan
              /\ Shifted(g, d, 0).colSpan = g.colSpan /\ Shifted(g, d, 0).row = g.row + d
              /\ Shifted(g, d, 0).column = g.column + 0 /\ Shifted(g, d, 0) \in Fields
          BY <3>4, ShiftedFacts
        <5> QED BY <3>4, <5>1, <5>2, ClashKept
      <4> QED BY <4>1, <4>2
    <3>6. CASE x \in P /\ y \notin P
      <4>1. f.row >= b /\ g.row < b /\ Find(M, x) = Shifted(f, d, 0) /\ Find(M, y) = g
        BY <3>1, <3>2, <3>3, <3>6 DEF b, f, g
      <4> QED BY <3>4, <4>1, GrowthApart
    <3>7. CASE x \notin P /\ y \in P
      <4>1. g.row >= b /\ f.row < b /\ Find(M, y) = Shifted(g, d, 0) /\ Find(M, x) = f
        BY <3>1, <3>2, <3>3, <3>7 DEF b, f, g
      <4>2. ~Clash(Find(M, y), Find(M, x))
        BY <3>4, <4>1, GrowthApart
      <4> QED BY <4>2, ClashSym
    <3>8. CASE x \notin P /\ y \notin P
      BY <3>1, <3>4, <3>8 DEF f, g
    <3> QED BY <3>5, <3>6, <3>7, <3>8
  <2>5. CASE Parent(L, x) = q /\ x = c
    <3>1. ~Clash(Find(M, x), Find(M, y))
      BY <1>9, <2>3, <2>5
    <3> QED BY <3>1
  <2>6. CASE Parent(L, x) = q /\ y = c
    <3>1. ~Clash(Find(M, y), Find(M, x))
      BY <1>9, <2>3, <2>6
    <3> QED BY <3>1, ClashSym
  <2> QED BY <2>2, <2>4, <2>5, <2>6
<1>10. M \in Layouts /\ Tree(M)
  BY <1>0, <1>1, <1>7, SameTreeTree
<1> QED BY <1>8, <1>9, <1>10 DEF Sound

-----------------------------------------------------------------------------
(* Definitions by recursion over the natural numbers. *)
LEMMA LeastNat ==
  ASSUME NEW S \in SUBSET Nat, S # {}
  PROVE  \E m \in S : \A k \in S : m <= k
<1>1. \E x \in S : \A y \in S : ~ (<<y, x>> \in OpToRel(<, Nat))
  BY NatLessThanWellFounded, WFMin, Zenon
<1>2. OpToRel(<, Nat) = {ss \in Nat \X Nat : ss[1] < ss[2]}
  BY Zenon DEF OpToRel
<1>3. \A x, y \in Nat : <<y, x>> \in {ss \in Nat \X Nat : ss[1] < ss[2]} <=> y < x
  OBVIOUS
<1>4. \E x \in S : \A y \in S : ~ (<<y, x>> \in {ss \in Nat \X Nat : ss[1] < ss[2]})
  BY <1>1, <1>2, Zenon
<1>5. PICK x \in S : \A y \in S : ~ (<<y, x>> \in {ss \in Nat \X Nat : ss[1] < ss[2]})
  BY <1>4
<1> HIDE DEF OpToRel
<1>6. \A y \in S : ~(y < x)
  BY <1>5, <1>3
<1> QED BY <1>6

LEMMA NatSetInduction ==
  ASSUME NEW S \in SUBSET Nat, 0 \in S, \A n \in S : n + 1 \in S
  PROVE  S = Nat
<1> SUFFICES ASSUME Nat \ S # {} PROVE FALSE
  OBVIOUS
<1>1. PICK m \in Nat \ S : \A k \in Nat \ S : m <= k
  BY LeastNat
<1>2. m # 0 /\ m - 1 \in Nat
  BY <1>1
<1>3. m - 1 \in S
  BY <1>1, <1>2
<1>4. (m - 1) + 1 = m
  BY <1>1
<1> QED BY <1>1, <1>3, <1>4

(* A definition by recursion over the naturals, and over the prefix up to n. *)
IterationUpto(X, x0, g, n) ==
    {h \in [0 .. n -> X] : h[0] = x0 /\ \A i \in 0 .. n - 1 : h[i + 1] = g[h[i]]}

LEMMA IterationsAgree ==
  ASSUME NEW X, NEW x0 \in X, NEW g \in [X -> X], NEW m \in Nat, NEW n \in Nat,
         NEW h \in IterationUpto(X, x0, g, m), NEW k \in IterationUpto(X, x0, g, n)
  PROVE  \A i \in Nat : i <= m /\ i <= n => h[i] = k[i]
<1> DEFINE S == {i \in Nat : i <= m /\ i <= n => h[i] = k[i]}
<1>1. 0 \in S
  BY DEF IterationUpto
<1>2. ASSUME NEW i \in S PROVE i + 1 \in S
  <2>1. SUFFICES ASSUME i + 1 <= m, i + 1 <= n PROVE h[i + 1] = k[i + 1]
    BY <1>2
  <2>2. i \in 0 .. m - 1 /\ i \in 0 .. n - 1
    BY <2>1
  <2>3. h[i] = k[i]
    BY <2>1
  <2> QED BY <2>2, <2>3 DEF IterationUpto
<1>3. S \in SUBSET Nat
  OBVIOUS
<1> HIDE DEF S
<1>4. S = Nat
  BY <1>1, <1>2, <1>3, NatSetInduction
<1> QED BY <1>4 DEF S

LEMMA IterationExistsUpto ==
  ASSUME NEW X, NEW x0 \in X, NEW g \in [X -> X]
  PROVE  \A n \in Nat : IterationUpto(X, x0, g, n) # {}
<1> DEFINE S == {n \in Nat : IterationUpto(X, x0, g, n) # {}}
<1>1. 0 \in S
  <2> DEFINE h == [i \in 0 .. 0 |-> x0]
  <2>1. h \in IterationUpto(X, x0, g, 0)
    BY DEF IterationUpto
  <2> QED BY <2>1
<1>2. ASSUME NEW n \in S PROVE n + 1 \in S
  <2>1. PICK h : h \in IterationUpto(X, x0, g, n)
    OBVIOUS
  <2>2. h \in [0 .. n -> X] /\ h[0] = x0 /\ \A i \in 0 .. n - 1 : h[i + 1] = g[h[i]]
    BY <2>1 DEF IterationUpto
  <2> DEFINE k == [i \in 0 .. n + 1 |-> IF i = n + 1 THEN g[h[n]] ELSE h[i]]
  <2>3. k \in [0 .. n + 1 -> X]
    BY <2>2
  <2>4. k[0] = x0
    BY <2>2
  <2>5. ASSUME NEW i \in 0 .. (n + 1) - 1 PROVE k[i + 1] = g[k[i]]
    <3>1. CASE i = n
      BY <3>1
    <3>2. CASE i # n
      <4>1. i \in 0 .. n - 1
        BY <3>2
      <4>2. k[i+1] = h[i+1] /\ k[i] = h[i]
        BY <4>1
      <4> QED BY <2>2, <4>1, <4>2
    <3> QED BY <3>1, <3>2
  <2> HIDE DEF k
  <2>6. k \in IterationUpto(X, x0, g, n + 1)
    BY <2>3, <2>4, <2>5 DEF IterationUpto
  <2> QED BY <2>6
<1>3. S \in SUBSET Nat
  OBVIOUS
<1> HIDE DEF S
<1>4. S = Nat
  BY <1>1, <1>2, <1>3, NatSetInduction
<1> QED BY <1>4 DEF S

LEMMA Iteration ==
  ASSUME NEW X, NEW x0 \in X, NEW g \in [X -> X]
  PROVE  \E f \in [Nat -> X] : f[0] = x0 /\ \A n \in Nat : f[n + 1] = g[f[n]]
<1> DEFINE H(n) == CHOOSE h : h \in IterationUpto(X, x0, g, n)
           f == [n \in Nat |-> H(n)[n]]
<1>1. \A n \in Nat : H(n) \in IterationUpto(X, x0, g, n)
  BY IterationExistsUpto
<1> HIDE DEF H
<1>2. f \in [Nat -> X]
  BY <1>1 DEF IterationUpto
<1>3. f[0] = x0
  BY <1>1 DEF IterationUpto
<1>4. ASSUME NEW n \in Nat PROVE f[n + 1] = g[f[n]]
  <2>1. H(n)[n] = H(n + 1)[n]
    <3>1. H(n) \in IterationUpto(X, x0, g, n) /\ H(n + 1) \in IterationUpto(X, x0, g, n + 1)
      BY <1>1
    <3>2. n + 1 \in Nat /\ n <= n /\ n <= n + 1
      OBVIOUS
    <3> HIDE DEF f
    <3> QED BY <3>1, <3>2, IterationsAgree
  <2>2. H(n + 1)[n + 1] = g[H(n + 1)[n]]
    <3>1. H(n + 1) \in IterationUpto(X, x0, g, n + 1) /\ n \in 0 .. (n + 1) - 1
      BY <1>1
    <3> QED BY <3>1 DEF IterationUpto
  <2> QED BY <2>1, <2>2
<1> QED BY <1>2, <1>3, <1>4

-----------------------------------------------------------------------------
(* Rich texts fill their scopes. *)

LEMMA WideFacts ==
  ASSUME NEW f \in Fields, NEW c \in Int, NEW n \in Nat \ {0}
  PROVE  /\ Wide(f, c, n) \in Fields /\ Wide(f, c, n).id = f.id
         /\ Wide(f, c, n).type = f.type /\ Wide(f, c, n).parent = f.parent
         /\ Wide(f, c, n).row = f.row /\ Wide(f, c, n).rowSpan = f.rowSpan
         /\ Wide(f, c, n).column = c /\ Wide(f, c, n).colSpan = n
<1>1. Wide(f, c, n) \in Fields
  BY DEF Wide, Fields
<1> QED BY <1>1 DEF Wide, Fields

LEMMA NormalizeIs ==
  ASSUME NEW L \in Layouts, Tree(L)
  PROVE  IsNormal(L, NormalizeRichText(L))
<1> DEFINE Op(f) == IF f.type # RichText THEN f
                    ELSE [f EXCEPT !.column = ScopeColumn(L, f.parent),
                       !.colSpan = ScopeColumns(L, f.parent),
                       !.parent = IF TypeOf(L, f.parent) = Subform
                                  THEN Root ELSE f.parent]
           G == [i \in DOMAIN L |-> Op(L[i])]
<1>1. NormalizeRichText(L) = << >> \o G
  BY DEF NormalizeRichText, Each
<1>2. ASSUME NEW i \in DOMAIN L
      PROVE  /\ Op(L[i]) = IF L[i].type # RichText THEN L[i]
                           ELSE Wide(L[i], ScopeColumn(L, L[i].parent), ScopeColumns(L, L[i].parent))
             /\ Op(L[i]) \in Fields /\ Op(L[i]).id = L[i].id
  <2>1. L[i] \in Fields /\ L[i].id \in Ids(L) /\ Find(L, L[i].id) = L[i]
    BY LayoutFacts
  <2>2. Parent(L, L[i].id) = L[i].parent
    BY <2>1 DEF Parent
  <2>3. /\ ScopeColumn(L, L[i].parent) \in Int /\ ScopeColumns(L, L[i].parent) \in Nat \ {0}
        /\ TypeOf(L, L[i].parent) \in {Group, "canvas"}
    BY <2>1, <2>2, ScopeFacts
  <2>4. TypeOf(L, L[i].parent) # Subform
    BY <2>3 DEF Group, Subform
  <2>5. CASE L[i].type # RichText
    BY <2>1, <2>5
  <2>6. CASE L[i].type = RichText
    <3> DEFINE f == L[i] c == ScopeColumn(L, f.parent) n == ScopeColumns(L, f.parent)
    <3>1. Op(f) = [f EXCEPT !.column = c, !.colSpan = n, !.parent = f.parent]
      BY <2>4, <2>6
    <3>2. f \in Fields /\ c \in Int /\ n \in Nat \ {0}
      BY <2>1, <2>3
    <3> HIDE DEF f, c, n, Op
    <3>3. [f EXCEPT !.column = c, !.colSpan = n, !.parent = f.parent] = Wide(f, c, n)
      BY <3>2 DEF Wide, Fields
    <3>4. Op(f) = Wide(f, c, n)
      BY <3>1, <3>3
    <3>5. Op(f) \in Fields /\ Op(f).id = f.id
      BY <3>2, <3>4, WideFacts
    <3> QED BY <2>6, <3>4, <3>5 DEF f, c, n
  <2> QED BY <2>5, <2>6
<1>3. DOMAIN G = DOMAIN L /\ G = [i \in DOMAIN G |-> G[i]] /\ \A i \in DOMAIN L : G[i] = Op(L[i])
  OBVIOUS
<1> HIDE DEF G, Op
<1>4. /\ << >> \o G = G /\ G \in Layouts /\ Ids(G) = Ids(L) /\ Len(G) = Len(L)
      /\ \A i \in DOMAIN L : Find(G, L[i].id) = G[i]
  BY <1>2, <1>3, LayoutFacts, Mapped
<1>5. ASSUME NEW x \in Ids(L)
      PROVE  Find(G, x) =
                IF Find(L, x).type # RichText THEN Find(L, x)
                ELSE Wide(Find(L, x), ScopeColumn(L, Parent(L, x)), ScopeColumns(L, Parent(L, x)))
  <2>1. PICK i \in DOMAIN L : L[i].id = x /\ Find(L, x) = L[i]
    BY LayoutFacts
  <2>2. Find(G, x) = Op(L[i])
    BY <1>3, <1>4, <2>1
  <2> QED BY <1>2, <2>1, <2>2 DEF Parent
<1> QED BY <1>1, <1>4, <1>5 DEF IsNormal

LEMMA NormalKeeps ==
  ASSUME NEW L \in Layouts, Tree(L), NEW M, IsNormal(L, M)
  PROVE  /\ SameTree(L, M) /\ Tree(M) /\ M \in Layouts /\ Len(M) = Len(L)
         /\ \A x \in Ids(L) : /\ Find(M, x).row = Find(L, x).row
                              /\ Find(M, x).rowSpan = Find(L, x).rowSpan
                              /\ Find(M, x).type = Find(L, x).type
                              /\ Find(L, x).type # RichText => Find(M, x) = Find(L, x)
         /\ \A x \in Ids(L) : ScopeColumn(M, Parent(L, x)) = ScopeColumn(L, Parent(L, x))
         /\ \A x \in Ids(L) : ScopeColumns(M, Parent(L, x)) = ScopeColumns(L, Parent(L, x))
         /\ \A x \in Ids(L) : ScopeRow(M, Parent(L, x)) = ScopeRow(L, Parent(L, x))
         /\ Filled(M)
<1>1. M \in Layouts /\ Ids(M) = Ids(L) /\ Len(M) = Len(L)
  BY DEF IsNormal
<1>2. ASSUME NEW x \in Ids(L)
      PROVE  /\ Find(M, x).row = Find(L, x).row
             /\ Find(M, x).rowSpan = Find(L, x).rowSpan
             /\ Find(M, x).type = Find(L, x).type /\ Parent(M, x) = Parent(L, x)
             /\ Find(L, x).type # RichText => Find(M, x) = Find(L, x)
             /\ Find(L, x).type = RichText =>
                    /\ Find(M, x).column = ScopeColumn(L, Parent(L, x))
                    /\ Find(M, x).colSpan = ScopeColumns(L, Parent(L, x))
  <2>1. /\ Find(L, x) \in Fields /\ ScopeColumn(L, Parent(L, x)) \in Int
        /\ ScopeColumns(L, Parent(L, x)) \in Nat \ {0}
    BY ScopeFacts
  <2>2. CASE Find(L, x).type # RichText
    BY <2>2 DEF IsNormal, Parent
  <2>3. CASE Find(L, x).type = RichText
    <3>1. Find(M, x) = Wide(Find(L, x), ScopeColumn(L, Parent(L, x)), ScopeColumns(L, Parent(L, x)))
      BY <2>3 DEF IsNormal
    <3> QED BY <2>1, <2>3, <3>1, WideFacts DEF Parent
  <2> QED BY <2>2, <2>3
<1>3. SameTree(L, M) /\ Tree(M)
  BY <1>1, <1>2, SameTreeTree DEF SameTree
<1>4. ASSUME NEW x \in Ids(L)
      PROVE  /\ ScopeColumn(M, Parent(L, x)) = ScopeColumn(L, Parent(L, x))
             /\ ScopeColumns(M, Parent(L, x)) = ScopeColumns(L, Parent(L, x))
             /\ ScopeRow(M, Parent(L, x)) = ScopeRow(L, Parent(L, x))
  <2>1. x \in Ids(M) /\ Parent(M, x) = Parent(L, x)
    BY <1>1, <1>2
  <2>2. CASE Parent(L, x) = Root
    BY <1>1, <1>3, <2>1, <2>2, ScopeFacts DEF ScopeRow
  <2>3. CASE Parent(L, x) \in Ids(L)
    <3>1. Find(L, Parent(L, x)).type = Group /\ Parent(L, x) # Root
      BY <2>3, ScopeFacts
    <3>2. Find(M, Parent(L, x)) = Find(L, Parent(L, x))
      BY <1>2, <2>3, <3>1 DEF Group, RichText
    <3> QED BY <1>1, <1>3, <2>1, <3>1, <3>2, ScopeFacts DEF ScopeRow
  <2> QED BY <2>2, <2>3, ScopeFacts
<1>5. Filled(M)
  BY <1>1, <1>2, <1>4 DEF Filled, Fills
<1> QED BY <1>1, <1>2, <1>3, <1>4, <1>5

LEMMA NormalSound ==
  ASSUME NEW L, NEW D, NEW Q, Sound(L, D, Q), NEW M, IsNormal(L, M)
  PROVE  Sound(M, D, Q)
<1>1. L \in Layouts /\ Tree(L)
  BY DEF Sound
<1>2. /\ SameTree(L, M) /\ Tree(M) /\ M \in Layouts /\ Ids(M) = Ids(L)
      /\ \A x \in Ids(L) : /\ Find(M, x).row = Find(L, x).row
                           /\ Find(M, x).rowSpan = Find(L, x).rowSpan
                           /\ Find(M, x).type = Find(L, x).type
                           /\ Find(L, x).type # RichText => Find(M, x) = Find(L, x)
                           /\ Parent(M, x) = Parent(L, x)
      /\ \A x \in Ids(L) : ScopeColumn(M, Parent(L, x)) = ScopeColumn(L, Parent(L, x))
      /\ \A x \in Ids(L) : ScopeColumns(M, Parent(L, x)) = ScopeColumns(L, Parent(L, x))
      /\ \A x \in Ids(L) : ScopeRow(M, Parent(L, x)) = ScopeRow(L, Parent(L, x))
  BY <1>1, NormalKeeps DEF SameTree
<1>3. ASSUME NEW x \in Ids(M) \ D PROVE Scoped(M, x)
  <2>1. Scoped(L, x) /\ x \in Ids(L)
    BY <1>2, <1>3 DEF Sound
  <2>2. /\ Find(M, x).row = Find(L, x).row
        /\ Find(M, x).type = Find(L, x).type
        /\ Find(L, x).type # RichText => Find(M, x) = Find(L, x)
        /\ Parent(M, x) = Parent(L, x)
        /\ ScopeColumn(M, Parent(L, x)) = ScopeColumn(L, Parent(L, x))
        /\ ScopeColumns(M, Parent(L, x)) = ScopeColumns(L, Parent(L, x))
        /\ ScopeRow(M, Parent(L, x)) = ScopeRow(L, Parent(L, x))
    BY <1>2, <2>1
  <2> QED BY <2>1, <2>2 DEF Scoped
<1>4. ASSUME NEW x \in Ids(M) \ D, NEW y \in Ids(M) \ D, x # y, Parent(M, x) = Parent(M, y),
             Parent(M, x) \notin Q
      PROVE  ~Clash(Find(M, x), Find(M, y))
  <2>0. /\ x \in Ids(L) \ D /\ y \in Ids(L) \ D /\ Parent(L, x) = Parent(L, y)
        /\ Parent(L, x) \notin Q
    BY <1>2, <1>4
  <2>1. ~Clash(Find(L, x), Find(L, y))
    BY <1>4, <2>0 DEF Sound
  <2>2. \A z \in {x, y} : /\ Find(M, z).row = Find(L, z).row
                          /\ Find(M, z).rowSpan = Find(L, z).rowSpan
                          /\ Find(M, z).type = Find(L, z).type
                          /\ Find(L, z).type # RichText => Find(M, z) = Find(L, z)
    BY <1>2, <2>0
  <2> QED BY <2>1, <2>2 DEF Clash, Meet, Bottom
<1> QED BY <1>2, <1>3, <1>4 DEF Sound

LEMMA NormalFollows ==
  ASSUME NEW L \in Layouts, Tree(L), NEW M, IsNormal(L, M), NEW K, NEW T
  PROVE  Follows(L, M, K) /\ Stays(L, M, T)
<1>1. /\ SameTree(L, M) /\ Root \notin Ids(L)
      /\ \A x \in Ids(L) : /\ Find(M, x).row = Find(L, x).row
                           /\ Find(L, x).type # RichText => Find(M, x) = Find(L, x)
  BY NormalKeeps, RootIsNoId
<1>2. \A x \in Ids(L) : Find(L, x) \in Fields
  BY FindIsField
<1>3. \A x \in Ids(L) : /\ RowShift(L, M, x) = 0
                        /\ Find(L, x).type # RichText => ColumnShift(L, M, x) = 0
  BY <1>1, <1>2 DEF RowShift, ColumnShift, Fields
<1>4. RowShift(L, M, Root) = 0 /\ ColumnShift(L, M, Root) = 0
  BY DEF RowShift, ColumnShift
<1>5. \A x \in Ids(L) : Parent(L, x) # Root =>
            Parent(L, x) \in Ids(L) /\ Find(L, Parent(L, x)).type # RichText
  BY DEF Tree, Group, RichText
<1>6. Follows(L, M, K)
  BY <1>1, <1>3, <1>4, <1>5 DEF Follows
<1> QED BY <1>1, <1>6 DEF Stays

LEMMA NormalFilled ==
  ASSUME NEW L \in Layouts, Tree(L), NEW M, IsNormal(L, M), Filled(L)
  PROVE  \A x \in Ids(L) : Find(M, x) = Find(L, x)
<1> SUFFICES ASSUME NEW x \in Ids(L) PROVE Find(M, x) = Find(L, x)
  OBVIOUS
<1>1. CASE Find(L, x).type # RichText
  BY <1>1 DEF IsNormal
<1>2. CASE Find(L, x).type = RichText
  <2> DEFINE f == Find(L, x)
  <2>1. Find(M, x) = Wide(f, f.column, f.colSpan)
    BY <1>2 DEF IsNormal, Filled, Fills
  <2>2. f \in Fields
    BY FindIsField
  <2> HIDE DEF f
  <2>3. Wide(f, f.column, f.colSpan) = f
    BY <2>2 DEF Wide, Fields
  <2> QED BY <2>1, <2>3 DEF f
<1> QED BY <1>1, <1>2

-----------------------------------------------------------------------------
(* ExpandToFit: a climb from group to group. *)

LEMMA AroundParent ==
  ASSUME NEW L \in Layouts, Tree(L), NEW p, NEW T, Around(L, p, T), NEW c \in T \ {Root}
  PROVE  c \in Ids(L) /\ Parent(L, c) \in T \ {p}
  BY DEF Around, Path

LEMMA ClimbStepStays ==
  ASSUME NEW L, Sound(L, {}, {}), NEW p, NEW T, Around(L, p, T), NEW n \in Int,
         NEW s \in ClimbStates(L, p, T)
  PROVE  ClimbStep(s, n) \in ClimbStates(L, p, T)
<1> DEFINE A == s.fields
           c == s.container
<1>1. /\ L \in Layouts /\ Tree(L) /\ A \in Layouts /\ Tree(A) /\ Sound(A, {}, {})
      /\ Keeps(L, A, T \ {p}, T) /\ c \in T /\ s = [fields |-> A, container |-> c]
  BY DEF Sound, ClimbStates
<1>2. SameTree(L, A) /\ Ids(A) = Ids(L)
  BY <1>1 DEF Keeps, Follows, SameTree
<1>3. CASE ~Grows(A, c, n)
  BY <1>3 DEF ClimbStep
<1>4. CASE Grows(A, c, n)
  <2> DEFINE d == Growth(Find(A, c), n)
             M == Grown(A, c, n)
             q == Parent(A, c)
  <2>1. c \in Ids(A)
    BY <1>1, <1>4, LayoutFacts DEF Grows, Group
  <2>2. IsGrown(A, M, c, d) /\ d \in Nat
    BY <1>1, <2>1, GrownIs, GrowthFacts, FindIsField
  <2>3. ClimbStep(s, n) = [fields |-> M, container |-> q]
    BY <1>4 DEF ClimbStep, Parent
  <2> HIDE DEF M, d, A, c
  <2>4. q \in T \ {p} /\ q \in Ids(L) \union {Root}
    <3>1. c \in T \ {Root} /\ c \in Ids(L)
      BY <1>1, <1>2, <2>1, RootIsNoId
    <3>2. q = Parent(L, c)
      BY <1>2, <3>1 DEF SameTree
    <3> QED BY <1>1, <3>1, <3>2, AroundParent DEF Tree
  <2>5. Path(A, T)
    BY <1>1, <1>2, PathSame DEF Around
  <2>6. Keeps(A, M, T \ {p}, T)
    BY <1>1, <2>1, <2>2, <2>4, <2>5, GrownKeeps
  <2>7. Sound(M, {}, {}) /\ M \in Layouts
    BY <1>1, <2>1, <2>2, GrownSound DEF Sound
  <2>8. Keeps(L, M, T \ {p}, T)
    BY <1>1, <2>6, KeptTrans
  <2>9. [fields |-> M, container |-> q] \in ClimbStates(L, p, T)
    <3> HIDE DEF q
    <3> QED BY <2>4, <2>7, <2>8 DEF ClimbStates
  <2> QED BY <2>3, <2>9
<1> QED BY <1>3, <1>4

LEMMA ClimbUnfold ==
  ASSUME NEW h, NEW L, NEW p, NEW n
  PROVE  IsClimb(h, L, p, n) <=>
            h = [i \in Nat |-> IF i = 0 THEN [fields |-> L, container |-> p]
                               ELSE ClimbStep(h[i - 1], n)]
  BY DEF IsClimb, ClimbStep

LEMMA ClimbUnfolded ==
  ASSUME NEW L, Sound(L, {}, {}), NEW p \in Ids(L) \union {Root}, NEW T, Around(L, p, T),
         NEW n \in Int
  PROVE  /\ Climb(L, p, n)[0] = [fields |-> L, container |-> p]
         /\ \A i \in Nat : Climb(L, p, n)[i + 1] = ClimbStep(Climb(L, p, n)[i], n)
<1> DEFINE X == ClimbStates(L, p, T)
           s0 == [fields |-> L, container |-> p]
           g == [s \in X |-> ClimbStep(s, n)]
           h == Climb(L, p, n)
<1>1. L \in Layouts /\ Tree(L)
  BY DEF Sound
<1>2. s0 \in X
  BY <1>1, KeptSelf DEF ClimbStates, Around
<1>3. g \in [X -> X]
  BY ClimbStepStays
<1>4. \E f \in [Nat -> X] : f[0] = s0 /\ \A i \in Nat : f[i + 1] = g[f[i]]
  <2> HIDE DEF X, s0, g
  <2> QED BY <1>2, <1>3, Iteration
<1>5. PICK f \in [Nat -> X] : f[0] = s0 /\ \A i \in Nat : f[i + 1] = g[f[i]]
  BY <1>4
<1> HIDE DEF X, s0
<1>6. \A i \in Nat : f[i + 1] = ClimbStep(f[i], n)
  BY <1>5
<1> HIDE DEF g
<1>7. \A i \in Nat : f[i] = IF i = 0 THEN s0 ELSE ClimbStep(f[i - 1], n)
  <2> SUFFICES ASSUME NEW i \in Nat PROVE f[i] = IF i = 0 THEN s0 ELSE ClimbStep(f[i - 1], n)
    OBVIOUS
  <2>1. CASE i = 0
    BY <1>5, <2>1
  <2>2. CASE i # 0
    <3>1. i - 1 \in Nat /\ (i - 1) + 1 = i
      BY <2>2
    <3> QED BY <1>6, <2>2, <3>1
  <2> QED BY <2>1, <2>2
<1>8. f = [i \in Nat |-> IF i = 0 THEN s0 ELSE ClimbStep(f[i - 1], n)]
  BY <1>5, <1>7
<1>9. IsClimb(f, L, p, n)
  BY <1>8, ClimbUnfold DEF s0
<1>10. h = CHOOSE e : IsClimb(e, L, p, n)
  BY DEF Climb, IsClimb
<1>11. IsClimb(h, L, p, n)
  BY <1>9, <1>10
<1> HIDE DEF h
<1>12. h = [i \in Nat |-> IF i = 0 THEN s0 ELSE ClimbStep(h[i - 1], n)]
  BY <1>11, ClimbUnfold DEF s0
<1>13. h[0] = s0
  BY <1>12
<1>14. ASSUME NEW i \in Nat PROVE h[i + 1] = ClimbStep(h[i], n)
  <2>1. i + 1 \in Nat /\ i + 1 # 0 /\ (i + 1) - 1 = i
    OBVIOUS
  <2> QED BY <1>12, <2>1
<1> QED BY <1>13, <1>14 DEF s0, h

LEMMA ClimbIn ==
  ASSUME NEW L, Sound(L, {}, {}), NEW p \in Ids(L) \union {Root}, NEW T, Around(L, p, T),
         NEW n \in Int
  PROVE  \A i \in Nat : Climb(L, p, n)[i] \in ClimbStates(L, p, T)
<1> DEFINE X == ClimbStates(L, p, T)
           h == Climb(L, p, n)
           S == {i \in Nat : h[i] \in X}
<1>1. h[0] = [fields |-> L, container |-> p] /\ \A i \in Nat : h[i + 1] = ClimbStep(h[i], n)
  BY ClimbUnfolded
<1> HIDE DEF h
<1>2. 0 \in S
  BY <1>1, KeptSelf DEF ClimbStates, Around, Sound
<1>3. ASSUME NEW i \in S PROVE i + 1 \in S
  <2>1. i + 1 \in Nat /\ h[i + 1] = ClimbStep(h[i], n)
    BY <1>1
  <2> QED BY <2>1, ClimbStepStays DEF X
<1>4. S \in SUBSET Nat
  OBVIOUS
<1> HIDE DEF S
<1>5. S = Nat
  BY <1>2, <1>3, <1>4, NatSetInduction
<1> QED BY <1>5 DEF S, h, X

LEMMA KeptFilled ==
  ASSUME NEW L \in Layouts, NEW M, NEW K, NEW T, Keeps(L, M, K, T), Filled(L)
  PROVE  Filled(M)
  BY DEF Keeps, Filled, Follows, SameTree

LEMMA SamePlaces ==
  ASSUME NEW L \in Layouts, Tree(L), NEW M, NEW N, NEW K, NEW T, Keeps(L, M, K, T),
         IsNormal(M, N), Filled(M)
  PROVE  Keeps(L, N, K, T)
<1>1. M \in Layouts /\ Tree(M) /\ Ids(M) = Ids(L)
  BY SameTreeTree DEF Keeps, Follows, SameTree
<1>2. \A x \in Ids(L) : Find(N, x) = Find(M, x)
  BY <1>1, NormalFilled
<1>3. N \in Layouts /\ Len(N) = Len(M) /\ Filled(N) /\ Ids(N) = Ids(L)
  BY <1>1, NormalKeeps DEF SameTree
<1>4. SameTree(M, N) /\ SameTree(L, N) /\ Follows(M, N, K)
  BY <1>1, <1>2, <1>3, NormalFollows, SameTreeTrans DEF Keeps, Follows
<1>5. Follows(L, N, K)
  BY <1>1, <1>3, <1>4, FollowsTrans DEF Keeps
<1>6. SameWidths(L, N) /\ Stays(L, N, T)
  BY <1>2 DEF Keeps, SameWidths, Stays
<1> QED BY <1>2, <1>3, <1>5, <1>6 DEF Keeps, Filled

LEMMA ExpandIs ==
  ASSUME NEW L, Sound(L, {}, {}), NEW p \in Ids(L) \union {Root}, NEW T, Around(L, p, T),
         NEW n \in Int
  PROVE  Expanded(L, ExpandToFit(L, p, n), p, T)
<1> DEFINE M == Climb(L, p, n)[Len(L)].fields
           N == NormalizeRichText(M)
           K == T \ {p}
<1>1. L \in Layouts /\ Tree(L) /\ Len(L) \in Nat
  BY LayoutFacts DEF Sound
<1>2. Climb(L, p, n)[Len(L)] \in ClimbStates(L, p, T)
  BY <1>1, ClimbIn
<1>3. M \in Layouts /\ Sound(M, {}, {}) /\ Keeps(L, M, K, T) /\ Tree(M)
  BY <1>2 DEF ClimbStates, Sound
<1>4. CASE ~Grows(L, p, n)
  <2>1. ExpandToFit(L, p, n) = L
    BY <1>4 DEF ExpandToFit
  <2>2. Follows(L, L, K) /\ Stays(L, L, T) /\ Keeps(L, L, K, T) /\ SameTree(L, L)
    BY <1>1, FollowsSelf, KeptSelf DEF SameTree
  <2> QED BY <2>1, <2>2 DEF Expanded
<1>5. CASE Grows(L, p, n)
  <2>1. ExpandToFit(L, p, n) = N
    BY <1>5 DEF ExpandToFit
  <2>2. IsNormal(M, N)
    BY <1>3, NormalizeIs
  <2> HIDE DEF M, N, K
  <2>3. Sound(N, {}, {}) /\ Filled(N) /\ SameTree(M, N) /\ N \in Layouts /\ Len(N) = Len(M)
    BY <1>3, <2>2, NormalSound, NormalKeeps
  <2>4. SameTree(L, M) /\ Follows(L, M, K) /\ Stays(L, M, T) /\ Len(M) = Len(L)
    BY <1>3 DEF Keeps, Follows
  <2>5. SameTree(L, N) /\ Follows(M, N, K) /\ Stays(M, N, T)
    BY <1>3, <2>2, <2>3, <2>4, SameTreeTrans, NormalFollows
  <2>6. Follows(L, N, K) /\ Stays(L, N, T)
    BY <1>1, <1>3, <2>3, <2>4, <2>5, FollowsTrans, StaysTrans
  <2>7. Filled(L) => Keeps(L, N, K, T)
    BY <1>1, <1>3, <2>2, KeptFilled, SamePlaces
  <2>8. \A x \in Ids(L) \ T : Find(N, x).rowSpan = Find(L, x).rowSpan
    BY <1>3, <2>2, <2>4, NormalKeeps DEF Keeps, SameTree
  <2> QED BY <2>1, <2>3, <2>4, <2>5, <2>6, <2>7, <2>8 DEF Expanded, K
<1> QED BY <1>4, <1>5

-----------------------------------------------------------------------------
(* Groups that grow hold their fields again. *)

LEMMA GrownBy ==
  ASSUME NEW L \in Layouts, Tree(L), NEW c \in Ids(L), NEW d \in Nat, NEW M, IsGrown(L, M, c, d)
  PROVE  GrowsBy(L, M, c, d)
<1> DEFINE P == BelowIn(L, Find(L, c))
           q == Parent(L, c)
           U == Moved(L, P)
<1>1. PICK N \in Layouts :
        /\ IsShift(L, N, P, d, 0)
        /\ M \in Layouts /\ Ids(M) = Ids(L) /\ Len(M) = Len(L)
        /\ \A x \in Ids(L) : Find(M, x) = IF x = c THEN Taller(Find(N, x), d) ELSE Find(N, x)
  BY DEF IsGrown
<1>2. InGrid(L, P, q) /\ c \notin P
  BY BelowFacts
<1>3. P \in SUBSET Ids(L) /\ \A x \in P : Parent(L, x) = q
  BY <1>2 DEF InGrid
<1> HIDE DEF P
<1>4. /\ SameTree(L, N) /\ SameHeights(L, N)
      /\ \A x \in Ids(L) : Find(N, x) = IF x \in U THEN Shifted(Find(L, x), d, 0) ELSE Find(L, x)
  BY <1>1, <1>2, TranslateShifts DEF IsShift
<1>5. c \notin U /\ \A x \in Ids(L) : Parent(L, x) = c => x \notin U
  <2>1. c \notin U
    BY <1>2, <1>3, SiblingsMoved
  <2>2. ASSUME NEW x \in Ids(L), Parent(L, x) = c PROVE x \notin U
    <3>1. SUFFICES ASSUME x \in U PROVE FALSE
      OBVIOUS
    <3>2. x \in P
      BY <1>3, <2>1, <2>2, <3>1, MovedTree
    <3>3. c = q
      BY <1>3, <2>2, <3>2
    <3>4. \A y \in {c} : Parent(L, y) \in {c}
      BY <3>3
    <3>5. {c} = {}
      BY <3>4, NoCircle
    <3> QED BY <3>5
  <2> QED BY <2>1, <2>2
<1>6. \A x \in Ids(L) : Parent(L, x) # q => (x \in U <=> Parent(L, x) \in U)
  BY <1>3, MovedTree
<1> HIDE DEF U
<1>7. \A x \in Ids(L) : /\ Find(L, x) \in Fields
                        /\ Find(M, x).parent = Find(L, x).parent
                        /\ Find(M, x).type = Find(L, x).type
                        /\ Find(M, x).rowSpan = IF x = c THEN Find(L, x).rowSpan + d ELSE Find(L, x).rowSpan
                        /\ Find(M, x).row = IF x \in U THEN Find(L, x).row + d ELSE Find(L, x).row
  <2> SUFFICES ASSUME NEW x \in Ids(L)
               PROVE  /\ Find(L, x) \in Fields
                      /\ Find(M, x).parent = Find(L, x).parent
                      /\ Find(M, x).type = Find(L, x).type
                      /\ Find(M, x).rowSpan = IF x = c THEN Find(L, x).rowSpan + d ELSE Find(L, x).rowSpan
                      /\ Find(M, x).row = IF x \in U THEN Find(L, x).row + d ELSE Find(L, x).row
    OBVIOUS
  <2>1. Find(L, x) \in Fields
    BY FindIsField
  <2> DEFINE g == IF x \in U THEN Shifted(Find(L, x), d, 0) ELSE Find(L, x)
  <2>2. /\ g \in Fields /\ g.parent = Find(L, x).parent /\ g.type = Find(L, x).type
        /\ g.rowSpan = Find(L, x).rowSpan
        /\ g.row = IF x \in U THEN Find(L, x).row + d ELSE Find(L, x).row
    BY <2>1, ShiftedFacts
  <2>3. Find(M, x) = IF x = c THEN Taller(g, d) ELSE g
    BY <1>1, <1>4
  <2> HIDE DEF g
  <2> QED BY <2>1, <2>2, <2>3, TallerFacts
<1>8. \A x \in Ids(L) : Find(L, x).row \in Int /\ Find(L, x).rowSpan \in Nat
  BY <1>7 DEF Fields
<1>9. SameTree(L, M)
  BY <1>1, <1>7 DEF SameTree, Parent
<1>10. ASSUME NEW x \in Ids(L), Parent(L, x) \in Ids(L) \ {c}, Parent(L, x) # q, Contained(L, x)
       PROVE  Contained(M, x)
  <2> DEFINE u == Parent(L, x)
  <2>1. u \in Ids(L) /\ u # c /\ Parent(M, x) = u /\ u \in Ids(M)
    BY <1>1, <1>7, <1>10 DEF Parent
  <2>2. x # c
    BY <1>10
  <2>3. x \in U <=> u \in U
    BY <1>6, <1>10
  <2>4. Find(L, x).row + Find(L, x).rowSpan <= Find(L, u).row + Find(L, u).rowSpan
    BY <1>10 DEF Contained, Bottom
  <2> HIDE DEF u
  <2>5. Find(M, x).row + Find(M, x).rowSpan <= Find(M, u).row + Find(M, u).rowSpan
    <3> DEFINE a == Find(L, x).row
               b == Find(L, x).rowSpan
               e == Find(L, u).row
               f == Find(L, u).rowSpan
    <3>1. a \in Int /\ b \in Int /\ e \in Int /\ f \in Int
      BY <1>8, <2>1
    <3>2. Find(M, x).rowSpan = b /\ Find(M, u).rowSpan = f
      BY <1>7, <2>1, <2>2
    <3>3. Find(M, x).row = (IF x \in U THEN a + d ELSE a) /\ Find(M, u).row = (IF x \in U THEN e + d ELSE e)
      BY <1>7, <2>1, <2>3
    <3>4. a + b <= e + f
      BY <2>4
    <3> HIDE DEF a, b, e, f
    <3> QED BY <3>1, <3>2, <3>3, <3>4
  <2> QED BY <2>1, <2>5 DEF Contained, Bottom
<1>11. Find(M, c).row = Find(L, c).row /\ Find(M, c).rowSpan = Find(L, c).rowSpan + d
  BY <1>5, <1>7
<1>12. Bottom(Find(M, c)) = Bottom(Find(L, c)) + d
  BY <1>8, <1>11 DEF Bottom
<1>13. \A x \in Ids(L) : Parent(L, x) = c => Bottom(Find(M, x)) = Bottom(Find(L, x))
  <2> SUFFICES ASSUME NEW x \in Ids(L), Parent(L, x) = c PROVE Bottom(Find(M, x)) = Bottom(Find(L, x))
    OBVIOUS
  <2>1. x # c
    <3>1. SUFFICES ASSUME x = c PROVE FALSE
      OBVIOUS
    <3>2. {c} = {}
      BY <3>1, NoCircle
    <3> QED BY <3>2
  <2> QED BY <1>5, <1>7, <2>1 DEF Bottom
<1>14. \A x \in Ids(L) \ {c} : Find(M, x).rowSpan = Find(L, x).rowSpan
  BY <1>7
<1> QED BY <1>9, <1>10, <1>11, <1>12, <1>13, <1>14 DEF GrowsBy

LEMMA ClimbStepHolds ==
  ASSUME NEW L, NEW M, NEW p, NEW T, NEW Y, Rises(L, M, p, T, Y), NEW n \in Int,
         NEW s \in ClimbStates(M, p, T), ClimbHolds(L, s, n, Y)
  PROVE  ClimbHolds(L, ClimbStep(s, n), n, Y)
<1> DEFINE A == s.fields
           c == s.container
<1>1. CASE ~Grows(A, c, n)
  BY <1>1 DEF ClimbStep
<1>2. CASE Grows(A, c, n)
  <2> DEFINE d == Growth(Find(A, c), n)
             N == Grown(A, c, n)
             q == Parent(A, c)
  <2>1. /\ A \in Layouts /\ Tree(A) /\ Keeps(M, A, T \ {p}, T) /\ c \in T
        /\ L \in Layouts /\ Tree(L) /\ IsIn(L, M) /\ Y \subseteq Ids(L)
        /\ \A x \in T \cap Ids(L) : Find(M, x).rowSpan >= Find(L, x).rowSpan
    BY DEF Rises, ClimbStates, Sound
  <2>2. SameTree(M, A) /\ Ids(A) = Ids(M)
    BY <2>1 DEF Keeps, Follows, SameTree
  <2>3. IsIn(L, A)
    BY <2>1, <2>2 DEF IsIn, SameTree
  <2>4. c \in Ids(A) /\ Find(A, c).type = Group
    BY <1>2, <2>1, LayoutFacts DEF Grows, Group
  <2>5. c \in Ids(L) /\ Find(L, c).type = Group /\ Parent(L, c) = q
    <3>1. c # Root
      BY <2>1, <2>4, RootIsNoId
    <3>2. c \in Ids(L)
      BY <3>1 DEF ClimbHolds
    <3> QED BY <2>3, <2>4, <3>2 DEF IsIn
  <2>6. IsGrown(A, N, c, d) /\ d \in Nat
    BY <2>1, <2>4, GrownIs, GrowthFacts, FindIsField
  <2>7. Bottom(Find(A, c)) \in Int /\ d > 0 /\ Bottom(Find(A, c)) + d = n
    <3>1. Find(A, c) \in Fields
      BY <2>1, <2>4, FindIsField
    <3>2. Bottom(Find(A, c)) \in Int
      BY <3>1 DEF Fields, Bottom
    <3>3. d > 0 /\ d = Larger(0, n - Bottom(Find(A, c)))
      BY <1>2 DEF Grows, Growth
    <3> HIDE DEF d
    <3> QED BY <3>2, <3>3 DEF Larger
  <2>8. ClimbStep(s, n) = [fields |-> N, container |-> q]
    BY <1>2 DEF ClimbStep, Parent
  <2>9. GrowsBy(A, N, c, d)
    BY <2>1, <2>4, <2>6, GrownBy
  <2> HIDE DEF N, d
  <2>10. \A x \in Ids(A) : Find(A, x).rowSpan \in Nat /\ Bottom(Find(A, x)) \in Int
    <3>1. \A x \in Ids(A) : Find(A, x) \in Fields
      BY <2>1, FindIsField
    <3> QED BY <3>1 DEF Fields, Bottom
  <2>11. q \in Ids(L) \union {Root}
    BY <2>1, <2>5 DEF Tree
  <2>12. Find(A, c).rowSpan >= Find(L, c).rowSpan /\ Find(L, c).rowSpan \in Nat
    <3>1. Find(M, c).rowSpan >= Find(L, c).rowSpan
      BY <2>1, <2>5
    <3>2. Find(A, c).rowSpan >= Find(M, c).rowSpan
      BY <2>1, <2>2, <2>4 DEF Keeps
    <3>3. Find(L, c) \in Fields /\ Find(M, c) \in Fields
      BY <2>1, <2>2, <2>4, <2>5, FindIsField DEF Rises, Sound
    <3>4. Find(L, c).rowSpan \in Nat /\ Find(M, c).rowSpan \in Nat
      BY <3>3 DEF Fields
    <3> QED BY <2>4, <2>10, <3>1, <3>2, <3>4
  <2>13. ASSUME NEW x \in Y, Contained(L, x)
         PROVE  \/ Contained(N, x) \/ GrewBeside(L, N, x)
                \/ Parent(L, x) = q /\ Bottom(Find(N, x)) <= n
    <3> DEFINE u == Parent(L, x)
    <3>1. x \in Ids(L) /\ u \in Ids(L) /\ Parent(A, x) = u /\ x \in Ids(A) /\ u \in Ids(A)
      BY <2>1, <2>3, <2>13 DEF IsIn, Contained
    <3>2. \/ Contained(A, x) \/ GrewBeside(L, A, x)
          \/ u = c /\ Bottom(Find(A, x)) <= n
      BY <2>13 DEF ClimbHolds
    <3>3. Ids(N) = Ids(A) /\ Parent(N, x) = u
      BY <2>9, <3>1 DEF GrowsBy, SameTree
    <3>4. CASE GrewBeside(L, A, x)
      <4>1. PICK z \in Ids(L) \ {x} :
                /\ Find(L, z).type = Group /\ Parent(L, z) = Parent(L, x)
                /\ Find(A, z).rowSpan > Find(L, z).rowSpan
        BY <3>4 DEF GrewBeside
      <4>2. z \in Ids(A) /\ Find(A, z).rowSpan \in Nat /\ Find(L, z).rowSpan \in Nat
        <5>1. Find(L, z) \in Fields
          BY <2>1, FindIsField
        <5> QED BY <2>3, <2>10, <5>1 DEF IsIn, Fields
      <4>3. Find(N, z).rowSpan = Find(A, z).rowSpan \/ Find(N, z).rowSpan = Find(A, z).rowSpan + d
        BY <2>9, <4>2 DEF GrowsBy
      <4>4. Find(N, z).rowSpan > Find(L, z).rowSpan
        BY <2>6, <4>1, <4>2, <4>3
      <4> QED BY <4>1, <4>4 DEF GrewBeside
    <3>5. CASE u = c /\ ~GrewBeside(L, A, x)
      <4>1. Bottom(Find(A, x)) <= n
        <5>1. CASE Contained(A, x)
          <6>1. Bottom(Find(A, x)) <= Bottom(Find(A, c))
            BY <3>1, <3>5, <5>1 DEF Contained
          <6> QED BY <2>6, <2>7, <2>10, <3>1, <6>1
        <5> QED BY <3>2, <3>5, <5>1
      <4>2. Bottom(Find(N, x)) = Bottom(Find(A, x)) /\ Bottom(Find(N, c)) = n
        BY <2>7, <2>9, <3>1, <3>5 DEF GrowsBy
      <4> QED BY <3>1, <3>3, <3>5, <4>1, <4>2 DEF Contained
    <3>6. CASE x = c
      <4>1. Bottom(Find(N, x)) = n
        BY <2>7, <2>9, <3>6 DEF GrowsBy
      <4> QED BY <2>5, <3>6, <4>1
    <3>7. CASE u = q /\ x # c
      <4>1. Find(N, c).rowSpan > Find(L, c).rowSpan
        <5>1. Find(N, c).rowSpan = Find(A, c).rowSpan + d
          BY <2>9 DEF GrowsBy
        <5> QED BY <2>4, <2>6, <2>7, <2>10, <2>12, <5>1
      <4> QED BY <2>5, <3>7, <4>1 DEF GrewBeside
    <3>8. CASE u # c /\ u # q /\ ~GrewBeside(L, A, x)
      BY <2>9, <3>1, <3>2, <3>8 DEF GrowsBy
    <3> QED BY <3>4, <3>5, <3>6, <3>7, <3>8
  <2>14. ClimbHolds(L, [fields |-> N, container |-> q], n, Y)
    <3> HIDE DEF q
    <3> QED BY <2>11, <2>13 DEF ClimbHolds
  <2> QED BY <2>8, <2>14
<1> QED BY <1>1, <1>2

LEMMA IdsFinite ==
  ASSUME NEW L \in Layouts
  PROVE  IsFiniteSet(Ids(L)) /\ Cardinality(Ids(L)) \in Nat /\ Cardinality(Ids(L)) <= Len(L)
<1> DEFINE D == 1 .. Len(L)
           g == [i \in D |-> L[i].id]
<1>1. DOMAIN L = D /\ Len(L) \in Nat
  BY LayoutFacts
<1>2. IsFiniteSet(D) /\ Cardinality(D) = Len(L)
  BY <1>1, FirstNumbers
<1>3. g \in Surjection(D, Ids(L))
  BY <1>1 DEF Surjection, Ids
<1> HIDE DEF g, D
<1>4. IsFiniteSet(Ids(L)) /\ Cardinality(Ids(L)) <= Cardinality(D)
  BY <1>2, <1>3, FS_Surjection
<1> QED BY <1>2, <1>4, FS_CardinalityType

LEMMA AboveShrinks ==
  ASSUME NEW L \in Layouts, Tree(L), NEW c \in Ids(L)
  PROVE  /\ Cardinality(Above(L, c)) \in Nat /\ Cardinality(Above(L, Parent(L, c))) \in Nat
         /\ Cardinality(Above(L, Parent(L, c))) + 1 <= Cardinality(Above(L, c))
<1> DEFINE q == Parent(L, c)
<1>1. IsFiniteSet(Ids(L))
  BY IdsFinite
<1>2. Above(L, c) \in SUBSET Ids(L) /\ Above(L, q) \in SUBSET Ids(L)
  BY DEF Above
<1>3. IsFiniteSet(Above(L, c)) /\ IsFiniteSet(Above(L, q))
  BY <1>1, <1>2, FS_Subset
<1>4. c \in Above(L, c)
  <2>1. {c} \in SUBSET Ids(L)
    OBVIOUS
  <2> QED BY <2>1, MovedTree DEF Above
<1>5. c \notin Above(L, q)
  <2>1. {c} \in SUBSET Ids(L) /\ \A x \in {c} : Parent(L, x) = q
    OBVIOUS
  <2>2. q \notin Moved(L, {c})
    BY <2>1, SiblingsMoved
  <2> QED BY <2>2 DEF Above
<1>6. Above(L, q) \subseteq Above(L, c)
  <2> SUFFICES ASSUME NEW z \in Ids(L), q \in Moved(L, {z}) PROVE c \in Moved(L, {z})
    BY DEF Above
  <2>1. {z} \in SUBSET Ids(L)
    OBVIOUS
  <2> QED BY <2>1, MovedTree
<1> HIDE DEF q
<1>7. Above(L, q) \in SUBSET Above(L, c) /\ Above(L, q) # Above(L, c)
  BY <1>4, <1>5, <1>6
<1>8. Cardinality(Above(L, q)) \in Nat /\ Cardinality(Above(L, c)) \in Nat
  BY <1>3, FS_CardinalityType
<1>9. Cardinality(Above(L, q)) <= Cardinality(Above(L, c))
  BY <1>3, <1>7, FS_Subset
<1>10. Cardinality(Above(L, q)) # Cardinality(Above(L, c))
  BY <1>3, <1>7, FS_Subset
<1> QED BY <1>8, <1>9, <1>10 DEF q

(* A climb ends before it has gone as often up as there are fields. *)
LEMMA ClimbEnds ==
  ASSUME NEW L, Sound(L, {}, {}), NEW p \in Ids(L) \union {Root}, NEW T, Around(L, p, T),
         NEW n \in Int
  PROVE  LET s == Climb(L, p, n)[Len(L)]
         IN  ~Grows(s.fields, s.container, n)
<1> DEFINE h == Climb(L, p, n)
           m == Cardinality(Ids(L))
           High(c) == Cardinality(Above(L, c))
           Ends(s) == ~Grows(s.fields, s.container, n)
           S == {i \in Nat : Ends(h[i]) \/ High(h[i].container) + i <= m}
<1>1. L \in Layouts /\ Tree(L) /\ Len(L) \in Nat /\ m \in Nat /\ m <= Len(L) /\ IsFiniteSet(Ids(L))
  BY LayoutFacts, IdsFinite DEF Sound
<1>2. \A i \in Nat : h[i] \in ClimbStates(L, p, T)
  BY ClimbIn
<1>3. h[0] = [fields |-> L, container |-> p] /\ \A i \in Nat : h[i + 1] = ClimbStep(h[i], n)
  BY ClimbUnfolded
<1> HIDE DEF h
<1>4. \A c : High(c) \in Nat /\ High(c) <= m
  <2> SUFFICES ASSUME NEW c PROVE High(c) \in Nat /\ High(c) <= m
    OBVIOUS
  <2>1. Above(L, c) \in SUBSET Ids(L)
    BY DEF Above
  <2>2. IsFiniteSet(Above(L, c)) /\ Cardinality(Above(L, c)) <= Cardinality(Ids(L))
    BY <1>1, <2>1, FS_Subset
  <2> QED BY <2>2, FS_CardinalityType
<1>5. ASSUME NEW c, NEW A, NEW i \in Nat, h[i] = [fields |-> A, container |-> c], ~Ends(h[i])
      PROVE  c \in Ids(L) /\ High(Parent(A, c)) + 1 <= High(c)
  <2>1. A \in Layouts /\ SameTree(L, A) /\ Grows(A, c, n)
    BY <1>2, <1>5 DEF ClimbStates, Keeps, Follows
  <2>2. c \in Ids(L)
    BY <2>1, LayoutFacts DEF Grows, Group, SameTree
  <2>3. Parent(A, c) = Parent(L, c)
    BY <2>1, <2>2 DEF SameTree
  <2> QED BY <1>1, <2>2, <2>3, AboveShrinks
<1> HIDE DEF m, High
<1>6. 0 \in S
  <2>1. High(p) + 0 <= m
    BY <1>4
  <2> QED BY <1>3, <2>1
<1>7. ASSUME NEW i \in S PROVE i + 1 \in S
  <2> DEFINE A == h[i].fields
             c == h[i].container
  <2>1. h[i] = [fields |-> A, container |-> c]
    BY <1>2 DEF ClimbStates
  <2>2. h[i + 1] = ClimbStep(h[i], n) /\ i \in Nat /\ i + 1 \in Nat
    BY <1>3
  <2> HIDE DEF A, c
  <2>3. CASE Ends(h[i])
    <3>1. h[i + 1] = h[i]
      BY <2>2, <2>3 DEF ClimbStep
    <3> QED BY <2>2, <2>3, <3>1
  <2>4. CASE ~Ends(h[i])
    <3>1. h[i + 1].container = Parent(A, c)
      BY <2>1, <2>2, <2>4 DEF ClimbStep, Parent
    <3>2. High(Parent(A, c)) + 1 <= High(c)
      BY <1>5, <2>1, <2>2, <2>4
    <3>3. High(c) + i <= m
      BY <2>1, <2>4
    <3>4. High(Parent(A, c)) + (i + 1) <= m
      BY <1>1, <1>4, <2>2, <3>2, <3>3
    <3> QED BY <2>2, <3>1, <3>4
  <2> QED BY <2>3, <2>4
<1>8. S \in SUBSET Nat
  OBVIOUS
<1>9. Len(L) \in S
  <2> HIDE DEF S
  <2>1. S = Nat
    BY <1>6, <1>7, <1>8, NatSetInduction
  <2> QED BY <1>1, <2>1
<1>10. Ends(h[Len(L)])
  <2> DEFINE A == h[Len(L)].fields
             c == h[Len(L)].container
  <2>1. SUFFICES ASSUME ~Ends(h[Len(L)]) PROVE FALSE
    OBVIOUS
  <2>2. h[Len(L)] = [fields |-> A, container |-> c]
    BY <1>1, <1>2 DEF ClimbStates
  <2> HIDE DEF A, c
  <2>3. High(Parent(A, c)) + 1 <= High(c)
    BY <1>1, <1>5, <2>1, <2>2
  <2>4. High(c) + Len(L) <= m
    BY <1>9, <2>1, <2>2
  <2> QED BY <1>1, <1>4, <2>3, <2>4
<1> QED BY <1>10 DEF h
LEMMA ClimbsHold ==
  ASSUME NEW L, NEW M, NEW p, NEW T, NEW Y, Rises(L, M, p, T, Y), NEW n \in Int,
         ClimbHolds(L, [fields |-> M, container |-> p], n, Y)
  PROVE  /\ Climb(M, p, n)[Len(M)] \in ClimbStates(M, p, T)
         /\ ClimbHolds(L, Climb(M, p, n)[Len(M)], n, Y)
         /\ LET s == Climb(M, p, n)[Len(M)]
            IN  ~Grows(s.fields, s.container, n)
<1> DEFINE h == Climb(M, p, n)
           S == {i \in Nat : ClimbHolds(L, h[i], n, Y)}
<1>1. M \in Layouts /\ Sound(M, {}, {}) /\ Around(M, p, T) /\ Len(M) \in Nat
  BY LayoutFacts DEF Rises, Sound
<1>2. p \in Ids(M) \union {Root}
  BY DEF Rises, IsIn
<1>3. h[0] = [fields |-> M, container |-> p] /\ \A i \in Nat : h[i + 1] = ClimbStep(h[i], n)
  BY <1>1, <1>2, ClimbUnfolded
<1>4. \A i \in Nat : h[i] \in ClimbStates(M, p, T)
  BY <1>1, <1>2, ClimbIn
<1>5. ~Grows(h[Len(M)].fields, h[Len(M)].container, n)
  BY <1>1, <1>2, ClimbEnds
<1> HIDE DEF h
<1>6. 0 \in S
  BY <1>3
<1>7. ASSUME NEW i \in S PROVE i + 1 \in S
  BY <1>3, <1>4, ClimbStepHolds
<1>8. S \in SUBSET Nat
  OBVIOUS
<1>9. Len(M) \in S
  <2> HIDE DEF S
  <2>1. S = Nat
    BY <1>6, <1>7, <1>8, NatSetInduction
  <2> QED BY <1>1, <2>1
<1> QED BY <1>1, <1>4, <1>5, <1>9 DEF h

LEMMA NothingGrows ==
  ASSUME NEW L \in Layouts, Tree(L), NEW A \in Layouts, Tree(A), IsIn(L, A), NEW Y \in SUBSET Ids(L),
         NEW c, NEW n \in Int, ClimbHolds(L, [fields |-> A, container |-> c], n, Y), ~Grows(A, c, n)
  PROVE  Holds(L, A, Y)
<1> SUFFICES ASSUME NEW x \in Y, Contained(L, x), ~GrewBeside(L, A, x),
                    Parent(L, x) = c, Bottom(Find(A, x)) <= n
             PROVE  Contained(A, x)
  BY DEF ClimbHolds, Holds
<1>1. x \in Ids(A) /\ Parent(A, x) = c /\ c \in Ids(A)
  BY DEF IsIn, Contained
<1>2. Find(A, c).type = Group /\ Find(A, c) \in Fields /\ Find(A, x) \in Fields
  BY <1>1, ScopeFacts
<1>3. TypeOf(A, c) = Group
  BY <1>1, <1>2, LayoutFacts
<1>4. Bottom(Find(A, c)) \in Int /\ Bottom(Find(A, x)) \in Int
  BY <1>2 DEF Fields, Bottom
<1>5. n - Bottom(Find(A, c)) <= 0
  <2>1. ~(Growth(Find(A, c), n) > 0)
    BY <1>3 DEF Grows
  <2>2. Growth(Find(A, c), n) = Larger(0, n - Bottom(Find(A, c)))
    BY DEF Growth
  <2> QED BY <1>4, <2>1, <2>2 DEF Larger
<1> QED BY <1>1, <1>4, <1>5 DEF Contained

(* When the groups have grown, the fields lie in them again. *)
LEMMA ExpandHolds ==
  ASSUME NEW L, NEW M, NEW p, NEW T, NEW Y, Rises(L, M, p, T, Y), NEW n \in Int,
         ClimbHolds(L, [fields |-> M, container |-> p], n, Y)
  PROVE  Holds(L, ExpandToFit(M, p, n), Y)
<1> DEFINE s == Climb(M, p, n)[Len(M)]
           A == s.fields
           c == s.container
           N == NormalizeRichText(A)
<1>1. L \in Layouts /\ Tree(L) /\ IsIn(L, M) /\ M \in Layouts /\ Tree(M) /\ Y \subseteq Ids(L)
  BY DEF Rises, Sound
<1>2. s \in ClimbStates(M, p, T) /\ ClimbHolds(L, s, n, Y) /\ ~Grows(A, c, n)
  BY ClimbsHold
<1> HIDE DEF s
<1>3. A \in Layouts /\ Tree(A) /\ SameTree(M, A)
  BY <1>2 DEF ClimbStates, Sound, Keeps, Follows
<1>4. IsIn(L, A)
  BY <1>1, <1>3 DEF IsIn, SameTree
<1>5. Holds(L, A, Y)
  <2>1. s = [fields |-> A, container |-> c]
    BY <1>2 DEF ClimbStates
  <2> HIDE DEF A, c
  <2> QED BY <1>1, <1>2, <1>3, <1>4, <2>1, NothingGrows
<1>6. CASE ~Grows(M, p, n)
  <2>1. ExpandToFit(M, p, n) = M
    BY <1>6 DEF ExpandToFit
  <2> QED BY <1>1, <1>6, <2>1, NothingGrows
<1>7. CASE Grows(M, p, n)
  <2>1. ExpandToFit(M, p, n) = N
    BY <1>7 DEF ExpandToFit, s
  <2>2. IsNormal(A, N)
    BY <1>3, NormalizeIs
  <2> HIDE DEF N, A, c
  <2>3. /\ SameTree(A, N)
        /\ \A x \in Ids(A) : Find(N, x).row = Find(A, x).row /\ Find(N, x).rowSpan = Find(A, x).rowSpan
    BY <1>3, <2>2, NormalKeeps
  <2>4. \A x \in Ids(A) : Bottom(Find(N, x)) = Bottom(Find(A, x))
    BY <2>3 DEF Bottom
  <2>5. \A x \in Ids(A) : Contained(A, x) => Contained(N, x)
    BY <2>3, <2>4 DEF Contained, SameTree
  <2>6. \A x \in Ids(L) : GrewBeside(L, A, x) => GrewBeside(L, N, x)
    BY <1>4, <2>3 DEF GrewBeside, IsIn
  <2>7. Holds(L, N, Y)
    BY <1>1, <1>4, <1>5, <2>5, <2>6 DEF Holds, IsIn
  <2> QED BY <2>1, <2>7
<1> QED BY <1>6, <1>7

-----------------------------------------------------------------------------
(* The first of some fields. *)

LEMMA LeadsOrder ==
  ASSUME NEW L \in Layouts, NEW i \in DOMAIN L, NEW j \in DOMAIN L, NEW k \in DOMAIN L
  PROVE  /\ i # j => Leads(L, i, j) \/ Leads(L, j, i)
         /\ ~(Leads(L, i, j) /\ Leads(L, j, i))
         /\ Leads(L, i, j) /\ Leads(L, j, k) => Leads(L, i, k)
<1>1. /\ i \in Int /\ j \in Int /\ k \in Int
      /\ L[i].row \in Int /\ L[j].row \in Int /\ L[k].row \in Int
      /\ L[i].column \in Int /\ L[j].column \in Int /\ L[k].column \in Int
  BY LayoutFacts DEF Fields
<1> QED BY <1>1 DEF Leads, Before

LEMMA FirstUpto ==
  ASSUME NEW L \in Layouts
  PROVE  \A n \in Nat : \A I \in SUBSET (DOMAIN L \cap (1 .. n)) :
            I # {} => \E i \in I : \A j \in I \ {i} : Leads(L, i, j)
<1> DEFINE Has(I) == \E i \in I : \A j \in I \ {i} : Leads(L, i, j)
           S == {n \in Nat : \A I \in SUBSET (DOMAIN L \cap (1 .. n)) : I # {} => Has(I)}
<1>1. 0 \in S
  OBVIOUS
<1>2. ASSUME NEW n \in S PROVE n + 1 \in S
  <2> SUFFICES ASSUME NEW I \in SUBSET (DOMAIN L \cap (1 .. n + 1)), I # {} PROVE Has(I)
    OBVIOUS
  <2>1. CASE n + 1 \notin I
    <3>1. I \in SUBSET (DOMAIN L \cap (1 .. n))
      BY <2>1
    <3> QED BY <3>1
  <2>2. CASE I = {n + 1}
    BY <2>2
  <2>3. CASE n + 1 \in I /\ I # {n + 1}
    <3> DEFINE J == I \ {n + 1}
    <3>1. J \in SUBSET (DOMAIN L \cap (1 .. n)) /\ J # {}
      BY <2>3
    <3>2. PICK i \in J : \A j \in J \ {i} : Leads(L, i, j)
      BY <3>1
    <3>3. i # n + 1 /\ i \in DOMAIN L /\ n + 1 \in DOMAIN L /\ i \in I
      BY <2>3
    <3>4. CASE Leads(L, i, n + 1)
      <4>1. \A j \in I \ {i} : Leads(L, i, j)
        BY <3>2, <3>4
      <4> QED BY <3>3, <4>1
    <3>5. CASE Leads(L, n + 1, i)
      <4>1. ASSUME NEW j \in I \ {n + 1} PROVE Leads(L, n + 1, j)
        <5>1. CASE j = i
          BY <3>5, <5>1
        <5>2. CASE j # i
          <6>1. Leads(L, i, j) /\ j \in DOMAIN L
            BY <3>2, <5>2
          <6> QED BY <3>3, <3>5, <6>1, LeadsOrder
        <5> QED BY <5>1, <5>2
      <4> QED BY <2>3, <4>1
    <3> QED BY <3>3, <3>4, <3>5, LeadsOrder
  <2> QED BY <2>1, <2>2, <2>3
<1>3. S \in SUBSET Nat
  OBVIOUS
<1> HIDE DEF S
<1>4. S = Nat
  BY <1>1, <1>2, <1>3, NatSetInduction
<1> QED BY <1>4 DEF S

LEMMA FirstIs ==
  ASSUME NEW L \in Layouts, NEW I \in SUBSET DOMAIN L, I # {}
  PROVE  FirstOf(L, I) \in I
<1>1. \E i \in I : \A j \in I \ {i} : Leads(L, i, j)
  <2>1. DOMAIN L = 1 .. Len(L) /\ Len(L) \in Nat
    BY LayoutFacts
  <2>2. I \in SUBSET (DOMAIN L \cap (1 .. Len(L)))
    BY <2>1
  <2> QED BY <2>1, <2>2, FirstUpto
<1>2. FirstOf(L, I) = CHOOSE i \in I : \A j \in I \ {i} : Leads(L, i, j)
  BY DEF FirstOf, Leads
<1> QED BY <1>1, <1>2

-----------------------------------------------------------------------------
(* GiveWay: the queue of rectangles that push. *)

LEMMA QueueFacts ==
  ASSUME NEW R, NEW queue \in Queues(R), queue # << >>
  PROVE  /\ Head(queue).rect \in R /\ Head(queue).rect \in Waiting(queue)
         /\ Tail(queue) \in Queues(R)
         /\ Waiting(queue) = Waiting(Tail(queue)) \union {Head(queue).rect}
<1> DEFINE E == [fresh : BOOLEAN, rect : R]
           t == Tail(queue)
<1>1. queue \in Seq(E) /\ Len(queue) \in Nat \ {0} /\ DOMAIN queue = 1 .. Len(queue)
  <2>1. queue \in Seq(E)
    BY DEF Queues
  <2> HIDE DEF E
  <2>2. Len(queue) \in Nat \ {0}
    BY <2>1, EmptySeq
  <2>3. DOMAIN queue = 1 .. Len(queue)
    BY <2>1, LenProperties
  <2> QED BY <2>1, <2>2, <2>3
<1>2. Head(queue) \in E /\ Head(queue) = queue[1]
  <2>1. queue # << >> /\ queue \in Seq(E)
    BY <1>1
  <2> HIDE DEF E
  <2>2. Head(queue) \in E
    BY <2>1, HeadTailProperties
  <2>3. Head(queue) = queue[1]
    BY <1>1
  <2> QED BY <2>2, <2>3
<1>3. /\ t \in Seq(E) /\ Len(t) = Len(queue) - 1 /\ DOMAIN t = 1 .. Len(t)
      /\ \A k \in 1 .. Len(t) : t[k] = queue[k + 1]
  BY <1>1, HeadTailProperties, LenProperties
<1>4. Waiting(queue) \subseteq Waiting(t) \union {Head(queue).rect}
  <2> SUFFICES ASSUME NEW k \in 1 .. Len(queue)
               PROVE  queue[k].rect \in Waiting(t) \union {Head(queue).rect}
    BY <1>1 DEF Waiting
  <2>1. CASE k = 1
    BY <1>2, <2>1
  <2>2. CASE k # 1
    <3>1. k - 1 \in 1 .. Len(t) /\ (k - 1) + 1 = k
      BY <1>1, <1>3, <2>2
    <3>2. t[k - 1] = queue[k]
      BY <1>3, <3>1
    <3> HIDE DEF t
    <3> QED BY <1>3, <3>1, <3>2 DEF Waiting
  <2> QED BY <2>1, <2>2
<1>5. Waiting(t) \subseteq Waiting(queue)
  <2> SUFFICES ASSUME NEW k \in 1 .. Len(t) PROVE t[k].rect \in Waiting(queue)
    BY <1>3 DEF Waiting
  <2>1. k + 1 \in DOMAIN queue /\ t[k] = queue[k + 1]
    BY <1>1, <1>3
  <2> QED BY <2>1 DEF Waiting
<1>6. Head(queue).rect \in Waiting(queue)
  BY <1>1, <1>2 DEF Waiting
<1>7. Head(queue).rect \in R
  BY <1>2
<1> QED BY <1>3, <1>4, <1>5, <1>6, <1>7 DEF Queues

LEMMA QueueGrows ==
  ASSUME NEW R, NEW queue \in Queues(R), queue # << >>, NEW r \in R
  PROVE  LET q == << [fresh |-> FALSE, rect |-> Head(queue).rect] >> \o Tail(queue)
                  \o << [fresh |-> TRUE, rect |-> r] >>
         IN  q \in Queues(R) /\ Waiting(q) = Waiting(queue) \union {r}
<1> DEFINE E == [fresh : BOOLEAN, rect : R]
           h == Head(queue).rect
           t == Tail(queue)
           a == << [fresh |-> FALSE, rect |-> h] >>
           b == << [fresh |-> TRUE, rect |-> r] >>
           u == a \o t
           q == u \o b
<1>1. h \in R /\ t \in Seq(E) /\ Waiting(queue) = Waiting(t) \union {h}
  BY QueueFacts DEF Queues
<1> HIDE DEF h, t
<1>2. /\ a \in Seq(E) /\ Len(a) = 1 /\ a[1].rect = h
      /\ b \in Seq(E) /\ Len(b) = 1 /\ b[1].rect = r
  BY <1>1
<1> HIDE DEF a, b, E
<1>3. /\ u \in Seq(E) /\ Len(u) = 1 + Len(t) /\ Len(t) \in Nat /\ DOMAIN t = 1 .. Len(t)
      /\ \A k \in 1 .. 1 + Len(t) : u[k] = IF k <= 1 THEN a[k] ELSE t[k - 1]
  <2>1. /\ u \in Seq(E) /\ Len(u) = Len(a) + Len(t)
        /\ \A k \in 1 .. Len(a) + Len(t) : u[k] = IF k <= Len(a) THEN a[k] ELSE t[k - Len(a)]
    BY <1>1, <1>2, ConcatProperties
  <2>2. Len(t) \in Nat /\ DOMAIN t = 1 .. Len(t)
    BY <1>1, LenProperties
  <2> HIDE DEF u
  <2> QED BY <1>2, <2>1, <2>2
<1> HIDE DEF u
<1>4. /\ q \in Seq(E) /\ Len(q) = Len(t) + 2 /\ DOMAIN q = 1 .. Len(q)
      /\ \A k \in 1 .. Len(t) + 2 : q[k] = IF k <= Len(u) THEN u[k] ELSE b[k - Len(u)]
  <2>1. /\ q \in Seq(E) /\ Len(q) = Len(u) + Len(b)
        /\ \A k \in 1 .. Len(u) + Len(b) : q[k] = IF k <= Len(u) THEN u[k] ELSE b[k - Len(u)]
    BY <1>2, <1>3, ConcatProperties
  <2>2. DOMAIN q = 1 .. Len(q)
    BY <2>1, LenProperties
  <2> HIDE DEF q
  <2>3. Len(u) + Len(b) = Len(t) + 2
    BY <1>2, <1>3
  <2> QED BY <2>1, <2>2, <2>3
<1> HIDE DEF q
<1>5. /\ q[1] = a[1] /\ q[Len(t) + 2] = b[1]
      /\ \A k \in 1 .. Len(t) : q[k + 1] = t[k]
  <2>1. q[1] = a[1]
    BY <1>3, <1>4
  <2>2. q[Len(t) + 2] = b[1]
    BY <1>3, <1>4
  <2>3. ASSUME NEW k \in 1 .. Len(t) PROVE q[k + 1] = t[k]
    <3>1. k + 1 \in 1 .. 1 + Len(t) /\ k + 1 \in 1 .. Len(t) + 2 /\ (k + 1) - 1 = k
          /\ k + 1 <= Len(u) /\ ~(k + 1 <= 1)
      BY <1>3
    <3>2. q[k + 1] = u[k + 1]
      BY <1>4, <3>1
    <3>3. u[k + 1] = t[(k + 1) - 1]
      BY <1>3, <3>1
    <3> QED BY <3>1, <3>2, <3>3
  <2> QED BY <2>1, <2>2, <2>3
<1>6. Waiting(q) \subseteq Waiting(t) \union {h, r}
  <2> SUFFICES ASSUME NEW k \in 1 .. Len(t) + 2 PROVE q[k].rect \in Waiting(t) \union {h, r}
    BY <1>4 DEF Waiting
  <2>1. CASE k = 1
    BY <1>2, <1>5, <2>1
  <2>2. CASE k = Len(t) + 2
    BY <1>2, <1>5, <2>2
  <2>3. CASE k # 1 /\ k # Len(t) + 2
    <3>1. k - 1 \in 1 .. Len(t) /\ (k - 1) + 1 = k
      BY <1>3, <2>3
    <3>2. q[k] = t[k - 1]
      BY <1>5, <3>1
    <3> QED BY <1>3, <3>1, <3>2 DEF Waiting
  <2> QED BY <2>1, <2>2, <2>3
<1>7. Waiting(t) \subseteq Waiting(q)
  <2> SUFFICES ASSUME NEW k \in 1 .. Len(t) PROVE t[k].rect \in Waiting(q)
    BY <1>3 DEF Waiting
  <2>1. k + 1 \in DOMAIN q /\ q[k + 1] = t[k]
    BY <1>3, <1>4, <1>5
  <2> QED BY <2>1 DEF Waiting
<1>8. h \in Waiting(q) /\ r \in Waiting(q)
  <2>1. 1 \in DOMAIN q /\ Len(t) + 2 \in DOMAIN q
    BY <1>3, <1>4
  <2> QED BY <1>2, <1>5, <2>1 DEF Waiting
<1> QED BY <1>1, <1>4, <1>6, <1>7, <1>8 DEF Queues, q, u, a, b, h, t, E

-----------------------------------------------------------------------------
(* What holds as long as rectangles push. *)

LEMMA RectOf ==
  ASSUME NEW f \in Fields
  PROVE  IsRect(f)
  BY DEF IsRect, Fields

LEMMA OverlapSame ==
  ASSUME NEW r, NEW f, NEW g, SamePlace(r, f)
  PROVE  Overlap(r, g) <=> Overlap(f, g)
  BY DEF Overlap, SamePlace, Bottom, Right

LEMMA OverlapSym ==
  ASSUME NEW f, NEW g
  PROVE  Overlap(f, g) <=> Overlap(g, f)
  BY DEF Overlap

LEMMA BlockersFacts ==
  ASSUME NEW M \in Layouts, NEW r, NEW p, NEW B, B = Blockers(M, r, p)
  PROVE  /\ B \in SUBSET DOMAIN M
         /\ B = {} => \A x \in Ids(M) :
                ~(x # r.id /\ Parent(M, x) = p /\ Overlap(r, Find(M, x)))
         /\ B # {} => LET b == M[FirstOf(M, B)]
                      IN  /\ b \in Fields /\ b.id \in Ids(M) /\ b = Find(M, b.id)
                          /\ b.id # r.id /\ Parent(M, b.id) = p /\ Overlap(r, b)
<1>1. B \in SUBSET DOMAIN M
  BY DEF Blockers
<1>2. ASSUME B = {}, NEW x \in Ids(M)
      PROVE ~(x # r.id /\ Parent(M, x) = p /\ Overlap(r, Find(M, x)))
  <2>1. PICK i \in DOMAIN M : M[i].id = x /\ Find(M, x) = M[i]
    BY LayoutFacts
  <2>2. i \notin B
    BY <1>2
  <2> QED BY <2>1, <2>2 DEF Blockers, Parent
<1>3. ASSUME B # {}
      PROVE LET b == M[FirstOf(M, B)]
            IN  /\ b \in Fields /\ b.id \in Ids(M) /\ b = Find(M, b.id)
                /\ b.id # r.id /\ Parent(M, b.id) = p /\ Overlap(r, b)
  <2> DEFINE i == FirstOf(M, B)
  <2>1. i \in B
    BY <1>1, <1>3, FirstIs
  <2> HIDE DEF i
  <2>2. /\ i \in DOMAIN M /\ M[i].id # r.id /\ M[i].parent = p /\ Overlap(r, M[i])
    BY <2>1 DEF Blockers
  <2>3. M[i] \in Fields /\ M[i].id \in Ids(M) /\ Find(M, M[i].id) = M[i]
    BY <2>2, LayoutFacts
  <2> QED BY <2>2, <2>3 DEF i, Parent
<1> QED BY <1>1, <1>2, <1>3

LEMMA PlaceFacts ==
  ASSUME NEW r, NEW b, NEW first, NEW n, NEW way, Pushable(way, r, b, first, n)
  PROVE  LET place == NewPlace(way, r, b)
         IN  /\ place.row \in Int /\ place.column \in Int
             /\ place.row >= b.row
             /\ b.type = RichText => place.column = b.column
             /\ place.column >= first /\ place.column + b.colSpan <= first + n
             /\ place.row > b.row \/ place.column = Right(r)
<1> DEFINE place == NewPlace(way, r, b)
<1>0. /\ IsRect(r) /\ b \in Fields /\ first \in Int /\ n \in Int
      /\ way = Downwards \/ way = Sideways(first, first + n, FALSE)
      /\ way.down \/ r.column >= way.first
      /\ b.type # RichText => b.column >= first /\ Right(b) <= first + n
      /\ b.type = RichText => b.column = first /\ b.colSpan = n
  BY DEF Pushable
<1>1. /\ r.row \in Int /\ r.column \in Int /\ r.rowSpan \in Nat \ {0} /\ r.colSpan \in Nat \ {0}
      /\ b.row \in Int /\ b.column \in Int /\ b.rowSpan \in Nat \ {0} /\ b.colSpan \in Nat \ {0}
  BY <1>0 DEF IsRect, Fields
<1>2. Bottom(r) \in Int /\ Right(r) = r.column + r.colSpan /\ Right(b) = b.column + b.colSpan
  BY <1>1 DEF Bottom, Right
<1>3. CASE way = Downwards
  <2>1. way.down
    BY <1>3 DEF Downwards
  <2>2. place = [row |-> Larger(Bottom(r), b.row + 1), column |-> b.column]
    BY <2>1 DEF NewPlace
  <2>3. place.row \in Int /\ place.row > b.row /\ place.column = b.column
    BY <1>1, <1>2, <2>2 DEF Larger
  <2> QED BY <1>0, <1>1, <1>2, <2>3
<1>4. CASE way = Sideways(first, first + n, FALSE)
  <2>1. ~way.down /\ way.first = first /\ way.end = first + n /\ ~way.table
    BY <1>4 DEF Sideways
  <2>2. r.column >= first
    BY <1>0, <2>1
  <2>3. CASE Right(r) + b.colSpan <= first + n
    <3>1. place = [row |-> b.row, column |-> Right(r)]
      BY <2>1, <2>3 DEF NewPlace
    <3> QED BY <1>0, <1>1, <1>2, <2>2, <2>3, <3>1
  <2>4. CASE ~(Right(r) + b.colSpan <= first + n)
    <3>1. place = [row |-> Larger(b.row, r.row) + 1, column |-> first]
      BY <2>1, <2>4 DEF NewPlace
    <3>2. place.row \in Int /\ place.row > b.row /\ place.column = first
      BY <1>0, <1>1, <3>1 DEF Larger
    <3> QED BY <1>0, <1>1, <1>2, <2>2, <3>2
  <2> QED BY <2>3, <2>4
<1> QED BY <1>0, <1>3, <1>4

LEMMA ScopeStays ==
  ASSUME NEW L \in Layouts, Tree(L), NEW M \in Layouts, SameTree(L, M), NEW x \in Ids(L),
         Parent(L, x) \in Ids(L) =>
            /\ Find(M, Parent(L, x)).row = Find(L, Parent(L, x)).row
            /\ Find(M, Parent(L, x)).column = Find(L, Parent(L, x)).column
            /\ Find(M, Parent(L, x)).colSpan = Find(L, Parent(L, x)).colSpan
  PROVE  /\ ScopeRow(M, Parent(L, x)) = ScopeRow(L, Parent(L, x))
         /\ ScopeColumn(M, Parent(L, x)) = ScopeColumn(L, Parent(L, x))
         /\ ScopeColumns(M, Parent(L, x)) = ScopeColumns(L, Parent(L, x))
<1>1. Tree(M) /\ x \in Ids(M) /\ Parent(M, x) = Parent(L, x)
  BY SameTreeTree DEF SameTree
<1>2. CASE Parent(L, x) = Root
  BY <1>1, <1>2, ScopeFacts DEF ScopeRow
<1>3. CASE Parent(L, x) \in Ids(L)
  <2>1. Parent(L, x) # Root
    BY <1>3, RootIsNoId
  <2> QED BY <1>1, <1>3, <2>1, ScopeFacts DEF ScopeRow
<1> QED BY <1>2, <1>3, ScopeFacts

LEMMA MoveOne ==
  ASSUME NEW M, NEW N, NEW p, NEW T, NEW x, NEW dr, NEW dc, Moves(M, N, p, T, x, dr, dc)
  PROVE  HasMoved(M, N, p, T, x, dr, dc)
<1>m. /\ Sound(M, {}, {p}) /\ Path(M, T) /\ p \in T
      /\ x \in Ids(M) /\ Parent(M, x) = p /\ x \notin T
      /\ dr \in Nat /\ dc \in Int /\ IsShift(M, N, {x}, dr, dc)
      /\ Find(M, x).type = RichText => dc = 0
      /\ Find(M, x).column + dc >= ScopeColumn(M, p)
      /\ Find(M, x).column + dc + Find(M, x).colSpan <= ScopeColumn(M, p) + ScopeColumns(M, p)
  BY DEF Moves
<1>0. /\ M \in Layouts /\ Tree(M) /\ N \in Layouts /\ InGrid(M, {x}, p) /\ dr \in Int
      /\ Ids(N) = Ids(M)
  BY <1>m DEF Sound, IsShift, InGrid
<1>1. /\ SameTree(M, N) /\ Tree(N) /\ Len(N) = Len(M) /\ SameWidths(M, N) /\ SameHeights(M, N)
      /\ \A z \in Ids(M) : Parent(M, z) = p =>
                Find(N, z) = IF z \in {x} THEN Shifted(Find(M, z), dr, dc) ELSE Find(M, z)
      /\ p \in Ids(M) => Find(N, p) = Find(M, p)
  BY <1>m, <1>0, TranslateShifts
<1>2. Find(N, x) = Shifted(Find(M, x), dr, dc) /\ Find(N, x) \in Fields /\ Find(M, x) \in Fields
  BY <1>m, <1>0, <1>1, FindIsField
<1>3. \A y \in Ids(M) \ {x} : Parent(M, y) = p => Find(N, y) = Find(M, y)
  BY <1>1
<1>4. Follows(M, N, {p})
  BY <1>m, <1>0, TranslateFollows
<1>5. Stays(M, N, T)
  <2>1. {x} \cap T = {} /\ {x} \in SUBSET Ids(M)
    BY <1>m
  <2> QED BY <1>m, <1>0, <2>1, TranslateStays
<1>6. ASSUME NEW z \in Ids(M) PROVE Fills(M, z) => Fills(N, z)
  <2>1. CASE z # x \/ dc = 0
    <3>1. z \notin {x} \/ (dr >= 0 /\ dc = 0)
      BY <1>m, <2>1
    <3> QED BY <1>m, <1>0, <3>1, TranslateScoped
  <2>2. CASE z = x /\ dc # 0
    <3>1. Find(N, z).type # RichText
      BY <1>m, <1>1, <2>2 DEF SameTree
    <3> QED BY <3>1 DEF Fills
  <2> QED BY <2>1, <2>2
<1>7. Keeps(M, N, {p}, T)
  <2>1. \A z \in Ids(M) : Find(N, z).rowSpan = Find(M, z).rowSpan /\ Find(N, z) \in Fields
    BY <1>m, <1>0, <1>1, FindIsField DEF SameHeights
  <2>2. \A z \in Ids(M) : Find(N, z).rowSpan >= Find(M, z).rowSpan
    BY <2>1 DEF Fields
  <2> QED BY <1>m, <1>0, <1>1, <1>4, <1>5, <1>6, <2>1, <2>2 DEF Keeps
<1>8. ASSUME NEW z \in Ids(N) PROVE Scoped(N, z)
  <2>1. Scoped(M, z) /\ z \in Ids(M)
    BY <1>m, <1>0, <1>8 DEF Sound
  <2>2. CASE z # x
    BY <1>m, <1>0, <2>1, <2>2, TranslateScoped
  <2>3. CASE z = x
    <3>1. /\ ScopeRow(N, p) = ScopeRow(M, p) /\ ScopeColumn(N, p) = ScopeColumn(M, p)
          /\ ScopeColumns(N, p) = ScopeColumns(M, p) /\ Parent(N, x) = p
      BY <1>m, <1>0, <1>1, ScopeStays DEF SameTree
    <3>2. /\ Find(N, x).row = Find(M, x).row + dr /\ Find(N, x).column = Find(M, x).column + dc
          /\ Find(N, x).colSpan = Find(M, x).colSpan /\ Find(N, x).type = Find(M, x).type
      BY <1>m, <1>0, <1>2, ShiftedFacts
    <3>3. /\ ScopeRow(M, p) \in Int /\ Find(M, x).row >= ScopeRow(M, p)
          /\ Find(M, x).row \in Int /\ Find(M, x).column \in Int
          /\ ScopeColumn(M, p) \in Int /\ ScopeColumns(M, p) \in Nat
      BY <1>m, <1>0, <1>2, <2>1, <2>3, ScopeFacts DEF Scoped, Fields
    <3> QED BY <1>m, <2>3, <3>1, <3>2, <3>3 DEF Scoped, Right
  <2> QED BY <1>m, <2>2, <2>3
<1>9. ASSUME NEW y \in Ids(N), NEW z \in Ids(N), y # z, Parent(N, y) = Parent(N, z),
             Parent(N, y) # p
      PROVE  ~Clash(Find(N, y), Find(N, z))
  <2>1. /\ y \in Ids(M) /\ z \in Ids(M) /\ Parent(M, y) = Parent(M, z) /\ Parent(M, y) # p
    BY <1>1, <1>9 DEF SameTree
  <2>2. ~Clash(Find(M, y), Find(M, z))
    BY <1>m, <1>9, <2>1 DEF Sound
  <2> QED BY <1>m, <1>0, <2>1, <2>2, TranslateApart
<1>10. Sound(N, {}, {p})
  BY <1>m, <1>0, <1>1, <1>8, <1>9 DEF Sound
<1> QED BY <1>1, <1>2, <1>3, <1>7, <1>10 DEF HasMoved

LEMMA PushStep ==
  ASSUME NEW L \in Layouts, Tree(L), NEW p, NEW T, Around(L, p, T), NEW way, GivesWay(way, L, p),
         NEW R, Fields \subseteq R, \A r \in R : IsRect(r),
         NEW s \in PushStates(L, p, T, R, way), s.queue # << >>
  PROVE  PushOnce(s, p, way) \in PushStates(L, p, T, R, way)
<1> DEFINE M == s.fields
           queue == s.queue
           r == Head(queue).rect
           B == Blockers(M, r, p)
<1>1. /\ M \in Layouts /\ queue \in Queues(R) /\ queue # << >> /\ s.pushes \in Nat
      /\ Sound(M, {}, {p}) /\ FilledIn(M, p) /\ Keeps(L, M, {p}, T) /\ SameHeights(L, M)
      /\ \A w \in Waiting(queue) : way.down \/ w.column >= way.first
      /\ \A x, y \in Ids(M) :
            x # y /\ Parent(M, x) = p /\ Parent(M, y) = p /\ Overlap(Find(M, x), Find(M, y))
              => Waits(queue, M, x) \/ Waits(queue, M, y)
      /\ s = [fields |-> M, pushes |-> s.pushes, queue |-> queue]
  BY DEF PushStates
<1>2. /\ r \in R /\ r \in Waiting(queue) /\ Tail(queue) \in Queues(R)
      /\ Waiting(queue) = Waiting(Tail(queue)) \union {r}
  BY <1>1, QueueFacts
<1>3. SameTree(L, M) /\ Ids(M) = Ids(L) /\ Tree(M) /\ IsRect(r)
  BY <1>1, <1>2 DEF Keeps, Follows, SameTree, Sound
<1> HIDE DEF queue
<1>4. CASE B = {}
  <2> DEFINE z == [fields |-> M, pushes |-> s.pushes, queue |-> Tail(queue)]
  <2>1. PushOnce(s, p, way) = z
    BY <1>1, <1>4 DEF PushOnce, queue
  <2>2. \A w \in Waiting(Tail(queue)) : way.down \/ w.column >= way.first
    BY <1>1, <1>2
  <2>3. ASSUME NEW x \in Ids(M), NEW y \in Ids(M), x # y, Parent(M, x) = p, Parent(M, y) = p,
               Overlap(Find(M, x), Find(M, y)), Waits(queue, M, x)
        PROVE  Waits(Tail(queue), M, x)
    <3>1. PICK w \in Waiting(queue) : w.id = x /\ SamePlace(w, Find(M, x))
      BY <2>3 DEF Waits
    <3>2. CASE w = r
      <4>1. y # r.id /\ Overlap(r, Find(M, y))
        BY <2>3, <3>1, <3>2, OverlapSame
      <4> QED BY <1>1, <1>4, <2>3, <4>1, BlockersFacts
    <3>3. CASE w # r
      BY <1>2, <3>1, <3>3 DEF Waits
    <3> QED BY <3>2, <3>3
  <2>4. ASSUME NEW x \in Ids(M), NEW y \in Ids(M), x # y, Parent(M, x) = p, Parent(M, y) = p,
               Overlap(Find(M, x), Find(M, y))
        PROVE  Waits(Tail(queue), M, x) \/ Waits(Tail(queue), M, y)
    <3>1. CASE Waits(queue, M, x)
      BY <2>3, <2>4, <3>1
    <3>2. CASE Waits(queue, M, y)
      <4>1. Overlap(Find(M, y), Find(M, x))
        BY <2>4, OverlapSym
      <4> QED BY <2>3, <2>4, <3>2, <4>1
    <3> QED BY <1>1, <2>4, <3>1, <3>2
  <2> HIDE DEF M, B, r
  <2>5. z \in PushStates(L, p, T, R, way)
    BY <1>1, <1>2, <2>2, <2>4 DEF PushStates
  <2> QED BY <2>1, <2>5
<1>5. CASE B # {}
  <2> DEFINE b == M[FirstOf(M, B)]
             place == NewPlace(way, r, b)
             dr == place.row - b.row
             dc == place.column - b.column
             N == Translate(M, {b.id}, dr, dc)
             after == << [fresh |-> FALSE, rect |-> r] >> \o Tail(queue)
                        \o << [fresh |-> TRUE, rect |-> Find(N, b.id)] >>
             z == [fields |-> N, pushes |-> s.pushes + 1, queue |-> after]
  <2>1. PushOnce(s, p, way) = z
    BY <1>1, <1>5 DEF PushOnce, queue
  <2>2. /\ b \in Fields /\ b.id \in Ids(M) /\ b = Find(M, b.id)
        /\ b.id # r.id /\ Parent(M, b.id) = p /\ Overlap(r, b)
    BY <1>1, <1>5, BlockersFacts
  <2> HIDE DEF b, M, r, B
  <2> DEFINE x == b.id
             first == ScopeColumn(M, p)
             n == ScopeColumns(M, p)
  <2>3. first = ScopeColumn(L, p) /\ n = ScopeColumns(L, p) /\ first \in Int /\ n \in Nat
    <3>1. x \in Ids(L) /\ Parent(L, x) = p
      BY <1>3, <2>2 DEF SameTree
    <3>2. ASSUME p \in Ids(L)
          PROVE  /\ Find(M, p).row = Find(L, p).row
                 /\ Find(M, p).column = Find(L, p).column
                 /\ Find(M, p).colSpan = Find(L, p).colSpan
      <4>1. p \in T /\ Find(L, p).type # RichText
        BY <3>1, <3>2, ScopeFacts DEF Around, Group, RichText
      <4> QED BY <1>1, <3>2, <4>1 DEF Keeps, Stays, SameWidths
    <3>3. ScopeColumn(M, p) = ScopeColumn(L, p) /\ ScopeColumns(M, p) = ScopeColumns(L, p)
      BY <1>1, <1>3, <3>1, <3>2, ScopeStays
    <3>4. ScopeColumn(L, p) \in Int /\ ScopeColumns(L, p) \in Nat
      BY <3>1, ScopeFacts
    <3> QED BY <3>3, <3>4
  <2>4. way = Downwards \/ way = Sideways(first, first + n, FALSE)
    BY <2>3 DEF GivesWay
  <2>5. way.down \/ r.column >= way.first
    BY <1>1, <1>2
  <2>6. b.type # RichText => b.column >= first /\ Right(b) <= first + n
    BY <1>1, <2>2 DEF Sound, Scoped
  <2>7. b.type = RichText => b.column = first /\ b.colSpan = n
    BY <1>1, <2>2 DEF FilledIn, Fills
  <2>8. /\ place.row \in Int /\ place.column \in Int /\ place.row >= b.row
        /\ b.type = RichText => place.column = b.column
        /\ place.column >= first /\ place.column + b.colSpan <= first + n
    <3> HIDE DEF first, n, place
    <3>1. Pushable(way, r, b, first, n)
      <4>1. IsRect(r) /\ b \in Fields
        BY <1>3, <2>2
      <4>2. first \in Int /\ n \in Int
        BY <2>3
      <4> QED BY <4>1, <4>2, <2>4, <2>5, <2>6, <2>7 DEF Pushable
    <3> QED BY <3>1, PlaceFacts DEF place
  <2> HIDE DEF place
  <2>9. /\ dr \in Nat /\ dc \in Int /\ dr \in Int
        /\ b.type = RichText => dc = 0
        /\ b.column + dc >= first /\ b.column + dc + b.colSpan <= first + n
    <3>1. b.row \in Int /\ b.column \in Int
      BY <2>2 DEF Fields
    <3>2. b.column + dc = place.column
      BY <2>8, <3>1
    <3> QED BY <2>8, <3>1, <3>2
  <2> HIDE DEF dr, dc
  <2>10. IsShift(M, N, {x}, dr, dc)
    <3>1. {x} \in SUBSET Ids(M)
      BY <2>2
    <3> QED BY <1>1, <2>9, <3>1, TranslateIs
  <2>11. Path(M, T) /\ p \in T /\ x \notin T
    <3>1. x \in Ids(L) /\ Parent(L, x) = p
      BY <1>3, <2>2 DEF SameTree
    <3>2. Path(M, T)
      BY <1>3, PathSame DEF Around
    <3> QED BY <3>1, <3>2 DEF Around
  <2> HIDE DEF N
  <2>12. /\ Sound(N, {}, {p}) /\ Keeps(M, N, {p}, T) /\ SameHeights(M, N)
         /\ Find(N, x) = Shifted(Find(M, x), dr, dc) /\ Find(N, x) \in Fields
         /\ \A y \in Ids(M) \ {x} : Parent(M, y) = p => Find(N, y) = Find(M, y)
    <3> HIDE DEF x
    <3>1. Find(M, x) = b /\ x \in Ids(M) /\ Parent(M, x) = p
      BY <2>2 DEF x
    <3>2. (Find(M, x).type = RichText => dc = 0)
          /\ Find(M, x).column + dc >= ScopeColumn(M, p)
          /\ Find(M, x).column + dc + Find(M, x).colSpan <= ScopeColumn(M, p) + ScopeColumns(M, p)
      BY <2>9, <3>1
    <3>3. Moves(M, N, p, T, x, dr, dc)
      BY <1>1, <2>9, <2>10, <2>11, <3>1, <3>2 DEF Moves
    <3>4. HasMoved(M, N, p, T, x, dr, dc)
      BY <3>3, MoveOne
    <3> QED BY <3>4 DEF HasMoved
  <2>13. Keeps(L, N, {p}, T) /\ SameHeights(L, N) /\ N \in Layouts /\ SameTree(M, N) /\ Ids(N) = Ids(M)
    <3>1. Keeps(L, N, {p}, T)
      BY <1>1, <2>12, KeptTrans
    <3>2. N \in Layouts /\ SameTree(M, N) /\ Ids(N) = Ids(M)
      BY <2>12 DEF Keeps, Follows, SameTree
    <3>3. SameHeights(L, N)
      BY <1>1, <1>3, <2>12 DEF SameHeights
    <3> QED BY <3>1, <3>2, <3>3
  <2>14. FilledIn(N, p)
    BY <1>1, <2>12, <2>13 DEF FilledIn, Keeps, SameTree
  <2>15. after \in Queues(R) /\ Waiting(after) = Waiting(queue) \union {Find(N, x)}
    BY <1>1, <2>12, QueueGrows DEF r
  <2> HIDE DEF after
  <2>16. ASSUME NEW w \in Waiting(after) PROVE way.down \/ w.column >= way.first
    <3>1. CASE w \in Waiting(queue)
      BY <1>1, <3>1
    <3>2. CASE w = Find(N, x) /\ ~way.down
      <4>1. way.first = first
        BY <2>4, <3>2 DEF Downwards, Sideways
      <4>2. w.column = b.column + dc
        BY <2>2, <2>9, <2>12, <3>2, ShiftedFacts
      <4> QED BY <2>9, <4>1, <4>2
    <3> QED BY <2>15, <3>1, <3>2
  <2>17. Waits(after, N, x)
    <3>1. Find(N, x).id = x
      BY <2>2, <2>13, FindIsField
    <3> QED BY <2>15, <3>1 DEF Waits, SamePlace
  <2>18. ASSUME NEW y \in Ids(M) \ {x}, Parent(M, y) = p, Waits(queue, M, y)
         PROVE  Waits(after, N, y)
    BY <2>12, <2>15, <2>18 DEF Waits
  <2>19. ASSUME NEW y \in Ids(N), NEW v \in Ids(N), y # v, Parent(N, y) = p, Parent(N, v) = p,
                Overlap(Find(N, y), Find(N, v))
         PROVE  Waits(after, N, y) \/ Waits(after, N, v)
    <3>1. CASE y = x \/ v = x
      BY <2>17, <3>1
    <3>2. CASE y # x /\ v # x
      <4>1. /\ y \in Ids(M) \ {x} /\ v \in Ids(M) \ {x} /\ Parent(M, y) = p /\ Parent(M, v) = p
        BY <2>13, <2>19, <3>2 DEF SameTree
      <4>2. Find(N, y) = Find(M, y) /\ Find(N, v) = Find(M, v)
        BY <2>12, <4>1
      <4>3. Waits(queue, M, y) \/ Waits(queue, M, v)
        BY <1>1, <2>19, <4>1, <4>2
      <4> QED BY <2>18, <4>1, <4>3
    <3> QED BY <3>1, <3>2
  <2>20. z \in PushStates(L, p, T, R, way)
    BY <1>1, <2>12, <2>13, <2>14, <2>15, <2>16, <2>19 DEF PushStates
  <2> QED BY <2>1, <2>20
<1> QED BY <1>4, <1>5

LEMMA HasMax ==
  \A n \in Nat : \A S \in SUBSET Int :
    IsFiniteSet(S) /\ Cardinality(S) = n /\ S # {} => \E m \in S : \A k \in S : m >= k
<1> DEFINE Good2(S) == \E m \in S : \A k \in S : m >= k
           N == {n \in Nat : \A S \in SUBSET Int :
                    IsFiniteSet(S) /\ Cardinality(S) = n /\ S # {} => Good2(S)}
<1>1. 0 \in N
  BY FS_EmptySet
<1>2. ASSUME NEW n \in N PROVE n + 1 \in N
  <2> SUFFICES ASSUME NEW S \in SUBSET Int, IsFiniteSet(S), Cardinality(S) = n + 1, S # {}
               PROVE  Good2(S)
    OBVIOUS
  <2>1. PICK x \in S : TRUE
    OBVIOUS
  <2> DEFINE U == S \ {x}
  <2>2. IsFiniteSet(U) /\ Cardinality(U) = n /\ U \in SUBSET Int
    BY FS_RemoveElement
  <2>3. CASE U = {}
    <3>1. S = {x}
      BY <2>3
    <3> QED BY <3>1
  <2>4. CASE U # {}
    <3>1. PICK m \in U : \A k \in U : m >= k
      BY <2>2, <2>4
    <3>2. CASE m >= x
      BY <3>1, <3>2
    <3>3. CASE ~(m >= x)
      <4>1. \A k \in S : x >= k
        BY <3>1, <3>3
      <4> QED BY <4>1
    <3> QED BY <3>2, <3>3
  <2> QED BY <2>3, <2>4
<1>3. N \in SUBSET Nat
  OBVIOUS
<1> HIDE DEF N
<1>4. N = Nat
  BY <1>1, <1>2, <1>3, NatSetInduction
<1> QED BY <1>4 DEF N

LEMMA MaxIs ==
  ASSUME NEW S \in SUBSET Int, IsFiniteSet(S), S # {}
  PROVE  Max(S) \in S /\ Max(S) \in Int /\ \A k \in S : Max(S) >= k
<1>1. \E m \in S : \A k \in S : m >= k
  BY HasMax, FS_CardinalityType
<1>2. Max(S) \in S /\ \A k \in S : Max(S) >= k
  BY <1>1 DEF Max
<1> QED BY <1>2

(* The values of a field of the members of a layout. *)
LEMMA ValuesFinite ==
  ASSUME NEW L \in Layouts, NEW v \in [DOMAIN L -> Int], NEW low \in Int
  PROVE  LET S == {low} \union {v[i] : i \in DOMAIN L}
         IN  IsFiniteSet(S) /\ S \in SUBSET Int /\ S # {}
<1> DEFINE V == {v[i] : i \in DOMAIN L}
<1>1. IsFiniteSet(DOMAIN L)
  <2>1. DOMAIN L = 1 .. Len(L) /\ Len(L) \in Nat
    BY LayoutFacts
  <2> QED BY <2>1, FS_Interval
<1>2. v \in Surjection(DOMAIN L, V)
  BY DEF Surjection
<1>3. IsFiniteSet(V) /\ V \in SUBSET Int
  BY <1>1, <1>2, FS_Surjection
<1> HIDE DEF V
<1>4. IsFiniteSet(V \union {low})
  BY <1>3, FS_AddElement
<1>5. V \union {low} = {low} \union V
  OBVIOUS
<1> QED BY <1>3, <1>4, <1>5 DEF V

LEMMA LowestIs ==
  ASSUME NEW L \in Layouts, NEW some \in SUBSET {L[i] : i \in DOMAIN L}, NEW low \in Int
  PROVE  /\ LowestBottom(some, low) \in Int /\ LowestBottom(some, low) >= low
         /\ \A f \in some : LowestBottom(some, low) >= Bottom(f)
         /\ LowestBottom(some, low) = low \/ \E f \in some : LowestBottom(some, low) = Bottom(f)
<1> DEFINE v == [i \in DOMAIN L |-> Bottom(L[i])]
           A == {low} \union {v[i] : i \in DOMAIN L}
           S == {low} \union {Bottom(f) : f \in some}
<1>1. v \in [DOMAIN L -> Int]
  <2>1. \A i \in DOMAIN L : Bottom(L[i]) \in Int
    BY LayoutFacts DEF Bottom, Fields
  <2> QED BY <2>1
<1>2. \A i \in DOMAIN L : v[i] = Bottom(L[i])
  OBVIOUS
<1> HIDE DEF v
<1>3. IsFiniteSet(A) /\ A \in SUBSET Int
  BY <1>1, ValuesFinite
<1>4. S \in SUBSET A
  BY <1>2
<1>5. IsFiniteSet(S) /\ S \in SUBSET Int /\ S # {}
  BY <1>3, <1>4, FS_Subset
<1>6. Max(S) \in S /\ Max(S) \in Int /\ \A k \in S : Max(S) >= k
  BY <1>5, MaxIs
<1>7. LowestBottom(some, low) = Max(S)
  BY DEF LowestBottom
<1> QED BY <1>6, <1>7

LEMMA MaxStepsIs ==
  ASSUME NEW L \in Layouts, NEW r, IsRect(r), NEW limit \in Nat
  PROVE  MaxSteps(L, r, limit) \in Nat
<1> DEFINE v == [i \in DOMAIN L |-> L[i].rowSpan]
           A == {r.rowSpan} \union {v[i] : i \in DOMAIN L}
           S == {r.rowSpan} \union {L[i].rowSpan : i \in DOMAIN L}
<1>0. \A i \in DOMAIN L : L[i].rowSpan \in Nat
  BY LayoutFacts DEF Fields
<1>1. v \in [DOMAIN L -> Int] /\ r.rowSpan \in Int /\ r.rowSpan \in Nat
  BY <1>0 DEF IsRect
<1>2. A = S
  OBVIOUS
<1> HIDE DEF v
<1>3. IsFiniteSet(A) /\ A \in SUBSET Int /\ A # {}
  BY <1>1, ValuesFinite
<1>4. S \in SUBSET Nat
  BY <1>0, <1>1
<1>5. Max(S) \in S
  BY <1>2, <1>3, MaxIs
<1>6. Max(S) \in Nat /\ Len(L) \in Nat
  BY <1>4, <1>5, LayoutFacts
<1> QED BY <1>6 DEF MaxSteps

-----------------------------------------------------------------------------
(* When nothing pushes any more. *)
(* A rectangle may begin to push in a grid. *)
Pushes(L, r, p, T, way) ==
    /\ Sound(L, {}, {p}) /\ FilledIn(L, p) /\ Around(L, p, T) /\ GivesWay(way, L, p)
    /\ IsRect(r)
    /\ way.down \/ r.column >= way.first
    /\ \A x, y \in Ids(L) :
            x # y /\ Parent(L, x) = p /\ Parent(L, y) = p /\ Overlap(Find(L, x), Find(L, y))
              => \/ r.id = x /\ SamePlace(r, Find(L, x))
                 \/ r.id = y /\ SamePlace(r, Find(L, y))

PushNext(s, p, way, limit) == IF Finished(s, limit) THEN s ELSE PushOnce(s, p, way)

(* The function of Push, by its recursive equation. *)
IsPush(h, L, r, p, way, limit) ==
    h = [n \in Nat |->
            IF n = 0
            THEN [fields |-> L, pushes |-> 0,
                  queue |-> << [fresh |-> TRUE, rect |-> r] >>]
            ELSE LET s == h[n - 1]
                 IN  IF Finished(s, limit) THEN s ELSE PushOnce(s, p, way)]

LEMMA PushUnfold ==
  ASSUME NEW h, NEW L, NEW r, NEW p, NEW way, NEW limit
  PROVE  IsPush(h, L, r, p, way, limit) <=>
            h = [n \in Nat |-> IF n = 0
                               THEN [fields |-> L, pushes |-> 0,
                                     queue |-> << [fresh |-> TRUE, rect |-> r] >>]
                               ELSE PushNext(h[n - 1], p, way, limit)]
  BY DEF IsPush, PushNext

LEMMA PushBegins ==
  ASSUME NEW L, NEW r, NEW p, NEW T, NEW way, Pushes(L, r, p, T, way)
  PROVE  [fields |-> L, pushes |-> 0, queue |-> << [fresh |-> TRUE, rect |-> r] >>]
            \in PushStates(L, p, T, Fields \union {r}, way)
<1> DEFINE R == Fields \union {r}
           E == [fresh : BOOLEAN, rect : R]
           e == [fresh |-> TRUE, rect |-> r]
           q == << e >>
<1>1. /\ Sound(L, {}, {p}) /\ FilledIn(L, p) /\ IsRect(r)
      /\ way.down \/ r.column >= way.first
      /\ \A x, y \in Ids(L) :
            x # y /\ Parent(L, x) = p /\ Parent(L, y) = p /\ Overlap(Find(L, x), Find(L, y))
              => \/ r.id = x /\ SamePlace(r, Find(L, x))
                 \/ r.id = y /\ SamePlace(r, Find(L, y))
  BY DEF Pushes
<1>2. L \in Layouts /\ Tree(L)
  BY <1>1 DEF Sound
<1>3. e \in E /\ e.rect = r
  OBVIOUS
<1> HIDE DEF e
<1>4. q \in Seq(E) /\ DOMAIN q = {1} /\ q[1] = e
  <2> HIDE DEF E
  <2> QED BY <1>3
<1>5. q \in Queues(R) /\ Waiting(q) = {r}
  BY <1>3, <1>4 DEF Queues, Waiting
<1> HIDE DEF q, R, E
<1>6. Keeps(L, L, {p}, T) /\ SameHeights(L, L)
  BY <1>2, KeptSelf DEF SameHeights
<1>7. \A x \in Ids(L) : r.id = x /\ SamePlace(r, Find(L, x)) => Waits(q, L, x)
  BY <1>5 DEF Waits
<1>8. [fields |-> L, pushes |-> 0, queue |-> q] \in PushStates(L, p, T, R, way)
  BY <1>1, <1>2, <1>5, <1>6, <1>7 DEF PushStates
<1> QED BY <1>8 DEF q, e, R

(* No step of a push leaves X. *)
PushClosed(X, L, r, p, way, limit) ==
    /\ [fields |-> L, pushes |-> 0, queue |-> << [fresh |-> TRUE, rect |-> r] >>] \in X
    /\ \A s \in X : PushNext(s, p, way, limit) \in X

LEMMA PushInvariant ==
  ASSUME NEW L, NEW r, NEW p, NEW way, NEW limit, NEW X, PushClosed(X, L, r, p, way, limit)
  PROVE  \A n \in Nat : Push(L, r, p, way, limit)[n] \in X
<1> DEFINE s0 == [fields |-> L, pushes |-> 0, queue |-> << [fresh |-> TRUE, rect |-> r] >>]
           g == [s \in X |-> PushNext(s, p, way, limit)]
           h == Push(L, r, p, way, limit)
           S == {i \in Nat : h[i] \in X}
<1>2. s0 \in X
  BY DEF PushClosed
<1>3. g \in [X -> X]
  BY DEF PushClosed
<1>4. \E f \in [Nat -> X] : f[0] = s0 /\ \A i \in Nat : f[i + 1] = g[f[i]]
  <2> HIDE DEF s0, g
  <2> QED BY <1>2, <1>3, Iteration
<1>5. PICK f \in [Nat -> X] : f[0] = s0 /\ \A i \in Nat : f[i + 1] = g[f[i]]
  BY <1>4
<1> HIDE DEF s0
<1>6. \A i \in Nat : f[i + 1] = PushNext(f[i], p, way, limit)
  BY <1>5
<1> HIDE DEF g
<1>7. \A i \in Nat : f[i] = IF i = 0 THEN s0 ELSE PushNext(f[i - 1], p, way, limit)
  <2> SUFFICES ASSUME NEW i \in Nat
               PROVE f[i] = IF i = 0 THEN s0 ELSE PushNext(f[i - 1], p, way, limit)
    OBVIOUS
  <2>1. CASE i = 0
    BY <1>5, <2>1
  <2>2. CASE i # 0
    <3>1. i - 1 \in Nat /\ (i - 1) + 1 = i
      BY <2>2
    <3> QED BY <1>6, <2>2, <3>1
  <2> QED BY <2>1, <2>2
<1>8. f = [i \in Nat |-> IF i = 0 THEN s0 ELSE PushNext(f[i - 1], p, way, limit)]
  BY <1>5, <1>7
<1>9. IsPush(f, L, r, p, way, limit)
  BY <1>8, PushUnfold DEF s0
<1>10. h = CHOOSE e : IsPush(e, L, r, p, way, limit)
  BY DEF Push, IsPush
<1>11. IsPush(h, L, r, p, way, limit)
  BY <1>9, <1>10
<1> HIDE DEF h
<1>12. h = [i \in Nat |-> IF i = 0 THEN s0 ELSE PushNext(h[i - 1], p, way, limit)]
  BY <1>11, PushUnfold DEF s0
<1>13. 0 \in S
  BY <1>2, <1>12
<1>14. ASSUME NEW i \in S PROVE i + 1 \in S
  <2>1. i + 1 \in Nat /\ i + 1 # 0 /\ (i + 1) - 1 = i
    OBVIOUS
  <2>2. h[i + 1] = PushNext(h[i], p, way, limit)
    BY <1>12, <2>1
  <2>3. h[i] \in X
    OBVIOUS
  <2> QED BY <2>1, <2>2, <2>3 DEF PushClosed
<1>15. S \in SUBSET Nat
  OBVIOUS
<1> HIDE DEF S
<1>16. S = Nat
  BY <1>13, <1>14, <1>15, NatSetInduction
<1> QED BY <1>16 DEF S, h

LEMMA PushIn ==
  ASSUME NEW L, NEW r, NEW p, NEW T, NEW way, Pushes(L, r, p, T, way), NEW limit
  PROVE  \A n \in Nat : Push(L, r, p, way, limit)[n] \in PushStates(L, p, T, Fields \union {r}, way)
<1> DEFINE R == Fields \union {r}
           X == PushStates(L, p, T, R, way)
<1>1. L \in Layouts /\ Tree(L) /\ Around(L, p, T) /\ GivesWay(way, L, p) /\ IsRect(r)
  BY DEF Pushes, Sound
<1>2. [fields |-> L, pushes |-> 0, queue |-> << [fresh |-> TRUE, rect |-> r] >>] \in X
  BY PushBegins
<1>r. Fields \subseteq R /\ \A w \in R : IsRect(w)
  BY <1>1, RectOf
<1> HIDE DEF R
<1>s. ASSUME NEW s \in X PROVE PushNext(s, p, way, limit) \in X
  <2>1. CASE Finished(s, limit)
    BY <2>1 DEF PushNext
  <2>2. CASE ~Finished(s, limit)
    <3>1. s.queue # << >>
      BY <2>2 DEF Finished
    <3>2. PushOnce(s, p, way) \in X
      BY <1>1, <1>r, <3>1, PushStep
    <3> QED BY <2>2, <3>2 DEF PushNext
  <2> QED BY <2>1, <2>2
<1> HIDE DEF X
<1>3. \A n \in Nat : Push(L, r, p, way, limit)[n] \in X
  BY <1>2, <1>s, PushInvariant DEF PushClosed
<1> QED BY <1>3 DEF X, R

(* Within one scope, fields that clash overlap. *)
LEMMA ClashOverlaps ==
  ASSUME NEW L \in Layouts, Tree(L), NEW x \in Ids(L), NEW y \in Ids(L),
         Parent(L, x) = Parent(L, y), Scoped(L, x), Scoped(L, y), Fills(L, x), Fills(L, y)
  PROVE  Clash(Find(L, x), Find(L, y)) => Overlap(Find(L, x), Find(L, y))
<1> DEFINE f == Find(L, x) g == Find(L, y) c == ScopeColumn(L, Parent(L, x))
           n == ScopeColumns(L, Parent(L, x))
<1>1. f \in Fields /\ g \in Fields /\ c \in Int /\ n \in Nat \ {0}
  BY ScopeFacts
<1>2. /\ f.type = RichText => f.column = c /\ f.colSpan = n
      /\ g.type = RichText => g.column = c /\ g.colSpan = n
      /\ f.type # RichText => f.column >= c /\ Right(f) <= c + n
      /\ g.type # RichText => g.column >= c /\ Right(g) <= c + n
  BY DEF Fills, Scoped
<1>3. /\ f.column \in Int /\ g.column \in Int /\ f.colSpan \in Nat \ {0} /\ g.colSpan \in Nat \ {0}
  BY <1>1 DEF Fields
<1> HIDE DEF f, g, c, n
<1>4. f.type = RichText \/ g.type = RichText => f.column < Right(g) /\ g.column < Right(f)
  BY <1>1, <1>2, <1>3 DEF Right
<1> QED BY <1>4 DEF Clash, Meet, Overlap, f, g

(* The siblings in p have made room, nobody lies on anybody. *)
GaveWay(L, M, p, T) ==
    /\ Sound(M, {}, {}) /\ FilledIn(M, p) /\ Keeps(L, M, {p}, T) /\ SameHeights(L, M)

LEMMA GiveWayIs ==
  ASSUME NEW L, NEW r, NEW p, NEW T, NEW way, Pushes(L, r, p, T, way),
         ~GiveWay(L, r, p, way).tooComplex
  PROVE  GaveWay(L, GiveWay(L, r, p, way).fields, p, T)
<1> DEFINE limit == Len(L) * Len(L) + 10
           s == Push(L, r, p, way, limit)[MaxSteps(L, r, limit)]
           M == s.fields
<1>1. L \in Layouts /\ IsRect(r) /\ Len(L) \in Nat
  BY LayoutFacts DEF Pushes, Sound
<1>2. limit \in Nat
  BY <1>1
<1>3. GiveWay(L, r, p, way) = [fields |-> M, tooComplex |-> s.pushes >= limit \/ s.queue # << >>]
  BY DEF GiveWay
<1> HIDE DEF limit
<1>4. MaxSteps(L, r, limit) \in Nat
  BY <1>1, <1>2, MaxStepsIs
<1>5. s \in PushStates(L, p, T, Fields \union {r}, way)
  BY <1>4, PushIn
<1> HIDE DEF s
<1>6. s.queue = << >>
  <2> DEFINE late == s.pushes >= limit \/ s.queue # << >>
  <2>1. GiveWay(L, r, p, way).tooComplex = late
    BY <1>3
  <2>2. ~late
    <3> HIDE DEF late
    <3> QED BY <2>1, Zenon
  <2> QED BY <2>2
<1>7. /\ M \in Layouts /\ Sound(M, {}, {p}) /\ FilledIn(M, p)
      /\ Keeps(L, M, {p}, T) /\ SameHeights(L, M)
      /\ \A x, y \in Ids(M) :
            x # y /\ Parent(M, x) = p /\ Parent(M, y) = p /\ Overlap(Find(M, x), Find(M, y))
              => Waits(s.queue, M, x) \/ Waits(s.queue, M, y)
  BY <1>5 DEF PushStates
<1>8. Waiting(s.queue) = {}
  BY <1>6 DEF Waiting
<1> HIDE DEF M
<1>9. \A x, y \in Ids(M) : x # y /\ Parent(M, x) = p /\ Parent(M, y) = p
                              => ~Overlap(Find(M, x), Find(M, y))
  BY <1>7, <1>8 DEF Waits
<1>10. ASSUME NEW x \in Ids(M), NEW y \in Ids(M), x # y, Parent(M, x) = Parent(M, y)
       PROVE  ~Clash(Find(M, x), Find(M, y))
  <2>1. CASE Parent(M, x) = p
    <3>1. Tree(M) /\ Scoped(M, x) /\ Scoped(M, y) /\ Fills(M, x) /\ Fills(M, y)
      BY <1>7, <1>10, <2>1 DEF Sound, FilledIn
    <3> QED BY <1>7, <1>9, <1>10, <2>1, <3>1, ClashOverlaps
  <2>2. CASE Parent(M, x) # p
    BY <1>7, <1>10, <2>2 DEF Sound
  <2> QED BY <2>1, <2>2
<1>11. Sound(M, {}, {})
  BY <1>7, <1>10 DEF Sound
<1> QED BY <1>3, <1>7, <1>11 DEF GaveWay

-----------------------------------------------------------------------------
(* Fields taken out of a layout, and layouts joined. *)
(* What was kept of the first n fields. *)
KeptOf(L, ids, n, q) ==
    /\ q \in Seq(Fields) /\ OneEach(q) /\ Len(q) <= n
    /\ {q[k] : k \in DOMAIN q} = {L[i] : i \in {j \in 1 .. n : L[j].id \in ids}}

(* The states of the filter, after each of the fields. *)
OnlyStates(L, ids) ==
    {s \in [taken : 0 .. Len(L), kept : Seq(Fields)] : KeptOf(L, ids, s.taken, s.kept)}

OnlyNext(s, L, ids) ==
    IF s.taken = Len(L) THEN s
    ELSE [taken |-> s.taken + 1,
          kept |-> IF L[s.taken + 1].id \in ids THEN Append(s.kept, L[s.taken + 1]) ELSE s.kept]

LEMMA KeepsNone ==
  ASSUME NEW L, NEW ids
  PROVE  KeptOf(L, ids, 0, << >>)
<1>1. << >> \in Seq(Fields) /\ Len(<< >>) = 0 /\ DOMAIN << >> = {}
  OBVIOUS
<1>2. {L[i] : i \in {j \in 1 .. 0 : L[j].id \in ids}} = {}
  OBVIOUS
<1>3. {<< >>[k] : k \in DOMAIN << >>} = {}
  BY <1>1
<1>4. OneEach(<< >>)
  BY <1>1 DEF OneEach
<1> QED BY <1>1, <1>2, <1>3, <1>4 DEF KeptOf

LEMMA KeepsOne ==
  ASSUME NEW L \in Layouts, NEW ids, NEW n \in Nat, NEW q, KeptOf(L, ids, n, q), n < Len(L)
  PROVE  KeptOf(L, ids, n + 1, IF L[n + 1].id \in ids THEN Append(q, L[n + 1]) ELSE q)
<1> DEFINE f == L[n + 1]
<1>1. /\ q \in Seq(Fields) /\ OneEach(q) /\ Len(q) <= n
      /\ {q[k] : k \in DOMAIN q} = {L[i] : i \in {j \in 1 .. n : L[j].id \in ids}}
  BY DEF KeptOf
<1>2. /\ Len(L) \in Nat /\ DOMAIN L = 1 .. Len(L) /\ \A i \in DOMAIN L : L[i] \in Fields
  BY LayoutFacts
<1>3. Len(q) \in Nat /\ DOMAIN q = 1 .. Len(q)
  BY <1>1
<1>4. n + 1 \in DOMAIN L /\ f \in Fields
  BY <1>2
<1>5. CASE f.id \notin ids
  <2>1. {j \in 1 .. n + 1 : L[j].id \in ids} = {j \in 1 .. n : L[j].id \in ids}
    BY <1>5
  <2>2. Len(q) <= n + 1
    BY <1>1, <1>3
  <2> QED BY <1>1, <1>5, <2>1, <2>2 DEF KeptOf
<1>6. CASE f.id \in ids
  <2> DEFINE r == Append(q, f)
  <2>1. /\ r \in Seq(Fields) /\ Len(r) = Len(q) + 1 /\ DOMAIN r = 1 .. Len(q) + 1
        /\ r[Len(q) + 1] = f /\ \A k \in 1 .. Len(q) : r[k] = q[k]
    BY <1>1, <1>4, AppendProperties
  <2> HIDE DEF r, f
  <2>2. {r[k] : k \in DOMAIN r} = {q[k] : k \in DOMAIN q} \union {f}
    <3>1. {r[k] : k \in DOMAIN r} \subseteq {q[k] : k \in DOMAIN q} \union {f}
      <4> SUFFICES ASSUME NEW k \in 1 .. Len(q) + 1
                   PROVE  r[k] \in {q[m] : m \in DOMAIN q} \union {f}
        BY <2>1
      <4>1. k = Len(q) + 1 \/ k \in 1 .. Len(q)
        BY <1>3
      <4> QED BY <1>3, <2>1, <4>1
    <3>2. {q[k] : k \in DOMAIN q} \subseteq {r[k] : k \in DOMAIN r}
      <4> SUFFICES ASSUME NEW k \in 1 .. Len(q) PROVE q[k] \in {r[m] : m \in DOMAIN r}
        BY <1>3
      <4>1. k \in DOMAIN r /\ r[k] = q[k]
        BY <1>3, <2>1
      <4> QED BY <4>1
    <3>3. f \in {r[k] : k \in DOMAIN r}
      <4>1. Len(q) + 1 \in DOMAIN r
        BY <1>3, <2>1
      <4> QED BY <2>1, <4>1
    <3> QED BY <3>1, <3>2, <3>3
  <2>3. {L[i] : i \in {j \in 1 .. n + 1 : L[j].id \in ids}}
            = {L[i] : i \in {j \in 1 .. n : L[j].id \in ids}} \union {f}
    <3>1. {j \in 1 .. n + 1 : L[j].id \in ids} = {j \in 1 .. n : L[j].id \in ids} \union {n + 1}
      BY <1>6 DEF f
    <3> QED BY <3>1 DEF f
  <2>4. \A k \in DOMAIN q : q[k].id # f.id
    <3> SUFFICES ASSUME NEW k \in DOMAIN q, q[k].id = f.id PROVE FALSE
      OBVIOUS
    <3>1. PICK i \in 1 .. n : q[k] = L[i]
      BY <1>1
    <3>2. i \in DOMAIN L /\ n + 1 \in DOMAIN L /\ i # n + 1
      BY <1>2, <1>4
    <3> QED BY <3>1, <3>2 DEF Layouts, OneEach, f
  <2>5. OneEach(r)
    <3> SUFFICES ASSUME NEW i \in DOMAIN r, NEW j \in DOMAIN r, r[i].id = r[j].id PROVE i = j
      BY DEF OneEach
    <3>1. (i = Len(q) + 1 \/ i \in DOMAIN q) /\ (j = Len(q) + 1 \/ j \in DOMAIN q)
      BY <1>3, <2>1
    <3> QED BY <1>1, <1>3, <2>1, <2>4, <3>1 DEF OneEach
  <2>6. Len(r) <= n + 1
    BY <1>1, <1>3, <2>1
  <2>7. KeptOf(L, ids, n + 1, r)
    BY <1>1, <2>1, <2>2, <2>3, <2>5, <2>6 DEF KeptOf
  <2> QED BY <1>6, <2>7 DEF r, f
<1> QED BY <1>5, <1>6

LEMMA OnlyStep ==
  ASSUME NEW L \in Layouts, NEW ids, NEW s \in OnlyStates(L, ids)
  PROVE  OnlyNext(s, L, ids) \in OnlyStates(L, ids)
<1> DEFINE n == s.taken q == s.kept
           r == IF L[n + 1].id \in ids THEN Append(q, L[n + 1]) ELSE q
<1>1. n \in 0 .. Len(L) /\ KeptOf(L, ids, n, q) /\ Len(L) \in Nat
  BY LayoutFacts DEF OnlyStates
<1>2. CASE n = Len(L)
  BY <1>2 DEF OnlyNext
<1>3. CASE n # Len(L)
  <2>1. OnlyNext(s, L, ids) = [taken |-> n + 1, kept |-> r]
    BY <1>3 DEF OnlyNext
  <2>2. KeptOf(L, ids, n + 1, r)
    BY <1>1, <1>3, KeepsOne
  <2>3. r \in Seq(Fields) /\ n + 1 \in 0 .. Len(L)
    BY <1>1, <1>3, <2>2 DEF KeptOf
  <2> HIDE DEF r, n
  <2>4. [taken |-> n + 1, kept |-> r] \in OnlyStates(L, ids)
    BY <2>2, <2>3 DEF OnlyStates
  <2> QED BY <2>1, <2>4
<1> QED BY <1>2, <1>3

(* The function of Only, by its recursive equation. *)
IsOnly(h, L, ids) ==
    h = [n \in 0 .. Len(L) |->
            IF n = 0 THEN << >>
            ELSE IF L[n].id \in ids THEN Append(h[n - 1], L[n])
            ELSE h[n - 1]]

IsLayout(L) == L \in Layouts

LEMMA OnlyExists ==
  ASSUME NEW L, IsLayout(L), NEW ids
  PROVE  \E h : IsOnly(h, L, ids)
<1> DEFINE X == OnlyStates(L, ids)
           s0 == [taken |-> 0, kept |-> << >>]
           g == [s \in X |-> OnlyNext(s, L, ids)]
<1>1. Len(L) \in Nat /\ DOMAIN L = 1 .. Len(L)
  BY LayoutFacts DEF IsLayout
<1>2. s0 \in X
  BY <1>1, KeepsNone DEF OnlyStates
<1>3. g \in [X -> X]
  BY OnlyStep DEF IsLayout
<1>4. \E f \in [Nat -> X] : f[0] = s0 /\ \A i \in Nat : f[i + 1] = g[f[i]]
  <2> HIDE DEF X, s0, g
  <2> QED BY <1>2, <1>3, Iteration
<1>5. PICK f \in [Nat -> X] : f[0] = s0 /\ \A i \in Nat : f[i + 1] = g[f[i]]
  BY <1>4
<1> HIDE DEF X
<1>6. \A i \in Nat : f[i + 1] = OnlyNext(f[i], L, ids)
  BY <1>5
<1> DEFINE S == {i \in Nat : i <= Len(L) => f[i].taken = i}
<1>7. S = Nat
  <2>1. 0 \in S
    BY <1>5
  <2>2. ASSUME NEW i \in S PROVE i + 1 \in S
    <3> SUFFICES ASSUME i + 1 <= Len(L) PROVE f[i + 1].taken = i + 1
      OBVIOUS
    <3>0. i \in Nat /\ (i <= Len(L) => f[i].taken = i)
      BY Zenon
    <3>1. f[i].taken = i /\ i # Len(L)
      <4> HIDE DEF S
      <4>0. i \in Nat /\ Len(L) \in Nat
        BY <1>1, <3>0, Zenon
      <4>1. i <= Len(L) /\ i # Len(L)
        BY <4>0
      <4> QED BY <3>0, <4>1, Zenon
    <3>2. f[i + 1] = OnlyNext(f[i], L, ids)
      BY <1>6
    <3> QED BY <3>1, <3>2 DEF OnlyNext
  <2>3. S \in SUBSET Nat
    OBVIOUS
  <2> HIDE DEF S
  <2> QED BY <2>1, <2>2, <2>3, NatSetInduction
<1> DEFINE h == [n \in 0 .. Len(L) |-> f[n].kept]
<1>8. ASSUME NEW n \in 0 .. Len(L)
      PROVE  h[n] = IF n = 0 THEN << >>
                    ELSE IF L[n].id \in ids THEN Append(h[n - 1], L[n])
                    ELSE h[n - 1]
  <2>1. CASE n = 0
    BY <1>5, <2>1
  <2>2. CASE n # 0
    <3>1. n - 1 \in Nat /\ n - 1 \in 0 .. Len(L) /\ (n - 1) + 1 = n /\ n - 1 # Len(L)
      BY <1>1, <2>2
    <3>2. f[n - 1].taken = n - 1
      BY <1>1, <1>7, <3>1
    <3>3. f[n] = OnlyNext(f[n - 1], L, ids)
      BY <1>6, <3>1
    <3>4. f[n].kept = IF L[n].id \in ids THEN Append(f[n - 1].kept, L[n]) ELSE f[n - 1].kept
      BY <3>1, <3>2, <3>3 DEF OnlyNext
    <3> QED BY <2>2, <3>1, <3>4
  <2> QED BY <2>1, <2>2
<1>9. h = [n \in 0 .. Len(L) |->
            IF n = 0 THEN << >>
            ELSE IF L[n].id \in ids THEN Append(h[n - 1], L[n])
            ELSE h[n - 1]]
  BY <1>8
<1> HIDE DEF h
<1>10. IsOnly(h, L, ids)
  BY <1>9 DEF IsOnly
<1> QED BY <1>10

IsPart(L, M, ids) ==
    /\ M \in Layouts /\ Ids(M) = Ids(L) \cap ids
    /\ \A x \in Ids(M) : Find(M, x) = Find(L, x)

LEMMA OnlyIs ==
  ASSUME NEW L \in Layouts, NEW ids
  PROVE  IsPart(L, Only(L, ids), ids)
<1> DEFINE h == CHOOSE h : IsOnly(h, L, ids)
           S == {n \in Nat : n <= Len(L) => KeptOf(L, ids, n, h[n])}
           M == Only(L, ids)
<1>1. Len(L) \in Nat /\ DOMAIN L = 1 .. Len(L)
  BY LayoutFacts
<1>2. IsOnly(h, L, ids)
  BY OnlyExists DEF IsLayout
<1>3. M = h[Len(L)]
  BY DEF Only, IsOnly
<1> HIDE DEF h
<1>4. \A n \in 0 .. Len(L) : h[n] = IF n = 0 THEN << >>
                                    ELSE IF L[n].id \in ids THEN Append(h[n - 1], L[n])
                                    ELSE h[n - 1]
  BY <1>2 DEF IsOnly
<1>5. 0 \in S
  BY <1>1, <1>4, KeepsNone
<1>6. ASSUME NEW n \in S PROVE n + 1 \in S
  <2> SUFFICES ASSUME n + 1 <= Len(L) PROVE KeptOf(L, ids, n + 1, h[n + 1])
    OBVIOUS
  <2>1. KeptOf(L, ids, n, h[n]) /\ n + 1 \in 0 .. Len(L) /\ (n + 1) - 1 = n /\ n < Len(L)
    BY <1>1
  <2>2. h[n + 1] = IF L[n + 1].id \in ids THEN Append(h[n], L[n + 1]) ELSE h[n]
    BY <1>4, <2>1
  <2> QED BY <2>1, <2>2, KeepsOne
<1>7. S = Nat
  <2>1. S \in SUBSET Nat
    OBVIOUS
  <2> HIDE DEF S
  <2> QED BY <1>5, <1>6, <2>1, NatSetInduction
<1>8. KeptOf(L, ids, Len(L), M)
  BY <1>1, <1>3, <1>7
<1>9. /\ M \in Seq(Fields) /\ OneEach(M) /\ Len(M) <= Len(L)
      /\ {M[k] : k \in DOMAIN M} = {L[i] : i \in {j \in 1 .. Len(L) : L[j].id \in ids}}
  BY <1>8 DEF KeptOf
<1> HIDE DEF M
<1>10. M \in Layouts
  BY <1>9 DEF Layouts
<1>11. \A k \in DOMAIN M : \E i \in DOMAIN L : M[k] = L[i] /\ L[i].id \in ids
  BY <1>1, <1>9
<1>12. \A i \in DOMAIN L : L[i].id \in ids => \E k \in DOMAIN M : M[k] = L[i]
  BY <1>1, <1>9
<1>13. Ids(M) = Ids(L) \cap ids
  BY <1>11, <1>12 DEF Ids
<1>14. ASSUME NEW x \in Ids(M) PROVE Find(M, x) = Find(L, x)
  <2>1. PICK k \in DOMAIN M : M[k].id = x /\ Find(M, x) = M[k]
    BY <1>10, LayoutFacts
  <2>2. PICK i \in DOMAIN L : M[k] = L[i]
    BY <1>11
  <2> QED BY <2>1, <2>2, LayoutFacts
<1> QED BY <1>9, <1>10, <1>13, <1>14 DEF IsPart, M

(* Two layouts behind each other; a layout and one more field. *)
IsJoin(L, M, N) ==
    /\ N \in Layouts /\ Ids(N) = Ids(L) \union Ids(M)
    /\ \A x \in Ids(L) : Find(N, x) = Find(L, x)
    /\ \A x \in Ids(M) : Find(N, x) = Find(M, x)

LEMMA JoinIs ==
  ASSUME NEW L \in Layouts, NEW M \in Layouts, Ids(L) \cap Ids(M) = {}
  PROVE  IsJoin(L, M, L \o M)
<1> DEFINE N == L \o M
<1>1. /\ L \in Seq(Fields) /\ M \in Seq(Fields) /\ OneEach(L) /\ OneEach(M)
      /\ Len(L) \in Nat /\ Len(M) \in Nat /\ DOMAIN L = 1 .. Len(L) /\ DOMAIN M = 1 .. Len(M)
  BY LayoutFacts DEF Layouts
<1>2. /\ N \in Seq(Fields) /\ Len(N) = Len(L) + Len(M) /\ DOMAIN N = 1 .. Len(N)
      /\ \A i \in 1 .. Len(L) + Len(M) : N[i] = IF i <= Len(L) THEN L[i] ELSE M[i - Len(L)]
  BY <1>1, ConcatProperties, LenProperties
<1> HIDE DEF N
<1>3. \A i \in DOMAIN L : i \in DOMAIN N /\ N[i] = L[i]
  BY <1>1, <1>2
<1>4. ASSUME NEW i \in DOMAIN M PROVE i + Len(L) \in DOMAIN N /\ N[i + Len(L)] = M[i]
  <2>1. i + Len(L) \in 1 .. Len(L) + Len(M) /\ ~(i + Len(L) <= Len(L)) /\ (i + Len(L)) - Len(L) = i
    BY <1>1
  <2> QED BY <1>2, <2>1
<1>5. ASSUME NEW i \in DOMAIN N
      PROVE  \/ i \in DOMAIN L
             \/ i - Len(L) \in DOMAIN M /\ (i - Len(L)) + Len(L) = i /\ i \in Int
  BY <1>1, <1>2
<1>6. Ids(N) = Ids(L) \union Ids(M)
  <2>1. ASSUME NEW i \in DOMAIN N PROVE N[i].id \in Ids(L) \union Ids(M)
    <3>1. CASE i \in DOMAIN L
      BY <1>3, <3>1 DEF Ids
    <3>2. CASE i - Len(L) \in DOMAIN M /\ (i - Len(L)) + Len(L) = i
      <4>1. N[i] = M[i - Len(L)]
        BY <1>4, <3>2
      <4> QED BY <3>2, <4>1 DEF Ids
    <3> QED BY <1>5, <3>1, <3>2
  <2> QED BY <1>3, <1>4, <2>1 DEF Ids
<1>7. ASSUME NEW i \in DOMAIN N, NEW j \in DOMAIN N, N[i].id = N[j].id PROVE i = j
  <2>1. CASE i \in DOMAIN L /\ j \in DOMAIN L
    BY <1>1, <1>3, <1>7, <2>1 DEF OneEach
  <2>2. CASE /\ i - Len(L) \in DOMAIN M /\ (i - Len(L)) + Len(L) = i
             /\ j - Len(L) \in DOMAIN M /\ (j - Len(L)) + Len(L) = j
    <3>1. N[i] = M[i - Len(L)] /\ N[j] = M[j - Len(L)]
      BY <1>4, <2>2
    <3>2. i - Len(L) = j - Len(L)
      BY <1>1, <1>7, <2>2, <3>1 DEF OneEach
    <3> QED BY <2>2, <3>2
  <2>3. CASE i \in DOMAIN L /\ j - Len(L) \in DOMAIN M /\ (j - Len(L)) + Len(L) = j
    <3>1. N[i].id \in Ids(L) /\ N[j] = M[j - Len(L)]
      BY <1>3, <1>4, <2>3 DEF Ids
    <3>2. N[j].id \in Ids(M)
      BY <2>3, <3>1 DEF Ids
    <3> QED BY <1>7, <3>1, <3>2
  <2>4. CASE j \in DOMAIN L /\ i - Len(L) \in DOMAIN M /\ (i - Len(L)) + Len(L) = i
    <3>1. N[j].id \in Ids(L) /\ N[i] = M[i - Len(L)]
      BY <1>3, <1>4, <2>4 DEF Ids
    <3>2. N[i].id \in Ids(M)
      BY <2>4, <3>1 DEF Ids
    <3> QED BY <1>7, <3>1, <3>2
  <2> QED BY <1>5, <2>1, <2>2, <2>3, <2>4
<1>8. N \in Layouts
  BY <1>2, <1>7 DEF Layouts, OneEach
<1>9. \A x \in Ids(L) : Find(N, x) = Find(L, x)
  BY <1>3, <1>8, LayoutFacts
<1>10. \A x \in Ids(M) : Find(N, x) = Find(M, x)
  <2> SUFFICES ASSUME NEW x \in Ids(M) PROVE Find(N, x) = Find(M, x)
    OBVIOUS
  <2>1. PICK i \in DOMAIN M : M[i].id = x /\ Find(M, x) = M[i]
    BY LayoutFacts
  <2> QED BY <1>4, <1>8, <2>1, LayoutFacts
<1> QED BY <1>6, <1>8, <1>9, <1>10 DEF IsJoin, N

IsAdded(L, f, N) ==
    /\ N \in Layouts /\ Ids(N) = Ids(L) \union {f.id}
    /\ \A x \in Ids(L) : Find(N, x) = Find(L, x)
    /\ Find(N, f.id) = f

LEMMA AppendIs ==
  ASSUME NEW L \in Layouts, NEW f \in Fields, f.id \notin Ids(L)
  PROVE  IsAdded(L, f, Append(L, f))
<1> DEFINE N == Append(L, f)
<1>1. /\ L \in Seq(Fields) /\ OneEach(L) /\ Len(L) \in Nat /\ DOMAIN L = 1 .. Len(L)
  BY LayoutFacts DEF Layouts
<1>2. /\ N \in Seq(Fields) /\ Len(N) = Len(L) + 1 /\ DOMAIN N = 1 .. Len(L) + 1
      /\ N[Len(L) + 1] = f /\ \A k \in 1 .. Len(L) : N[k] = L[k]
  BY <1>1, AppendProperties
<1> HIDE DEF N
<1>3. \A i \in DOMAIN L : i \in DOMAIN N /\ N[i] = L[i] /\ N[i].id # f.id
  BY <1>1, <1>2 DEF Ids
<1>4. \A i \in DOMAIN N : i \in DOMAIN L \/ i = Len(L) + 1
  BY <1>1, <1>2
<1>5. Len(L) + 1 \in DOMAIN N
  BY <1>1, <1>2
<1>6. Ids(N) = Ids(L) \union {f.id}
  BY <1>2, <1>3, <1>4, <1>5 DEF Ids
<1>7. OneEach(N)
  BY <1>1, <1>2, <1>3, <1>4 DEF OneEach
<1>8. N \in Layouts
  BY <1>2, <1>7 DEF Layouts
<1>9. \A x \in Ids(L) : Find(N, x) = Find(L, x)
  BY <1>3, <1>8, LayoutFacts
<1>10. Find(N, f.id) = f
  BY <1>2, <1>5, <1>8, LayoutFacts
<1> QED BY <1>6, <1>8, <1>9, <1>10 DEF IsAdded, N

(* A layout of its own in a layout: who is in it, his parent is. *)
LEMMA PartSound ==
  ASSUME NEW L, NEW D, Sound(L, D, {}), NEW ids, NEW M, IsPart(L, M, ids),
         \A x \in Ids(M) : Parent(L, x) = Root \/ Parent(L, x) \in ids
  PROVE  Sound(M, D, {}) /\ (\A x \in Ids(M) : Fills(L, x) => Fills(M, x))
<1>1. /\ L \in Layouts /\ Tree(L) /\ M \in Layouts /\ Ids(M) \subseteq Ids(L)
      /\ \A x \in Ids(M) : Find(M, x) = Find(L, x)
  BY DEF Sound, IsPart
<1>2. ASSUME NEW x \in Ids(M), Parent(L, x) # Root
      PROVE  Parent(L, x) \in Ids(M) /\ Find(M, Parent(L, x)).type = Group
  BY <1>1, <1>2 DEF Tree, IsPart
<1>3. ASSUME NEW S \in SUBSET Ids(M), S # {} PROVE \E x \in S : Parent(M, x) \notin S
  <2>1. PICK x \in S : Parent(L, x) \notin S
    BY <1>1, <1>3 DEF Tree
  <2> QED BY <1>1, <2>1 DEF Parent
<1>4. Tree(M)
  BY <1>1, <1>2, <1>3 DEF Tree, Parent
<1>5. ASSUME NEW x \in Ids(M)
      PROVE  /\ Parent(M, x) = Parent(L, x)
             /\ ScopeRow(M, Parent(L, x)) = ScopeRow(L, Parent(L, x))
             /\ ScopeColumn(M, Parent(L, x)) = ScopeColumn(L, Parent(L, x))
             /\ ScopeColumns(M, Parent(L, x)) = ScopeColumns(L, Parent(L, x))
  <2>1. Parent(M, x) = Parent(L, x) /\ x \in Ids(L)
    BY <1>1 DEF Parent
  <2>2. CASE Parent(L, x) = Root
    BY <1>1, <1>4, <2>1, <2>2, ScopeFacts DEF ScopeRow
  <2>3. CASE Parent(L, x) # Root
    <3>1. Parent(L, x) \in Ids(M) /\ Find(M, Parent(L, x)) = Find(L, Parent(L, x))
      BY <1>1, <1>2, <2>3
    <3> QED BY <1>1, <1>4, <2>1, <2>3, <3>1, ScopeFacts DEF ScopeRow
  <2> QED BY <2>2, <2>3
<1>6. \A x \in Ids(M) : (Scoped(L, x) => Scoped(M, x)) /\ (Fills(L, x) => Fills(M, x))
  BY <1>1, <1>5 DEF Scoped, Fills
<1>7. \A x \in Ids(M) \ D : Scoped(M, x)
  BY <1>1, <1>6 DEF Sound
<1>8. \A x, y \in Ids(M) \ D :
            x # y /\ Parent(M, x) = Parent(M, y) => ~Clash(Find(M, x), Find(M, y))
  BY <1>1, <1>5 DEF Sound
<1> QED BY <1>1, <1>4, <1>6, <1>7, <1>8 DEF Sound

-----------------------------------------------------------------------------
(* Free places in a grid. *)
(* A grid that takes fields: the canvas or a group. *)
IsGrid(L, p) == p = Root \/ (p \in Ids(L) /\ Find(L, p).type = Group)

(* A rectangle is free in a grid, the fields of D set aside. *)
Fits(L, D, r, p) ==
    /\ r.row >= ScopeRow(L, p) /\ r.column >= ScopeColumn(L, p)
    /\ Right(r) <= ScopeColumn(L, p) + ScopeColumns(L, p)
    /\ \A x \in Ids(L) \ D : Parent(L, x) = p => ~Overlap(r, Find(L, x))

LEMMA GridFacts ==
  ASSUME NEW L \in Layouts, NEW p, IsGrid(L, p)
  PROVE  /\ p \in Ids(L) \union {Root}
         /\ p = Root \/ p \in Ids(L)
         /\ p = Root => /\ TypeOf(L, p) = "canvas" /\ ~HasField(L, p) /\ ScopeRow(L, p) = 0
                        /\ ScopeColumn(L, p) = 0 /\ ScopeColumns(L, p) = COLUMN_COUNT
         /\ p \in Ids(L) => /\ p # Root /\ TypeOf(L, p) = Group /\ HasField(L, p)
                            /\ Find(L, p) \in Fields /\ Find(L, p).type = Group
                            /\ ScopeRow(L, p) = Find(L, p).row
                            /\ ScopeColumn(L, p) = Find(L, p).column
                            /\ ScopeColumns(L, p) = Find(L, p).colSpan
         /\ TypeOf(L, p) # Subform
         /\ ScopeRow(L, p) \in Int /\ ScopeColumn(L, p) \in Int /\ ScopeColumns(L, p) \in Nat \ {0}
<1>1. Root \notin Ids(L)
  BY RootIsNoId
<1>2. CASE p = Root
  <2>1. TypeOf(L, p) = "canvas" /\ ~HasField(L, p)
    BY <1>1, <1>2, LayoutFacts
  <2> QED BY <1>1, <1>2, <2>1, DesignerAssumption DEF ScopeRow, ScopeColumn, ScopeColumns, Group, Subform
<1>3. CASE p \in Ids(L) /\ p # Root
  <2>1. Find(L, p).type = Group /\ Find(L, p) \in Fields
    BY <1>3, FindIsField DEF IsGrid
  <2>2. TypeOf(L, p) = Group /\ HasField(L, p)
    BY <1>3, <2>1, LayoutFacts
  <2>3. Find(L, p).row \in Int /\ Find(L, p).column \in Int /\ Find(L, p).colSpan \in Nat \ {0}
    BY <2>1 DEF Fields
  <2> QED BY <1>3, <2>1, <2>2, <2>3 DEF ScopeRow, ScopeColumn, ScopeColumns, Group, Subform
<1> QED BY <1>1, <1>2, <1>3 DEF IsGrid

(* Where canPlaceField lets a rectangle stand. *)
LEMMA PlaceFits ==
  ASSUME NEW L \in Layouts, NEW p, IsGrid(L, p), NEW r, NEW x, CanPlace(L, x, r, p)
  PROVE  /\ Fits(L, {x}, r, p)
         /\ p \in Ids(L) => Bottom(r) <= Bottom(Find(L, p))
<1>1. ASSUME NEW y \in Ids(L) \ {x}, Parent(L, y) = p PROVE ~Overlap(r, Find(L, y))
  <2>1. PICK i \in DOMAIN L : L[i].id = y /\ Find(L, y) = L[i]
    BY LayoutFacts
  <2> QED BY <1>1, <2>1 DEF CanPlace, Parent
<1>2. CASE p = Root
  <2>1. /\ TypeOf(L, p) # Subform /\ ScopeRow(L, p) = 0
        /\ ScopeColumn(L, p) = 0 /\ ScopeColumns(L, p) = COLUMN_COUNT /\ p \notin Ids(L)
    BY <1>2, GridFacts, RootIsNoId
  <2>2. r.row >= 0 /\ r.column >= 0 /\ Right(r) <= COLUMN_COUNT
    BY <2>1 DEF CanPlace
  <2>3. 0 + COLUMN_COUNT = COLUMN_COUNT
    BY DesignerAssumption
  <2> QED BY <1>1, <2>1, <2>2, <2>3 DEF Fits
<1>3. CASE p \in Ids(L)
  <2>1. /\ p # Root /\ Find(L, p) \in Fields /\ Find(L, p).type = Group
        /\ ScopeRow(L, p) = Find(L, p).row /\ ScopeColumn(L, p) = Find(L, p).column
        /\ ScopeColumns(L, p) = Find(L, p).colSpan
    BY <1>3, GridFacts
  <2>2. InsideParent(L, r, p)
    BY <2>1 DEF CanPlace
  <2>3. /\ r.row >= Find(L, p).row /\ r.column >= Find(L, p).column
        /\ Bottom(r) <= Bottom(Find(L, p)) /\ Right(r) <= Right(Find(L, p))
    BY <2>1, <2>2 DEF InsideParent, Group, Subform
  <2> QED BY <1>1, <2>1, <2>3 DEF Fits, Right
<1> QED BY <1>2, <1>3, GridFacts

(* One more field that fits makes a layout good. *)
LEMMA FitsIn ==
  ASSUME NEW N, NEW x, Sound(N, {x}, {}), x \in Ids(N), Filled(N),
         Fits(N, {x}, Find(N, x), Parent(N, x))
  PROVE  Good(N)
<1>1. N \in Layouts /\ Tree(N)
  BY DEF Sound
<1>2. ASSUME NEW y \in Ids(N) PROVE Scoped(N, y)
  BY <1>2 DEF Sound, Fits, Scoped
<1>3. ASSUME NEW y \in Ids(N) \ {x}, Parent(N, y) = Parent(N, x)
      PROVE  ~Clash(Find(N, x), Find(N, y))
  <2>1. ~Overlap(Find(N, x), Find(N, y))
    BY <1>3 DEF Fits
  <2>2. Scoped(N, x) /\ Scoped(N, y) /\ Fills(N, x) /\ Fills(N, y)
    BY <1>2 DEF Filled
  <2> QED BY <1>1, <1>3, <2>1, <2>2, ClashOverlaps
<1>4. ASSUME NEW y \in Ids(N), NEW z \in Ids(N), y # z, Parent(N, y) = Parent(N, z)
      PROVE  ~Clash(Find(N, y), Find(N, z))
  <2>1. CASE y = x
    BY <1>3, <1>4, <2>1
  <2>2. CASE z = x
    BY <1>3, <1>4, <2>2, ClashSym
  <2>3. CASE y # x /\ z # x
    BY <1>4, <2>3 DEF Sound
  <2> QED BY <2>1, <2>2, <2>3
<1>5. Sound(N, {}, {})
  BY <1>1, <1>2, <1>4 DEF Sound
<1> QED BY <1>5 DEF Good

(* A new field. *)
LEMMA AddedGood ==
  ASSUME NEW L, Good(L), NEW f \in Fields, f.id \notin Ids(L), NEW N, IsAdded(L, f, N),
         IsGrid(L, f.parent), Fits(L, {}, f, f.parent),
         f.type = RichText => /\ f.column = ScopeColumn(L, f.parent)
                              /\ f.colSpan = ScopeColumns(L, f.parent)
  PROVE  Good(N)
<1> DEFINE x == f.id
           p == f.parent
<1>1. /\ L \in Layouts /\ Tree(L) /\ N \in Layouts /\ Ids(N) = Ids(L) \union {x}
      /\ \A y \in Ids(L) : Find(N, y) = Find(L, y)
      /\ Find(N, x) = f /\ Sound(L, {}, {}) /\ Filled(L)
  BY DEF Good, Sound, IsAdded
<1>2. /\ p = Root \/ p \in Ids(L)
      /\ x # Root /\ x # p
  BY <1>1, GridFacts, RootIsNoId
<1>3. /\ \A y \in Ids(L) : Parent(N, y) = Parent(L, y)
      /\ Parent(N, x) = p
  BY <1>1 DEF Parent
<1>4. \A y \in Ids(L) : Parent(L, y) = Root \/ Parent(L, y) \in Ids(L)
  BY <1>1 DEF Tree
<1> HIDE DEF x, p
<1>5. Tree(N)
  <2>1. ASSUME NEW y \in Ids(N), Parent(N, y) # Root
        PROVE  Parent(N, y) \in Ids(N) /\ Find(N, Parent(N, y)).type = Group
    <3>1. CASE y = x
      <4>1. p \in Ids(L) /\ Find(L, p).type = Group
        BY <1>2, <1>3, <2>1, <3>1, <1>1 DEF IsGrid, p
      <4> QED BY <1>1, <1>3, <3>1, <4>1
    <3>2. CASE y \in Ids(L)
      <4>1. Parent(L, y) \in Ids(L) /\ Find(L, Parent(L, y)).type = Group
        BY <1>1, <1>3, <2>1, <3>2 DEF Tree
      <4> QED BY <1>1, <1>3, <3>2, <4>1
    <3> QED BY <1>1, <3>1, <3>2
  <2>2. ASSUME NEW S \in SUBSET Ids(N), S # {} PROVE \E y \in S : Parent(N, y) \notin S
    <3>1. CASE S \ {x} = {}
      <4>1. S = {x}
        BY <2>2, <3>1
      <4> QED BY <1>2, <1>3, <4>1
    <3>2. CASE S \ {x} # {}
      <4>1. S \ {x} \in SUBSET Ids(L)
        BY <1>1
      <4>2. PICK y \in S \ {x} : Parent(L, y) \notin S \ {x}
        BY <1>1, <3>2, <4>1 DEF Tree
      <4>3. Parent(L, y) # x
        BY <1>2, <1>4, <4>1 DEF x
      <4> QED BY <1>3, <4>1, <4>2, <4>3
    <3> QED BY <3>1, <3>2
  <2> QED BY <2>1, <2>2 DEF Tree
<1>6. ASSUME NEW y \in Ids(N)
      PROVE  LET q == Parent(N, y)
             IN  /\ ScopeRow(N, q) = ScopeRow(L, q)
                 /\ ScopeColumn(N, q) = ScopeColumn(L, q)
                 /\ ScopeColumns(N, q) = ScopeColumns(L, q)
  <2> DEFINE q == Parent(N, y)
  <2>1. q = Root \/ q \in Ids(L)
    BY <1>1, <1>2, <1>3, <1>4
  <2>2. CASE q = Root
    BY <1>1, <1>5, <2>2, ScopeFacts, RootIsNoId, LayoutFacts DEF ScopeRow, ScopeColumn, ScopeColumns, Group
  <2>3. CASE q \in Ids(L)
    <3>1. Find(N, q) = Find(L, q) /\ q \in Ids(N)
      BY <1>1, <2>3
    <3>2. TypeOf(N, q) = TypeOf(L, q)
      BY <1>1, <2>3, <3>1, LayoutFacts
    <3> QED BY <3>1, <3>2 DEF ScopeRow, ScopeColumn, ScopeColumns
  <2> QED BY <2>1, <2>2, <2>3
<1>7. ASSUME NEW y \in Ids(L) PROVE Scoped(N, y) /\ Fills(N, y)
  <2>1. Scoped(L, y) /\ Fills(L, y)
    BY <1>1 DEF Sound, Filled
  <2> QED BY <1>1, <1>3, <1>6, <2>1 DEF Scoped, Fills
<1>8. Filled(N)
  <2>1. Fills(N, x)
    BY <1>1, <1>3, <1>6 DEF Fills, x, p
  <2> QED BY <1>1, <1>7, <2>1 DEF Filled
<1>9. Sound(N, {x}, {})
  <2>1. \A y \in Ids(N) \ {x} : Scoped(N, y)
    BY <1>1, <1>7
  <2>2. \A y, z \in Ids(N) \ {x} : y # z /\ Parent(N, y) = Parent(N, z)
            => ~Clash(Find(N, y), Find(N, z))
    BY <1>1, <1>3 DEF Sound
  <2> QED BY <1>1, <1>5, <2>1, <2>2 DEF Sound
<1>10. Fits(N, {x}, f, p)
  <2>1. /\ ScopeRow(N, p) = ScopeRow(L, p)
        /\ ScopeColumn(N, p) = ScopeColumn(L, p)
        /\ ScopeColumns(N, p) = ScopeColumns(L, p)
    BY <1>1, <1>3, <1>6 DEF x
  <2>2. \A y \in Ids(N) \ {x} : y \in Ids(L) /\ Find(N, y) = Find(L, y) /\ Parent(N, y) = Parent(L, y)
    BY <1>1, <1>3
  <2> QED BY <2>1, <2>2 DEF Fits, p
<1> QED BY <1>1, <1>3, <1>8, <1>9, <1>10, FitsIn

-----------------------------------------------------------------------------
(* MoveField. *)
(* A field goes elsewhere, with everything in it: "g" is the field there. *)
IsPlaced(M, N, x, g) ==
    /\ N \in Layouts /\ Ids(N) = Ids(M) /\ g \in Fields /\ g.id = x
    /\ g.type = Find(M, x).type
    /\ g.type = Group => g.colSpan = Find(M, x).colSpan
    /\ \A y \in Ids(M) : Find(N, y) =
            IF y = x THEN g
            ELSE IF y \in Moved(M, {x})
                 THEN Shifted(Find(M, y), g.row - Find(M, x).row, g.column - Find(M, x).column)
                 ELSE Find(M, y)

(* A field may go there. *)
MayGo(M, x, g) ==
    /\ Sound(M, {x}, {}) /\ x \in Ids(M)
    /\ \A y \in Ids(M) \ {x} : Fills(M, y)
    /\ IsGrid(M, g.parent) /\ g.parent \notin Moved(M, {x})
    /\ Fits(M, {x}, g, g.parent)
    /\ g.type = RichText => /\ g.column = ScopeColumn(M, g.parent)
                            /\ g.colSpan = ScopeColumns(M, g.parent)

HasGone(M, N, x, g) ==
    /\ M \in Layouts /\ Tree(M) /\ N \in Layouts /\ Ids(N) = Ids(M) /\ x \in Ids(M)
    /\ x # Root /\ x # g.parent
    /\ g.parent = Root \/ g.parent \in Ids(M)
    /\ \A y \in Ids(M) : /\ Parent(N, y) = IF y = x THEN g.parent ELSE Parent(M, y)
                         /\ Find(N, y).type = Find(M, y).type
    /\ \A y \in Ids(M) \ {x} : /\ Find(N, y).colSpan = Find(M, y).colSpan
                               /\ Find(N, y).rowSpan = Find(M, y).rowSpan
    /\ \A y \in Ids(M) \ Moved(M, {x}) : Find(N, y) = Find(M, y)
    /\ \A y \in Ids(M) \cap Moved(M, {x}) :
            /\ Find(N, y).row = Find(M, y).row + (g.row - Find(M, x).row)
            /\ Find(N, y).column = Find(M, y).column + (g.column - Find(M, x).column)

LEMMA PlacedFacts ==
  ASSUME NEW M, NEW N, NEW x, NEW g, MayGo(M, x, g), IsPlaced(M, N, x, g)
  PROVE  HasGone(M, N, x, g)
<1>1. /\ M \in Layouts /\ Tree(M) /\ x \in Ids(M) /\ N \in Layouts /\ Ids(N) = Ids(M)
      /\ IsGrid(M, g.parent) /\ g.parent \notin Moved(M, {x}) /\ g \in Fields
      /\ g.type = Find(M, x).type
  BY DEF MayGo, Sound, IsPlaced
<1>2. x \in Moved(M, {x}) /\ {x} \in SUBSET Ids(M) /\ x # Root
  BY <1>1, MovedTree, RootIsNoId
<1>3. g.parent = Root \/ g.parent \in Ids(M)
  BY <1>1, GridFacts
<1> DEFINE dr == g.row - Find(M, x).row dc == g.column - Find(M, x).column
<1>4. /\ dr \in Int /\ dc \in Int /\ \A y \in Ids(M) : Find(M, y) \in Fields
      /\ Find(M, x).row + dr = g.row /\ Find(M, x).column + dc = g.column
  <2>1. Find(M, x) \in Fields
    BY <1>1, FindIsField
  <2>2. /\ g.row \in Int /\ Find(M, x).row \in Int /\ g.column \in Int /\ Find(M, x).column \in Int
    BY <1>1, <2>1 DEF Fields
  <2> QED BY <1>1, <2>2, FindIsField
<1>5. \A y \in Ids(M) : Find(N, y) = IF y = x THEN g
                                     ELSE IF y \in Moved(M, {x}) THEN Shifted(Find(M, y), dr, dc)
                                     ELSE Find(M, y)
  BY DEF IsPlaced
<1> HIDE DEF dr, dc
<1>6. ASSUME NEW y \in Ids(M)
      PROVE  /\ Shifted(Find(M, y), dr, dc).type = Find(M, y).type
             /\ Shifted(Find(M, y), dr, dc).parent = Find(M, y).parent
             /\ Shifted(Find(M, y), dr, dc).colSpan = Find(M, y).colSpan
             /\ Shifted(Find(M, y), dr, dc).rowSpan = Find(M, y).rowSpan
             /\ Shifted(Find(M, y), dr, dc).row = Find(M, y).row + dr
             /\ Shifted(Find(M, y), dr, dc).column = Find(M, y).column + dc
  BY <1>4, ShiftedFacts
<1>7. \A y \in Ids(M) : /\ Parent(N, y) = IF y = x THEN g.parent ELSE Parent(M, y)
                        /\ Find(N, y).type = Find(M, y).type
  BY <1>1, <1>5, <1>6 DEF Parent
<1>8. \A y \in Ids(M) \ {x} : /\ Find(N, y).colSpan = Find(M, y).colSpan
                              /\ Find(N, y).rowSpan = Find(M, y).rowSpan
  BY <1>5, <1>6
<1>9. \A y \in Ids(M) \ Moved(M, {x}) : Find(N, y) = Find(M, y)
  BY <1>2, <1>5
<1>10. \A y \in Ids(M) \cap Moved(M, {x}) :
                /\ Find(N, y).row = Find(M, y).row + dr
                /\ Find(N, y).column = Find(M, y).column + dc
  BY <1>4, <1>5, <1>6
<1> QED BY <1>1, <1>2, <1>3, <1>7, <1>8, <1>9, <1>10 DEF dr, dc, HasGone

LEMMA PlacedTree ==
  ASSUME NEW M, NEW N, NEW x, NEW g, MayGo(M, x, g), IsPlaced(M, N, x, g)
  PROVE  Tree(N)
<1> DEFINE U == Moved(M, {x})
<1>1. /\ M \in Layouts /\ Tree(M) /\ Ids(N) = Ids(M) /\ x \in Ids(M)
      /\ g.parent = Root \/ g.parent \in Ids(M)
      /\ \A y \in Ids(M) : /\ Parent(N, y) = IF y = x THEN g.parent ELSE Parent(M, y)
                           /\ Find(N, y).type = Find(M, y).type
      /\ IsGrid(M, g.parent) /\ g.parent \notin U
  <2>1. HasGone(M, N, x, g)
    BY PlacedFacts
  <2> HIDE DEF U
  <2>2. IsGrid(M, g.parent) /\ g.parent \notin U
    BY DEF MayGo, U
  <2> QED BY <2>1, <2>2 DEF HasGone
<1>2. x \in U /\ U \in SUBSET Ids(M) /\ \A y \in Ids(M) : Parent(M, y) \in U => y \in U
  BY <1>1, MovedTree
<1> HIDE DEF U
<1>3. ASSUME NEW y \in Ids(N), Parent(N, y) # Root
      PROVE  Parent(N, y) \in Ids(N) /\ Find(N, Parent(N, y)).type = Group
  BY <1>1, <1>3 DEF Tree, IsGrid
<1>4. ASSUME NEW S \in SUBSET Ids(N), \A y \in S : Parent(N, y) \in S PROVE S = {}
  <2>1. S \ U = {}
    <3>1. \A y \in S \ U : Parent(M, y) \in S \ U
      BY <1>1, <1>2, <1>4
    <3>2. S \ U \in SUBSET Ids(M)
      BY <1>1
    <3> QED BY <1>1, <3>1, <3>2, NoCircle
  <2>2. x \notin S
    BY <1>1, <1>4, <2>1
  <2>3. \A y \in S : Parent(M, y) \in S
    BY <1>1, <1>4, <2>2
  <2> QED BY <1>1, <2>3, NoCircle
<1>5. \A S \in SUBSET Ids(N) : S # {} => \E y \in S : Parent(N, y) \notin S
  BY <1>4
<1> QED BY <1>3, <1>5 DEF Tree

LEMMA PlacedGood ==
  ASSUME NEW M, NEW N, NEW x, NEW g, MayGo(M, x, g), IsPlaced(M, N, x, g)
  PROVE  Good(N)
<1> DEFINE U == Moved(M, {x})
           p == g.parent
           dr == g.row - Find(M, x).row
           dc == g.column - Find(M, x).column
<1>1. /\ M \in Layouts /\ Tree(M) /\ N \in Layouts /\ Ids(N) = Ids(M) /\ x \in Ids(M) /\ Tree(N)
      /\ x # Root /\ x # p
      /\ p = Root \/ p \in Ids(M)
      /\ Sound(M, {x}, {}) /\ p \notin U /\ IsGrid(M, p) /\ Find(N, x) = g /\ g \in Fields
      /\ g.type = Group => g.colSpan = Find(M, x).colSpan
  BY PlacedFacts, PlacedTree DEF MayGo, IsPlaced, HasGone
<1>2. /\ \A y \in Ids(M) : /\ Parent(N, y) = IF y = x THEN p ELSE Parent(M, y)
                           /\ Find(N, y).type = Find(M, y).type
      /\ \A y \in Ids(M) \ {x} : /\ Find(N, y).colSpan = Find(M, y).colSpan
                                 /\ Find(N, y).rowSpan = Find(M, y).rowSpan
      /\ \A y \in Ids(M) \ U : Find(N, y) = Find(M, y)
      /\ \A y \in Ids(M) \cap U : /\ Find(N, y).row = Find(M, y).row + dr
                                  /\ Find(N, y).column = Find(M, y).column + dc
  <2>1. HasGone(M, N, x, g)
    BY PlacedFacts
  <2> QED BY <2>1 DEF HasGone
<1>3. /\ x \in U /\ U \in SUBSET Ids(M) /\ Root \notin U
      /\ \A y \in Ids(M) : Parent(M, y) \in U => y \in U
      /\ \A y \in U : y = x \/ Parent(M, y) \in U
  BY <1>1, MovedTree
<1>4. dr \in Int /\ dc \in Int
  <2>1. Find(M, x) \in Fields
    BY <1>1, FindIsField
  <2> QED BY <1>1, <2>1 DEF Fields
<1> HIDE DEF U, dr, dc
<1>5. ASSUME NEW q, IsGrid(M, q), q \notin U
      PROVE  /\ ScopeRow(N, q) = ScopeRow(M, q)
             /\ ScopeColumn(N, q) = ScopeColumn(M, q)
             /\ ScopeColumns(N, q) = ScopeColumns(M, q)
  <2>1. IsGrid(N, q) /\ (q \in Ids(M) => Find(N, q) = Find(M, q))
    BY <1>1, <1>2, <1>5 DEF IsGrid
  <2> QED BY <1>1, <1>5, <2>1, GridFacts
<1>6. ASSUME NEW y \in Ids(M) PROVE IsGrid(M, Parent(M, y))
  BY <1>1 DEF Tree, IsGrid
<1>7. ASSUME NEW y \in Ids(M) \ {x}
      PROVE  (Scoped(M, y) => Scoped(N, y)) /\ (Fills(M, y) => Fills(N, y))
  <2> DEFINE q == Parent(M, y)
  <2>1. /\ Parent(N, y) = q /\ Find(N, y).type = Find(M, y).type
        /\ Find(N, y).colSpan = Find(M, y).colSpan
    BY <1>2
  <2>2. CASE y \notin U
    <3>1. Find(N, y) = Find(M, y) /\ q \notin U
      BY <1>2, <1>3, <2>2
    <3>2. /\ ScopeRow(N, q) = ScopeRow(M, q) /\ ScopeColumn(N, q) = ScopeColumn(M, q)
          /\ ScopeColumns(N, q) = ScopeColumns(M, q)
      BY <1>5, <1>6, <3>1
    <3> QED BY <2>1, <3>1, <3>2 DEF Scoped, Fills
  <2>3. CASE y \in U
    <3>1. q \in U /\ q \in Ids(M) /\ q # Root
      BY <1>3, <2>3
    <3>2. Find(M, q).type = Group /\ Find(N, q).colSpan = Find(M, q).colSpan
      <4>1. Find(M, q).type = Group
        BY <1>1, <3>1 DEF Tree
      <4>2. CASE q = x
        BY <1>1, <1>2, <4>1, <4>2
      <4>3. CASE q # x
        BY <1>2, <3>1, <4>1, <4>3
      <4> QED BY <4>1, <4>2, <4>3
    <3>3. /\ ScopeRow(M, q) = Find(M, q).row /\ ScopeColumn(M, q) = Find(M, q).column
          /\ ScopeColumns(M, q) = Find(M, q).colSpan
      BY <1>1, <3>1, ScopeFacts DEF ScopeRow
    <3>4. /\ ScopeRow(N, q) = Find(N, q).row /\ ScopeColumn(N, q) = Find(N, q).column
          /\ ScopeColumns(N, q) = Find(N, q).colSpan
      BY <1>1, <2>1, <3>1, ScopeFacts DEF ScopeRow
    <3>5. /\ Find(N, y).row = Find(M, y).row + dr /\ Find(N, y).column = Find(M, y).column + dc
          /\ Find(N, q).row = Find(M, q).row + dr /\ Find(N, q).column = Find(M, q).column + dc
      BY <1>2, <2>3, <3>1
    <3>6. /\ Find(M, y).row \in Int /\ Find(M, y).column \in Int /\ Find(M, y).colSpan \in Nat
          /\ Find(M, q).row \in Int /\ Find(M, q).column \in Int /\ Find(M, q).colSpan \in Nat
      BY <1>1, <3>1, FindIsField DEF Fields
    <3>7. Scoped(M, y) => Scoped(N, y)
      <4> HIDE DEF q
      <4> SUFFICES ASSUME Scoped(M, y) PROVE Scoped(N, y)
        OBVIOUS
      <4>1. /\ Find(M, y).row >= ScopeRow(M, q)
            /\ Find(M, y).type # RichText =>
                  /\ Find(M, y).column >= ScopeColumn(M, q)
                  /\ Right(Find(M, y)) <= ScopeColumn(M, q) + ScopeColumns(M, q)
        BY DEF Scoped, q
      <4>2. /\ Find(N, y).row >= ScopeRow(N, q)
            /\ Find(N, y).type # RichText =>
                  /\ Find(N, y).column >= ScopeColumn(N, q)
                  /\ Right(Find(N, y)) <= ScopeColumn(N, q) + ScopeColumns(N, q)
        BY <1>4, <2>1, <3>2, <3>3, <3>4, <3>5, <3>6, <4>1 DEF Right
      <4> QED BY <2>1, <4>2 DEF Scoped
    <3>8. Fills(M, y) => Fills(N, y)
      BY <1>4, <2>1, <3>2, <3>3, <3>4, <3>5, <3>6 DEF Fills
    <3> QED BY <3>7, <3>8
  <2> QED BY <2>2, <2>3
<1>8. \A y \in Ids(N) \ {x} : Scoped(N, y) /\ Fills(N, y)
  BY <1>1, <1>7 DEF Sound, MayGo
<1>9. ASSUME NEW y \in Ids(N) \ {x}, NEW z \in Ids(N) \ {x}, y # z, Parent(N, y) = Parent(N, z)
      PROVE  ~Clash(Find(N, y), Find(N, z))
  <2>1. /\ y \in Ids(M) /\ z \in Ids(M) /\ Parent(M, y) = Parent(M, z)
    BY <1>1, <1>2, <1>9
  <2>2. ~Clash(Find(M, y), Find(M, z))
    BY <1>1, <1>9, <2>1 DEF Sound
  <2>3. y \in U <=> z \in U
    BY <1>3, <1>9, <2>1
  <2>4. CASE y \notin U
    BY <1>2, <2>1, <2>2, <2>3, <2>4
  <2>5. CASE y \in U
    <3>1. /\ Find(N, y).row = Find(M, y).row + dr /\ Find(N, y).column = Find(M, y).column + dc
          /\ Find(N, z).row = Find(M, z).row + dr /\ Find(N, z).column = Find(M, z).column + dc
          /\ Find(N, y).type = Find(M, y).type /\ Find(N, z).type = Find(M, z).type
          /\ Find(N, y).colSpan = Find(M, y).colSpan /\ Find(N, z).colSpan = Find(M, z).colSpan
          /\ Find(N, y).rowSpan = Find(M, y).rowSpan /\ Find(N, z).rowSpan = Find(M, z).rowSpan
      BY <1>2, <1>9, <2>1, <2>3, <2>5
    <3>2. /\ Find(M, y) \in Fields /\ Find(M, z) \in Fields
          /\ Find(N, y) \in Fields /\ Find(N, z) \in Fields
      BY <1>1, <2>1, FindIsField
    <3> QED BY <1>4, <2>2, <3>1, <3>2, ClashKept
  <2> QED BY <2>4, <2>5
<1>10. Sound(N, {x}, {})
  BY <1>1, <1>8, <1>9 DEF Sound
<1>11. /\ ScopeRow(N, p) = ScopeRow(M, p) /\ ScopeColumn(N, p) = ScopeColumn(M, p)
       /\ ScopeColumns(N, p) = ScopeColumns(M, p)
  BY <1>1, <1>5
<1>12. Fits(N, {x}, g, p)
  <2>1. ASSUME NEW y \in Ids(N) \ {x}, Parent(N, y) = p
        PROVE  y \in Ids(M) /\ Find(N, y) = Find(M, y) /\ Parent(M, y) = p
    <3>1. y \in Ids(M) /\ Parent(M, y) = p
      BY <1>1, <1>2, <2>1
    <3>2. y \notin U
      BY <1>1, <1>3, <2>1, <3>1
    <3> QED BY <1>2, <3>1, <3>2
  <2> QED BY <1>11, <2>1 DEF Fits, MayGo
<1>13. Parent(N, x) = p
  BY <1>1, <1>2
<1>14. Filled(N)
  <2>1. Fills(N, x)
    BY <1>1, <1>11, <1>13 DEF Fills, MayGo
  <2> QED BY <1>8, <2>1 DEF Filled
<1> QED BY <1>1, <1>10, <1>12, <1>13, <1>14, FitsIn

(* Where moveField would put a field of the layout. *)
PlaceFor(M, x, row, column, p) ==
    LET f == Find(M, x)
        in == TypeOf(M, p)
        full == f.type \in {Subform, RichText}
    IN  [id |-> x, row |-> row,
         column |-> IF full THEN ScopeColumn(M, p) ELSE column,
         rowSpan |-> IF in = Subform THEN 1 ELSE f.rowSpan,
         colSpan |-> IF full THEN ScopeColumns(M, p)
                     ELSE IF in = Subform THEN 1 ELSE f.colSpan]

(* The field on a rectangle of a grid. *)
At(f, r, p) == [f EXCEPT !.row = r.row, !.column = r.column, !.rowSpan = r.rowSpan,
                         !.colSpan = r.colSpan, !.parent = p]

LEMMA AtFacts ==
  ASSUME NEW f \in Fields, NEW r, IsRect(r), NEW p \in FieldIds \union {Root}
  PROVE  /\ At(f, r, p) \in Fields /\ At(f, r, p).id = f.id /\ At(f, r, p).type = f.type
         /\ At(f, r, p).parent = p /\ SamePlace(r, At(f, r, p)) /\ SamePlace(At(f, r, p), r)
<1>1. At(f, r, p) \in Fields
  BY DEF At, Fields, IsRect
<1> QED BY <1>1 DEF At, Fields, SamePlace

LEMMA FitsSame ==
  ASSUME NEW L, NEW D, NEW r, NEW f, NEW p, Fits(L, D, r, p), SamePlace(r, f)
  PROVE  Fits(L, D, f, p)
<1>1. \A x \in Ids(L) : Overlap(r, Find(L, x)) <=> Overlap(f, Find(L, x))
  BY OverlapSame
<1>2. Right(r) = Right(f) /\ r.row = f.row /\ r.column = f.column
  BY DEF Right, SamePlace
<1> QED BY <1>1, <1>2 DEF Fits

LEMMA PlaceForFacts ==
  ASSUME NEW M \in Layouts, NEW x \in Ids(M), NEW p, IsGrid(M, p), NEW row \in Int, NEW column \in Int
  PROVE  LET r == PlaceFor(M, x, row, column, p)
         IN  /\ IsRect(r) /\ r.id = x /\ r.row = row
             /\ r.rowSpan = Find(M, x).rowSpan
             /\ Find(M, x).type = RichText => r.column = ScopeColumn(M, p) /\ r.colSpan = ScopeColumns(M, p)
             /\ Find(M, x).type # RichText => r.column = column /\ r.colSpan = Find(M, x).colSpan
<1>1. /\ TypeOf(M, p) # Subform /\ ScopeColumn(M, p) \in Int /\ ScopeColumns(M, p) \in Nat \ {0}
  BY GridFacts
<1>2. /\ Find(M, x).type \in PlainTypes /\ Find(M, x).rowSpan \in Nat \ {0}
      /\ Find(M, x).colSpan \in Nat \ {0}
  BY FindIsField DEF Fields
<1>3. Find(M, x).type \in {Subform, RichText} <=> Find(M, x).type = RichText
  BY <1>2 DEF PlainTypes, Text, Area, Group, RichText, Subform
<1> QED BY <1>1, <1>2, <1>3 DEF PlaceFor, IsRect

LEMMA PlainAlone ==
  ASSUME NEW M \in Layouts, Tree(M), NEW x \in Ids(M), Find(M, x).type # Group
  PROVE  Moved(M, {x}) = {x}
<1> DEFINE S == Moved(M, {x}) \ {x}
<1>1. S \in SUBSET Ids(M)
  BY MovedTree
<1>2. ASSUME NEW y \in S PROVE Parent(M, y) \in S
  <2>1. y \in Ids(M) /\ Parent(M, y) \in Moved(M, {x}) /\ Parent(M, y) # Root
    BY <1>1, MovedTree
  <2>2. Parent(M, y) # x
    BY <2>1 DEF Tree
  <2> QED BY <2>1, <2>2
<1>3. S = {}
  BY <1>1, <1>2, NoCircle
<1> QED BY <1>3, MovedTree

(* Its parent is another one. *)
IsAdopted(M, A, x, p) ==
    /\ A \in Layouts /\ Ids(A) = Ids(M)
    /\ \A y \in Ids(M) : Find(A, y) = IF y = x THEN [Find(M, x) EXCEPT !.parent = p] ELSE Find(M, y)

Adopted(M, x, p) == Each(M, LAMBDA g : IF g.id = x THEN [g EXCEPT !.parent = p] ELSE g)

LEMMA AdoptedIs ==
  ASSUME NEW M \in Layouts, NEW x \in Ids(M), NEW p \in FieldIds \union {Root}
  PROVE  IsAdopted(M, Adopted(M, x, p), x, p)
<1> DEFINE Op(g) == IF g.id = x THEN [g EXCEPT !.parent = p] ELSE g
           G == [i \in DOMAIN M |-> Op(M[i])]
<1>1. Adopted(M, x, p) = << >> \o G
  BY DEF Adopted, Each
<1>2. ASSUME NEW f \in Fields PROVE Op(f) \in Fields /\ Op(f).id = f.id
  BY DEF Fields
<1>3. DOMAIN G = DOMAIN M /\ G = [i \in DOMAIN G |-> G[i]] /\ \A i \in DOMAIN M : G[i] = Op(M[i])
  OBVIOUS
<1> HIDE DEF G, Op
<1>4. /\ << >> \o G = G /\ G \in Layouts /\ Ids(G) = Ids(M) /\ Len(G) = Len(M)
      /\ \A i \in DOMAIN M : Find(G, M[i].id) = G[i]
  BY <1>2, <1>3, LayoutFacts, Mapped
<1>5. ASSUME NEW y \in Ids(M) PROVE Find(G, y) = Op(Find(M, y)) /\ Find(M, y).id = y
  <2>1. PICK i \in DOMAIN M : M[i].id = y /\ Find(M, y) = M[i]
    BY LayoutFacts
  <2>2. G[i] = Op(M[i])
    BY <1>3, <2>1
  <2>3. Find(G, M[i].id) = G[i]
    BY <1>4, <2>1
  <2> QED BY <2>1, <2>2, <2>3
<1> QED BY <1>1, <1>4, <1>5 DEF IsAdopted, Op

(* Who is inside a field does not depend on where it is. *)
LEMMA AdoptedInside ==
  ASSUME NEW M \in Layouts, Tree(M), NEW x \in Ids(M), NEW p, NEW A, IsAdopted(M, A, x, p)
  PROVE  \A y \in Ids(M) : y \in Moved(A, {x}) <=> y \in Moved(M, {x})
<1> DEFINE U == Moved(M, {x})
           V == Moved(A, {x})
           P(y) == Find(A, y).parent
<1>1. /\ x \in U /\ U \in SUBSET Ids(M) /\ Root \notin U
      /\ \A y \in Ids(M) : Parent(M, y) \in U => y \in U
      /\ \A y \in Ids(M) : y \in U => y = x \/ Parent(M, y) \in U
  BY MovedTree
<1>2. /\ A \in Layouts /\ Ids(A) = Ids(M) /\ \A y \in Ids(M) \ {x} : Find(A, y) = Find(M, y)
      /\ \A y \in Ids(M) : Find(A, y).type = Find(M, y).type
  <2>1. Find(M, x) \in Fields
    BY FindIsField
  <2>2. [Find(M, x) EXCEPT !.parent = p].type = Find(M, x).type
    BY <2>1 DEF Fields
  <2> QED BY <2>2 DEF IsAdopted
<1>3. /\ DescendantsOf(A, {x}) \in SUBSET Ids(M)
      /\ \A y \in Ids(M) \ {x} : y \in DescendantsOf(A, {x}) <=>
                \/ Parent(M, y) \in {x}
                \/ /\ Parent(M, y) \in Ids(M)
                   /\ IsContainer(Find(M, Parent(M, y)).type)
                   /\ Parent(M, y) \in DescendantsOf(A, {x})
  <2>1. /\ DescendantsOf(A, {x}) \in SUBSET Ids(M)
        /\ \A y \in Ids(M) : y \in DescendantsOf(A, {x}) <=>
                \/ Find(A, y).parent \in {x}
                \/ /\ Find(A, y).parent \in Ids(M)
                   /\ IsContainer(Find(A, Find(A, y).parent).type)
                   /\ Find(A, y).parent \in DescendantsOf(A, {x})
    BY <1>2, DescendantsUnfold
  <2>2. \A y \in Ids(M) \ {x} : Find(A, y).parent = Parent(M, y)
    BY <1>2 DEF Parent
  <2> QED BY <1>2, <2>1, <2>2
<1> DEFINE D == DescendantsOf(A, {x})
<1>4. V = D \union {x}
  BY DEF Moved
<1> HIDE DEF D, U, V
<1>5. D \ U = {}
  <2>1. ASSUME NEW y \in D \ U PROVE Parent(M, y) \in D \ U
    <3>1. y \in Ids(M) \ {x} /\ Parent(M, y) \notin U
      BY <1>1, <1>3, <2>1 DEF D
    <3>2. Parent(M, y) \in D
      BY <1>1, <1>3, <2>1, <3>1 DEF D
    <3> QED BY <3>1, <3>2
  <2> QED BY <1>3, <2>1, NoCircle DEF D
<1>6. U \ V = {}
  <2>1. ASSUME NEW y \in U \ V PROVE Parent(M, y) \in U \ V
    <3>1. y \in Ids(M) \ {x} /\ Parent(M, y) \in U /\ y \notin D
      BY <1>1, <1>4, <2>1
    <3>2. Parent(M, y) # x
      BY <1>3, <3>1 DEF D
    <3>3. Parent(M, y) \in Ids(M) /\ IsContainer(Find(M, Parent(M, y)).type)
      BY <1>1, <3>1 DEF Tree, IsContainer
    <3>4. Parent(M, y) \notin D
      BY <1>3, <3>1, <3>3 DEF D
    <3> QED BY <1>4, <3>1, <3>2, <3>4
  <2>2. U \ V \in SUBSET Ids(M)
    BY <1>1
  <2> QED BY <2>1, <2>2, NoCircle
<1> QED BY <1>1, <1>4, <1>5, <1>6 DEF U, V

(* moveField goes on: none of its early returns is taken. *)
MayMove(M, x, row, column, p) ==
    LET f == Find(M, x)
        r == PlaceFor(M, x, row, column, p)
    IN  ~ \/ p = x
          \/ IsContainer(f.type) /\ p \in Descendants(M, x)
          \/ TypeOf(M, p) = Subform /\ (IsContainer(f.type) \/ f.type = RichText)
          \/ f.row = row /\ f.column = r.column /\ f.parent = p
          \/ ~CanPlace(M, x, r, p)

PutAt(M, x, r) ==
    Each(M, LAMBDA g : IF g.id # x THEN g
                       ELSE [g EXCEPT !.row = r.row, !.column = r.column,
                                      !.rowSpan = r.rowSpan, !.colSpan = r.colSpan])

LEMMA MoveFieldUnfold ==
  ASSUME NEW M, NEW x, NEW row, NEW column, NEW p
  PROVE  LET f == Find(M, x)
             r == PlaceFor(M, x, row, column, p)
         IN  MoveField(M, x, row, column, p) =
                IF ~MayMove(M, x, row, column, p) THEN M
                ELSE IF IsContainer(f.type)
                THEN Translate(Adopted(M, x, p), {x}, row - f.row, r.column - f.column)
                ELSE NormalizeRichText(PutAt(Adopted(M, x, p), x, r))
<1> DEFINE f == Find(M, x)
           r == PlaceFor(M, x, row, column, p)
           no == \/ p = x
                 \/ IsContainer(f.type) /\ p \in Descendants(M, x)
                 \/ TypeOf(M, p) = Subform /\ (IsContainer(f.type) \/ f.type = RichText)
                 \/ f.row = row /\ f.column = r.column /\ f.parent = p
                 \/ ~CanPlace(M, x, r, p)
           to == Translate(Adopted(M, x, p), {x}, row - f.row, r.column - f.column)
           on == Each(Adopted(M, x, p), LAMBDA g : IF g.id # x THEN g
                       ELSE [g EXCEPT !.row = row, !.column = r.column,
                                      !.rowSpan = r.rowSpan, !.colSpan = r.colSpan])
<1>1. MoveField(M, x, row, column, p) = IF no THEN M ELSE IF IsContainer(f.type) THEN to ELSE NormalizeRichText(on)
  BY DEF MoveField, PlaceFor, Adopted
<1>2. MayMove(M, x, row, column, p) <=> ~no
  BY DEF MayMove
<1>3. r.row = row
  BY DEF PlaceFor
<1>4. on = PutAt(Adopted(M, x, p), x, r)
  BY <1>3 DEF PutAt
<1> HIDE DEF no, to, on, f, r
<1>5. MoveField(M, x, row, column, p) =
        IF ~MayMove(M, x, row, column, p) THEN M ELSE IF IsContainer(f.type) THEN to ELSE NormalizeRichText(on)
  BY <1>1, <1>2
<1> QED BY <1>4, <1>5 DEF f, r, to

LEMMA PutAtIs ==
  ASSUME NEW A \in Layouts, NEW x \in Ids(A), NEW r, IsRect(r), NEW p, Parent(A, x) = p
  PROVE  /\ PutAt(A, x, r) \in Layouts /\ Ids(PutAt(A, x, r)) = Ids(A)
         /\ \A y \in Ids(A) : Find(PutAt(A, x, r), y) = IF y = x THEN At(Find(A, x), r, p) ELSE Find(A, y)
<1> DEFINE Op(g) == IF g.id # x THEN g
                    ELSE [g EXCEPT !.row = r.row, !.column = r.column,
                                   !.rowSpan = r.rowSpan, !.colSpan = r.colSpan]
           G == [i \in DOMAIN A |-> Op(A[i])]
<1>1. PutAt(A, x, r) = << >> \o G
  BY DEF PutAt, Each
<1>2. ASSUME NEW f \in Fields PROVE Op(f) \in Fields /\ Op(f).id = f.id
  BY DEF Fields, IsRect
<1>3. DOMAIN G = DOMAIN A /\ G = [i \in DOMAIN G |-> G[i]] /\ \A i \in DOMAIN A : G[i] = Op(A[i])
  OBVIOUS
<1>4. Op(Find(A, x)) = At(Find(A, x), r, p)
  <2>1. Find(A, x) \in Fields /\ Find(A, x).id = x /\ Find(A, x).parent = p
    BY FindIsField DEF Parent
  <2> QED BY <2>1 DEF At, Fields
<1>5. \A f : f.id # x => Op(f) = f
  OBVIOUS
<1> HIDE DEF G, Op
<1>6. /\ << >> \o G = G /\ G \in Layouts /\ Ids(G) = Ids(A) /\ Len(G) = Len(A)
      /\ \A i \in DOMAIN A : Find(G, A[i].id) = G[i]
  BY <1>2, <1>3, LayoutFacts, Mapped
<1>7. ASSUME NEW y \in Ids(A) PROVE Find(G, y) = Op(Find(A, y)) /\ Find(A, y).id = y
  <2>1. PICK i \in DOMAIN A : A[i].id = y /\ Find(A, y) = A[i]
    BY LayoutFacts
  <2>2. G[i] = Op(A[i])
    BY <1>3, <2>1
  <2>3. Find(G, A[i].id) = G[i]
    BY <1>6, <2>1
  <2> QED BY <2>1, <2>2, <2>3
<1> QED BY <1>1, <1>4, <1>5, <1>6, <1>7

MoveStart(M, x, row, column, p) ==
    /\ Sound(M, {x}, {}) /\ x \in Ids(M) /\ row \in Int /\ column \in Int
    /\ \A y \in Ids(M) \ {x} : Fills(M, y)
    /\ IsGrid(M, p)

(* The field as moveField leaves it. *)
Goes(M, x, row, column, p) == At(Find(M, x), PlaceFor(M, x, row, column, p), p)

LEMMA MayMoveMayGo ==
  ASSUME NEW M, NEW x, NEW row, NEW column, NEW p, MoveStart(M, x, row, column, p),
         MayMove(M, x, row, column, p)
  PROVE  MayGo(M, x, Goes(M, x, row, column, p))
<1> DEFINE f == Find(M, x)
           r == PlaceFor(M, x, row, column, p)
           g == At(f, r, p)
<1>1. /\ Sound(M, {x}, {}) /\ x \in Ids(M) /\ row \in Int /\ column \in Int
      /\ M \in Layouts /\ Tree(M) /\ IsGrid(M, p)
      /\ \A y \in Ids(M) \ {x} : Fills(M, y)
  BY DEF MoveStart, Sound
<1>2. /\ IsRect(r) /\ r.id = x /\ r.row = row
      /\ f.type = RichText => r.column = ScopeColumn(M, p) /\ r.colSpan = ScopeColumns(M, p)
  BY <1>1, PlaceForFacts
<1>3. f \in Fields /\ f.id = x /\ p \in FieldIds \union {Root}
  <2>1. p \in Ids(M) \union {Root}
    BY <1>1, GridFacts
  <2> QED BY <1>1, <2>1, FindIsField
<1>4. /\ p # x /\ ~(IsContainer(f.type) /\ p \in Descendants(M, x)) /\ CanPlace(M, x, r, p)
  BY DEF MayMove
<1>5. g \in Fields /\ g.parent = p /\ g.type = f.type /\ SamePlace(r, g) /\ g.id = x
  <2> HIDE DEF r, f
  <2> QED BY <1>2, <1>3, AtFacts
<1>6. Fits(M, {x}, g, p)
  <2>1. Fits(M, {x}, r, p)
    BY <1>1, <1>4, PlaceFits
  <2> HIDE DEF g, r
  <2> QED BY <1>5, <2>1, FitsSame
<1>7. p \notin Moved(M, {x})
  <2>1. CASE f.type = Group
    <3>1. TypeOf(M, x) = Group
      BY <1>1, <2>1, LayoutFacts
    <3>2. p \notin DescendantsOf(M, {x})
      BY <1>4, <2>1, <3>1 DEF IsContainer, Descendants
    <3> QED BY <1>4, <3>2 DEF Moved
  <2>2. CASE f.type # Group
    BY <1>1, <1>4, <2>2, PlainAlone
  <2> QED BY <2>1, <2>2
<1>8. g.type = RichText => g.column = ScopeColumn(M, p) /\ g.colSpan = ScopeColumns(M, p)
  <2> HIDE DEF g, r
  <2> QED BY <1>2, <1>5 DEF SamePlace
<1> HIDE DEF g, r, f
<1>9. Goes(M, x, row, column, p) = g
  BY DEF Goes, g, r, f
<1> QED BY <1>1, <1>5, <1>6, <1>7, <1>8, <1>9 DEF MayGo

LEMMA MoveFieldIs ==
  ASSUME NEW M, NEW x, NEW row, NEW column, NEW p, MoveStart(M, x, row, column, p),
         MayMove(M, x, row, column, p)
  PROVE  IsPlaced(M, MoveField(M, x, row, column, p), x, Goes(M, x, row, column, p))
<1> DEFINE f == Find(M, x)
           r == PlaceFor(M, x, row, column, p)
           g == At(f, r, p)
           A == Adopted(M, x, p)
           U == Moved(M, {x})
           N == MoveField(M, x, row, column, p)
<1>1. /\ Sound(M, {x}, {}) /\ x \in Ids(M) /\ row \in Int /\ column \in Int
      /\ M \in Layouts /\ Tree(M) /\ IsGrid(M, p)
  BY DEF MoveStart, Sound
<1>2. /\ IsRect(r) /\ r.id = x /\ r.row = row /\ r.rowSpan = f.rowSpan
      /\ f.type # RichText => r.colSpan = f.colSpan
  BY <1>1, PlaceForFacts
<1>3. f \in Fields /\ f.id = x /\ p \in FieldIds \union {Root}
  <2>1. p \in Ids(M) \union {Root}
    BY <1>1, GridFacts
  <2> QED BY <1>1, <2>1, FindIsField
<1>4. /\ g \in Fields /\ g.parent = p /\ g.type = f.type /\ SamePlace(r, g) /\ g.id = x
  <2> HIDE DEF r, f
  <2> QED BY <1>2, <1>3, AtFacts
<1>5. /\ A \in Layouts /\ Ids(A) = Ids(M)
      /\ \A y \in Ids(M) : Find(A, y) = IF y = x THEN [f EXCEPT !.parent = p] ELSE Find(M, y)
      /\ \A y \in Ids(M) : y \in Moved(A, {x}) <=> y \in U
  <2>1. IsAdopted(M, A, x, p)
    BY <1>1, <1>3, AdoptedIs
  <2> HIDE DEF A, U
  <2>2. \A y \in Ids(M) : y \in Moved(A, {x}) <=> y \in U
    BY <1>1, <2>1, AdoptedInside DEF U
  <2>3. /\ A \in Layouts /\ Ids(A) = Ids(M)
        /\ \A y \in Ids(M) : Find(A, y) = IF y = x THEN [f EXCEPT !.parent = p] ELSE Find(M, y)
    BY <2>1 DEF IsAdopted
  <2> HIDE DEF f
  <2> QED BY <2>2, <2>3
<1>6. N = IF IsContainer(f.type) THEN Translate(A, {x}, row - f.row, r.column - f.column)
          ELSE NormalizeRichText(PutAt(A, x, r))
  BY MoveFieldUnfold
<1>7. Goes(M, x, row, column, p) = g
  BY DEF Goes
<1>8. g.type = Group => g.colSpan = f.colSpan
  <2> HIDE DEF g, r
  <2> QED BY <1>2, <1>4 DEF SamePlace, Group, RichText
<1>9. MayGo(M, x, g)
  BY <1>7, MayMoveMayGo
<1>10. x \in U /\ U \in SUBSET Ids(M)
  BY <1>1, MovedTree
<1>11. f.type # Subform
  BY <1>3 DEF Fields, PlainTypes, Subform, Text, Area, Group, RichText
<1> HIDE DEF g, r, f, A, U, N
<1>12. CASE IsContainer(f.type)
  <2> DEFINE dr == row - f.row
             dc == r.column - f.column
  <2>1. dr \in Int /\ dc \in Int
    BY <1>1, <1>2, <1>3 DEF Fields, IsRect
  <2>2. f.type = Group /\ f.type # RichText
    BY <1>11, <1>12 DEF IsContainer, Group, RichText
  <2>3. N = Translate(A, {x}, dr, dc)
    BY <1>6, <1>12
  <2>4. dr = g.row - f.row /\ dc = g.column - f.column
    BY <1>2, <1>4 DEF SamePlace
  <2>5. Shifted([f EXCEPT !.parent = p], dr, dc) = g
    <3>1. f.row + dr = r.row /\ f.column + dc = r.column /\ f.rowSpan = r.rowSpan /\ f.colSpan = r.colSpan
      <4>1. r.column \in Int /\ f.row \in Int /\ f.column \in Int
        BY <1>2, <1>3 DEF Fields, IsRect
      <4> QED BY <1>1, <1>2, <2>2, <4>1
    <3> HIDE DEF dr, dc
    <3> QED BY <1>3, <3>1 DEF Shifted, At, g, Fields
  <2> HIDE DEF dr, dc
  <2>6. IsShift(A, N, {x}, dr, dc)
    BY <1>1, <1>5, <2>1, <2>3, TranslateIs
  <2>7. /\ N \in Layouts /\ Ids(N) = Ids(A)
        /\ \A y \in Ids(A) : Find(N, y) = IF y \in Moved(A, {x}) THEN Shifted(Find(A, y), dr, dc) ELSE Find(A, y)
    BY <2>6 DEF IsShift
  <2>8. ASSUME NEW y \in Ids(M)
        PROVE  Find(N, y) = IF y = x THEN g ELSE IF y \in U THEN Shifted(Find(M, y), dr, dc) ELSE Find(M, y)
    <3>1. Find(N, y) = IF y \in U THEN Shifted(Find(A, y), dr, dc) ELSE Find(A, y)
      BY <1>5, <2>7, <2>8
    <3>2. CASE y = x
      <4>1. Find(A, x) = [f EXCEPT !.parent = p]
        BY <1>1, <1>5
      <4> QED BY <1>10, <2>5, <3>1, <3>2, <4>1
    <3>3. CASE y # x
      <4>1. Find(A, y) = Find(M, y)
        BY <1>5, <3>3
      <4> QED BY <3>1, <3>3, <4>1
    <3> QED BY <3>2, <3>3
  <2>9. IsPlaced(M, N, x, g)
    <3>1. N \in Layouts /\ Ids(N) = Ids(M)
      BY <1>5, <2>7
    <3> QED BY <1>4, <1>8, <2>4, <2>8, <3>1 DEF IsPlaced, f, U
  <2> QED BY <1>7, <2>9 DEF N
<1>13. CASE ~IsContainer(f.type)
  <2> DEFINE G == PutAt(A, x, r)
  <2>1. f.type # Group
    BY <1>13 DEF IsContainer
  <2>2. U = {x}
    BY <1>1, <2>1, PlainAlone DEF U, f
  <2>3. Find(A, x) = [f EXCEPT !.parent = p] /\ Parent(A, x) = p
    BY <1>1, <1>3, <1>5 DEF Parent, Fields
  <2>4. At([f EXCEPT !.parent = p], r, p) = g
    BY <1>3 DEF At, g, Fields
  <2>5. /\ G \in Layouts /\ Ids(G) = Ids(M)
        /\ \A y \in Ids(M) : Find(G, y) = IF y = x THEN g ELSE Find(M, y)
    <3>1. A \in Layouts /\ x \in Ids(A) /\ Ids(A) = Ids(M)
      BY <1>1, <1>5
    <3>2. /\ G \in Layouts /\ Ids(G) = Ids(A)
          /\ \A y \in Ids(A) : Find(G, y) = IF y = x THEN At(Find(A, x), r, p) ELSE Find(A, y)
      BY <1>2, <2>3, <3>1, PutAtIs
    <3>3. At(Find(A, x), r, p) = g
      BY <2>3, <2>4
    <3>4. \A y \in Ids(M) : y # x => Find(A, y) = Find(M, y)
      BY <1>5
    <3> HIDE DEF G
    <3> QED BY <3>1, <3>2, <3>3, <3>4
  <2> HIDE DEF G
  <2>6. IsPlaced(M, G, x, g)
    BY <1>4, <1>8, <2>2, <2>5 DEF IsPlaced, f, U
  <2>7. Good(G)
    BY <1>9, <2>6, PlacedGood
  <2>8. Tree(G) /\ Filled(G)
    BY <2>7 DEF Good, Sound
  <2>9. N = NormalizeRichText(G)
    BY <1>6, <1>13 DEF G
  <2>10. IsNormal(G, N)
    BY <2>5, <2>8, <2>9, NormalizeIs
  <2>11. \A y \in Ids(G) : Find(N, y) = Find(G, y)
    BY <2>5, <2>8, <2>10, NormalFilled
  <2>12. N \in Layouts /\ Ids(N) = Ids(M)
    BY <2>5, <2>10 DEF IsNormal
  <2>13. IsPlaced(M, N, x, g)
    BY <2>5, <2>6, <2>11, <2>12 DEF IsPlaced
  <2> QED BY <1>7, <2>13 DEF N
<1> QED BY <1>12, <1>13

-----------------------------------------------------------------------------
(* PlanRow and PlanColumn: room for what is dropped. *)
LEMMA SoundMore ==
  ASSUME NEW L, NEW D, NEW Q, Sound(L, {}, {})
  PROVE  Sound(L, D, Q)
BY DEF Sound

LEMMA EncloseIs ==
  ASSUME NEW M, Sound(M, {}, {}), NEW p \in Ids(M) \union {Root}, NEW T, Around(M, p, T), NEW low \in Int
  PROVE  Expanded(M, EncloseChildren(M, p, low), p, T)
<1> DEFINE some == Siblings(M, p)
<1>1. M \in Layouts
  BY DEF Sound
<1>2. some \in SUBSET {M[i] : i \in DOMAIN M}
  BY DEF Siblings
<1> HIDE DEF some
<1>3. LowestBottom(some, low) \in Int
  BY <1>1, <1>2, LowestIs
<1>4. Expanded(M, ExpandToFit(M, p, LowestBottom(some, low)), p, T)
  BY <1>3, ExpandIs
<1> QED BY <1>4 DEF EncloseChildren, some

(* A grid with what lies in it, and another one that is at least as high. *)
GridLike(M, N, p, a, x) ==
    /\ M \in Layouts /\ N \in Layouts /\ IsGrid(M, p) /\ IsGrid(N, p)
    /\ p \in Ids(M) => /\ Find(N, p).row = Find(M, p).row
                       /\ Find(N, p).column = Find(M, p).column
                       /\ Find(N, p).colSpan = Find(M, p).colSpan
                       /\ Find(N, p).rowSpan >= Find(M, p).rowSpan
    /\ \A y \in Ids(N) \ {x} : Parent(N, y) = p =>
            /\ y \in Ids(M) \ {a} /\ Parent(M, y) = p
            /\ SamePlace(Find(M, y), Find(N, y))

LEMMA OverlapLike ==
  ASSUME NEW r, NEW s, NEW f, NEW g, SamePlace(r, s), SamePlace(f, g)
  PROVE  Overlap(r, f) <=> Overlap(s, g)
BY DEF Overlap, Bottom, Right, SamePlace

LEMMA PlaceLike ==
  ASSUME NEW M, NEW N, NEW p, NEW a, NEW x, GridLike(M, N, p, a, x),
         NEW r, IsRect(r), NEW s, SamePlace(r, s), CanPlace(M, a, r, p)
  PROVE  CanPlace(N, x, s, p)
<1>1. /\ M \in Layouts /\ N \in Layouts /\ IsGrid(M, p) /\ IsGrid(N, p)
  BY DEF GridLike
<1>2. s.row = r.row /\ s.column = r.column /\ Right(s) = Right(r) /\ Bottom(s) = Bottom(r)
  BY DEF SamePlace, Right, Bottom
<1>3. TypeOf(M, p) # Subform
  BY <1>1, GridFacts
<1>4. r.row >= 0 /\ r.column >= 0 /\ Right(r) <= COLUMN_COUNT /\ (p # Root => InsideParent(M, r, p))
  BY <1>3 DEF CanPlace
<1>5. p # Root => InsideParent(N, s, p)
  <2> SUFFICES ASSUME p # Root PROVE InsideParent(N, s, p)
    OBVIOUS
  <2>1. p \in Ids(M) /\ p \in Ids(N)
    BY <1>1, GridFacts
  <2>2. /\ Find(M, p) \in Fields /\ Find(M, p).type = Group /\ HasField(N, p)
        /\ Find(N, p) \in Fields /\ Find(N, p).type = Group
    BY <1>1, <2>1, GridFacts
  <2>3. /\ Find(N, p).row = Find(M, p).row
        /\ Find(N, p).column = Find(M, p).column
        /\ Find(N, p).colSpan = Find(M, p).colSpan
        /\ Find(N, p).rowSpan >= Find(M, p).rowSpan
    BY <2>1 DEF GridLike
  <2>4. /\ r.row >= Find(M, p).row /\ r.column >= Find(M, p).column
        /\ Bottom(r) <= Bottom(Find(M, p)) /\ Right(r) <= Right(Find(M, p))
    BY <1>4, <2>2 DEF InsideParent, Group, Subform
  <2>5. Right(Find(N, p)) = Right(Find(M, p))
    BY <2>3 DEF Right
  <2>6. Bottom(s) <= Bottom(Find(N, p))
    <3>1. /\ Bottom(Find(M, p)) \in Int /\ Bottom(Find(N, p)) \in Int
          /\ Bottom(Find(N, p)) >= Bottom(Find(M, p))
      BY <2>2, <2>3 DEF Bottom, Fields
    <3>2. Bottom(r) \in Int
      BY DEF IsRect, Bottom
    <3> QED BY <1>2, <2>4, <3>1, <3>2
  <2>7. /\ s.row >= Find(N, p).row /\ s.column >= Find(N, p).column
        /\ Right(s) <= Right(Find(N, p))
    BY <1>2, <2>3, <2>4, <2>5
  <2> QED BY <2>2, <2>6, <2>7 DEF InsideParent
<1>6. ASSUME NEW i \in DOMAIN N PROVE \/ N[i].id = x
                                      \/ N[i].parent # p
                                      \/ ~Overlap(s, N[i])
  <2> SUFFICES ASSUME N[i].id # x, N[i].parent = p PROVE ~Overlap(s, N[i])
    OBVIOUS
  <2> DEFINE y == N[i].id
  <2>1. Find(N, y) = N[i] /\ y \in Ids(N)
    BY <1>1, LayoutFacts
  <2> HIDE DEF y
  <2>2. /\ y \in Ids(M) \ {a} /\ Parent(M, y) = p
        /\ SamePlace(Find(M, y), Find(N, y))
    <3>1. Parent(N, y) = p /\ y # x
      BY <2>1 DEF Parent, y
    <3> QED BY <2>1, <3>1 DEF GridLike
  <2>3. ~Overlap(r, Find(M, y))
    BY <1>1, <2>2, PlaceFits DEF Fits
  <2> QED BY <2>1, <2>2, <2>3, OverlapLike
<1> QED BY <1>2, <1>4, <1>5, <1>6 DEF CanPlace

LEMMA KeepsWeaker ==
  ASSUME NEW L, NEW M, NEW K, NEW J, NEW T, Keeps(L, M, K, T), K \subseteq J
  PROVE  Keeps(L, M, J, T)
<1>1. Follows(L, M, K)
  BY DEF Keeps
<1>2. Follows(L, M, J)
  BY <1>1 DEF Follows
<1> QED BY <1>2 DEF Keeps

(* A group that only grew, and what lies in it. *)
LEMMA GridKept ==
  ASSUME NEW M, Good(M), NEW p, IsGrid(M, p), NEW T, Around(M, p, T),
         NEW N, Keeps(M, N, T \ {p}, T), NEW a, a \notin Ids(M)
  PROVE  GridLike(M, N, p, a, a)
<1>1. /\ M \in Layouts /\ Tree(M) /\ Filled(M) /\ N \in Layouts
      /\ SameTree(M, N) /\ SameWidths(M, N) /\ Ids(N) = Ids(M)
      /\ \A y \in Ids(M) : Parent(N, y) = Parent(M, y) /\ Find(N, y).type = Find(M, y).type
      /\ Filled(N)
  BY KeptFilled DEF Good, Sound, Keeps, Follows, SameTree
<1>2. IsGrid(N, p)
  BY <1>1 DEF IsGrid
<1>3. p \in T
  BY DEF Around
<1>4. ASSUME p \in Ids(M)
      PROVE  /\ Find(N, p).row = Find(M, p).row
             /\ Find(N, p).column = Find(M, p).column
             /\ Find(N, p).colSpan = Find(M, p).colSpan
             /\ Find(N, p).rowSpan >= Find(M, p).rowSpan
  <2>1. Find(M, p).type # RichText
    BY <1>1, <1>4, GridFacts DEF Group, RichText
  <2>2. Stays(M, N, T)
    BY DEF Keeps
  <2>3. Find(N, p).row = Find(M, p).row /\ Find(N, p).column = Find(M, p).column
    BY <1>3, <1>4, <2>1, <2>2 DEF Stays
  <2>4. Find(N, p).rowSpan >= Find(M, p).rowSpan
    BY <1>3, <1>4 DEF Keeps
  <2> QED BY <1>1, <1>4, <2>3, <2>4 DEF SameWidths
<1>5. /\ ScopeColumn(N, p) = ScopeColumn(M, p) /\ ScopeColumns(N, p) = ScopeColumns(M, p)
  <2>1. CASE p = Root
    BY <1>1, <1>2, <2>1, GridFacts
  <2>2. CASE p \in Ids(M)
    <3>1. /\ ScopeColumn(M, p) = Find(M, p).column
          /\ ScopeColumns(M, p) = Find(M, p).colSpan
      BY <1>1, <2>2, GridFacts
    <3>2. /\ ScopeColumn(N, p) = Find(N, p).column
          /\ ScopeColumns(N, p) = Find(N, p).colSpan
      BY <1>1, <1>2, <2>2, GridFacts
    <3> QED BY <1>4, <2>2, <3>1, <3>2
  <2> QED BY <1>1, <2>1, <2>2, GridFacts
<1>6. ASSUME NEW y \in Ids(M), Parent(M, y) = p
      PROVE  SamePlace(Find(M, y), Find(N, y))
  <2>1. Find(M, y) \in Fields /\ Find(N, y) \in Fields /\ Find(N, y).type = Find(M, y).type
    BY <1>1, FindIsField
  <2>2. RowShift(M, N, p) = 0 /\ ColumnShift(M, N, p) = 0
    <3>1. CASE p = Root
      BY <3>1 DEF RowShift, ColumnShift
    <3>2. CASE p # Root
      <4>1. p \in Ids(M) /\ Find(M, p) \in Fields
        BY <1>1, <3>2, GridFacts
      <4>2. Find(M, p).row \in Int /\ Find(M, p).column \in Int
        BY <4>1 DEF Fields
      <4> QED BY <1>4, <3>2, <4>1, <4>2 DEF RowShift, ColumnShift
    <3> QED BY <3>1, <3>2
  <2>3. y # Root
    BY <1>1, RootIsNoId
  <2>4. /\ RowShift(M, N, y) = 0
        /\ Find(M, y).type # RichText => ColumnShift(M, N, y) = 0
    <3>1. Follows(M, N, T \ {p})
      BY DEF Keeps
    <3> QED BY <1>6, <2>2, <3>1 DEF Follows
  <2>5. Find(N, y).row = Find(M, y).row
    BY <2>1, <2>3, <2>4 DEF RowShift, Fields
  <2>6. Find(N, y).column = Find(M, y).column
    <3>1. CASE Find(M, y).type # RichText
      BY <2>1, <2>3, <2>4, <3>1 DEF ColumnShift, Fields
    <3>2. CASE Find(M, y).type = RichText
      BY <1>1, <1>5, <1>6, <2>1, <3>2 DEF Filled, Fills
    <3> QED BY <3>1, <3>2
  <2>7. y \notin T
    BY <1>6 DEF Around
  <2>8. Find(N, y).rowSpan = Find(M, y).rowSpan
    BY <2>7 DEF Keeps
  <2> QED BY <1>1, <2>5, <2>6, <2>8 DEF SamePlace, SameWidths
<1>7. \A y \in Ids(N) \ {a} : Parent(N, y) = p =>
            /\ y \in Ids(M) \ {a} /\ Parent(M, y) = p
            /\ SamePlace(Find(M, y), Find(N, y))
  BY <1>1, <1>6
<1> QED BY <1>1, <1>2, <1>4, <1>7 DEF GridLike

(* Room for a rectangle in a grid. *)
PlanStart(L, r, p, T, way) ==
    /\ Good(L) /\ IsGrid(L, p) /\ Around(L, p, T) /\ IsRect(r) /\ r.id = "incoming"
    /\ GivesWay(way, L, p)
    /\ way.down \/ r.column >= way.first

LEMMA OverlapClash ==
  ASSUME NEW f, NEW g, Overlap(f, g)
  PROVE  Clash(f, g)
BY DEF Overlap, Clash, Meet

LEMMA MayPush ==
  ASSUME NEW L, NEW r, NEW p, NEW T, NEW way, PlanStart(L, r, p, T, way)
  PROVE  Pushes(L, r, p, T, way)
<1>1. /\ Good(L) /\ Around(L, p, T) /\ IsRect(r) /\ GivesWay(way, L, p)
      /\ way.down \/ r.column >= way.first
  BY DEF PlanStart
<1>2. Sound(L, {}, {p}) /\ FilledIn(L, p)
  BY <1>1, SoundMore DEF Good, Filled, FilledIn
<1>3. \A x, y \in Ids(L) :
            x # y /\ Parent(L, x) = p /\ Parent(L, y) = p => ~Overlap(Find(L, x), Find(L, y))
  BY <1>1, OverlapClash DEF Good, Sound
<1> QED BY <1>1, <1>2, <1>3 DEF Pushes

(* The layout after the push and the growing of the groups. *)
MadeRoom(L, r, p, way, low) == EncloseChildren(GiveWay(L, r, p, way).fields, p, low)

(* After giving way and growing. *)
LEMMA RoomGood ==
  ASSUME NEW L, NEW r, NEW p, NEW T, NEW way, PlanStart(L, r, p, T, way),
         ~GiveWay(L, r, p, way).tooComplex, NEW low \in Int
  PROVE  LET N == MadeRoom(L, r, p, way, low)
         IN  /\ Good(N) /\ Keeps(L, N, T, T)
             /\ GridLike(GiveWay(L, r, p, way).fields, N, p, "incoming", "incoming")
<1> DEFINE M == GiveWay(L, r, p, way).fields
           N == EncloseChildren(M, p, low)
<1>1. /\ Good(L) /\ Sound(L, {}, {}) /\ L \in Layouts /\ Tree(L) /\ Filled(L)
      /\ IsGrid(L, p) /\ Around(L, p, T)
  BY DEF PlanStart, Good, Sound
<1>2. GaveWay(L, M, p, T)
  BY MayPush, GiveWayIs
<1> HIDE DEF M
<1>3. Sound(M, {}, {}) /\ Keeps(L, M, T, T)
  <2>1. Sound(M, {}, {}) /\ Keeps(L, M, {p}, T)
    BY <1>2 DEF GaveWay
  <2>2. {p} \subseteq T
    BY <1>1 DEF Around
  <2> QED BY <2>1, <2>2, KeepsWeaker
<1>4. /\ M \in Layouts /\ Tree(M) /\ SameTree(L, M) /\ Ids(M) = Ids(L)
      /\ \A x \in Ids(L) : Parent(M, x) = Parent(L, x) /\ Find(M, x).type = Find(L, x).type
  BY <1>3 DEF Sound, Keeps, Follows, SameTree
<1>5. Filled(M)
  BY <1>1, <1>3, KeptFilled
<1>6. Good(M)
  BY <1>3, <1>5 DEF Good
<1>7. p \in Ids(M) \union {Root} /\ IsGrid(M, p)
  BY <1>1, <1>4, GridFacts DEF IsGrid
<1>8. Around(M, p, T)
  <2>1. Path(M, T)
    BY <1>1, <1>4, PathSame DEF Around
  <2> QED BY <1>1, <1>4, <2>1 DEF Around
<1>9. Expanded(M, N, p, T)
  BY <1>3, <1>7, <1>8, EncloseIs
<1> HIDE DEF N
<1>10. Sound(N, {}, {}) /\ Filled(N) /\ Keeps(M, N, T \ {p}, T)
  BY <1>5, <1>9 DEF Expanded
<1>11. Keeps(M, N, T, T)
  BY <1>10, KeepsWeaker
<1>12. Keeps(L, N, T, T)
  BY <1>1, <1>3, <1>11, KeptTrans
<1>13. "incoming" \notin Ids(M)
  BY <1>4, RootIsNoId
<1>14. GridLike(M, N, p, "incoming", "incoming")
  BY <1>6, <1>7, <1>8, <1>10, <1>13, GridKept
<1>15. Good(N)
  BY <1>10 DEF Good
<1> QED BY <1>12, <1>14, <1>15 DEF M, N, MadeRoom

(* A field that moves as its group does stays in it. *)
LEMMA FollowsHold ==
  ASSUME NEW L \in Layouts, Tree(L), NEW M \in Layouts, NEW K, Follows(L, M, K), SameHeights(L, M),
         NEW x \in Ids(L), Parent(L, x) \notin K, Contained(L, x)
  PROVE  Contained(M, x)
<1> DEFINE q == Parent(L, x)
<1>1. q \in Ids(L) /\ Bottom(Find(L, x)) <= Bottom(Find(L, q))
  BY DEF Contained
<1>2. SameTree(L, M) /\ Ids(M) = Ids(L) /\ Parent(M, x) = q
  BY DEF Follows, SameTree
<1>3. /\ Find(L, x) \in Fields /\ Find(M, x) \in Fields
      /\ Find(L, q) \in Fields /\ Find(M, q) \in Fields /\ x # Root /\ q # Root
  BY <1>1, <1>2, FindIsField, RootIsNoId
<1>4. RowShift(L, M, x) = RowShift(L, M, q)
  BY DEF Follows
<1> HIDE DEF q
<1>5. Find(M, x).row - Find(L, x).row = Find(M, q).row - Find(L, q).row
  BY <1>3, <1>4 DEF RowShift
<1>6. Find(M, x).rowSpan = Find(L, x).rowSpan /\ Find(M, q).rowSpan = Find(L, q).rowSpan
  BY <1>1 DEF SameHeights
<1>7. Bottom(Find(M, x)) <= Bottom(Find(M, q))
  BY <1>1, <1>3, <1>5, <1>6 DEF Bottom, Fields
<1> QED BY <1>1, <1>2, <1>7 DEF Contained

(* A group encloses its children, whatever became of them; the others are
   where they may be. *)
LEMMA EncloseHolds ==
  ASSUME NEW L, NEW M, NEW p, NEW T, NEW Y, Rises(L, M, p, T, Y), NEW low \in Int,
         \A x \in Y : Parent(L, x) # p /\ Contained(L, x) => Contained(M, x) \/ GrewBeside(L, M, x)
  PROVE  Holds(L, EncloseChildren(M, p, low), Y)
<1> DEFINE some == Siblings(M, p)
           n == LowestBottom(some, low)
<1>1. M \in Layouts /\ IsIn(L, M) /\ p \in Ids(L) \union {Root} /\ Y \subseteq Ids(L)
  BY DEF Rises, Sound
<1>2. some \in SUBSET {M[i] : i \in DOMAIN M}
  BY DEF Siblings
<1>3. ASSUME NEW x \in Y, Parent(L, x) = p
      PROVE  Find(M, x) \in some
  <2>1. x \in Ids(M) /\ Parent(M, x) = p
    BY <1>1, <1>3 DEF IsIn
  <2>2. PICK i \in DOMAIN M : Find(M, x) = M[i]
    BY <1>1, <2>1, LayoutFacts
  <2>3. M[i].parent = p
    BY <2>1, <2>2 DEF Parent
  <2> QED BY <2>2, <2>3 DEF Siblings
<1> HIDE DEF some
<1>4. n \in Int /\ \A f \in some : n >= Bottom(f)
  BY <1>1, <1>2, LowestIs
<1> HIDE DEF n
<1>5. ASSUME NEW x \in Y, Parent(L, x) = p
      PROVE  Bottom(Find(M, x)) <= n
  <2>1. Find(M, x) \in Fields
    BY <1>1, FindIsField DEF IsIn
  <2>2. Bottom(Find(M, x)) \in Int
    BY <2>1 DEF Fields, Bottom
  <2>3. n >= Bottom(Find(M, x))
    BY <1>3, <1>4, <1>5
  <2> QED BY <1>4, <2>2, <2>3
<1>6. ClimbHolds(L, [fields |-> M, container |-> p], n, Y)
  BY <1>1, <1>5 DEF ClimbHolds
<1>7. Holds(L, ExpandToFit(M, p, n), Y)
  BY <1>4, <1>6, ExpandHolds
<1> QED BY <1>7 DEF EncloseChildren, n, some

(* The others made room, nobody is out of his group. *)
LEMMA RoomHold ==
  ASSUME NEW L, NEW r, NEW p, NEW T, NEW way, PlanStart(L, r, p, T, way),
         ~GiveWay(L, r, p, way).tooComplex, NEW low \in Int
  PROVE  Holds(L, MadeRoom(L, r, p, way, low), Ids(L))
<1> DEFINE M == GiveWay(L, r, p, way).fields
<1>1. /\ L \in Layouts /\ Tree(L) /\ IsGrid(L, p) /\ Around(L, p, T)
  BY DEF PlanStart, Good, Sound
<1>2. GaveWay(L, M, p, T)
  BY MayPush, GiveWayIs
<1> HIDE DEF M
<1>3. Sound(M, {}, {}) /\ Keeps(L, M, {p}, T) /\ SameHeights(L, M) /\ Follows(L, M, {p})
  BY <1>2 DEF GaveWay, Keeps
<1>4. /\ M \in Layouts /\ SameTree(L, M) /\ Ids(M) = Ids(L)
      /\ \A x \in Ids(L) : Parent(M, x) = Parent(L, x) /\ Find(M, x).type = Find(L, x).type
  BY <1>3 DEF Sound, Follows, SameTree
<1>5. Around(M, p, T)
  <2>1. Path(M, T)
    BY <1>1, <1>4, PathSame DEF Around
  <2> QED BY <1>1, <1>4, <2>1 DEF Around
<1>6. p \in Ids(L) \union {Root} /\ IsIn(L, M)
  BY <1>1, <1>4, GridFacts DEF IsIn
<1>7. \A c \in Ids(L) : Find(M, c).rowSpan >= Find(L, c).rowSpan
  <2>1. \A c \in Ids(L) : Find(L, c) \in Fields
    BY <1>1, FindIsField
  <2>2. \A c \in Ids(L) : Find(L, c).rowSpan \in Nat
    BY <2>1 DEF Fields
  <2> QED BY <1>3, <2>2 DEF SameHeights
<1>8. Rises(L, M, p, T, Ids(L))
  BY <1>1, <1>3, <1>5, <1>6, <1>7 DEF Rises
<1>9. \A x \in Ids(L) : Parent(L, x) # p /\ Contained(L, x) => Contained(M, x)
  BY <1>1, <1>3, <1>4, FollowsHold
<1>10. Holds(L, EncloseChildren(M, p, low), Ids(L))
  BY <1>8, <1>9, EncloseHolds
<1> QED BY <1>10 DEF MadeRoom, M

(* What a dropped component or field brings along. *)
IsItem(f) ==
    /\ f.type \in PlainTypes /\ f.rowSpan \in Nat \ {0} /\ f.colSpan \in Nat \ {0}

(* A grid with room for a rectangle. *)
RoomMade(L, N, r, p, T) ==
    /\ Good(N) /\ Keeps(L, N, T, T) /\ Holds(L, N, Ids(L)) /\ CanPlace(N, "incoming", r, p)

(* A plan that is valid. *)
IsPlan(plan) == plan = [valid |-> TRUE, fields |-> plan.fields, target |-> plan.target]

(* What a valid plan in the grid p of L promises. *)
PlanMade(L, sized, plan, p, T) ==
    /\ IsPlan(plan)
    /\ plan.target.row \in Int /\ plan.target.column \in Int /\ plan.target.parent = p
    /\ RoomMade(L, plan.fields, Rect(sized, plan.target), p, T)
    /\ sized.type = RichText => plan.target.column = ScopeColumn(L, p)

(* The field beside which something is dropped, in its grid. *)
BesideGrid(L, sized, beside, p, T) ==
    /\ Good(L) /\ IsGrid(L, p) /\ Around(L, p, T)
    /\ beside \in Fields /\ beside.parent = p /\ IsItem(sized)

LEMMA RectIs ==
  ASSUME NEW sized, IsItem(sized), NEW t, t.row \in Int, t.column \in Int
  PROVE  IsRect(Rect(sized, t)) /\ Rect(sized, t).id = "incoming"
BY DEF IsItem, Rect, IsRect

LEMMA RoomOf ==
  ASSUME NEW L, NEW r, NEW p, NEW T, NEW way, PlanStart(L, r, p, T, way),
         ~GiveWay(L, r, p, way).tooComplex, NEW low \in Int,
         \/ CanPlace(MadeRoom(L, r, p, way, low), "incoming", r, p)
         \/ CanPlace(GiveWay(L, r, p, way).fields, "incoming", r, p)
  PROVE  RoomMade(L, MadeRoom(L, r, p, way, low), r, p, T)
<1> DEFINE M == GiveWay(L, r, p, way).fields
           N == MadeRoom(L, r, p, way, low)
<1>1. /\ Good(N) /\ Keeps(L, N, T, T) /\ Holds(L, N, Ids(L))
      /\ GridLike(M, N, p, "incoming", "incoming")
  BY RoomGood, RoomHold
<1>2. IsRect(r) /\ SamePlace(r, r)
  BY DEF PlanStart, SamePlace
<1> HIDE DEF M, N
<1>3. CASE CanPlace(M, "incoming", r, p)
  <2>1. CanPlace(N, "incoming", r, p)
    BY <1>1, <1>2, <1>3, PlaceLike
  <2> QED BY <1>1, <2>1 DEF RoomMade, N
<1>4. CASE CanPlace(N, "incoming", r, p)
  BY <1>1, <1>4 DEF RoomMade, N
<1> QED BY <1>3, <1>4 DEF M, N

LEMMA PlanRowIs ==
  ASSUME NEW L, NEW sized, NEW beside, NEW p, NEW T, BesideGrid(L, sized, beside, p, T), NEW direction,
         PlanRow(L, sized, beside, direction).valid
  PROVE  PlanMade(L, sized, PlanRow(L, sized, beside, direction), p, T)
<1> DEFINE target == [row |-> IF direction = "after-row" THEN Bottom(beside) ELSE beside.row,
                      column |-> IF sized.type \in {Subform, RichText}
                                 THEN ScopeColumn(L, p)
                                 ELSE Smaller(beside.column, COLUMN_COUNT - sized.colSpan),
                      parent |-> p]
           r == Rect(sized, target)
           low == target.row + sized.rowSpan
           pushed == GiveWay(L, r, p, Downwards)
           room == EncloseChildren(pushed.fields, p, low)
           plan == PlanRow(L, sized, beside, direction)
<1>1. /\ Good(L) /\ L \in Layouts /\ IsGrid(L, p) /\ Around(L, p, T)
      /\ beside \in Fields /\ beside.parent = p /\ IsItem(sized)
  BY DEF BesideGrid, Good, Sound
<1>2. plan = IF pushed.tooComplex \/ ~CanPlace(room, "incoming", r, p)
             THEN Refused(L, target)
             ELSE [valid |-> TRUE, fields |-> room, target |-> target]
  BY <1>1 DEF PlanRow
<1> DEFINE tr == IF direction = "after-row" THEN Bottom(beside) ELSE beside.row
           tc == IF sized.type \in {Subform, RichText}
                 THEN ScopeColumn(L, p)
                 ELSE Smaller(beside.column, COLUMN_COUNT - sized.colSpan)
<1>3. tr \in Int /\ tc \in Int
  <2>1. /\ beside.row \in Int /\ beside.rowSpan \in Nat /\ beside.column \in Int
        /\ sized.colSpan \in Nat /\ sized.rowSpan \in Nat /\ COLUMN_COUNT \in Nat
    BY <1>1, DesignerAssumption DEF Fields, IsItem
  <2>2. ScopeColumn(L, p) \in Int
    BY <1>1, GridFacts
  <2> QED BY <2>1, <2>2 DEF Bottom, Smaller
<1>4. target.row = tr /\ target.column = tc /\ target.parent = p
  OBVIOUS
<1> HIDE DEF tr, tc
<1>5. target.row \in Int /\ target.column \in Int
  BY <1>3, <1>4
<1>6. low \in Int
  BY <1>1, <1>5 DEF IsItem
<1>7. sized.type = RichText => target.column = ScopeColumn(L, p)
  BY <1>4 DEF tc
<1> HIDE DEF target
<1>8. IsRect(r) /\ r.id = "incoming"
  BY <1>1, <1>5, RectIs
<1>9. PlanStart(L, r, p, T, Downwards)
  <2>1. Downwards.down
    BY DEF Downwards
  <2> QED BY <1>1, <1>8, <2>1 DEF PlanStart, GivesWay
<1> HIDE DEF plan, pushed, room, r, low
<1>10. /\ ~pushed.tooComplex /\ CanPlace(room, "incoming", r, p)
       /\ plan = [valid |-> TRUE, fields |-> room, target |-> target]
  <2>1. plan.valid
    BY DEF plan
  <2>2. ~Refused(L, target).valid
    BY DEF Refused
  <2> QED BY <1>2, <2>1, <2>2
<1>11. room = MadeRoom(L, r, p, Downwards, low)
  BY DEF room, pushed, MadeRoom
<1>12. RoomMade(L, room, r, p, T)
  BY <1>6, <1>9, <1>10, <1>11, RoomOf DEF pushed
<1>13. plan.fields = room /\ plan.target = target
  BY <1>10
<1>15. IsPlan(plan)
  BY <1>10, <1>13 DEF IsPlan
<1>14. PlanMade(L, sized, plan, p, T)
  BY <1>4, <1>5, <1>7, <1>12, <1>13, <1>15 DEF PlanMade, r
<1> QED BY <1>14 DEF plan

LEMMA PlanColumnIs ==
  ASSUME NEW L, NEW sized, NEW beside, NEW p, NEW T, BesideGrid(L, sized, beside, p, T), NEW direction,
         PlanColumn(L, sized, beside, direction).valid, sized.type # RichText,
         beside.column >= ScopeColumn(L, p)
  PROVE  PlanMade(L, sized, PlanColumn(L, sized, beside, direction), p, T)
<1> DEFINE table == TypeOf(L, p) = Subform
           first == IF HasField(L, p) THEN Find(L, p).column ELSE 0
           siblings == Siblings(L, p)
           end == CASE table -> Max({first + 1} \union
                                    {Right(f) : f \in siblings})
                                + sized.colSpan + Cardinality(siblings)
                    [] ~table /\ HasField(L, p) -> Right(Find(L, p))
                    [] OTHER -> COLUMN_COUNT
           column == IF direction = "after-column" THEN Right(beside) ELSE beside.column
           target == IF column + sized.colSpan > end /\ ~table
                     THEN [row |-> beside.row + 1, column |-> first, parent |-> p]
                     ELSE [row |-> beside.row, column |-> column, parent |-> p]
           r == Rect(sized, target)
           low == target.row + sized.rowSpan
           way == Sideways(first, end, table)
           pushed == GiveWay(L, r, p, way)
           room == EncloseChildren(pushed.fields, p, low)
           plan == PlanColumn(L, sized, beside, direction)
<1>1. /\ Good(L) /\ L \in Layouts /\ IsGrid(L, p) /\ Around(L, p, T)
      /\ beside \in Fields /\ beside.parent = p /\ IsItem(sized)
  BY DEF BesideGrid, Good, Sound
<1>2. plan = IF \/ pushed.tooComplex
                \/ ~CanPlace(pushed.fields, "incoming", r, p)
             THEN Refused(L, target)
             ELSE [valid |-> TRUE, target |-> target, fields |-> room]
  BY <1>1 DEF PlanColumn
<1> HIDE DEF plan, pushed, room
<1>3. /\ ~table /\ first = ScopeColumn(L, p) /\ first \in Int
      /\ end = ScopeColumn(L, p) + ScopeColumns(L, p)
  <2>1. ~table
    BY <1>1, GridFacts
  <2>2. CASE p = Root
    <3>1. ~HasField(L, p) /\ ScopeColumn(L, p) = 0 /\ ScopeColumns(L, p) = COLUMN_COUNT
      BY <1>1, <2>2, GridFacts
    <3>2. first = 0 /\ end = COLUMN_COUNT
      BY <2>1, <3>1
    <3> QED BY <2>1, <3>1, <3>2, DesignerAssumption
  <2>3. CASE p \in Ids(L)
    <3>1. /\ HasField(L, p) /\ Find(L, p) \in Fields
          /\ ScopeColumn(L, p) = Find(L, p).column /\ ScopeColumns(L, p) = Find(L, p).colSpan
          /\ ScopeColumn(L, p) \in Int
      BY <1>1, <2>3, GridFacts
    <3>2. first = Find(L, p).column /\ end = Right(Find(L, p))
      BY <2>1, <3>1
    <3> QED BY <2>1, <3>1, <3>2 DEF Right
  <2> QED BY <1>1, <2>2, <2>3, GridFacts
<1> HIDE DEF table, first, end, siblings
<1>4. /\ column \in Int /\ column >= first
  <2>1. beside.column \in Int /\ beside.colSpan \in Nat
    BY <1>1 DEF Fields
  <2> QED BY <1>3, <2>1 DEF Right
<1> HIDE DEF column
<1>5. /\ target.row \in Int /\ target.column \in Int /\ target.parent = p /\ target.column >= first
  <2>1. beside.row \in Int
    BY <1>1 DEF Fields
  <2>2. CASE column + sized.colSpan > end /\ ~table
    <3>1. target = [row |-> beside.row + 1, column |-> first, parent |-> p]
      BY <2>2
    <3> HIDE DEF target
    <3> QED BY <1>3, <2>1, <3>1
  <2>3. CASE ~(column + sized.colSpan > end /\ ~table)
    <3>1. target = [row |-> beside.row, column |-> column, parent |-> p]
      BY <2>3
    <3> HIDE DEF target
    <3> QED BY <1>4, <2>1, <3>1
  <2> QED BY <2>2, <2>3
<1> HIDE DEF target
<1>6. low \in Int
  BY <1>1, <1>5 DEF IsItem
<1>8. IsRect(r) /\ r.id = "incoming" /\ r.column = target.column
  BY <1>1, <1>5, RectIs DEF Rect
<1> HIDE DEF r, low
<1>9. PlanStart(L, r, p, T, way)
  <2>1. table = FALSE
    BY <1>3 DEF table
  <2>2. way = Sideways(ScopeColumn(L, p), ScopeColumn(L, p) + ScopeColumns(L, p), FALSE)
    BY <1>3, <2>1
  <2>3. way.first = first
    BY DEF Sideways
  <2> HIDE DEF way
  <2> QED BY <1>1, <1>5, <1>8, <2>2, <2>3 DEF PlanStart, GivesWay
<1> HIDE DEF way
<1>10. /\ ~pushed.tooComplex /\ CanPlace(pushed.fields, "incoming", r, p)
       /\ plan = [valid |-> TRUE, target |-> target, fields |-> room]
  <2>1. plan.valid
    BY DEF plan
  <2>2. ~Refused(L, target).valid
    BY DEF Refused
  <2> QED BY <1>2, <2>1, <2>2 DEF r
<1>11. room = MadeRoom(L, r, p, way, low)
  BY DEF room, pushed, MadeRoom, r, low, way
<1>12. pushed = GiveWay(L, r, p, way)
  BY DEF pushed, r, way
<1>13. RoomMade(L, room, r, p, T)
  BY <1>6, <1>9, <1>10, <1>11, <1>12, RoomOf
<1>14. plan.fields = room /\ plan.target = target
  BY <1>10
<1>16. IsPlan(plan)
  BY <1>10, <1>14 DEF IsPlan
<1>15. PlanMade(L, sized, plan, p, T)
  BY <1>5, <1>13, <1>14, <1>16 DEF PlanMade, r
<1> QED BY <1>15 DEF plan

(* A parent that is not in the layout: the subtree with it is what is dragged. *)
NoGrid(L, p) == L \in Layouts /\ Tree(L) /\ p # Root /\ p \notin Ids(L)

LEMMA NobodyThere ==
  ASSUME NEW L, NEW p, NoGrid(L, p), NEW r
  PROVE  Blockers(L, r, p) = {}
<1>1. L \in Layouts /\ Tree(L) /\ p # Root /\ p \notin Ids(L)
  BY DEF NoGrid
<1>2. ASSUME NEW i \in DOMAIN L PROVE L[i].parent # p
  <2>1. L[i].id \in Ids(L) /\ Find(L, L[i].id) = L[i]
    BY <1>1, LayoutFacts
  <2> QED BY <1>1, <2>1 DEF Tree, Parent
<1> QED BY <1>2 DEF Blockers

(* A push that finds nobody there. *)
IdleStates(L, r) == [fields : {L}, pushes : Nat, queue : Queues({r})]

LEMMA NothingPushed ==
  ASSUME NEW L, NEW p, NoGrid(L, p), NEW r, IsRect(r), NEW way
  PROVE  GiveWay(L, r, p, way).fields = L
<1> DEFINE limit == Len(L) * Len(L) + 10
           X == IdleStates(L, r)
           e == [fresh |-> TRUE, rect |-> r]
<1>1. L \in Layouts /\ Len(L) \in Nat
  BY LayoutFacts DEF NoGrid
<1>2. [fields |-> L, pushes |-> 0, queue |-> << e >>] \in X
  <2>1. << e >> \in Queues({r})
    BY DEF Queues
  <2> QED BY <2>1 DEF IdleStates
<1>3. ASSUME NEW s \in X PROVE PushNext(s, p, way, limit) \in X
  <2>1. s.fields = L /\ s.queue \in Queues({r}) /\ s.pushes \in Nat
    BY DEF IdleStates
  <2>2. CASE Finished(s, limit)
    BY <2>2 DEF PushNext
  <2>3. CASE ~Finished(s, limit)
    <3>1. s.queue # << >>
      BY <2>3 DEF Finished
    <3>2. Tail(s.queue) \in Queues({r})
      BY <2>1, <3>1, QueueFacts
    <3>3. Blockers(s.fields, Head(s.queue).rect, p) = {}
      BY <2>1, NobodyThere
    <3>4. PushOnce(s, p, way) = [s EXCEPT !.queue = Tail(@)]
      BY <3>3 DEF PushOnce
    <3>5. [s EXCEPT !.queue = Tail(@)] \in X
      BY <2>1, <3>2 DEF IdleStates
    <3> QED BY <2>3, <3>4, <3>5 DEF PushNext
  <2> QED BY <2>2, <2>3
<1> HIDE DEF X
<1>4. PushClosed(X, L, r, p, way, limit)
  BY <1>2, <1>3 DEF PushClosed
<1>5. \A n \in Nat : Push(L, r, p, way, limit)[n] \in X
  BY <1>4, PushInvariant
<1> HIDE DEF limit
<1>6. limit \in Nat
  BY <1>1 DEF limit
<1>7. MaxSteps(L, r, limit) \in Nat
  BY <1>1, <1>6, MaxStepsIs
<1>8. Push(L, r, p, way, limit)[MaxSteps(L, r, limit)].fields = L
  BY <1>5, <1>7 DEF X, IdleStates
<1> QED BY <1>8 DEF GiveWay, limit

LEMMA NoRoom ==
  ASSUME NEW L, NEW p, NoGrid(L, p), NEW r, IsRect(r), NEW way, NEW low
  PROVE  /\ ~CanPlace(MadeRoom(L, r, p, way, low), "incoming", r, p)
         /\ ~CanPlace(GiveWay(L, r, p, way).fields, "incoming", r, p)
<1>1. L \in Layouts /\ p # Root /\ p \notin Ids(L)
  BY DEF NoGrid
<1>2. ~HasField(L, p) /\ TypeOf(L, p) = "canvas"
  BY <1>1, LayoutFacts
<1>3. ~CanPlace(L, "incoming", r, p)
  BY <1>1, <1>2 DEF CanPlace, InsideParent
<1>4. GiveWay(L, r, p, way).fields = L
  BY NothingPushed
<1>5. \A n : ~Grows(L, p, n)
  BY <1>2 DEF Grows, Group
<1>6. MadeRoom(L, r, p, way, low) = L
  BY <1>4, <1>5 DEF MadeRoom, EncloseChildren, ExpandToFit
<1> QED BY <1>3, <1>4, <1>6

LEMMA NoPlan ==
  ASSUME NEW L, NEW sized, NEW beside, NEW p, NoGrid(L, p), beside \in Fields, beside.parent = p,
         IsItem(sized), NEW direction
  PROVE  /\ ~PlanRow(L, sized, beside, direction).valid
         /\ ~PlanColumn(L, sized, beside, direction).valid
<1>1. L \in Layouts /\ p # Root /\ p \notin Ids(L)
  BY DEF NoGrid
<1>2. ~HasField(L, p) /\ TypeOf(L, p) = "canvas"
  BY <1>1, LayoutFacts
<1>3. /\ beside.row \in Int /\ beside.rowSpan \in Nat /\ beside.column \in Int
      /\ beside.colSpan \in Nat
      /\ sized.colSpan \in Nat /\ sized.rowSpan \in Nat /\ COLUMN_COUNT \in Nat
  BY DesignerAssumption DEF Fields, IsItem
<1>4. ~PlanRow(L, sized, beside, direction).valid
  <2> DEFINE target == [row |-> IF direction = "after-row" THEN Bottom(beside) ELSE beside.row,
                        column |-> IF sized.type \in {Subform, RichText}
                                   THEN ScopeColumn(L, p)
                                   ELSE Smaller(beside.column, COLUMN_COUNT - sized.colSpan),
                        parent |-> p]
             r == Rect(sized, target)
             low == target.row + sized.rowSpan
             pushed == GiveWay(L, r, p, Downwards)
             room == EncloseChildren(pushed.fields, p, low)
             plan == PlanRow(L, sized, beside, direction)
  <2>1. plan = IF pushed.tooComplex \/ ~CanPlace(room, "incoming", r, p)
               THEN Refused(L, target)
               ELSE [valid |-> TRUE, fields |-> room, target |-> target]
    BY DEF PlanRow
  <2>2. target.row \in Int /\ target.column \in Int
    BY <1>2, <1>3 DEF Bottom, Smaller, ScopeColumn, Group
  <2> HIDE DEF target
  <2>3. IsRect(r)
    BY <2>2, RectIs
  <2> HIDE DEF r
  <2>4. ~CanPlace(room, "incoming", r, p)
    BY <2>3, NoRoom DEF MadeRoom
  <2> HIDE DEF pushed, room, plan
  <2>5. plan = Refused(L, target)
    BY <2>1, <2>4
  <2>6. ~plan.valid
    BY <2>5 DEF Refused
  <2> QED BY <2>6 DEF plan
<1>5. ~PlanColumn(L, sized, beside, direction).valid
  <2> DEFINE table == TypeOf(L, p) = Subform
             first == IF HasField(L, p) THEN Find(L, p).column ELSE 0
             siblings == Siblings(L, p)
             end == CASE table -> Max({first + 1} \union
                                      {Right(f) : f \in siblings})
                                  + sized.colSpan + Cardinality(siblings)
                      [] ~table /\ HasField(L, p) -> Right(Find(L, p))
                      [] OTHER -> COLUMN_COUNT
             column == IF direction = "after-column" THEN Right(beside) ELSE beside.column
             target == IF column + sized.colSpan > end /\ ~table
                       THEN [row |-> beside.row + 1, column |-> first, parent |-> p]
                       ELSE [row |-> beside.row, column |-> column, parent |-> p]
             r == Rect(sized, target)
             low == target.row + sized.rowSpan
             way == Sideways(first, end, table)
             pushed == GiveWay(L, r, p, way)
             room == EncloseChildren(pushed.fields, p, low)
             plan == PlanColumn(L, sized, beside, direction)
  <2>1. plan = IF \/ pushed.tooComplex
                  \/ ~CanPlace(pushed.fields, "incoming", r, p)
               THEN Refused(L, target)
               ELSE [valid |-> TRUE, target |-> target, fields |-> room]
    BY DEF PlanColumn
  <2> HIDE DEF plan, pushed, room
  <2>2. first = 0 /\ column \in Int
    BY <1>2, <1>3 DEF Right
  <2> HIDE DEF first, column, end, table
  <2>3. target.row \in Int /\ target.column \in Int
    <3>1. CASE column + sized.colSpan > end /\ ~table
      <4>1. target = [row |-> beside.row + 1, column |-> first, parent |-> p]
        BY <3>1
      <4> HIDE DEF target
      <4> QED BY <1>3, <2>2, <4>1
    <3>2. CASE ~(column + sized.colSpan > end /\ ~table)
      <4>1. target = [row |-> beside.row, column |-> column, parent |-> p]
        BY <3>2
      <4> HIDE DEF target
      <4> QED BY <1>3, <2>2, <4>1
    <3> QED BY <3>1, <3>2
  <2> HIDE DEF target
  <2>4. IsRect(r)
    BY <2>3, RectIs
  <2> HIDE DEF r, way
  <2>5. ~CanPlace(pushed.fields, "incoming", r, p)
    BY <2>4, NoRoom DEF pushed, r, way
  <2>6. plan = Refused(L, target)
    BY <2>1, <2>5 DEF r
  <2>7. ~plan.valid
    BY <2>6 DEF Refused
  <2> QED BY <2>7 DEF plan
<1> QED BY <1>4, <1>5

-----------------------------------------------------------------------------
(* PlanInsertion: the subtree that is dragged is set aside. *)
(* The subtree that is dragged. *)
DraggedBy(L, x) == IF x \in Ids(L) THEN Moved(L, {x}) ELSE {}

LEMMA DraggedIs ==
  ASSUME NEW L \in Layouts, Tree(L), NEW x
  PROVE  /\ DraggedBy(L, x) = IF HasField(L, x) THEN {x} \union Descendants(L, x) ELSE {}
         /\ DraggedBy(L, x) \in SUBSET Ids(L)
         /\ \A y \in Ids(L) : Parent(L, y) \in DraggedBy(L, x) => y \in DraggedBy(L, x)
         /\ \A y \in DraggedBy(L, x) : y = x \/ Parent(L, y) \in DraggedBy(L, x)
<1>1. CASE x \notin Ids(L)
  BY <1>1, LayoutFacts DEF DraggedBy
<1>2. CASE x \in Ids(L)
  <2>1. HasField(L, x) /\ TypeOf(L, x) = Find(L, x).type /\ DraggedBy(L, x) = Moved(L, {x})
    BY <1>2, LayoutFacts DEF DraggedBy
  <2>2. /\ Moved(L, {x}) \in SUBSET Ids(L)
        /\ \A y \in Ids(L) : Parent(L, y) \in Moved(L, {x}) => y \in Moved(L, {x})
        /\ \A y \in Moved(L, {x}) : y = x \/ Parent(L, y) \in Moved(L, {x})
    BY <1>2, MovedTree
  <2>3. Moved(L, {x}) = {x} \union Descendants(L, x)
    <3>1. CASE Find(L, x).type = Group
      BY <2>1, <3>1 DEF Moved, Descendants, IsContainer
    <3>2. CASE Find(L, x).type # Group
      <4>1. Moved(L, {x}) = {x}
        BY <1>2, <3>2, PlainAlone
      <4>2. Find(L, x).type # Subform
        BY <1>2, FindIsField DEF Fields, PlainTypes, Subform, Text, Area, Group, RichText
      <4>3. Descendants(L, x) = {}
        BY <2>1, <3>2, <4>2 DEF Descendants, IsContainer
      <4> QED BY <4>1, <4>3
    <3> QED BY <3>1, <3>2
  <2> QED BY <2>1, <2>2, <2>3
<1> QED BY <1>1, <1>2

Items == [id : FieldIds, type : PlainTypes, rowSpan : Nat \ {0}, colSpan : Nat \ {0}]
IsIncoming(f) == f \in Fields \/ f \in Items

(* The dragged thing in the size of its new scope. *)
IsSized(L, f, s, p) ==
    /\ IsItem(s) /\ s.type = f.type /\ s.rowSpan = f.rowSpan
    /\ f.type = RichText => s.colSpan = ScopeColumns(L, p)
    /\ f.type # RichText => s.colSpan = f.colSpan

LEMMA SizedIs ==
  ASSUME NEW L \in Layouts, NEW p, IsGrid(L, p), NEW f, IsIncoming(f)
  PROVE  IsSized(L, f, SizeIn(L, f, p), p)
<1>1. /\ TypeOf(L, p) # Subform /\ ScopeColumns(L, p) \in Nat \ {0}
  BY GridFacts
<1>2. /\ f.type \in PlainTypes /\ f.rowSpan \in Nat \ {0} /\ f.colSpan \in Nat \ {0}
  BY DEF IsIncoming, Fields, Items
<1>3. f.type # Subform
  BY <1>2 DEF PlainTypes, Text, Area, Group, RichText, Subform
<1> DEFINE wide == [f EXCEPT !.colSpan = ScopeColumns(L, p)]
<1>4. SizeIn(L, f, p) = IF f.type = RichText THEN wide ELSE f
  BY <1>1, <1>3 DEF SizeIn
<1>5. wide.type = f.type /\ wide.rowSpan = f.rowSpan /\ wide.colSpan = ScopeColumns(L, p)
  BY DEF IsIncoming, Fields, Items
<1> HIDE DEF wide
<1> QED BY <1>1, <1>2, <1>4, <1>5 DEF IsSized, IsItem

Beside(L, f, beside) ==
    /\ Good(L) /\ beside.id \in Ids(L) /\ beside = Find(L, beside.id) /\ IsIncoming(f)

(* The plan of planFieldInsertion, among the fields that are not dragged. *)
PlanIn(L, f, beside, direction) ==
    IF IsRow(direction)
    THEN PlanRow(Without(L, DraggedBy(L, f.id)), SizeIn(L, f, beside.parent), beside, direction)
    ELSE PlanColumn(Without(L, DraggedBy(L, f.id)), SizeIn(L, f, beside.parent), beside, direction)

(* A field can be inserted: the others made room for it. *)
Inserted(L, f, p, made, plan, T) ==
    LET U == DraggedBy(L, f.id)
        O == Without(L, U)
    IN  /\ Good(O) /\ IsPart(L, O, Ids(L) \ U) /\ IsGrid(O, p) /\ Around(O, p, T)
        /\ PlanMade(O, SizeIn(L, f, p), made, p, T)
        /\ IsJoin(made.fields, Only(L, U), plan.fields) /\ plan.target = made.target

LEMMA OthersGood ==
  ASSUME NEW L, Good(L), NEW x
  PROVE  LET O == Without(L, DraggedBy(L, x))
         IN  Good(O) /\ IsPart(L, O, Ids(L) \ DraggedBy(L, x))
<1> DEFINE U == DraggedBy(L, x)
           O == Without(L, U)
<1>1. L \in Layouts /\ Tree(L) /\ Sound(L, {}, {}) /\ Filled(L)
  BY DEF Good, Sound
<1>2. /\ U \in SUBSET Ids(L)
      /\ \A y \in Ids(L) : Parent(L, y) \in U => y \in U
  BY <1>1, DraggedIs
<1> HIDE DEF U
<1>3. IsPart(L, O, Ids(L) \ U)
  BY <1>1, OnlyIs DEF Without
<1> HIDE DEF O
<1>4. Ids(O) = Ids(L) \ U
  BY <1>3 DEF IsPart
<1>5. \A y \in Ids(O) : Parent(L, y) = Root \/ Parent(L, y) \in Ids(L) \ U
  BY <1>1, <1>2, <1>4 DEF Tree
<1>6. Sound(O, {}, {}) /\ \A y \in Ids(O) : Fills(L, y) => Fills(O, y)
  BY <1>1, <1>3, <1>5, PartSound
<1>7. Filled(O)
  BY <1>1, <1>4, <1>6 DEF Filled
<1> QED BY <1>3, <1>6, <1>7 DEF Good, O, U

LEMMA InsertionIs ==
  ASSUME NEW L, NEW f, NEW beside, Beside(L, f, beside), NEW direction,
         PlanInsertion(L, f, beside, direction).valid
  PROVE  \E T : Inserted(L, f, beside.parent, PlanIn(L, f, beside, direction),
                         PlanInsertion(L, f, beside, direction), T)
<1> DEFINE U == DraggedBy(L, f.id)
           O == Without(L, U)
           p == beside.parent
           sized == SizeIn(L, f, p)
           made == PlanIn(L, f, beside, direction)
           plan == PlanInsertion(L, f, beside, direction)
<1>1. /\ L \in Layouts /\ Tree(L) /\ Sound(L, {}, {}) /\ beside.id \in Ids(L)
      /\ beside = Find(L, beside.id) /\ IsIncoming(f) /\ beside \in Fields /\ p = Parent(L, beside.id)
  BY FindIsField DEF Beside, Good, Sound, Parent
<1>2. Good(O) /\ IsPart(L, O, Ids(L) \ U)
  BY OthersGood DEF Beside
<1>3. /\ U = IF HasField(L, f.id) THEN {f.id} \union Descendants(L, f.id) ELSE {}
      /\ U \in SUBSET Ids(L)
  BY <1>1, DraggedIs
<1>4. made = IF IsRow(direction) THEN PlanRow(O, sized, beside, direction)
             ELSE PlanColumn(O, sized, beside, direction)
  BY DEF PlanIn
<1> HIDE DEF U, sized, made
<1>5. plan = IF ~MayInsert(L, f, U, beside, direction) \/ ~made.valid
             THEN Refused(L, beside)
             ELSE [made EXCEPT !.fields = @ \o Only(L, U)]
  BY <1>3, <1>4 DEF PlanInsertion, sized
<1> HIDE DEF O, plan
<1>6. /\ MayInsert(L, f, U, beside, direction) /\ made.valid
      /\ plan = [made EXCEPT !.fields = @ \o Only(L, U)]
  <2>1. plan.valid /\ ~Refused(L, beside).valid
    BY DEF plan, Refused
  <2> QED BY <1>5, <2>1
<1>7. IsGrid(L, p)
  BY <1>1 DEF Tree, IsGrid
<1>8. IsSized(L, f, sized, p)
  BY <1>1, <1>7, SizedIs DEF sized
<1>9. IsItem(sized) /\ sized.type = f.type
  BY <1>8 DEF IsSized
<1>10. O \in Layouts /\ Tree(O) /\ Ids(O) = Ids(L) \ U /\ \A y \in Ids(O) : Find(O, y) = Find(L, y)
  BY <1>2 DEF Good, Sound, IsPart
<1> HIDE DEF p
<1>p. beside.parent = p
  BY DEF p
<1>11. IsGrid(O, p)
  <2>1. ~NoGrid(O, p)
    BY <1>1, <1>4, <1>6, <1>9, <1>p, NoPlan
  <2> QED BY <1>7, <1>10, <2>1 DEF NoGrid, IsGrid
<1>12. PICK T : Around(O, p, T)
  <2>1. p \in Ids(O) \union {Root}
    BY <1>10, <1>11, GridFacts
  <2> QED BY <1>10, <2>1, PathExists
<1>13. BesideGrid(O, sized, beside, p, T)
  BY <1>1, <1>2, <1>9, <1>11, <1>12, <1>p DEF BesideGrid
<1>14. PlanMade(O, sized, made, p, T)
  <2>1. CASE IsRow(direction)
    <3>1. made = PlanRow(O, sized, beside, direction)
      BY <1>4, <2>1
    <3> QED BY <1>6, <1>13, <3>1, PlanRowIs
  <2>2. CASE ~IsRow(direction)
    <3>1. made = PlanColumn(O, sized, beside, direction)
      BY <1>4, <2>2
    <3>2. f.type # RichText /\ beside.type # RichText
      BY <1>6, <2>2 DEF MayInsert
    <3>3. beside.column >= ScopeColumn(L, p)
      BY <1>1, <1>p, <3>2 DEF Sound, Scoped
    <3>4. ScopeColumn(O, p) = ScopeColumn(L, p)
      BY <1>1, <1>7, <1>10, <1>11, GridFacts
    <3> QED BY <1>6, <1>9, <1>13, <3>1, <3>2, <3>3, <3>4, PlanColumnIs
  <2> QED BY <2>1, <2>2
<1>15. plan.fields = made.fields \o Only(L, U) /\ plan.target = made.target
  <2>1. IsPlan(made)
    BY <1>14 DEF PlanMade
  <2>2. DOMAIN made = {"valid", "fields", "target"}
    BY <2>1 DEF IsPlan
  <2> QED BY <1>6, <2>1, <2>2 DEF IsPlan
<1>16. IsJoin(made.fields, Only(L, U), plan.fields)
  <2>1. Only(L, U) \in Layouts /\ Ids(Only(L, U)) = Ids(L) \cap U
    BY <1>1, OnlyIs DEF IsPart
  <2>2. made.fields \in Layouts /\ Ids(made.fields) = Ids(O)
    BY <1>14 DEF PlanMade, RoomMade, Keeps, Follows, SameTree
  <2>3. Ids(made.fields) \cap Ids(Only(L, U)) = {}
    BY <1>10, <2>1, <2>2
  <2> QED BY <1>15, <2>1, <2>2, <2>3, JoinIs
<1>17. Inserted(L, f, p, made, plan, T)
  BY <1>2, <1>11, <1>12, <1>14, <1>15, <1>16 DEF Inserted, O, U, sized
<1> QED BY <1>17 DEF p, made, plan

(* A field and its parent are the same in two layouts. *)
LEMMA ScopedAlike ==
  ASSUME NEW L \in Layouts, Tree(L), NEW N \in Layouts, Tree(N), NEW y \in Ids(L) \cap Ids(N),
         Find(N, y) = Find(L, y), NEW q, Parent(L, y) = q, q \in Ids(L) => Find(N, q) = Find(L, q)
  PROVE  (Scoped(L, y) => Scoped(N, y)) /\ (Fills(L, y) => Fills(N, y))
<1>1. Parent(N, y) = q
  BY DEF Parent
<1>2. /\ ScopeRow(N, q) = ScopeRow(L, q) /\ ScopeColumn(N, q) = ScopeColumn(L, q)
      /\ ScopeColumns(N, q) = ScopeColumns(L, q)
  <2>1. CASE q = Root
    <3>1. IsGrid(L, q) /\ IsGrid(N, q)
      BY <2>1 DEF IsGrid
    <3> QED BY <2>1, <3>1, GridFacts
  <2>2. CASE q # Root
    <3>1. IsGrid(L, q) /\ IsGrid(N, q) /\ q \in Ids(L) /\ q \in Ids(N)
      BY <1>1, <2>2 DEF Tree, IsGrid
    <3> QED BY <3>1, GridFacts
  <2> QED BY <2>1, <2>2
<1> QED BY <1>1, <1>2 DEF Scoped, Fills

(* The layout with the room in it and the dragged subtree where it was. *)
FullFacts(L, N, U, R, p, x) ==
    /\ N \in Layouts /\ SameTree(L, N) /\ Tree(N) /\ Sound(N, {x}, {})
    /\ \A y \in Ids(N) \ {x} : Fills(N, y)
    /\ p \notin U /\ IsGrid(N, p) /\ IsGrid(L, p)
    /\ \A y \in Ids(L) \ U : Find(N, y) = Find(R, y)
    /\ \A y \in U : Find(N, y) = Find(L, y)
    /\ ScopeColumns(N, p) = ScopeColumns(L, p)
    /\ ScopeColumn(N, p) = ScopeColumn(L, p)

LEMMA FullSound ==
  ASSUME NEW L, Good(L), NEW f, NEW p, NEW made, NEW plan, NEW T, Inserted(L, f, p, made, plan, T)
  PROVE  FullFacts(L, plan.fields, DraggedBy(L, f.id), made.fields, p, f.id)
<1> DEFINE U == DraggedBy(L, f.id)
           O == Without(L, U)
           x == f.id
           R == made.fields
           P == Only(L, U)
           N == plan.fields
<1>1. /\ L \in Layouts /\ Tree(L) /\ Sound(L, {}, {}) /\ Filled(L)
      /\ IsPart(L, O, Ids(L) \ U) /\ IsGrid(O, p) /\ Around(O, p, T)
      /\ Good(O) /\ Good(R) /\ Keeps(O, R, T, T) /\ IsJoin(R, P, N)
  BY DEF Good, Sound, Inserted, PlanMade, RoomMade
<1>2. /\ U \in SUBSET Ids(L)
      /\ \A y \in Ids(L) : Parent(L, y) \in U => y \in U
      /\ \A y \in U : y = x \/ Parent(L, y) \in U
  BY <1>1, DraggedIs
<1>3. IsPart(L, P, U)
  BY <1>1, OnlyIs
<1> HIDE DEF U, O, R, P, N, x
<1>4. /\ Ids(O) = Ids(L) \ U /\ \A y \in Ids(O) : Find(O, y) = Find(L, y)
      /\ Ids(P) = U /\ \A y \in U : Find(P, y) = Find(L, y)
  BY <1>1, <1>2, <1>3 DEF IsPart
<1>5. /\ R \in Layouts /\ Tree(R) /\ Ids(R) = Ids(L) \ U /\ Sound(R, {}, {}) /\ Filled(R)
      /\ \A y \in Ids(R) : /\ Parent(R, y) = Parent(O, y) /\ Find(R, y).type = Find(O, y).type
                           /\ Find(R, y).colSpan = Find(O, y).colSpan
  BY <1>1, <1>4 DEF Good, Sound, Keeps, Follows, SameTree, SameWidths
<1>6. /\ N \in Layouts /\ Ids(N) = Ids(L)
      /\ \A y \in Ids(L) \ U : Find(N, y) = Find(R, y)
      /\ \A y \in U : Find(N, y) = Find(L, y)
  BY <1>1, <1>2, <1>4, <1>5 DEF IsJoin
<1>7. SameTree(L, N)
  <2>1. ASSUME NEW y \in Ids(L) PROVE Parent(N, y) = Parent(L, y) /\ Find(N, y).type = Find(L, y).type
    <3>1. CASE y \in U
      BY <1>6, <3>1 DEF Parent
    <3>2. CASE y \notin U
      BY <1>4, <1>5, <1>6, <3>2 DEF Parent
    <3> QED BY <3>1, <3>2
  <2> QED BY <1>6, <2>1 DEF SameTree
<1>8. Tree(N) /\ \A y \in Ids(L) : Parent(N, y) = Parent(L, y)
  BY <1>1, <1>7, SameTreeTree DEF SameTree
<1>9. ASSUME NEW y \in Ids(N) \ {x} PROVE Scoped(N, y) /\ Fills(N, y)
  <2>0. y \in Ids(L) /\ Parent(N, y) = Parent(L, y)
    BY <1>1, <1>6, <1>8 DEF Tree
  <2>1. CASE y \in U
    <3>1. Scoped(L, y) /\ Fills(L, y)
      BY <1>1, <2>0 DEF Sound, Filled
    <3>2. Parent(L, y) \in U
      BY <1>2, <2>1
    <3>3. Find(N, y) = Find(L, y) /\ Find(N, Parent(L, y)) = Find(L, Parent(L, y))
      BY <1>6, <2>1, <3>2
    <3> QED BY <1>1, <1>6, <1>8, <2>0, <3>1, <3>3, ScopedAlike
  <2>2. CASE y \notin U
    <3>1. Scoped(R, y) /\ Fills(R, y) /\ y \in Ids(R) /\ Parent(R, y) = Parent(L, y)
      BY <1>4, <1>5, <2>0, <2>2 DEF Sound, Filled, Parent
    <3>2. Parent(L, y) \notin U
      BY <1>2, <2>0, <2>2
    <3>3. Find(N, y) = Find(R, y)
          /\ (Parent(L, y) \in Ids(R) => Find(N, Parent(L, y)) = Find(R, Parent(L, y)))
      BY <1>5, <1>6, <2>0, <2>2, <3>2
    <3> QED BY <1>5, <1>6, <1>8, <2>0, <3>1, <3>3, ScopedAlike
  <2> QED BY <2>1, <2>2
<1>10. ASSUME NEW y \in Ids(N) \ {x}, NEW z \in Ids(N) \ {x}, y # z, Parent(N, y) = Parent(N, z)
       PROVE  ~Clash(Find(N, y), Find(N, z))
  <2>1. y \in Ids(L) /\ z \in Ids(L) /\ Parent(L, y) = Parent(L, z) /\ (y \in U <=> z \in U)
    BY <1>2, <1>6, <1>8, <1>10
  <2>2. CASE y \in U
    <3>1. ~Clash(Find(L, y), Find(L, z))
      BY <1>1, <1>10, <2>1 DEF Sound
    <3> QED BY <1>6, <2>1, <2>2, <3>1
  <2>3. CASE y \notin U
    <3>1. y \in Ids(R) /\ z \in Ids(R) /\ Parent(R, y) = Parent(R, z)
      BY <1>4, <1>5, <2>1, <2>3 DEF Parent
    <3>2. ~Clash(Find(R, y), Find(R, z))
      BY <1>5, <1>10, <3>1 DEF Sound
    <3> QED BY <1>6, <2>1, <2>3, <3>2
  <2> QED BY <2>2, <2>3
<1>11. Sound(N, {x}, {})
  BY <1>6, <1>8, <1>9, <1>10 DEF Sound
<1>12. /\ p \notin U /\ IsGrid(L, p)
  <2>1. Root \notin Ids(L)
    BY <1>1, RootIsNoId
  <2> QED BY <1>1, <1>2, <1>4, <2>1 DEF IsGrid
<1>13. IsGrid(N, p)
  BY <1>6, <1>7, <1>12 DEF IsGrid, SameTree
<1>14. ScopeColumn(N, p) = ScopeColumn(L, p) /\ ScopeColumns(N, p) = ScopeColumns(L, p)
  <2>1. CASE p = Root
    BY <1>1, <1>6, <1>12, <1>13, <2>1, GridFacts
  <2>2. CASE p \in Ids(L)
    <3>1. p \in Ids(R) /\ Find(N, p) = Find(R, p) /\ Find(O, p) = Find(L, p) /\ p \in Ids(O)
      BY <1>4, <1>5, <1>6, <1>12, <2>2
    <3>2. Find(R, p).type = Group /\ Find(O, p).type = Group
      BY <1>5, <1>12, <1>1, <2>2, <3>1, GridFacts
    <3>3. p \in T /\ Stays(O, R, T)
      BY <1>1 DEF Keeps, Around
    <3>4. Find(R, p).column = Find(O, p).column
      BY <3>1, <3>2, <3>3 DEF Stays, Group, RichText
    <3>5. Find(R, p).colSpan = Find(O, p).colSpan
      BY <1>5, <3>1
    <3> QED BY <1>1, <1>6, <1>12, <1>13, <2>2, <3>1, <3>4, <3>5, GridFacts
  <2> QED BY <1>1, <1>12, <2>1, <2>2, GridFacts
<1>15. \A y \in Ids(N) \ {x} : Fills(N, y)
  BY <1>9
<1>16. FullFacts(L, N, U, R, p, x)
  BY <1>6, <1>7, <1>8, <1>11, <1>12, <1>13, <1>14, <1>15 DEF FullFacts
<1> QED BY <1>16 DEF N, U, R, x

-----------------------------------------------------------------------------
(* Drags and drops. *)
(* A drag onto a cell. *)
DraggedTo(L, plan, x) ==
    LET t == plan.target
        height == IF TypeOf(plan.fields, t.parent) = Subform THEN 1 ELSE Find(L, x).rowSpan
    IN  MoveField(ExpandToFit(plan.fields, t.parent, t.row + height),
                  x, t.row, t.column, t.parent)

LEMMA DraggedToIs ==
  ASSUME NEW L, NEW plan, NEW x, TypeOf(plan.fields, plan.target.parent) # Subform
  PROVE  DraggedTo(L, plan, x) =
            MoveField(ExpandToFit(plan.fields, plan.target.parent,
                                  plan.target.row + Find(L, x).rowSpan),
                      x, plan.target.row, plan.target.column, plan.target.parent)
BY DEF DraggedTo

(* What moveField leaves. *)
MovedOrNot(M, N, x, row, column, p) ==
    \/ ~MayMove(M, x, row, column, p) /\ N = M
    \/ /\ MayMove(M, x, row, column, p)
       /\ MayGo(M, x, Goes(M, x, row, column, p))
       /\ IsPlaced(M, N, x, Goes(M, x, row, column, p))

LEMMA MoveFieldDoes ==
  ASSUME NEW M, NEW x, NEW row, NEW column, NEW p, MoveStart(M, x, row, column, p)
  PROVE  MovedOrNot(M, MoveField(M, x, row, column, p), x, row, column, p)
<1>1. CASE MayMove(M, x, row, column, p)
  BY <1>1, MoveFieldIs, MayMoveMayGo DEF MovedOrNot
<1>2. CASE ~MayMove(M, x, row, column, p)
  <2>1. MoveField(M, x, row, column, p) = M
    BY <1>2, MoveFieldUnfold
  <2> QED BY <1>2, <2>1 DEF MovedOrNot
<1> QED BY <1>1, <1>2

LEMMA MovedGood ==
  ASSUME NEW M, NEW N, NEW x, NEW row, NEW column, NEW p, MovedOrNot(M, N, x, row, column, p),
         ~MayMove(M, x, row, column, p) => Good(M)
  PROVE  Good(N)
<1>1. CASE ~MayMove(M, x, row, column, p) /\ N = M
  BY <1>1
<1>2. CASE MayGo(M, x, Goes(M, x, row, column, p)) /\ IsPlaced(M, N, x, Goes(M, x, row, column, p))
  BY <1>2, PlacedGood
<1> QED BY <1>1, <1>2 DEF MovedOrNot

(* To a free cell. *)
ToCell(L, plan, x) ==
    /\ Good(L) /\ x \in Ids(L) /\ plan.fields = L
    /\ plan.target.row \in Int /\ plan.target.column \in Int /\ IsGrid(L, plan.target.parent)

LEMMA DragToCell ==
  ASSUME NEW L, NEW plan, NEW x, ToCell(L, plan, x), NEW T, Around(L, plan.target.parent, T)
  PROVE  \E M : /\ Expanded(L, M, plan.target.parent, T) /\ Good(M)
                /\ MovedOrNot(M, DraggedTo(L, plan, x), x, plan.target.row, plan.target.column,
                              plan.target.parent)
<1> DEFINE p == plan.target.parent
           n == plan.target.row + Find(L, x).rowSpan
           M == ExpandToFit(L, p, n)
           row == plan.target.row
           column == plan.target.column
<1>1. /\ L \in Layouts /\ Tree(L) /\ Sound(L, {}, {}) /\ Filled(L) /\ x \in Ids(L) /\ plan.fields = L
      /\ row \in Int /\ column \in Int /\ IsGrid(L, p) /\ Around(L, p, T)
  BY DEF ToCell, Good, Sound
<1>2. DraggedTo(L, plan, x) = MoveField(M, x, row, column, p)
  <2>1. TypeOf(L, p) # Subform
    BY <1>1, GridFacts
  <2> QED BY <1>1, <2>1, DraggedToIs
<1> HIDE DEF p, row, column
<1>3. p \in Ids(L) \union {Root}
  BY <1>1, GridFacts
<1>4. n \in Int
  <2>1. Find(L, x).rowSpan \in Nat
    BY <1>1, FindIsField DEF Fields
  <2> QED BY <1>1, <2>1 DEF row
<1> HIDE DEF n
<1>5. Expanded(L, M, p, T)
  BY <1>1, <1>3, <1>4, ExpandIs
<1> HIDE DEF M
<1>6. Good(M) /\ Ids(M) = Ids(L) /\ SameTree(L, M)
  BY <1>1, <1>5 DEF Expanded, Good, SameTree
<1>7. MoveStart(M, x, row, column, p)
  <2>1. IsGrid(M, p)
    BY <1>1, <1>6 DEF IsGrid, SameTree
  <2> QED BY <1>1, <1>6, <2>1, SoundMore DEF MoveStart, Good, Filled
<1>8. MovedOrNot(M, DraggedTo(L, plan, x), x, row, column, p)
  BY <1>2, <1>7, MoveFieldDoes
<1> QED BY <1>5, <1>6, <1>8 DEF p, row, column

(* Into the room that the others made. *)
LEMMA RoomHolds ==
  ASSUME NEW L, Good(L), NEW x \in Ids(L), NEW f, f = Find(L, x), NEW p, NEW made, NEW plan, NEW T,
         Inserted(L, f, p, made, plan, T)
  PROVE  LET N == plan.fields
             r == PlaceFor(N, x, plan.target.row, plan.target.column, p)
         IN  /\ CanPlace(N, x, r, p)
             /\ p \in Ids(N) => plan.target.row + f.rowSpan <= Bottom(Find(N, p))
<1> DEFINE U == DraggedBy(L, f.id)
           O == Without(L, U)
           R == made.fields
           N == plan.fields
           row == plan.target.row
           column == plan.target.column
           s == SizeIn(L, f, p)
           q == Rect(s, plan.target)
           r == PlaceFor(N, x, row, column, p)
<1>1. /\ L \in Layouts /\ Tree(L) /\ f \in Fields /\ f.id = x /\ x \in U
      /\ U \in SUBSET Ids(L) /\ \A y \in U : y = x \/ Parent(L, y) \in U
  <2>1. L \in Layouts /\ Tree(L)
    BY DEF Good, Sound
  <2>2. f \in Fields /\ f.id = x
    BY <2>1, FindIsField
  <2>3. U \in SUBSET Ids(L) /\ \A y \in U : y = x \/ Parent(L, y) \in U
    BY <2>1, <2>2, DraggedIs
  <2>4. x \in U
    BY <2>2 DEF DraggedBy, Moved
  <2> QED BY <2>1, <2>2, <2>3, <2>4
<1>2. FullFacts(L, N, U, R, p, x)
  BY <1>1, FullSound
<1>3. /\ IsPart(L, O, Ids(L) \ U) /\ IsGrid(O, p) /\ Good(O)
      /\ PlanMade(O, s, made, p, T) /\ plan.target = made.target
  BY DEF Inserted
<1> HIDE DEF U, O, R, N, s
<1>4. /\ row \in Int /\ column \in Int /\ RoomMade(O, R, q, p, T)
      /\ s.type = RichText => column = ScopeColumn(O, p)
  BY <1>3 DEF PlanMade, R
<1> HIDE DEF row, column
<1>5. /\ R \in Layouts /\ SameTree(O, R) /\ CanPlace(R, "incoming", q, p) /\ IsGrid(R, p)
      /\ Ids(R) = Ids(L) \ U /\ O \in Layouts
  <2>1. Ids(O) = Ids(L) \ U /\ O \in Layouts
    BY <1>3 DEF IsPart
  <2> QED BY <1>3, <1>4, <2>1 DEF RoomMade, Keeps, Follows, SameTree, IsGrid
<1>6. /\ N \in Layouts /\ SameTree(L, N) /\ IsGrid(N, p) /\ IsGrid(L, p) /\ p \notin U
      /\ \A y \in Ids(L) \ U : Find(N, y) = Find(R, y)
      /\ \A y \in U : Find(N, y) = Find(L, y)
      /\ ScopeColumns(N, p) = ScopeColumns(L, p) /\ ScopeColumn(N, p) = ScopeColumn(L, p)
  BY <1>2 DEF FullFacts
<1>7. Ids(N) = Ids(L) /\ Find(N, x) = f
  BY <1>1, <1>6 DEF SameTree
<1>8. GridLike(R, N, p, "incoming", x)
  <2>1. ASSUME p \in Ids(R) PROVE Find(N, p) = Find(R, p) /\ Find(R, p) \in Fields
    BY <1>5, <1>6, <2>1, FindIsField
  <2>2. ASSUME NEW y \in Ids(N) \ {x}, Parent(N, y) = p
        PROVE  y \in Ids(R) \ {"incoming"} /\ Parent(R, y) = p /\ SamePlace(Find(R, y), Find(N, y))
    <3>1. y \in Ids(L) /\ Parent(L, y) = p
      BY <1>6, <1>7, <2>2 DEF SameTree
    <3>2. y \notin U
      BY <1>1, <1>6, <2>2, <3>1
    <3>3. y \in Ids(R) /\ Find(N, y) = Find(R, y)
      BY <1>5, <1>6, <3>1, <3>2
    <3>4. y # "incoming"
      BY <1>5, <3>3, RootIsNoId
    <3> QED BY <2>2, <3>3, <3>4 DEF Parent, SamePlace
  <2>3. ASSUME p \in Ids(R)
        PROVE  /\ Find(N, p).row = Find(R, p).row
               /\ Find(N, p).column = Find(R, p).column
               /\ Find(N, p).colSpan = Find(R, p).colSpan
               /\ Find(N, p).rowSpan >= Find(R, p).rowSpan
    <3>1. Find(N, p) = Find(R, p) /\ Find(R, p).rowSpan \in Nat
      BY <2>1, <2>3 DEF Fields
    <3> QED BY <3>1
  <2> QED BY <1>5, <1>6, <2>2, <2>3 DEF GridLike
<1>9. IsSized(L, f, s, p)
  BY <1>1, <1>6, SizedIs DEF s, IsIncoming
<1>10. /\ IsRect(q) /\ q.row = row /\ q.column = column
       /\ q.rowSpan = s.rowSpan /\ q.colSpan = s.colSpan
  <2>1. IsRect(q)
    BY <1>4, <1>9, RectIs DEF IsSized, row, column
  <2> QED BY <2>1 DEF Rect, row, column
<1>11. /\ r.row = row /\ r.rowSpan = f.rowSpan
       /\ f.type = RichText => r.column = ScopeColumn(N, p) /\ r.colSpan = ScopeColumns(N, p)
       /\ f.type # RichText => r.column = column /\ r.colSpan = f.colSpan
  BY <1>1, <1>4, <1>6, <1>7, PlaceForFacts
<1> HIDE DEF r, q
<1>12. SamePlace(q, r)
  <2>1. CASE f.type # RichText
    BY <1>9, <1>10, <1>11, <2>1 DEF SamePlace, IsSized
  <2>2. CASE f.type = RichText
    <3>1. ScopeColumn(O, p) = ScopeColumn(L, p)
      <4>1. p \in Ids(O) => Find(O, p) = Find(L, p) /\ p \in Ids(L)
        BY <1>3 DEF IsPart
      <4> QED BY <1>1, <1>3, <1>5, <1>6, <4>1, GridFacts
    <3> QED BY <1>4, <1>6, <1>9, <1>10, <1>11, <2>2, <3>1 DEF SamePlace, IsSized
  <2> QED BY <2>1, <2>2
<1>13. CanPlace(N, x, r, p)
  BY <1>5, <1>8, <1>10, <1>12, PlaceLike
<1>14. p \in Ids(N) => row + f.rowSpan <= Bottom(Find(N, p))
  <2> SUFFICES ASSUME p \in Ids(N) PROVE row + f.rowSpan <= Bottom(Find(N, p))
    OBVIOUS
  <2>1. p \in Ids(R) /\ Find(N, p) = Find(R, p)
    BY <1>5, <1>6, <1>7
  <2>2. Bottom(q) <= Bottom(Find(R, p))
    BY <1>5, <2>1, PlaceFits
  <2>3. Bottom(q) = row + f.rowSpan
    BY <1>9, <1>10 DEF Bottom, IsSized
  <2> QED BY <2>1, <2>2, <2>3
<1> QED BY <1>13, <1>14 DEF N, r, row, column

LEMMA RoomIsTaken ==
  ASSUME NEW L, Good(L), NEW x \in Ids(L), NEW f, f = Find(L, x), NEW p, NEW made, NEW plan, NEW T,
         Inserted(L, f, p, made, plan, T)
  PROVE  /\ plan.target.parent = p
         /\ MovedOrNot(plan.fields, DraggedTo(L, plan, x), x, plan.target.row, plan.target.column, p)
         /\ ~MayMove(plan.fields, x, plan.target.row, plan.target.column, p) => Good(plan.fields)
<1> DEFINE U == DraggedBy(L, f.id)
           N == plan.fields
           row == plan.target.row
           column == plan.target.column
           r == PlaceFor(N, x, row, column, p)
<1>1. /\ L \in Layouts /\ Tree(L) /\ Filled(L) /\ f \in Fields /\ f.id = x /\ x \in U /\ U = Moved(L, {x})
  <2>1. L \in Layouts /\ Tree(L) /\ Filled(L)
    BY DEF Good, Sound
  <2>2. f \in Fields /\ f.id = x
    BY <2>1, FindIsField
  <2> QED BY <2>1, <2>2 DEF DraggedBy, Moved
<1>2. FullFacts(L, N, U, made.fields, p, x)
  BY <1>1, FullSound
<1>3. /\ row \in Int /\ column \in Int /\ plan.target.parent = p
  BY DEF Inserted, PlanMade
<1>4. CanPlace(N, x, r, p) /\ (p \in Ids(N) => row + f.rowSpan <= Bottom(Find(N, p)))
  BY RoomHolds
<1> HIDE DEF U, N, row, column
<1>5. /\ N \in Layouts /\ SameTree(L, N) /\ IsGrid(N, p) /\ IsGrid(L, p) /\ p \notin U
      /\ Find(N, x) = f /\ Ids(N) = Ids(L) /\ Sound(N, {x}, {})
      /\ \A y \in Ids(N) \ {x} : Fills(N, y)
      /\ ScopeColumns(N, p) = ScopeColumns(L, p) /\ ScopeColumn(N, p) = ScopeColumn(L, p)
  BY <1>1, <1>2 DEF FullFacts, SameTree
<1>6. TypeOf(N, p) # Subform
  BY <1>5, GridFacts
<1>7. ExpandToFit(N, p, row + f.rowSpan) = N
  <2>1. ~Grows(N, p, row + f.rowSpan)
    <3>1. CASE p = Root
      BY <1>5, <3>1, GridFacts DEF Grows, Group
    <3>2. CASE p \in Ids(N)
      <4>1. Find(N, p) \in Fields /\ f.rowSpan \in Nat
        BY <1>1, <1>5, <3>2, FindIsField DEF Fields
      <4>2. Bottom(Find(N, p)) \in Int
        BY <4>1 DEF Fields, Bottom
      <4>3. ~(Growth(Find(N, p), row + f.rowSpan) > 0)
        BY <1>3, <1>4, <3>2, <4>1, <4>2 DEF Growth, Larger
      <4> QED BY <4>3 DEF Grows
    <3> QED BY <1>5, <3>1, <3>2, GridFacts
  <2> QED BY <2>1 DEF ExpandToFit
<1>8. DraggedTo(L, plan, x) = MoveField(N, x, row, column, p)
  BY <1>3, <1>6, <1>7, DraggedToIs DEF N, row, column
<1>9. MoveStart(N, x, row, column, p)
  BY <1>3, <1>5 DEF MoveStart
<1>10. MovedOrNot(N, DraggedTo(L, plan, x), x, row, column, p)
  BY <1>8, <1>9, MoveFieldDoes
<1>11. ASSUME ~MayMove(N, x, row, column, p) PROVE Good(N)
  <2>1. /\ r.row = row /\ r.rowSpan = f.rowSpan
        /\ f.type = RichText => r.column = ScopeColumn(N, p) /\ r.colSpan = ScopeColumns(N, p)
        /\ f.type # RichText => r.column = column /\ r.colSpan = f.colSpan
    BY <1>3, <1>5, PlaceForFacts
  <2> HIDE DEF r
  <2>2. p # x /\ p \notin Moved(L, {x})
    BY <1>1, <1>5
  <2>3. ~(IsContainer(f.type) /\ p \in Descendants(N, x))
    <3> SUFFICES ASSUME IsContainer(f.type), p \in Descendants(N, x) PROVE FALSE
      OBVIOUS
    <3>1. p \in DescendantsOf(N, {x})
      BY DEF Descendants
    <3>2. p \in Moved(N, {x}) /\ Tree(N) /\ p \in Ids(N)
      BY <1>5, <3>1, InsideTree DEF Moved, Sound
    <3>3. \A y \in Ids(L) : Parent(N, y) = Parent(L, y)
      BY <1>5 DEF SameTree
    <3> DEFINE S == Moved(N, {x}) \ Moved(L, {x})
    <3>4. S \in SUBSET Ids(L)
      BY <1>1, <1>5, <3>2, MovedTree
    <3>5. ASSUME NEW y \in S PROVE Parent(L, y) \in S
      <4>1. y \in Ids(L) /\ y \in Moved(N, {x}) /\ y \notin Moved(L, {x})
        BY <3>4
      <4>2. y # x
        BY <4>1 DEF Moved
      <4>3. Parent(N, y) \in Moved(N, {x})
        BY <1>1, <1>5, <3>2, <4>1, <4>2, MovedTree
      <4>4. Parent(L, y) \notin Moved(L, {x})
        BY <1>1, <4>1, MovedTree
      <4> QED BY <3>3, <4>1, <4>3, <4>4
    <3> HIDE DEF S
    <3>6. S = {}
      BY <1>1, <3>4, <3>5, NoCircle
    <3> QED BY <2>2, <3>2, <3>6 DEF S
  <2>4. f.row = row /\ f.column = r.column /\ f.parent = p
    BY <1>4, <1>5, <1>6, <1>11, <2>2, <2>3 DEF MayMove, r
  <2>5. Parent(L, x) = p /\ Parent(N, x) = p
    BY <1>5, <2>4 DEF Parent
  <2>6. f.type = RichText => f.colSpan = ScopeColumns(N, p)
    BY <1>1, <1>5, <2>5 DEF Filled, Fills
  <2>7. SamePlace(r, f)
    BY <2>1, <2>4, <2>6 DEF SamePlace
  <2>8. Fits(N, {x}, f, p)
    <3>1. Fits(N, {x}, r, p)
      BY <1>4, <1>5, PlaceFits
    <3> QED BY <2>7, <3>1, FitsSame
  <2>9. Fills(N, x)
    BY <1>5, <2>1, <2>4, <2>5, <2>6 DEF Fills
  <2>10. Filled(N)
    BY <1>5, <2>9 DEF Filled
  <2> QED BY <1>5, <2>5, <2>8, <2>10, FitsIn
<1> QED BY <1>3, <1>10, <1>11 DEF N, row, column

(* Dropped, over any layout; the new field, and the layout with it. *)
DroppedOn(L, plan, incoming) ==
    LET parent == plan.target.parent
        full == incoming.type \in {Subform, RichText}
        sized == SizeIn(plan.fields, incoming, parent)
        field == [id |-> incoming.id, type |-> incoming.type, row |-> plan.target.row,
                  column |-> IF full THEN ScopeColumn(plan.fields, parent)
                             ELSE plan.target.column,
                  rowSpan |-> sized.rowSpan, colSpan |-> sized.colSpan, parent |-> parent]
        room == ExpandToFit(plan.fields, parent, field.row + field.rowSpan)
    IN  IF \/ /\ TypeOf(plan.fields, parent) = Subform
              /\ IsContainer(incoming.type) \/ incoming.type = RichText
           \/ ~CanPlace(room, Root, field, parent)
        THEN L
        ELSE NormalizeRichText(Append(room, field))

(* A component may be dropped on a plan. *)
AddStart(plan, f) ==
    /\ Good(plan.fields) /\ f \in Items /\ f.id \notin Ids(plan.fields)
    /\ IsGrid(plan.fields, plan.target.parent)
    /\ plan.target.row \in Int /\ plan.target.column \in Int

NewField(plan, f) ==
    LET parent == plan.target.parent
        full == f.type \in {Subform, RichText}
        sized == SizeIn(plan.fields, f, parent)
    IN  [id |-> f.id, type |-> f.type, row |-> plan.target.row,
         column |-> IF full THEN ScopeColumn(plan.fields, parent)
                    ELSE plan.target.column,
         rowSpan |-> sized.rowSpan, colSpan |-> sized.colSpan, parent |-> parent]

LEMMA NewFieldIs ==
  ASSUME NEW plan, NEW f, AddStart(plan, f)
  PROVE  LET g == NewField(plan, f)
         IN  /\ g \in Fields /\ g.id = f.id /\ g.parent = plan.target.parent
             /\ g.type = RichText => /\ g.column = ScopeColumn(plan.fields, plan.target.parent)
                                     /\ g.colSpan = ScopeColumns(plan.fields, plan.target.parent)
<1> DEFINE F == plan.fields
           p == plan.target.parent
           s == SizeIn(F, f, p)
           g == NewField(plan, f)
<1>1. /\ F \in Layouts /\ f \in Items /\ IsGrid(F, p)
      /\ plan.target.row \in Int /\ plan.target.column \in Int
  BY DEF AddStart, Good, Sound
<1>2. IsSized(F, f, s, p)
  BY <1>1, SizedIs DEF IsIncoming
<1>3. ScopeColumn(F, p) \in Int
  BY <1>1, GridFacts
<1>4. p \in FieldIds \union {Root}
  <2>1. p \in Ids(F) \union {Root}
    BY <1>1, GridFacts
  <2> QED BY <1>1, <2>1, FindIsField
<1>5. f.id \in FieldIds /\ f.type \in PlainTypes
  BY <1>1 DEF Items
<1> DEFINE c == IF f.type \in {Subform, RichText} THEN ScopeColumn(F, p) ELSE plan.target.column
<1>6. g = [id |-> f.id, type |-> f.type, row |-> plan.target.row, column |-> c,
           rowSpan |-> s.rowSpan, colSpan |-> s.colSpan, parent |-> p]
  BY DEF NewField
<1>7. c \in Int /\ (f.type = RichText => c = ScopeColumn(F, p))
  BY <1>1, <1>3
<1>8. s.rowSpan \in Nat \ {0} /\ s.colSpan \in Nat \ {0}
      /\ (f.type = RichText => s.colSpan = ScopeColumns(F, p))
  BY <1>2 DEF IsSized, IsItem
<1> HIDE DEF c, s, g
<1>9. g \in Fields
  BY <1>1, <1>4, <1>5, <1>6, <1>7, <1>8 DEF Fields
<1>10. /\ g.id = f.id /\ g.parent = p
       /\ g.type = RichText => g.column = ScopeColumn(F, p) /\ g.colSpan = ScopeColumns(F, p)
  BY <1>6, <1>7, <1>8
<1> QED BY <1>9, <1>10 DEF g

(* The field is in, nobody else is elsewhere than in M. *)
WithNew(M, N, x) ==
    /\ N \in Layouts /\ Ids(N) = Ids(M) \union {x}
    /\ \A y \in Ids(M) : Find(N, y) = Find(M, y)

LEMMA DropIs ==
  ASSUME NEW L, NEW plan, NEW f, AddStart(plan, f), DroppedOn(L, plan, f) # L,
         NEW T, Around(plan.fields, plan.target.parent, T)
  PROVE  \E M : /\ Expanded(plan.fields, M, plan.target.parent, T) /\ Good(M)
                /\ Good(DroppedOn(L, plan, f)) /\ WithNew(M, DroppedOn(L, plan, f), f.id)
<1> DEFINE F == plan.fields
           p == plan.target.parent
           g == NewField(plan, f)
           n == g.row + g.rowSpan
           M == ExpandToFit(F, p, n)
           A == Append(M, g)
           N == DroppedOn(L, plan, f)
<1>1. /\ F \in Layouts /\ Tree(F) /\ Sound(F, {}, {}) /\ Filled(F) /\ IsGrid(F, p) /\ Around(F, p, T)
      /\ f.id \notin Ids(F)
  BY DEF AddStart, Good, Sound
<1>2. N = IF ~CanPlace(M, Root, g, p) THEN L ELSE NormalizeRichText(A)
  <2>1. TypeOf(F, p) # Subform
    BY <1>1, GridFacts
  <2> QED BY <2>1 DEF DroppedOn, NewField
<1>3. /\ g \in Fields /\ g.id = f.id /\ g.parent = p
      /\ g.type = RichText => g.column = ScopeColumn(F, p) /\ g.colSpan = ScopeColumns(F, p)
  BY NewFieldIs
<1> HIDE DEF g
<1>4. n \in Int
  BY <1>3 DEF Fields
<1>5. p \in Ids(F) \union {Root}
  BY <1>1, GridFacts
<1> HIDE DEF F, p, n
<1>6. Expanded(F, M, p, T)
  BY <1>1, <1>4, <1>5, ExpandIs
<1> HIDE DEF M
<1>7. Good(M) /\ M \in Layouts /\ Ids(M) = Ids(F) /\ SameTree(F, M) /\ Keeps(F, M, T \ {p}, T)
  BY <1>1, <1>6 DEF Expanded, Good, Sound, SameTree
<1>8. CanPlace(M, Root, g, p) /\ N = NormalizeRichText(A)
  BY <1>2 DEF N
<1> HIDE DEF N
<1>9. IsGrid(M, p)
  BY <1>1, <1>7 DEF IsGrid, SameTree
<1>10. /\ ScopeColumn(M, p) = ScopeColumn(F, p) /\ ScopeColumns(M, p) = ScopeColumns(F, p)
  <2>1. CASE p = Root
    BY <1>1, <1>7, <1>9, <2>1, GridFacts
  <2>2. CASE p \in Ids(F)
    <3>1. Find(F, p).type = Group /\ p \in T
      BY <1>1, <2>2, GridFacts DEF Around
    <3>2. Find(M, p).column = Find(F, p).column /\ Find(M, p).colSpan = Find(F, p).colSpan
      <4>1. Stays(F, M, T) /\ SameWidths(F, M)
        BY <1>7 DEF Keeps
      <4> QED BY <2>2, <3>1, <4>1 DEF Stays, SameWidths, Group, RichText
    <3> QED BY <1>1, <1>7, <1>9, <2>2, <3>2, GridFacts
  <2> QED BY <1>1, <2>1, <2>2, GridFacts
<1>11. Fits(M, {}, g, p)
  <2>1. Fits(M, {Root}, g, p)
    BY <1>7, <1>8, <1>9, PlaceFits
  <2>2. Root \notin Ids(M)
    BY <1>7, RootIsNoId
  <2> QED BY <2>1, <2>2 DEF Fits
<1>12. IsAdded(M, g, A) /\ g.id \notin Ids(M)
  BY <1>1, <1>3, <1>7, AppendIs
<1> HIDE DEF A
<1>13. Good(A)
  BY <1>3, <1>7, <1>9, <1>10, <1>11, <1>12, AddedGood
<1>14. A \in Layouts /\ Tree(A) /\ Sound(A, {}, {}) /\ Filled(A)
  BY <1>13 DEF Good, Sound
<1>15. IsNormal(A, N)
  BY <1>8, <1>14, NormalizeIs
<1>16. Good(N)
  BY <1>14, <1>15, NormalSound, NormalKeeps DEF Good
<1>17. WithNew(M, N, f.id)
  <2>1. \A y \in Ids(A) : Find(N, y) = Find(A, y)
    BY <1>14, <1>15, NormalFilled
  <2>2. N \in Layouts /\ Ids(N) = Ids(A)
    BY <1>15 DEF IsNormal
  <2> QED BY <1>3, <1>12, <2>1, <2>2 DEF WithNew, IsAdded
<1> QED BY <1>6, <1>7, <1>16, <1>17 DEF F, p, N

(* The others made room for a new field. *)
LEMMA PlanGood ==
  ASSUME NEW L, Good(L), NEW f \in Items, f.id \notin Ids(L), NEW p, NEW made, NEW plan, NEW T,
         Inserted(L, f, p, made, plan, T)
  PROVE  /\ AddStart(plan, f) /\ plan.target.parent = p /\ SameTree(L, plan.fields)
         /\ Around(plan.fields, p, T)
         /\ \A y \in Ids(L) : Find(plan.fields, y) = Find(made.fields, y)
         /\ Ids(made.fields) = Ids(L) /\ made.fields \in Layouts
<1> DEFINE F == plan.fields
           R == made.fields
           x == f.id
           U == DraggedBy(L, x)
           O == Without(L, U)
<1>1. U = {}
  BY DEF DraggedBy
<1>2. FullFacts(L, F, U, R, p, x)
  BY FullSound
<1>3. /\ IsPart(L, O, Ids(L) \ U) /\ Around(O, p, T) /\ Good(O) /\ PlanMade(O, SizeIn(L, f, p), made, p, T)
      /\ plan.target = made.target
  BY DEF Inserted
<1> HIDE DEF F, R, x, U, O
<1>4. /\ F \in Layouts /\ SameTree(L, F) /\ Sound(F, {x}, {}) /\ IsGrid(F, p) /\ Ids(F) = Ids(L)
      /\ \A y \in Ids(F) \ {x} : Fills(F, y)
      /\ \A y \in Ids(L) : Find(F, y) = Find(R, y)
  BY <1>1, <1>2 DEF FullFacts, SameTree
<1>5. x \notin Ids(F)
  BY <1>4 DEF x
<1>6. Good(F)
  BY <1>4, <1>5 DEF Good, Sound, Filled
<1>7. plan.target.row \in Int /\ plan.target.column \in Int /\ plan.target.parent = p
  BY <1>3 DEF PlanMade
<1>8. AddStart(plan, f)
  BY <1>4, <1>5, <1>6, <1>7 DEF AddStart, F, x
<1>9. O \in Layouts /\ Ids(O) = Ids(L) /\ \A y \in Ids(O) : Find(O, y) = Find(L, y)
  BY <1>1, <1>3 DEF IsPart
<1>10. SameTree(O, F)
  BY <1>4, <1>9 DEF SameTree, Parent
<1>11. Around(F, p, T)
  <2>1. Path(F, T)
    BY <1>3, <1>9, <1>10, PathSame DEF Around
  <2> QED BY <1>3, <1>10, <2>1 DEF Around, SameTree
<1>12. Ids(R) = Ids(L) /\ R \in Layouts
  BY <1>3, <1>9 DEF PlanMade, RoomMade, Keeps, Follows, SameTree, R
<1> QED BY <1>4, <1>7, <1>8, <1>11, <1>12 DEF F, R

-----------------------------------------------------------------------------
(* ResizeField. *)
(* Nobody is out of the canvas: each lies in its scope, the scope in the next one. *)
OnCanvas(f) == f.row >= 0 /\ f.column >= 0 /\ Right(f) <= COLUMN_COUNT
LEMMA AllOnCanvas ==
  ASSUME NEW L, Good(L)
  PROVE  \A x \in Ids(L) : OnCanvas(Find(L, x))
<1> DEFINE S == {x \in Ids(L) : ~OnCanvas(Find(L, x))}
<1>1. /\ L \in Layouts /\ Tree(L) /\ Filled(L)
      /\ \A x \in Ids(L) : Scoped(L, x)
  BY DEF Good, Sound
<1>2. SUFFICES ASSUME S # {} PROVE FALSE
  OBVIOUS
<1>3. PICK x \in S : Parent(L, x) \notin S
  BY <1>1, <1>2 DEF Tree
<1> DEFINE q == Parent(L, x)
           f == Find(L, x)
<1>4. x \in Ids(L) /\ ~OnCanvas(f)
  BY <1>3
<1>5. /\ f \in Fields /\ (q = Root \/ q \in Ids(L))
      /\ q \in Ids(L) => q # Root /\ Find(L, q) \in Fields
      /\ ScopeColumn(L, q) = IF q = Root THEN 0 ELSE Find(L, q).column
      /\ ScopeColumns(L, q) = IF q = Root THEN COLUMN_COUNT ELSE Find(L, q).colSpan
      /\ ScopeRow(L, q) \in Int
  BY <1>1, <1>4, ScopeFacts
<1>6. /\ f.row \in Int /\ f.column \in Int /\ f.colSpan \in Int
  BY <1>5 DEF Fields
<1>7. /\ f.row >= ScopeRow(L, q)
      /\ f.column >= ScopeColumn(L, q)
      /\ f.column + f.colSpan <= ScopeColumn(L, q) + ScopeColumns(L, q)
  <2>1. Scoped(L, x) /\ Fills(L, x)
    BY <1>1, <1>4 DEF Filled
  <2>2. CASE f.type # RichText
    BY <2>1, <2>2 DEF Scoped, Right
  <2>3. CASE f.type = RichText
    <3>1. f.column = ScopeColumn(L, q) /\ f.colSpan = ScopeColumns(L, q)
      BY <2>1, <2>3 DEF Fills
    <3>2. f.row >= ScopeRow(L, q)
      BY <2>1 DEF Scoped
    <3> QED BY <1>6, <3>1, <3>2
  <2> QED BY <2>2, <2>3
<1>8. COLUMN_COUNT \in Nat
  BY DesignerAssumption
<1>9. CASE q = Root
  <2>1. ScopeRow(L, q) = 0 /\ ScopeColumn(L, q) = 0 /\ ScopeColumns(L, q) = COLUMN_COUNT
    BY <1>5, <1>9 DEF ScopeRow
  <2> HIDE DEF q, f
  <2> QED BY <1>4, <1>6, <1>7, <1>8, <2>1 DEF OnCanvas, Right
<1>10. CASE q \in Ids(L)
  <2>1. OnCanvas(Find(L, q)) /\ q # Root /\ Find(L, q) \in Fields
    BY <1>3, <1>5, <1>10
  <2> DEFINE g == Find(L, q)
  <2>2. g.row \in Int /\ g.column \in Int /\ g.colSpan \in Int
    BY <2>1 DEF Fields
  <2>3. ScopeRow(L, q) = g.row /\ ScopeColumn(L, q) = g.column /\ ScopeColumns(L, q) = g.colSpan
    BY <1>5, <2>1 DEF ScopeRow
  <2>4. g.row >= 0 /\ g.column >= 0 /\ g.column + g.colSpan <= COLUMN_COUNT
    BY <2>1 DEF OnCanvas, Right
  <2> HIDE DEF g, f, q
  <2>5. f.row >= 0 /\ f.column >= 0 /\ f.column + f.colSpan <= COLUMN_COUNT
    BY <1>6, <1>7, <1>8, <2>2, <2>3, <2>4
  <2> QED BY <1>4, <2>5 DEF OnCanvas, Right
<1> QED BY <1>5, <1>9, <1>10

(* resizeField. *)
RowsOf(f, n) == IF ResizesRows(f.type) THEN Larger(1, n) ELSE f.rowSpan
ColumnsOf(f, n) ==
    IF ResizesColumns(f.type) THEN Clamp(n, 1, COLUMN_COUNT - f.column) ELSE f.colSpan

(* resizeField: the new size, and none of its early returns is taken. *)
SizedTo(f, m, n) == [f EXCEPT !.rowSpan = RowsOf(f, m), !.colSpan = ColumnsOf(f, n)]
Resized(L, x, s) == Each(L, LAMBDA g : IF g.id = x THEN s ELSE g)
MayResize(L, x, m, n) ==
    LET f == Find(L, x)
        s == SizedTo(f, m, n)
    IN  ~ \/ s = f
          \/ f.type = Group /\ ~HoldsChildren(L, f, RowsOf(f, m), ColumnsOf(f, n))
          \/ TypeOf(L, f.parent) # Subform /\ Right(s) > COLUMN_COUNT
          \/ TypeOf(L, f.parent) = Group /\ Right(s) > Right(Find(L, f.parent))
          \/ GiveWay(Resized(L, x, s), s, f.parent, Downwards).tooComplex

LEMMA ResizeUnfold ==
  ASSUME NEW L, NEW x, NEW m, NEW n
  PROVE  LET f == Find(L, x)
             s == SizedTo(f, m, n)
         IN  ResizeField(L, x, m, n) =
                IF ~MayResize(L, x, m, n) THEN L
                ELSE NormalizeRichText(EncloseChildren(
                        GiveWay(Resized(L, x, s), s, f.parent, Downwards).fields, f.parent, 0))
  BY DEF ResizeField, MayResize, SizedTo, RowsOf, ColumnsOf, Resized

(* A size the field takes. *)
Sizes(L, x, m, n) == Good(L) /\ x \in Ids(L) /\ m \in Int /\ n \in Int

(* The resized field and the layout with it, before the others give way. *)
SizeFacts(f, s) ==
    /\ f \in Fields /\ s \in Fields /\ s.id = f.id /\ s.type = f.type /\ s.parent = f.parent
    /\ s.row = f.row /\ s.column = f.column
    /\ f.type = RichText => s.colSpan = f.colSpan
LEMMA SizedToIs ==
  ASSUME NEW L, NEW x, NEW m, NEW n, Sizes(L, x, m, n)
  PROVE  SizeFacts(Find(L, x), SizedTo(Find(L, x), m, n))
<1> DEFINE f == Find(L, x)
           a == RowsOf(f, m)
           b == ColumnsOf(f, n)
<1>1. L \in Layouts /\ f \in Fields /\ OnCanvas(f) /\ m \in Int /\ n \in Int
  BY FindIsField, AllOnCanvas DEF Sizes, Good, Sound
<1>2. f.column \in Int /\ f.colSpan \in Nat \ {0} /\ f.rowSpan \in Nat \ {0}
  BY <1>1 DEF Fields
<1>3. COLUMN_COUNT - f.column \in Nat \ {0}
  BY <1>1, <1>2, DesignerAssumption DEF OnCanvas, Right
<1> HIDE DEF f
<1>4. a \in Nat \ {0}
  BY <1>1, <1>2 DEF RowsOf, Larger
<1>5. b \in Nat \ {0}
  BY <1>1, <1>2, <1>3 DEF ColumnsOf, Clamp, Larger, Smaller
<1>6. f.type = RichText => b = f.colSpan
  BY DEF ColumnsOf, ResizesColumns, RichText, Text, Area, Group
<1> HIDE DEF a, b
<1>7. SizedTo(f, m, n) = [f EXCEPT !.rowSpan = a, !.colSpan = b]
  BY DEF SizedTo, a, b
<1>8. SizeFacts(f, SizedTo(f, m, n))
  BY <1>1, <1>4, <1>5, <1>6, <1>7 DEF SizeFacts, Fields
<1> QED BY <1>8 DEF f

IsResized(L, R, x, s) ==
    /\ R \in Layouts /\ Ids(R) = Ids(L)
    /\ \A y \in Ids(L) : Find(R, y) = IF y = x THEN s ELSE Find(L, y)
LEMMA ResizedIs ==
  ASSUME NEW L \in Layouts, NEW x \in Ids(L), NEW s \in Fields, s.id = x
  PROVE  IsResized(L, Resized(L, x, s), x, s)
<1> DEFINE G == [i \in DOMAIN L |-> IF L[i].id = x THEN s ELSE L[i]]
<1>1. \A i \in DOMAIN L : G[i] \in Fields /\ G[i].id = L[i].id
  BY LayoutFacts
<1>2. DOMAIN G = DOMAIN L /\ G = [i \in DOMAIN G |-> G[i]]
  OBVIOUS
<1>3. Resized(L, x, s) = << >> \o G
  BY DEF Resized, Each
<1> HIDE DEF G
<1>4. /\ << >> \o G = G /\ G \in Layouts /\ Ids(G) = Ids(L)
      /\ \A i \in DOMAIN L : Find(G, L[i].id) = G[i]
  BY <1>1, <1>2, Mapped
<1>5. \A y \in Ids(L) : Find(G, y) = IF y = x THEN s ELSE Find(L, y)
  <2>1. TAKE y \in Ids(L)
  <2>2. PICK i \in DOMAIN L : L[i].id = y /\ Find(L, y) = L[i]
    BY LayoutFacts
  <2> QED BY <1>4, <2>2 DEF G
<1> QED BY <1>3, <1>4, <1>5 DEF IsResized

LEMMA FollowsMore ==
  ASSUME NEW L, NEW M, NEW K, NEW J, Follows(L, M, K), K \subseteq J
  PROVE  Follows(L, M, J)
  BY DEF Follows

(* The field takes a size that fits: what is in it stays in it. *)
Resizes(L, x, m, n) ==
    /\ Sizes(L, x, m, n) /\ MayResize(L, x, m, n) /\ IsGrid(L, Parent(L, x))

LEMMA ResizedScoped ==
  ASSUME NEW L, NEW x, NEW m, NEW n, Resizes(L, x, m, n), NEW R, NEW s,
         s = SizedTo(Find(L, x), m, n), IsResized(L, R, x, s)
  PROVE  /\ SameTree(L, R) /\ Tree(R)
         /\ \A y \in Ids(L) : Scoped(R, y)
<1> DEFINE f == Find(L, x)
           p == Parent(L, x)
<1>1. /\ Good(L) /\ L \in Layouts /\ Tree(L) /\ x \in Ids(L) /\ m \in Int /\ n \in Int
      /\ \A y \in Ids(L) : Scoped(L, y)
  BY DEF Resizes, Sizes, Good, Sound
<1>2. SizeFacts(f, s)
  BY SizedToIs DEF Resizes
<1>3. /\ f \in Fields /\ s \in Fields /\ s.id = f.id /\ s.type = f.type /\ s.parent = f.parent
      /\ s.row = f.row /\ s.column = f.column
  BY <1>2 DEF SizeFacts
<1>4. /\ R \in Layouts /\ Ids(R) = Ids(L)
      /\ \A y \in Ids(L) : Find(R, y) = IF y = x THEN s ELSE Find(L, y)
  BY DEF IsResized
<1>5. SameTree(L, R)
  BY <1>3, <1>4 DEF SameTree, Parent
<1>6. Tree(R)
  BY <1>1, <1>5, SameTreeTree
<1>7. /\ f.type = Group => HoldsChildren(L, f, RowsOf(f, m), ColumnsOf(f, n))
      /\ TypeOf(L, p) # Subform => Right(s) <= COLUMN_COUNT
      /\ TypeOf(L, p) = Group => Right(s) <= Right(Find(L, p))
  <2>1. /\ f.type = Group => HoldsChildren(L, f, RowsOf(f, m), ColumnsOf(f, n))
        /\ ~(TypeOf(L, p) # Subform /\ Right(s) > COLUMN_COUNT)
        /\ ~(TypeOf(L, p) = Group /\ Right(s) > Right(Find(L, p)))
    BY DEF Resizes, MayResize, Parent
  <2>2. Right(s) \in Int /\ COLUMN_COUNT \in Int
    BY <1>3, DesignerAssumption DEF Fields, Right
  <2>3. TypeOf(L, p) = Group => Right(Find(L, p)) \in Int
    <3>1. ASSUME TypeOf(L, p) = Group PROVE Right(Find(L, p)) \in Int
      <4>1. p \in Ids(L)
        BY <1>1, <3>1, LayoutFacts DEF Group
      <4>2. Find(L, p) \in Fields
        BY <1>1, <4>1, FindIsField
      <4> QED BY <4>2 DEF Fields, Right
    <3> QED BY <3>1
  <2> QED BY <2>1, <2>2, <2>3
<1> SUFFICES ASSUME NEW y \in Ids(L) PROVE Scoped(R, y)
  BY <1>5, <1>6
<1> DEFINE q == Parent(L, y)
<1>8. Scoped(L, y) /\ Parent(R, y) = q
  BY <1>1, <1>5 DEF SameTree
<1>9. /\ Find(L, y) \in Fields /\ (q = Root \/ q \in Ids(L))
      /\ q \in Ids(L) => /\ q # Root /\ Find(L, q) \in Fields
                         /\ TypeOf(L, q) = Group /\ Find(L, q).type = Group
      /\ q = Root => TypeOf(L, q) = "canvas"
      /\ ScopeColumn(L, q) = IF q = Root THEN 0 ELSE Find(L, q).column
      /\ ScopeColumns(L, q) = IF q = Root THEN COLUMN_COUNT ELSE Find(L, q).colSpan
  BY <1>1, ScopeFacts
<1>10. /\ ScopeColumn(R, q) = IF q = Root THEN 0 ELSE Find(R, q).column
       /\ ScopeColumns(R, q) = IF q = Root THEN COLUMN_COUNT ELSE Find(R, q).colSpan
  BY <1>4, <1>6, <1>8, ScopeFacts
<1>11. ScopeRow(R, q) = ScopeRow(L, q) /\ ScopeColumn(R, q) = ScopeColumn(L, q)
  BY <1>3, <1>4, <1>9, <1>10 DEF ScopeRow
<1>12. /\ Find(R, y).row = Find(L, y).row /\ Find(R, y).column = Find(L, y).column
       /\ Find(R, y).type = Find(L, y).type
  BY <1>3, <1>4
<1>13. Find(R, y).row >= ScopeRow(R, q)
  BY <1>8, <1>11, <1>12 DEF Scoped
<1>14. ASSUME Find(R, y).type # RichText
       PROVE  /\ Find(R, y).column >= ScopeColumn(R, q)
              /\ Right(Find(R, y)) <= ScopeColumn(R, q) + ScopeColumns(R, q)
  <2>1. /\ Find(L, y).column >= ScopeColumn(L, q)
        /\ Right(Find(L, y)) <= ScopeColumn(L, q) + ScopeColumns(L, q)
    BY <1>8, <1>12, <1>14 DEF Scoped
  <2>2. CASE y = x
    <3>1. q # x
      <4>1. x \in {x} /\ {x} \in SUBSET Ids(L)
        BY <1>1
      <4>2. \E z \in {x} : Parent(L, z) \notin {x}
        BY <1>1, <4>1 DEF Tree
      <4> QED BY <2>2, <4>2
    <3>2. ScopeColumns(R, q) = ScopeColumns(L, q)
      BY <1>4, <1>9, <1>10, <3>1
    <3>3. p = q /\ Find(R, y) = s
      BY <1>4, <2>2
    <3>4. Right(s) <= ScopeColumn(L, q) + ScopeColumns(L, q)
      <4>1. CASE q = Root
        <5>1. Right(s) <= COLUMN_COUNT
          BY <1>7, <1>9, <3>3, <4>1 DEF Subform
        <5>2. COLUMN_COUNT = 0 + COLUMN_COUNT
          BY DesignerAssumption
        <5> QED BY <1>9, <4>1, <5>1, <5>2
      <4>2. CASE q \in Ids(L)
        <5>1. Right(s) <= Right(Find(L, q))
          BY <1>7, <1>9, <3>3, <4>2
        <5> QED BY <1>9, <4>2, <5>1 DEF Right
      <4> QED BY <1>9, <4>1, <4>2
    <3> QED BY <1>11, <1>12, <2>1, <3>2, <3>3, <3>4
  <2>3. CASE y # x /\ q = x
    <3>1. f.type = Group /\ q # Root
      BY <1>1, <1>9, <2>3
    <3>2. y \in Descendants(L, f.id)
      <4>1. f.id = x /\ HasField(L, x) /\ TypeOf(L, x) = Group
        BY <1>1, <2>3, <1>9, LayoutFacts, FindIsField
      <4>2. y \in DescendantsOf(L, {x})
        BY <1>1, <2>3, InsideTree
      <4> QED BY <4>1, <4>2 DEF Descendants, IsContainer
    <3> DEFINE size == [f EXCEPT !.rowSpan = RowsOf(f, m), !.colSpan = ColumnsOf(f, n)]
    <3>3. size = s
      BY DEF SizedTo
    <3>4. \/ Find(L, y).type = RichText /\ Find(L, y).parent = f.id
          \/ Right(Find(L, y)) <= Right(size)
      BY <1>7, <3>1, <3>2 DEF HoldsChildren
    <3>5. Right(Find(L, y)) <= Right(s)
      BY <1>12, <1>14, <3>3, <3>4
    <3>6. Find(R, q) = s /\ Find(R, y) = Find(L, y)
      BY <1>1, <1>4, <2>3
    <3>7. ScopeColumn(R, q) + ScopeColumns(R, q) = Right(s)
      BY <1>10, <3>1, <3>6 DEF Right
    <3> QED BY <1>11, <2>1, <3>5, <3>6, <3>7
  <2>4. CASE y # x /\ q # x
    <3>1. Find(R, y) = Find(L, y) /\ (q \in Ids(L) => Find(R, q) = Find(L, q))
      BY <1>4, <2>4
    <3>2. ScopeColumns(R, q) = ScopeColumns(L, q)
      BY <1>9, <1>10, <3>1
    <3> QED BY <1>11, <2>1, <3>1, <3>2
  <2> QED BY <2>2, <2>3, <2>4
<1> QED BY <1>8, <1>13, <1>14 DEF Scoped

(* The resized field may begin to push. *)
LEMMA ResizedPushes ==
  ASSUME NEW L, NEW x, NEW m, NEW n, Resizes(L, x, m, n), NEW R, NEW s,
         s = SizedTo(Find(L, x), m, n), IsResized(L, R, x, s),
         NEW T, Around(L, Parent(L, x), T)
  PROVE  Pushes(R, s, Parent(L, x), T, Downwards)
<1> DEFINE f == Find(L, x)
           p == Parent(L, x)
<1>1. /\ Good(L) /\ L \in Layouts /\ Tree(L) /\ x \in Ids(L)
      /\ Filled(L) /\ IsGrid(L, p)
      /\ \A y, z \in Ids(L) : y # z /\ Parent(L, y) = Parent(L, z) => ~Clash(Find(L, y), Find(L, z))
  BY DEF Resizes, Sizes, Good, Sound
<1>2. SizeFacts(f, s)
  BY SizedToIs DEF Resizes
<1>3. /\ f \in Fields /\ s \in Fields /\ s.id = f.id /\ s.type = f.type /\ s.parent = f.parent
      /\ s.row = f.row /\ s.column = f.column
      /\ f.type = RichText => s.colSpan = f.colSpan
  BY <1>2 DEF SizeFacts
<1>4. /\ R \in Layouts /\ Ids(R) = Ids(L)
      /\ \A y \in Ids(L) : Find(R, y) = IF y = x THEN s ELSE Find(L, y)
  BY DEF IsResized
<1>5. SameTree(L, R) /\ Tree(R) /\ \A y \in Ids(L) : Scoped(R, y)
  BY ResizedScoped
<1>6. Sound(R, {}, {p})
  <2>1. ASSUME NEW y \in Ids(R), NEW z \in Ids(R), y # z, Parent(R, y) = Parent(R, z),
               Parent(R, y) # p
        PROVE  ~Clash(Find(R, y), Find(R, z))
    <3>1. Parent(L, y) = Parent(L, z) /\ Parent(L, y) # p /\ Parent(L, z) # p
      BY <1>4, <1>5, <2>1 DEF SameTree
    <3>2. y # x /\ z # x
      BY <3>1
    <3> QED BY <1>1, <1>4, <2>1, <3>1, <3>2
  <2> QED BY <1>4, <1>5, <2>1 DEF Sound
<1>7. FilledIn(R, p)
  <2> SUFFICES ASSUME NEW y \in Ids(R), Parent(R, y) = p PROVE Fills(R, y)
    BY DEF FilledIn
  <2>1. y \in Ids(L) /\ Parent(L, y) = p /\ Fills(L, y)
    BY <1>1, <1>4, <1>5 DEF SameTree, Filled
  <2>2. p # x
    <3>1. {x} \in SUBSET Ids(L) /\ {x} # {}
      BY <1>1
    <3>2. \E z \in {x} : Parent(L, z) \notin {x}
      BY <1>1, <3>1 DEF Tree
    <3> QED BY <3>2
  <2>3. p \in Ids(L) => Find(R, p) = Find(L, p)
    BY <1>4, <2>2
  <2>4. ScopeColumn(R, p) = ScopeColumn(L, p) /\ ScopeColumns(R, p) = ScopeColumns(L, p)
    <3>1. Parent(R, x) = p
      BY <1>1, <1>5 DEF SameTree
    <3> HIDE DEF p
    <3> QED BY <1>1, <1>4, <1>5, <2>1, <2>3, ScopeFacts
  <2>5. CASE y = x
    <3>1. Find(R, y) = s /\ Find(L, y) = f
      BY <1>4, <2>1, <2>5
    <3> QED BY <1>3, <2>1, <2>4, <3>1 DEF Fills
  <2>6. CASE y # x
    <3>1. Find(R, y) = Find(L, y)
      BY <1>4, <2>1, <2>6
    <3> QED BY <2>1, <2>4, <3>1 DEF Fills
  <2> QED BY <2>5, <2>6
<1>8. Around(R, p, T)
  <2>1. Path(R, T)
    BY <1>1, <1>5, PathSame DEF Around
  <2> QED BY <1>5, <2>1 DEF Around, SameTree
<1>9. IsRect(s)
  BY <1>3, RectOf
<1>10. ASSUME NEW y \in Ids(R), NEW z \in Ids(R), y # z, Parent(R, y) = p, Parent(R, z) = p,
              Overlap(Find(R, y), Find(R, z))
       PROVE  \/ s.id = y /\ SamePlace(s, Find(R, y))
              \/ s.id = z /\ SamePlace(s, Find(R, z))
  <2>1. Parent(L, y) = p /\ Parent(L, z) = p /\ y \in Ids(L) /\ z \in Ids(L)
    BY <1>4, <1>5, <1>10 DEF SameTree
  <2>2. Clash(Find(R, y), Find(R, z))
    BY <1>10, OverlapClash
  <2>3. y = x \/ z = x
    BY <1>1, <1>4, <1>10, <2>1, <2>2
  <2>4. s.id = x
    BY <1>1, <1>3, FindIsField
  <2> QED BY <1>4, <2>1, <2>3, <2>4 DEF SamePlace
<1>11. Downwards.down
  BY DEF Downwards
<1> QED BY <1>6, <1>7, <1>8, <1>9, <1>10, <1>11 DEF Pushes, GivesWay

LEMMA ResizeDoes ==
  ASSUME NEW L, NEW x, NEW m, NEW n, Resizes(L, x, m, n),
         NEW T, Around(L, Parent(L, x), T)
  PROVE  LET N == ResizeField(L, x, m, n)
         IN  Good(N) /\ Follows(L, N, T) /\ Stays(L, N, T)
<1> DEFINE f == Find(L, x)
           p == Parent(L, x)
           s == SizedTo(f, m, n)
           R == Resized(L, x, s)
           M == GiveWay(R, s, p, Downwards).fields
           E == EncloseChildren(M, p, 0)
           N == ResizeField(L, x, m, n)
<1>1. /\ Good(L) /\ L \in Layouts /\ Tree(L) /\ x \in Ids(L) /\ IsGrid(L, p)
  BY DEF Resizes, Sizes, Good, Sound
<1>2. SizeFacts(f, s)
  BY SizedToIs DEF Resizes
<1>3. /\ f \in Fields /\ s \in Fields /\ s.id = f.id /\ s.type = f.type /\ s.parent = f.parent
      /\ s.row = f.row /\ s.column = f.column
  BY <1>2 DEF SizeFacts
<1>4. s.id = x
  BY <1>1, <1>3, FindIsField
<1>5. N = NormalizeRichText(E) /\ ~GiveWay(R, s, p, Downwards).tooComplex
  BY ResizeUnfold DEF Resizes, MayResize, Parent
<1> HIDE DEF s, N
<1>6. IsResized(L, R, x, s)
  BY <1>1, <1>3, <1>4, ResizedIs
<1>7. SameTree(L, R) /\ Tree(R)
  BY <1>6, ResizedScoped DEF s
<1>8. Pushes(R, s, p, T, Downwards)
  BY <1>6, ResizedPushes DEF s
<1> HIDE DEF R
<1>9. GaveWay(R, M, p, T)
  BY <1>5, <1>8, GiveWayIs
<1> HIDE DEF M
<1>10. /\ Sound(M, {}, {}) /\ M \in Layouts /\ Tree(M) /\ Follows(R, M, {p}) /\ Stays(R, M, T)
       /\ SameTree(R, M)
  BY <1>9 DEF GaveWay, Keeps, Sound, Follows
<1>11. R \in Layouts /\ Ids(R) = Ids(L) /\ Around(R, p, T)
  BY <1>6, <1>8 DEF IsResized, Pushes
<1>12. Around(M, p, T)
  <2>1. Path(M, T)
    BY <1>10, <1>11, PathSame DEF Around
  <2> QED BY <1>10, <1>11, <2>1 DEF Around, SameTree
<1>13. p \in Ids(M) \union {Root}
  <2>1. p \in Ids(L) \union {Root}
    BY <1>1, GridFacts
  <2> QED BY <1>10, <1>11, <2>1 DEF SameTree
<1>14. Expanded(M, E, p, T)
  BY <1>10, <1>12, <1>13, EncloseIs
<1> HIDE DEF E
<1>15. /\ Sound(E, {}, {}) /\ SameTree(M, E) /\ Follows(M, E, T \ {p}) /\ Stays(M, E, T)
       /\ E \in Layouts /\ Tree(E)
  BY <1>14 DEF Expanded, Sound
<1>16. IsNormal(E, N)
  BY <1>5, <1>15, NormalizeIs
<1>17. Good(N) /\ N \in Layouts /\ SameTree(E, N)
  BY <1>15, <1>16, NormalSound, NormalKeeps DEF Good
<1>18. Follows(E, N, T) /\ Stays(E, N, T)
  BY <1>15, <1>16, NormalFollows
<1>19. \A y \in Ids(L) : /\ Find(R, y).row = Find(L, y).row
                         /\ Find(R, y).column = Find(L, y).column
  BY <1>3, <1>6 DEF IsResized
<1>20. \A y \in Ids(L) \union {Root} : RowShift(L, R, y) = 0 /\ ColumnShift(L, R, y) = 0
  <2> SUFFICES ASSUME NEW y \in Ids(L) PROVE RowShift(L, R, y) = 0 /\ ColumnShift(L, R, y) = 0
    BY DEF RowShift, ColumnShift
  <2>1. Find(L, y).row \in Int /\ Find(L, y).column \in Int
    BY <1>1, FindIsField DEF Fields
  <2> QED BY <1>19, <2>1 DEF RowShift, ColumnShift
<1>21. Follows(L, R, T) /\ Stays(L, R, T)
  <2>1. \A y \in Ids(L) : Parent(L, y) \in Ids(L) \union {Root}
    BY <1>1, ScopeFacts
  <2> QED BY <1>7, <1>19, <1>20, <2>1 DEF Follows, Stays
<1>22. p \in T
  BY DEF Around
<1>23. Follows(R, M, T) /\ Follows(M, E, T)
  BY <1>10, <1>15, <1>22, FollowsMore
<1>24. Follows(L, M, T) /\ Stays(L, M, T)
  BY <1>1, <1>7, <1>10, <1>11, <1>21, <1>23, FollowsTrans, StaysTrans
<1>25. SameTree(L, M)
  BY <1>7, <1>10, SameTreeTrans
<1>26. Follows(L, E, T) /\ Stays(L, E, T)
  BY <1>1, <1>10, <1>15, <1>23, <1>24, <1>25, FollowsTrans, StaysTrans
<1>27. SameTree(L, E)
  BY <1>15, <1>25, SameTreeTrans
<1>28. Follows(L, N, T) /\ Stays(L, N, T)
  BY <1>1, <1>15, <1>17, <1>18, <1>26, <1>27, FollowsTrans, StaysTrans
<1> QED BY <1>17, <1>28 DEF N

-----------------------------------------------------------------------------
(* Copies and where they are pasted. *)
(* The place that placePastedFields finds, if there is one. *)
FirstPlace(P, p, column) ==
    \A q \in P : p.row < q.row \/ (p.row = q.row /\ Nearer(p.column, q.column, column))
LEMMA HasFirstPlace ==
  ASSUME NEW P \in SUBSET [row : Int, column : Int], P # {}, NEW top \in Int,
         \A q \in P : q.row >= top, NEW column \in Int
  PROVE  \E p \in P : FirstPlace(P, p, column)
<1> DEFINE S == {q.row - top : q \in P}
<1>0. \A q \in P : q.row \in Int /\ q.column \in Int
  OBVIOUS
<1>1. S \in SUBSET Nat /\ S # {}
  BY <1>0
<1>2. PICK m \in S : \A k \in S : m <= k
  BY <1>1, LeastNat
<1>3. PICK a \in P : m = a.row - top
  BY <1>2
<1>4. \A q \in P : a.row <= q.row
  <2> SUFFICES ASSUME NEW q \in P PROVE a.row <= q.row
    OBVIOUS
  <2>1. m <= q.row - top
    BY <1>2
  <2> QED BY <1>0, <1>3, <2>1
<1> HIDE DEF S
<1> DEFINE R == {q \in P : q.row = a.row}
           Away(c) == IF c < column THEN column - c ELSE c - column
           Code(q) == 2 * Away(q.column) + (IF q.column <= column THEN 0 ELSE 1)
           C == {Code(q) : q \in R}
<1>5. \A q \in R : Code(q) \in Nat
  BY <1>0
<1>6. C \in SUBSET Nat /\ C # {}
  BY <1>3, <1>5
<1>7. PICK n \in C : \A k \in C : n <= k
  BY <1>6, LeastNat
<1>8. PICK p \in R : n = Code(p)
  BY <1>7
<1>9. \A q \in R : Code(p) <= Code(q)
  BY <1>7, <1>8
<1> HIDE DEF C
<1>10. ASSUME NEW q \in P PROVE p.row < q.row \/ (p.row = q.row /\ Nearer(p.column, q.column, column))
  <2>1. a.row <= q.row /\ p.row = a.row /\ p \in P
    BY <1>4, <1>8
  <2>2. CASE q.row # a.row
    BY <1>0, <2>1, <2>2
  <2>3. CASE q.row = a.row
    <3>1. Code(p) <= Code(q)
      BY <1>9, <2>3
    <3>2. p.column \in Int /\ q.column \in Int
      BY <1>0, <2>1
    <3>3. Nearer(p.column, q.column, column)
      BY <3>1, <3>2 DEF Nearer
    <3> QED BY <2>1, <2>3, <3>3
  <2> QED BY <2>2, <2>3
<1>11. p \in P
  BY <1>8
<1> QED BY <1>10, <1>11 DEF FirstPlace

(* removeField. *)
LEMMA RemoveGood ==
  ASSUME NEW L, Good(L), NEW x \in Ids(L)
  PROVE  LET N == Without(L, {x} \union Descendants(L, x))
         IN  /\ Good(N) /\ Ids(N) = Ids(L) \ DraggedBy(L, x)
             /\ \A y \in Ids(N) : Find(N, y) = Find(L, y)
<1> DEFINE U == DraggedBy(L, x)
           N == Without(L, U)
<1>1. L \in Layouts /\ Tree(L)
  BY DEF Good, Sound
<1>2. U = {x} \union Descendants(L, x)
  <2>1. HasField(L, x)
    BY <1>1, LayoutFacts
  <2> QED BY <1>1, <2>1, DraggedIs
<1>3. Good(N) /\ IsPart(L, N, Ids(L) \ U)
  BY OthersGood
<1>4. Ids(N) = Ids(L) \ U /\ \A y \in Ids(N) : Find(N, y) = Find(L, y)
  BY <1>3 DEF IsPart
<1> QED BY <1>2, <1>3, <1>4

(* copyField: the copies. *)
LEMMA NotInItself ==
  ASSUME NEW L \in Layouts, Tree(L), NEW x \in Ids(L)
  PROVE  /\ x \notin DescendantsOf(L, {x}) /\ Parent(L, x) \notin Moved(L, {x})
         /\ Descendants(L, x) = DescendantsOf(L, {x})
<1>1. {x} \in SUBSET Ids(L) /\ \A y \in {x} : Parent(L, y) = Parent(L, x)
  OBVIOUS
<1>2. Parent(L, x) \notin Moved(L, {x})
  BY <1>1, SiblingsMoved
<1>3. x \notin DescendantsOf(L, {x})
  BY <1>2, InsideTree DEF Moved
<1>4. HasField(L, x)
  BY LayoutFacts
<1>5. DraggedBy(L, x) = {x} \union Descendants(L, x) /\ DraggedBy(L, x) = {x} \union DescendantsOf(L, {x})
  BY <1>4, DraggedIs DEF DraggedBy, Moved
<1>6. x \notin Descendants(L, x)
  BY <1>3 DEF Descendants
<1>7. Descendants(L, x) = DescendantsOf(L, {x})
  BY <1>3, <1>5, <1>6
<1> QED BY <1>2, <1>3, <1>7

(* What a copy takes along. *)
SubtreeOf(L, x) == << Find(L, x) >> \o Only(L, Descendants(L, x))
LEMMA SubtreeIs ==
  ASSUME NEW L \in Layouts, Tree(L), NEW x \in Ids(L)
  PROVE  /\ SubtreeOf(L, x) \in Layouts /\ Ids(SubtreeOf(L, x)) = Moved(L, {x})
         /\ \A y \in Moved(L, {x}) : Find(SubtreeOf(L, x), y) = Find(L, y)
         /\ 1 \in DOMAIN SubtreeOf(L, x) /\ SubtreeOf(L, x)[1] = Find(L, x)
<1> DEFINE f == Find(L, x)
           A == << f >>
           D == Descendants(L, x)
           B == Only(L, D)
           S == A \o B
<1>1. f \in Fields /\ f.id = x
  BY FindIsField
<1>2. x \notin D /\ D = DescendantsOf(L, {x}) /\ D \subseteq Ids(L)
  BY NotInItself, InsideTree
<1>3. A \in Layouts /\ Ids(A) = {x} /\ Find(A, x) = f
  <2>1. A \in Seq(Fields) /\ OneEach(A) /\ DOMAIN A = {1} /\ A[1] = f
    BY <1>1 DEF OneEach
  <2>2. A \in Layouts
    BY <2>1 DEF Layouts
  <2>3. Ids(A) = {x}
    BY <1>1, <2>1 DEF Ids
  <2>4. Find(A, A[1].id) = A[1]
    BY <2>1, <2>2, LayoutFacts
  <2> QED BY <1>1, <2>1, <2>2, <2>3, <2>4
<1>4. IsPart(L, B, D)
  BY OnlyIs
<1>5. B \in Layouts /\ Ids(B) = D /\ \A y \in D : Find(B, y) = Find(L, y)
  BY <1>2, <1>4 DEF IsPart
<1> HIDE DEF B
<1>6. IsJoin(A, B, S)
  BY <1>2, <1>3, <1>5, JoinIs
<1>7. 1 \in DOMAIN S /\ S[1] = f
  <2>1. A \in Seq(Fields) /\ B \in Seq(Fields) /\ Len(A) = 1 /\ A[1] = f
    BY <1>1, <1>5 DEF Layouts
  <2>2. Len(B) \in Nat
    BY <2>1
  <2> HIDE DEF A
  <2>3. Len(S) = Len(A) + Len(B) /\ S \in Seq(Fields) /\ S[1] = A[1]
    <3>1. /\ S \in Seq(Fields) /\ Len(S) = Len(A) + Len(B)
          /\ \A i \in 1 .. Len(A) + Len(B) : S[i] = IF i <= Len(A) THEN A[i] ELSE B[i - Len(A)]
      BY <2>1, ConcatProperties
    <3>2. 1 \in 1 .. Len(A) + Len(B) /\ 1 <= Len(A)
      BY <2>1, <2>2
    <3> HIDE DEF S
    <3> QED BY <3>1, <3>2
  <2>4. DOMAIN S = 1 .. Len(S)
    BY <2>3
  <2> QED BY <2>1, <2>2, <2>3, <2>4
<1>8. /\ S \in Layouts /\ Ids(S) = {x} \union D
      /\ \A y \in Ids(S) : Find(S, y) = Find(L, y)
  BY <1>3, <1>5, <1>6 DEF IsJoin
<1>9. SubtreeOf(L, x) = S
  BY DEF SubtreeOf, B
<1>10. Moved(L, {x}) = {x} \union D
  BY <1>2 DEF Moved
<1> HIDE DEF S, D
<1> QED BY <1>7, <1>8, <1>9, <1>10

(* The copies have new names and keep to each other. *)
Names(L, U, fresh) ==
    /\ fresh \in [U -> FieldIds \ Ids(L)]
    /\ \A y, z \in U : fresh[y] = fresh[z] => y = z
CopyOf(f, fresh, U) ==
    [f EXCEPT !.id = IF f.id \in U THEN fresh[f.id] ELSE f.id,
              !.parent = IF f.parent \in U THEN fresh[f.parent] ELSE f.parent]
IsCopied(L, U, C, fresh) ==
    /\ C \in Layouts /\ Ids(C) = {fresh[y] : y \in U}
    /\ \A y \in U : Find(C, fresh[y]) = CopyOf(Find(L, y), fresh, U)
LEMMA RenamedIs ==
  ASSUME NEW L, NEW S \in Layouts, NEW fresh, Names(L, Ids(S), fresh)
  PROVE  /\ IsCopied(S, Ids(S), Renamed(S, fresh), fresh)
         /\ \A i \in DOMAIN S : Renamed(S, fresh)[i] = CopyOf(S[i], fresh, Ids(S))
<1> DEFINE U == Ids(S)
           G == [i \in DOMAIN S |-> CopyOf(S[i], fresh, U)]
<1>1. Renamed(S, fresh) = << >> \o G
  BY DEF Renamed, Each, CopyOf
<1>2. \A i \in DOMAIN S : S[i] \in Fields /\ S[i].id \in U /\ Find(S, S[i].id) = S[i]
  BY LayoutFacts
<1>3. ASSUME NEW i \in DOMAIN S
      PROVE  G[i] \in Fields /\ G[i].id = fresh[S[i].id]
  <2>1. S[i] \in Fields /\ S[i].id \in U
    BY <1>2
  <2>2. \A y \in U : fresh[y] \in FieldIds
    BY DEF Names
  <2> QED BY <2>1, <2>2 DEF CopyOf, Fields
<1>4. DOMAIN G = DOMAIN S /\ G = [i \in DOMAIN G |-> G[i]]
      /\ \A i \in DOMAIN S : G[i] = CopyOf(S[i], fresh, U)
  OBVIOUS
<1> HIDE DEF G, U
<1>5. G \in Seq(Fields)
  <2>1. DOMAIN G = 1 .. Len(S) /\ Len(S) \in Nat
    BY <1>4, LayoutFacts
  <2> QED BY <1>3, <1>4, <2>1
<1>6. << >> \o G = G
  BY <1>5, EmptyConcat
<1>7. OneEach(G)
  <2> SUFFICES ASSUME NEW i \in DOMAIN S, NEW j \in DOMAIN S, G[i].id = G[j].id PROVE i = j
    BY <1>4 DEF OneEach
  <2>1. S[i].id = S[j].id
    BY <1>2, <1>3 DEF Names, U
  <2> QED BY <2>1 DEF Layouts, OneEach
<1>8. G \in Layouts
  BY <1>5, <1>7 DEF Layouts
<1>9. Ids(G) = {fresh[y] : y \in U}
  <2>1. Ids(G) = {fresh[S[i].id] : i \in DOMAIN S}
    BY <1>3, <1>4 DEF Ids
  <2> QED BY <2>1 DEF Ids, U
<1>10. ASSUME NEW y \in U PROVE Find(G, fresh[y]) = CopyOf(Find(S, y), fresh, U)
  <2>1. PICK i \in DOMAIN S : S[i].id = y /\ Find(S, y) = S[i]
    BY LayoutFacts DEF U
  <2>2. Find(G, G[i].id) = G[i] /\ G[i].id = fresh[y]
    BY <1>3, <1>4, <1>8, <2>1, LayoutFacts
  <2> QED BY <1>4, <2>1, <2>2
<1> QED BY <1>1, <1>4, <1>6, <1>8, <1>9, <1>10 DEF IsCopied, U

(* placePastedFields: the copies where they are pasted. *)
IsPasted(L, U, M, fresh, dr, dc) ==
    /\ M \in Layouts /\ Ids(M) = {fresh[y] : y \in U}
    /\ \A y \in U :
        /\ Find(M, fresh[y]).type = Find(L, y).type
        /\ Find(M, fresh[y]).rowSpan = Find(L, y).rowSpan
        /\ Find(M, fresh[y]).colSpan = Find(L, y).colSpan
        /\ Find(M, fresh[y]).row = Find(L, y).row + dr
        /\ Find(M, fresh[y]).column = Find(L, y).column + dc
        /\ Parent(M, fresh[y]) = IF Parent(L, y) \in U THEN fresh[Parent(L, y)] ELSE Parent(L, y)

(* The copies where they are pasted. *)
PutCopy(f, C, root, place, rowSpan, colSpan) ==
    [f EXCEPT !.row = @ + place.row - root.row,
              !.column = IF TypeOf(C, f.parent) = Subform THEN @
                         ELSE @ + place.column - root.column,
              !.rowSpan = IF f.id = root.id THEN rowSpan ELSE @,
              !.colSpan = IF f.id = root.id THEN colSpan ELSE @]
PutCopies(C, root, place, rowSpan, colSpan) ==
    Each(C, LAMBDA f : PutCopy(f, C, root, place, rowSpan, colSpan))

LEMMA PutCopyIs ==
  ASSUME NEW C \in Layouts, NEW f \in Fields, NEW root \in Fields,
         NEW place \in [row : Int, column : Int],
         f.id = root.id => f = root
  PROVE  LET g == PutCopy(f, C, root, place, root.rowSpan, root.colSpan)
         IN  /\ g \in Fields /\ g.id = f.id /\ g.type = f.type /\ g.parent = f.parent
             /\ g.row = f.row + (place.row - root.row)
             /\ g.column = f.column + (place.column - root.column)
             /\ g.rowSpan = f.rowSpan /\ g.colSpan = f.colSpan
<1>1. TypeOf(C, f.parent) # Subform
  <2>1. CASE f.parent \in Ids(C)
    <3>1. TypeOf(C, f.parent) = Find(C, f.parent).type /\ Find(C, f.parent) \in Fields
      BY <2>1, LayoutFacts, FindIsField
    <3> QED BY <3>1 DEF Fields, PlainTypes, Text, Area, Group, RichText, Subform
  <2>2. CASE f.parent \notin Ids(C)
    BY <2>2, LayoutFacts DEF Subform
  <2> QED BY <2>1, <2>2
<1> DEFINE row == f.row + place.row - root.row
           column == f.column + place.column - root.column
           g == PutCopy(f, C, root, place, root.rowSpan, root.colSpan)
<1>2. /\ f.row \in Int /\ f.column \in Int /\ root.row \in Int /\ root.column \in Int
      /\ place.row \in Int /\ place.column \in Int
  BY DEF Fields
<1>3. /\ row = f.row + (place.row - root.row) /\ column = f.column + (place.column - root.column)
      /\ row \in Int /\ column \in Int
  BY <1>2
<1> HIDE DEF row, column
<1>4. g = [f EXCEPT !.row = row, !.column = column, !.rowSpan = f.rowSpan, !.colSpan = f.colSpan]
  BY <1>1 DEF PutCopy, row, column
<1>5. /\ g \in Fields /\ g.id = f.id /\ g.type = f.type /\ g.parent = f.parent
      /\ g.row = row /\ g.column = column /\ g.rowSpan = f.rowSpan /\ g.colSpan = f.colSpan
  BY <1>3, <1>4 DEF Fields
<1> QED BY <1>3, <1>5

LEMMA PutCopiesIs ==
  ASSUME NEW L \in Layouts, NEW U \in SUBSET Ids(L), NEW C, NEW fresh,
         IsCopied(L, U, C, fresh), NEW x \in U, NEW root, root = Find(C, fresh[x]),
         NEW place \in [row : Int, column : Int]
  PROVE  IsPasted(L, U, PutCopies(C, root, place, root.rowSpan, root.colSpan), fresh,
                  place.row - Find(L, x).row, place.column - Find(L, x).column)
<1> DEFINE Op(f) == PutCopy(f, C, root, place, root.rowSpan, root.colSpan)
           G == [i \in DOMAIN C |-> Op(C[i])]
<1>1. PutCopies(C, root, place, root.rowSpan, root.colSpan) = << >> \o G
  BY DEF PutCopies, Each
<1>2. /\ C \in Layouts /\ Ids(C) = {fresh[y] : y \in U}
      /\ \A y \in U : Find(C, fresh[y]) = CopyOf(Find(L, y), fresh, U)
  BY DEF IsCopied
<1>3. root \in Fields /\ root.id = fresh[x]
  BY <1>2, FindIsField
<1>4. ASSUME NEW i \in DOMAIN C PROVE C[i] \in Fields /\ (C[i].id = root.id => C[i] = root)
  BY <1>2, <1>3, LayoutFacts
<1>5. ASSUME NEW i \in DOMAIN C
      PROVE  LET f == C[i]
                 g == Op(f)
             IN  /\ g \in Fields /\ g.id = f.id /\ g.type = f.type /\ g.parent = f.parent
                 /\ g.row = f.row + (place.row - root.row)
                 /\ g.column = f.column + (place.column - root.column)
                 /\ g.rowSpan = f.rowSpan /\ g.colSpan = f.colSpan
  <2> DEFINE f == C[i]
  <2>1. f \in Fields /\ (f.id = root.id => f = root)
    BY <1>4
  <2> HIDE DEF f
  <2>2. LET g == PutCopy(f, C, root, place, root.rowSpan, root.colSpan)
        IN  /\ g \in Fields /\ g.id = f.id /\ g.type = f.type /\ g.parent = f.parent
            /\ g.row = f.row + (place.row - root.row)
            /\ g.column = f.column + (place.column - root.column)
            /\ g.rowSpan = f.rowSpan /\ g.colSpan = f.colSpan
    <3> HIDE DEF G, Op
    <3>1. /\ C \in Layouts /\ f \in Fields /\ root \in Fields
          /\ place \in [row : Int, column : Int] /\ (f.id = root.id => f = root)
      BY <1>2, <1>3, <2>1
    <3> QED BY ONLY <3>1, PutCopyIs
  <2> QED BY <2>2 DEF f
<1>6. DOMAIN G = DOMAIN C /\ G = [i \in DOMAIN G |-> G[i]] /\ \A i \in DOMAIN C : G[i] = Op(C[i])
  OBVIOUS
<1> HIDE DEF G, Op
<1>7. /\ << >> \o G = G /\ G \in Layouts /\ Ids(G) = Ids(C)
      /\ \A i \in DOMAIN C : Find(G, C[i].id) = G[i]
  BY <1>2, <1>5, <1>6, Mapped
<1>8. root.row = Find(L, x).row /\ root.column = Find(L, x).column
  <2>1. Find(L, x) \in Fields
    BY FindIsField
  <2> QED BY <1>2, <2>1 DEF CopyOf, Fields
<1>9. ASSUME NEW y \in U
      PROVE  /\ Find(G, fresh[y]).type = Find(L, y).type
             /\ Find(G, fresh[y]).rowSpan = Find(L, y).rowSpan
             /\ Find(G, fresh[y]).colSpan = Find(L, y).colSpan
             /\ Find(G, fresh[y]).row = Find(L, y).row + (place.row - root.row)
             /\ Find(G, fresh[y]).column = Find(L, y).column + (place.column - root.column)
             /\ Parent(G, fresh[y]) = IF Parent(L, y) \in U THEN fresh[Parent(L, y)] ELSE Parent(L, y)
  <2>1. fresh[y] \in Ids(C)
    BY <1>2
  <2>2. PICK i \in DOMAIN C : C[i].id = fresh[y] /\ Find(C, fresh[y]) = C[i]
    BY <1>2, <2>1, LayoutFacts
  <2>3. C[i] = CopyOf(Find(L, y), fresh, U) /\ Find(G, fresh[y]) = Op(C[i])
    BY <1>2, <1>6, <1>7, <2>2
  <2>4. Find(L, y) \in Fields
    BY FindIsField
  <2>5. /\ C[i].type = Find(L, y).type /\ C[i].rowSpan = Find(L, y).rowSpan
        /\ C[i].colSpan = Find(L, y).colSpan /\ C[i].row = Find(L, y).row
        /\ C[i].column = Find(L, y).column
        /\ C[i].parent = IF Parent(L, y) \in U THEN fresh[Parent(L, y)] ELSE Parent(L, y)
    BY <2>3, <2>4 DEF CopyOf, Fields, Parent
  <2> QED BY <1>5, <2>3, <2>5 DEF Parent
<1> QED BY <1>1, <1>2, <1>7, <1>8, <1>9 DEF IsPasted

(* A subtree of a layout K, where it was copied, is put into a grid of L, *)
(* under new names.                                                        *)
Grafts(L, K, x, fresh, M, J, dr, dc) ==
    LET U == Moved(K, {x})
        p == Parent(K, x)
        g == Find(M, fresh[x])
    IN  /\ Good(L) /\ Good(K) /\ x \in Ids(K) /\ dr \in Int /\ dc \in Int
        /\ Names(L, U, fresh) /\ IsPasted(K, U, M, fresh, dr, dc) /\ IsJoin(L, M, J)
        /\ IsGrid(L, p) /\ Fits(L, {}, g, p)
        /\ g.type = RichText => /\ g.column = ScopeColumn(L, p)
                                /\ g.colSpan = ScopeColumns(L, p)
(* What the layout then is. *)
Grafted(L, K, x, fresh, J, dr, dc) ==
    LET U == Moved(K, {x})
    IN  /\ L \in Layouts /\ Tree(L) /\ K \in Layouts /\ Tree(K) /\ J \in Layouts
        /\ x \in U /\ U \subseteq Ids(K)
        /\ Parent(K, x) \notin U /\ Root \notin U /\ IsGrid(L, Parent(K, x))
        /\ \A y \in U \ {x} : Parent(K, y) \in U
        /\ \A y \in U : fresh[y] \notin Ids(L) /\ fresh[y] # Root
        /\ \A y, z \in U : fresh[y] = fresh[z] => y = z
        /\ Ids(J) = Ids(L) \union {fresh[y] : y \in U}
        /\ \A y \in Ids(L) : Find(J, y) = Find(L, y)
        /\ \A y \in U : /\ Find(J, fresh[y]).type = Find(K, y).type
                        /\ Find(J, fresh[y]).rowSpan = Find(K, y).rowSpan
                        /\ Find(J, fresh[y]).colSpan = Find(K, y).colSpan
                        /\ Find(J, fresh[y]).row = Find(K, y).row + dr
                        /\ Find(J, fresh[y]).column = Find(K, y).column + dc
        /\ \A y \in U \ {x} : Parent(J, fresh[y]) = fresh[Parent(K, y)]
        /\ Parent(J, fresh[x]) = Parent(K, x)
LEMMA GraftIs ==
  ASSUME NEW L, NEW K, NEW x, NEW fresh, NEW M, NEW J, NEW dr, NEW dc,
         Grafts(L, K, x, fresh, M, J, dr, dc)
  PROVE  Grafted(L, K, x, fresh, J, dr, dc)
<1> DEFINE U == Moved(K, {x})
           p == Parent(K, x)
<1>1. /\ L \in Layouts /\ Tree(L) /\ K \in Layouts /\ Tree(K) /\ x \in Ids(K)
      /\ IsGrid(L, p)
  BY DEF Grafts, Good, Sound
<1>2. Names(L, U, fresh) /\ IsPasted(K, U, M, fresh, dr, dc) /\ IsJoin(L, M, J)
  BY DEF Grafts
<1>3. /\ U \subseteq Ids(K) /\ x \in U /\ Root \notin U
      /\ \A y \in U : y = x \/ Parent(K, y) \in U
  BY <1>1, MovedTree
<1>4. p \notin U
  BY <1>1, NotInItself
<1> HIDE DEF U
<1>5. \A y \in U : fresh[y] \notin Ids(L) /\ fresh[y] \in FieldIds
  BY <1>2 DEF Names
<1>6. \A y, z \in U : fresh[y] = fresh[z] => y = z
  BY <1>2 DEF Names
<1>7. \A y \in U : fresh[y] # Root
  BY <1>5, DesignerAssumption
<1>8. /\ J \in Layouts /\ Ids(J) = Ids(L) \union {fresh[y] : y \in U}
      /\ \A y \in Ids(L) : Find(J, y) = Find(L, y)
      /\ \A y \in U : Find(J, fresh[y]) = Find(M, fresh[y])
  BY <1>2 DEF IsPasted, IsJoin
<1>9. \A y \in U : /\ Find(J, fresh[y]).type = Find(K, y).type
                   /\ Find(J, fresh[y]).rowSpan = Find(K, y).rowSpan
                   /\ Find(J, fresh[y]).colSpan = Find(K, y).colSpan
                   /\ Find(J, fresh[y]).row = Find(K, y).row + dr
                   /\ Find(J, fresh[y]).column = Find(K, y).column + dc
                   /\ Parent(J, fresh[y]) = IF Parent(K, y) \in U THEN fresh[Parent(K, y)] ELSE Parent(K, y)
  BY <1>2, <1>8 DEF IsPasted, Parent
<1>10. /\ \A y \in U \ {x} : Parent(J, fresh[y]) = fresh[Parent(K, y)]
       /\ Parent(J, fresh[x]) = Parent(K, x)
       /\ \A y \in U \ {x} : Parent(K, y) \in U
  BY <1>3, <1>4, <1>9
<1>11. \A y \in U : /\ Find(J, fresh[y]).type = Find(K, y).type
                    /\ Find(J, fresh[y]).rowSpan = Find(K, y).rowSpan
                    /\ Find(J, fresh[y]).colSpan = Find(K, y).colSpan
                    /\ Find(J, fresh[y]).row = Find(K, y).row + dr
                    /\ Find(J, fresh[y]).column = Find(K, y).column + dc
  BY <1>9
<1> QED BY <1>1, <1>3, <1>4, <1>5, <1>6, <1>7, <1>8, <1>10, <1>11 DEF Grafted, U

LEMMA GraftedTree ==
  ASSUME NEW L, NEW K, NEW x, NEW fresh, NEW J, NEW dr, NEW dc, Grafted(L, K, x, fresh, J, dr, dc)
  PROVE  Tree(J)
<1> DEFINE U == Moved(K, {x})
<1>1. /\ L \in Layouts /\ Tree(L) /\ Tree(K) /\ J \in Layouts /\ x \in U /\ U \subseteq Ids(K)
      /\ Parent(K, x) \notin U /\ Root \notin U /\ IsGrid(L, Parent(K, x))
      /\ \A y \in U \ {x} : Parent(K, y) \in U
      /\ \A y \in U : fresh[y] \notin Ids(L) /\ fresh[y] # Root
      /\ \A y, z \in U : fresh[y] = fresh[z] => y = z
      /\ Ids(J) = Ids(L) \union {fresh[y] : y \in U}
      /\ \A y \in Ids(L) : Find(J, y) = Find(L, y)
      /\ \A y \in U : Find(J, fresh[y]).type = Find(K, y).type
      /\ \A y \in U \ {x} : Parent(J, fresh[y]) = fresh[Parent(K, y)]
      /\ Parent(J, fresh[x]) = Parent(K, x)
  BY DEF Grafted
<1> HIDE DEF U
<1>2. \A y \in Ids(L) : Parent(J, y) = Parent(L, y)
  BY <1>1 DEF Parent
<1>3. /\ \A y \in Ids(L) : Parent(L, y) # Root => Parent(L, y) \in Ids(L) /\ Find(L, Parent(L, y)).type = Group
      /\ \A y \in Ids(K) : Parent(K, y) # Root => Find(K, Parent(K, y)).type = Group
      /\ Parent(K, x) # Root => Parent(K, x) \in Ids(L) /\ Find(L, Parent(K, x)).type = Group
  BY <1>1 DEF Tree, IsGrid
<1>4. ASSUME NEW a \in Ids(J), Parent(J, a) # Root
      PROVE  Parent(J, a) \in Ids(J) /\ Find(J, Parent(J, a)).type = Group
  <2>1. CASE a \in Ids(L)
    BY <1>1, <1>2, <1>3, <1>4, <2>1
  <2>2. CASE a \notin Ids(L)
    <3>1. PICK y \in U : a = fresh[y]
      BY <1>1, <2>2
    <3>2. CASE y = x
      BY <1>1, <1>3, <1>4, <3>1, <3>2
    <3>3. CASE y # x
      <4>1. Parent(J, a) = fresh[Parent(K, y)] /\ Parent(K, y) \in U /\ y \in Ids(K)
        BY <1>1, <3>1, <3>3
      <4>2. Find(K, Parent(K, y)).type = Group
        BY <1>1, <1>3, <4>1
      <4> QED BY <1>1, <4>1, <4>2
    <3> QED BY <3>2, <3>3
  <2> QED BY <2>1, <2>2
<1>5. ASSUME NEW S \in SUBSET Ids(J), S # {}
      PROVE  \E a \in S : Parent(J, a) \notin S
  <2>1. CASE S \cap Ids(L) # {}
    <3>1. PICK a \in S \cap Ids(L) : Parent(L, a) \notin S \cap Ids(L)
      <4> DEFINE V == S \cap Ids(L)
      <4>1. V \in SUBSET Ids(L) /\ V # {}
        BY <2>1
      <4> HIDE DEF V
      <4>2. \E a \in V : Parent(L, a) \notin V
        BY <1>1, <4>1 DEF Tree
      <4> QED BY <4>2 DEF V
    <3>2. Root \notin Ids(J)
      BY <1>1, RootIsNoId
    <3>3. Parent(J, a) \notin S
      BY <1>2, <1>3, <3>1, <3>2
    <3> QED BY <3>1, <3>3
  <2>2. CASE S \cap Ids(L) = {}
    <3> DEFINE V == {y \in U : fresh[y] \in S}
    <3>1. V \in SUBSET Ids(K) /\ V # {}
      BY <1>1, <1>5, <2>2
    <3>2. \E y \in V : Parent(K, y) \notin V
      <4> HIDE DEF V
      <4> QED BY <1>1, <3>1 DEF Tree
    <3>3. PICK y \in V : Parent(K, y) \notin V
      BY <3>2
    <3>4. CASE y = x
      <4>1. Parent(J, fresh[x]) = Root \/ Parent(J, fresh[x]) \in Ids(L)
        BY <1>1, <1>3
      <4>2. Parent(J, fresh[x]) \notin S
        BY <1>1, <2>2, <4>1, RootIsNoId
      <4> QED BY <3>3, <3>4, <4>2
    <3>5. CASE y # x
      <4>1. Parent(J, fresh[y]) = fresh[Parent(K, y)] /\ Parent(K, y) \in U
        BY <1>1, <3>3, <3>5
      <4> QED BY <3>3, <4>1
    <3> QED BY <3>4, <3>5
  <2> QED BY <2>1, <2>2
<1> QED BY <1>4, <1>5 DEF Tree

LEMMA GraftedSound ==
  ASSUME NEW L, Good(L), NEW K, Good(K), NEW x, NEW fresh, NEW J, NEW dr \in Int, NEW dc \in Int,
         Grafted(L, K, x, fresh, J, dr, dc)
  PROVE  /\ Sound(J, {fresh[x]}, {})
         /\ \A y \in Ids(J) \ {fresh[x]} : Fills(J, y)
<1> DEFINE U == Moved(K, {x})
           r == fresh[x]
<1>0. Tree(J)
  BY GraftedTree
<1>1. /\ L \in Layouts /\ Tree(L) /\ K \in Layouts /\ Tree(K) /\ J \in Layouts
      /\ x \in U /\ U \subseteq Ids(K) /\ Root \notin U
      /\ \A y \in U \ {x} : Parent(K, y) \in U
      /\ \A y \in U : fresh[y] \notin Ids(L) /\ fresh[y] # Root
      /\ \A y, z \in U : fresh[y] = fresh[z] => y = z
      /\ Ids(J) = Ids(L) \union {fresh[y] : y \in U}
      /\ \A y \in Ids(L) : Find(J, y) = Find(L, y)
      /\ \A y \in U \ {x} : Parent(J, fresh[y]) = fresh[Parent(K, y)]
  BY DEF Grafted
<1>2. \A y \in U : /\ Find(J, fresh[y]).type = Find(K, y).type
                   /\ Find(J, fresh[y]).rowSpan = Find(K, y).rowSpan
                   /\ Find(J, fresh[y]).colSpan = Find(K, y).colSpan
                   /\ Find(J, fresh[y]).row = Find(K, y).row + dr
                   /\ Find(J, fresh[y]).column = Find(K, y).column + dc
  BY DEF Grafted
<1>3. /\ \A y \in Ids(L) : Scoped(L, y) /\ Fills(L, y)
      /\ \A y, z \in Ids(L) : y # z /\ Parent(L, y) = Parent(L, z) => ~Clash(Find(L, y), Find(L, z))
      /\ \A y \in Ids(K) : Scoped(K, y) /\ Fills(K, y)
      /\ \A y, z \in Ids(K) : y # z /\ Parent(K, y) = Parent(K, z) => ~Clash(Find(K, y), Find(K, z))
  BY DEF Good, Sound, Filled
<1> HIDE DEF U
<1>4. \A y \in Ids(L) : Parent(J, y) = Parent(L, y) /\ Parent(L, y) \in Ids(L) \union {Root}
  BY <1>1, ScopeFacts DEF Parent
<1>5. ASSUME NEW y \in Ids(L) PROVE Scoped(J, y) /\ Fills(J, y)
  <2> DEFINE q == Parent(L, y)
  <2>1. q \in Ids(L) => Find(J, q) = Find(L, q)
    BY <1>1
  <2>2. Find(J, y) = Find(L, y) /\ y \in Ids(L) \cap Ids(J)
    BY <1>1
  <2> HIDE DEF q
  <2>3. (Scoped(L, y) => Scoped(J, y)) /\ (Fills(L, y) => Fills(J, y))
    BY <1>0, <1>1, <2>1, <2>2, ScopedAlike DEF q
  <2> QED BY <1>3, <2>3
<1>6. ASSUME NEW y \in U \ {x} PROVE Scoped(J, fresh[y]) /\ Fills(J, fresh[y])
  <2> DEFINE q == Parent(K, y)
             a == fresh[y]
             b == fresh[q]
             f == Find(K, y)
             g == Find(J, a)
             h == Find(K, q)
             k == Find(J, b)
  <2>1. q \in U /\ q \in Ids(K) /\ y \in Ids(K) /\ a \in Ids(J) /\ b \in Ids(J) /\ Parent(J, a) = b
        /\ q # Root /\ b # Root
    BY <1>1
  <2>2. f \in Fields /\ h \in Fields /\ g \in Fields /\ k \in Fields
    BY <1>1, <2>1, FindIsField
  <2>3. /\ ScopeRow(K, q) = h.row /\ ScopeColumn(K, q) = h.column /\ ScopeColumns(K, q) = h.colSpan
    BY <1>1, <2>1, ScopeFacts DEF ScopeRow
  <2>4. /\ ScopeRow(J, b) = k.row /\ ScopeColumn(J, b) = k.column /\ ScopeColumns(J, b) = k.colSpan
    BY <1>0, <1>1, <2>1, ScopeFacts DEF ScopeRow
  <2>5. /\ g.type = f.type /\ g.colSpan = f.colSpan /\ g.row = f.row + dr /\ g.column = f.column + dc
        /\ k.colSpan = h.colSpan /\ k.row = h.row + dr /\ k.column = h.column + dc
    BY <1>2, <2>1
  <2>6. /\ f.row \in Int /\ f.column \in Int /\ f.colSpan \in Int
        /\ h.row \in Int /\ h.column \in Int /\ h.colSpan \in Int
    BY <2>2 DEF Fields
  <2>7. Scoped(K, y) /\ Fills(K, y)
    BY <1>3, <2>1
  <2> HIDE DEF f, g, h, k
  <2>8. Scoped(J, a)
    <3>1. /\ f.row >= h.row
          /\ f.type # RichText => f.column >= h.column /\ f.column + f.colSpan <= h.column + h.colSpan
      BY <2>3, <2>7 DEF Scoped, Right, f
    <3>2. /\ g.row >= k.row
          /\ g.type # RichText => g.column >= k.column /\ g.column + g.colSpan <= k.column + k.colSpan
      BY <2>5, <2>6, <3>1
    <3> QED BY <2>1, <2>4, <3>2 DEF Scoped, Right, g
  <2>9. Fills(J, a)
    <3>1. f.type = RichText => f.column = h.column /\ f.colSpan = h.colSpan
      BY <2>3, <2>7 DEF Fills, f
    <3>2. g.type = RichText => g.column = k.column /\ g.colSpan = k.colSpan
      BY <2>5, <3>1
    <3> QED BY <2>1, <2>4, <3>2 DEF Fills, g
  <2> QED BY <2>8, <2>9
<1>7. ASSUME NEW a \in Ids(J) \ {r} PROVE Scoped(J, a) /\ Fills(J, a)
  <2>1. CASE a \in Ids(L)
    BY <1>5, <2>1
  <2>2. CASE a \notin Ids(L)
    <3>1. PICK y \in U : a = fresh[y]
      BY <1>1, <2>2
    <3> QED BY <1>6, <1>7, <3>1
  <2> QED BY <2>1, <2>2
<1>8. ASSUME NEW a \in Ids(L), NEW z \in U \ {x}
      PROVE  Parent(J, a) # Parent(J, fresh[z])
  BY <1>1, <1>4
<1>9. ASSUME NEW a \in Ids(J) \ {r}, NEW b \in Ids(J) \ {r}, a # b, Parent(J, a) = Parent(J, b)
      PROVE  ~Clash(Find(J, a), Find(J, b))
  <2>1. CASE a \in Ids(L) /\ b \in Ids(L)
    BY <1>1, <1>3, <1>4, <1>9, <2>1
  <2>2. CASE a \notin Ids(L) /\ b \notin Ids(L)
    <3>1. PICK y \in U \ {x} : a = fresh[y]
      BY <1>1, <2>2
    <3>2. PICK z \in U \ {x} : b = fresh[z]
      BY <1>1, <2>2
    <3>3. y \in Ids(K) /\ z \in Ids(K) /\ y # z /\ Parent(K, y) = Parent(K, z)
      BY <1>1, <1>9, <3>1, <3>2
    <3>4. ~Clash(Find(K, y), Find(K, z))
      BY <1>3, <3>3
    <3>5. /\ Find(K, y) \in Fields /\ Find(K, z) \in Fields
          /\ Find(J, a) \in Fields /\ Find(J, b) \in Fields
      BY <1>1, <3>3, FindIsField
    <3>6. /\ Find(J, a).type = Find(K, y).type
          /\ Find(J, a).rowSpan = Find(K, y).rowSpan
          /\ Find(J, a).colSpan = Find(K, y).colSpan
          /\ Find(J, a).row = Find(K, y).row + dr
          /\ Find(J, a).column = Find(K, y).column + dc
      BY <1>2, <3>1
    <3>7. /\ Find(J, b).type = Find(K, z).type
          /\ Find(J, b).rowSpan = Find(K, z).rowSpan
          /\ Find(J, b).colSpan = Find(K, z).colSpan
          /\ Find(J, b).row = Find(K, z).row + dr
          /\ Find(J, b).column = Find(K, z).column + dc
      BY <1>2, <3>2
    <3> QED BY <3>4, <3>5, <3>6, <3>7, ClashKept
  <2>3. CASE a \in Ids(L) /\ b \notin Ids(L)
    <3>1. PICK z \in U \ {x} : b = fresh[z]
      BY <1>1, <2>3
    <3> QED BY <1>8, <1>9, <2>3, <3>1
  <2>4. CASE a \notin Ids(L) /\ b \in Ids(L)
    <3>1. PICK z \in U \ {x} : a = fresh[z]
      BY <1>1, <2>4
    <3> QED BY <1>8, <1>9, <2>4, <3>1
  <2> QED BY <2>1, <2>2, <2>3, <2>4
<1>10. Sound(J, {r}, {})
  BY <1>0, <1>1, <1>7, <1>9 DEF Sound
<1> QED BY <1>7, <1>10

LEMMA GraftGood ==
  ASSUME NEW L, NEW K, NEW x, NEW fresh, NEW M, NEW J, NEW dr, NEW dc, Grafts(L, K, x, fresh, M, J, dr, dc)
  PROVE  Good(J)
<1> DEFINE p == Parent(K, x)
           r == fresh[x]
           U == Moved(K, {x})
           g == Find(M, r)
<1>1. /\ Good(L) /\ Good(K) /\ x \in Ids(K) /\ dr \in Int /\ dc \in Int /\ IsGrid(L, p) /\ Fits(L, {}, g, p)
      /\ g.type = RichText => /\ g.column = ScopeColumn(L, p)
                              /\ g.colSpan = ScopeColumns(L, p)
      /\ IsPasted(K, U, M, fresh, dr, dc) /\ IsJoin(L, M, J)
  BY DEF Grafts
<1>2. Grafted(L, K, x, fresh, J, dr, dc)
  BY GraftIs
<1>3. /\ L \in Layouts /\ Tree(L) /\ J \in Layouts /\ x \in U
      /\ \A y \in U \ {x} : Parent(K, y) \in U
      /\ \A y \in U : fresh[y] \notin Ids(L) /\ fresh[y] # Root
      /\ Ids(J) = Ids(L) \union {fresh[y] : y \in U}
      /\ \A y \in Ids(L) : Find(J, y) = Find(L, y)
      /\ \A y \in U \ {x} : Parent(J, fresh[y]) = fresh[Parent(K, y)]
      /\ Parent(J, r) = p
  BY <1>2 DEF Grafted
<1>4. Sound(J, {r}, {}) /\ \A y \in Ids(J) \ {r} : Fills(J, y)
  BY <1>1, <1>2, GraftedSound
<1>5. Tree(J)
  BY <1>2, GraftedTree
<1>6. r \in Ids(J) /\ Find(J, r) = g
  BY <1>1, <1>3 DEF IsJoin, IsPasted
<1> HIDE DEF U, g
<1>7. p = Root \/ p \in Ids(L)
  BY <1>1, <1>3, GridFacts
<1>8. /\ ScopeRow(J, p) = ScopeRow(L, p) /\ ScopeColumn(J, p) = ScopeColumn(L, p)
      /\ ScopeColumns(J, p) = ScopeColumns(L, p)
  <2>1. /\ ScopeColumn(L, p) = IF p = Root THEN 0 ELSE Find(L, p).column
        /\ ScopeColumns(L, p) = IF p = Root THEN COLUMN_COUNT ELSE Find(L, p).colSpan
    BY <1>1, <1>3, <1>7, GridFacts
  <2>2. /\ ScopeColumn(J, p) = IF p = Root THEN 0 ELSE Find(J, p).column
        /\ ScopeColumns(J, p) = IF p = Root THEN COLUMN_COUNT ELSE Find(J, p).colSpan
    BY <1>3, <1>5, <1>6, ScopeFacts
  <2> QED BY <1>3, <1>7, <2>1, <2>2 DEF ScopeRow
<1>9. Fits(J, {r}, g, p)
  <2>1. ASSUME NEW y \in Ids(J) \ {r}, Parent(J, y) = p PROVE ~Overlap(g, Find(J, y))
    <3>1. y \in Ids(L)
      <4>1. SUFFICES ASSUME y \notin Ids(L) PROVE FALSE
        OBVIOUS
      <4>2. PICK z \in U : y = fresh[z]
        BY <1>3, <4>1
      <4>3. z # x /\ Parent(J, y) = fresh[Parent(K, z)] /\ Parent(K, z) \in U
        BY <1>3, <2>1, <4>2
      <4> QED BY <1>3, <1>7, <2>1, <4>3
    <3>2. Parent(L, y) = p /\ Find(J, y) = Find(L, y)
      BY <1>3, <2>1, <3>1 DEF Parent
    <3> QED BY <1>1, <3>1, <3>2 DEF Fits
  <2> QED BY <1>1, <1>8, <2>1 DEF Fits
<1>10. Fills(J, r)
  BY <1>1, <1>3, <1>6, <1>8 DEF Fills
<1>11. Filled(J)
  BY <1>4, <1>10 DEF Filled
<1> QED BY <1>3, <1>4, <1>6, <1>9, <1>11, FitsIn

(* The place that the paste takes. *)
FoundPlace(L, root, rowSpan, colSpan) ==
    CHOOSE p \in PastePlaces(L, root, rowSpan, colSpan) :
        \A q \in PastePlaces(L, root, rowSpan, colSpan) :
            p.row < q.row \/ (p.row = q.row /\ Nearer(p.column, q.column, root.column))

LEMMA PasteUnfold ==
  ASSUME NEW L, NEW C, TypeOf(L, C[1].parent) # Subform
  PROVE  LET root == C[1]
             place == FoundPlace(L, root, root.rowSpan, root.colSpan)
         IN  /\ PasteFields(L, C) =
                  ExpandToFit(L \o PutCopies(C, root, place, root.rowSpan, root.colSpan),
                              root.parent, place.row + root.rowSpan)
             /\ CanPaste(L, C) => PastePlaces(L, root, root.rowSpan, root.colSpan) # {}
<1>1. CanPaste(L, C) => PastePlaces(L, C[1], C[1].rowSpan, C[1].colSpan) # {}
  BY DEF CanPaste
<1>2. LET root == C[1]
          place == FoundPlace(L, root, root.rowSpan, root.colSpan)
      IN  PasteFields(L, C) =
                  ExpandToFit(L \o PutCopies(C, root, place, root.rowSpan, root.colSpan),
                              root.parent, place.row + root.rowSpan)
  BY DEF PasteFields, PutCopies, PutCopy, FoundPlace
<1> QED BY <1>1, <1>2

(* A place that is found lies in the grid and is free. *)
FreePlace(L, root, place) ==
    LET r == [row |-> place.row, column |-> place.column,
              rowSpan |-> root.rowSpan, colSpan |-> root.colSpan]
    IN  /\ place \in [row : Int, column : Int] /\ Fits(L, {}, r, root.parent)
        /\ place.column <= ScopeColumn(L, root.parent) + ScopeColumns(L, root.parent) - root.colSpan
LEMMA FoundIs ==
  ASSUME NEW L \in Layouts, NEW root \in Fields, IsGrid(L, root.parent),
         PastePlaces(L, root, root.rowSpan, root.colSpan) # {}
  PROVE  FreePlace(L, root, FoundPlace(L, root, root.rowSpan, root.colSpan))
<1> DEFINE p == root.parent
           P == PastePlaces(L, root, root.rowSpan, root.colSpan)
           place == FoundPlace(L, root, root.rowSpan, root.colSpan)
           top == ScopeRow(L, p)
           start == ScopeColumn(L, p)
           low == LowestBottom(Siblings(L, p), top)
           end == start + ScopeColumns(L, p) - root.colSpan
           Rec(a) == [row |-> a.row, column |-> a.column,
                      rowSpan |-> root.rowSpan, colSpan |-> root.colSpan]
<1>1. top \in Int /\ start \in Int /\ ScopeColumns(L, p) \in Nat \ {0}
  BY GridFacts
<1>2. root.colSpan \in Nat \ {0} /\ root.column \in Int
  BY DEF Fields
<1>3. top = IF HasField(L, p) THEN Find(L, p).row ELSE 0
  BY GridFacts DEF ScopeRow
<1>4. low \in Int
  <2>1. Siblings(L, p) \in SUBSET {L[i] : i \in DOMAIN L}
    BY DEF Siblings
  <2> QED BY <1>1, <2>1, LowestIs
<1>5. P = {a \in [row : top .. low, column : start .. end] :
              \A f \in Siblings(L, p) : ~Overlap(Rec(a), f)}
  BY <1>3 DEF PastePlaces
<1>6. end \in Int
  BY <1>1, <1>2
<1>7. \A a \in P : a \in [row : Int, column : Int] /\ a.row >= top
  BY <1>1, <1>4, <1>5, <1>6
<1> HIDE DEF P
<1>8. \E a \in P : FirstPlace(P, a, root.column)
  BY <1>1, <1>2, <1>7, HasFirstPlace DEF P
<1>9. place = CHOOSE a \in P : FirstPlace(P, a, root.column)
  BY DEF FoundPlace, FirstPlace, P
<1>10. place \in P
  BY <1>8, <1>9
<1> HIDE DEF place, low, top
<1>11. /\ place \in [row : Int, column : Int]
       /\ place.row >= top /\ place.column >= start /\ place.column <= end
       /\ \A f \in Siblings(L, p) : ~Overlap(Rec(place), f)
  BY <1>1, <1>4, <1>5, <1>6, <1>7, <1>10
<1>12. place.column + root.colSpan <= start + ScopeColumns(L, p)
  BY <1>1, <1>2, <1>11
<1>13. ASSUME NEW y \in Ids(L), Parent(L, y) = p PROVE ~Overlap(Rec(place), Find(L, y))
  <2>1. PICK i \in DOMAIN L : L[i].id = y /\ Find(L, y) = L[i]
    BY LayoutFacts
  <2>2. Find(L, y) \in Siblings(L, p)
    BY <1>13, <2>1 DEF Siblings, Parent
  <2> QED BY <1>11, <2>2
<1>14. Fits(L, {}, Rec(place), p)
  <2>1. Rec(place).row >= ScopeRow(L, p)
    BY <1>11 DEF top
  <2>2. Rec(place).column >= ScopeColumn(L, p)
    BY <1>11
  <2>3. Right(Rec(place)) <= ScopeColumn(L, p) + ScopeColumns(L, p)
    BY <1>12 DEF Right
  <2> HIDE DEF Rec
  <2> QED BY <1>13, <2>1, <2>2, <2>3 DEF Fits
<1> QED BY <1>11, <1>14 DEF FreePlace, place

(* Ctrl-C, Ctrl-V. *)
Pastes(L, K, x, fresh) ==
    /\ Good(L) /\ Good(K) /\ x \in Ids(K) /\ IsGrid(L, Parent(K, x))
    /\ Find(K, x).type = RichText => Find(K, x).colSpan = ScopeColumns(L, Parent(K, x))
    /\ Names(L, Ids(SubtreeOf(K, x)), fresh)
    /\ CanPaste(L, Renamed(SubtreeOf(K, x), fresh))
AsBefore(f, g) ==
    /\ f.parent = g.parent /\ f.type = g.type /\ f.row = g.row /\ f.column = g.column
    /\ f.rowSpan = g.rowSpan /\ f.colSpan = g.colSpan
LEMMA CopiesAre ==
  ASSUME NEW L, NEW K, Good(K), NEW x \in Ids(K), NEW fresh,
         Names(L, Ids(SubtreeOf(K, x)), fresh)
  PROVE  LET C == Renamed(SubtreeOf(K, x), fresh)
         IN  /\ IsCopied(K, Moved(K, {x}), C, fresh) /\ Names(L, Moved(K, {x}), fresh)
             /\ C[1] = Find(C, fresh[x]) /\ C[1] \in Fields /\ AsBefore(C[1], Find(K, x))
<1> DEFINE S == SubtreeOf(K, x)
           U == Moved(K, {x})
           C == Renamed(S, fresh)
<1>1. K \in Layouts /\ Tree(K) /\ x \in Ids(K) /\ Names(L, Ids(S), fresh)
  BY DEF Good, Sound
<1>2. /\ S \in Layouts /\ Ids(S) = U /\ \A y \in U : Find(S, y) = Find(K, y)
      /\ 1 \in DOMAIN S /\ S[1] = Find(K, x)
  BY <1>1, SubtreeIs
<1>3. Parent(K, x) \notin U /\ x \in U
  BY <1>1, NotInItself DEF Moved
<1> HIDE DEF S, U
<1>4. IsCopied(S, U, C, fresh) /\ C[1] = CopyOf(S[1], fresh, U)
  BY <1>1, <1>2, RenamedIs
<1> HIDE DEF C
<1>5. IsCopied(K, U, C, fresh)
  BY <1>2, <1>4 DEF IsCopied
<1>6. C[1] = Find(C, fresh[x])
  BY <1>2, <1>3, <1>4, <1>5 DEF IsCopied
<1>7. C[1] \in Fields
  <2>1. C \in Layouts /\ fresh[x] \in Ids(C)
    BY <1>3, <1>5 DEF IsCopied
  <2> QED BY <1>6, <2>1, FindIsField
<1>8. AsBefore(C[1], Find(K, x))
  <2>1. Find(K, x) \in Fields
    BY <1>1, FindIsField
  <2> QED BY <1>2, <1>3, <1>4, <2>1 DEF CopyOf, Fields, Parent, AsBefore
<1> QED BY <1>1, <1>2, <1>5, <1>6, <1>7, <1>8 DEF C, S, U

(* The layout with the copies in it, before the groups around them grow. *)
LEMMA PasteIs ==
  ASSUME NEW L, NEW K, NEW x, NEW fresh, Pastes(L, K, x, fresh)
  PROVE  LET N == PasteFields(L, Renamed(SubtreeOf(K, x), fresh))
         IN  \E J : /\ Good(J) /\ Ids(L) \subseteq Ids(J)
                    /\ \A y \in Ids(J) : y \in Ids(L) \/ y \in {fresh[z] : z \in Moved(K, {x})}
                    /\ \A y \in Ids(L) : Find(J, y) = Find(L, y)
                    /\ Parent(K, x) \in Ids(L) \union {Root}
                    /\ \E T : Around(J, Parent(K, x), T) /\ Expanded(J, N, Parent(K, x), T)
<1> DEFINE C == Renamed(SubtreeOf(K, x), fresh)
           U == Moved(K, {x})
           p == Parent(K, x)
           root == C[1]
           place == FoundPlace(L, root, root.rowSpan, root.colSpan)
           M == PutCopies(C, root, place, root.rowSpan, root.colSpan)
           J == L \o M
           N == PasteFields(L, C)
           dr == place.row - Find(K, x).row
           dc == place.column - Find(K, x).column
<1>1. /\ Good(L) /\ L \in Layouts /\ Tree(L) /\ Good(K) /\ K \in Layouts /\ Tree(K)
      /\ x \in Ids(K) /\ IsGrid(L, p) /\ CanPaste(L, C)
      /\ Find(K, x).type = RichText => Find(K, x).colSpan = ScopeColumns(L, p)
  BY DEF Pastes, Good, Sound
<1>2. /\ IsCopied(K, U, C, fresh) /\ Names(L, U, fresh)
      /\ root = Find(C, fresh[x]) /\ root \in Fields
      /\ root.parent = p /\ root.type = Find(K, x).type
      /\ root.row = Find(K, x).row /\ root.column = Find(K, x).column
      /\ root.rowSpan = Find(K, x).rowSpan /\ root.colSpan = Find(K, x).colSpan
  <2> HIDE DEF place, M, J, N, dr, dc
  <2>1. /\ IsCopied(K, U, C, fresh) /\ Names(L, U, fresh)
        /\ root = Find(C, fresh[x]) /\ root \in Fields /\ AsBefore(root, Find(K, x))
    BY CopiesAre DEF Pastes
  <2> QED BY <2>1 DEF AsBefore, Parent
<1>3. U \in SUBSET Ids(K) /\ x \in U
  BY <1>1, MovedTree
<1>4. TypeOf(L, root.parent) # Subform
  BY <1>1, <1>2, GridFacts
<1> HIDE DEF C, U
<1>5. /\ N = ExpandToFit(J, p, place.row + root.rowSpan)
      /\ PastePlaces(L, root, root.rowSpan, root.colSpan) # {}
  BY <1>1, <1>2, <1>4, PasteUnfold
<1> HIDE DEF N, root
<1>6. FreePlace(L, root, place)
  BY <1>1, <1>2, <1>5, FoundIs
<1> HIDE DEF place
<1>7. place \in [row : Int, column : Int]
  BY <1>6 DEF FreePlace
<1>8. IsPasted(K, U, M, fresh, dr, dc)
  BY <1>1, <1>2, <1>3, <1>7, PutCopiesIs
<1> HIDE DEF M
<1>9. Ids(L) \cap Ids(M) = {} /\ M \in Layouts
  BY <1>2, <1>8 DEF IsPasted, Names
<1>10. IsJoin(L, M, J)
  BY <1>1, <1>9, JoinIs
<1> DEFINE g == Find(M, fresh[x])
<1>11. /\ Find(K, x) \in Fields /\ place.row \in Int /\ place.column \in Int
       /\ Find(K, x).row \in Int /\ Find(K, x).column \in Int
  <2>1. Find(K, x) \in Fields
    BY <1>1, FindIsField
  <2> QED BY <1>7, <2>1 DEF Fields
<1>12. dr \in Int /\ dc \in Int
  BY <1>11
<1>13. /\ g.row = place.row /\ g.column = place.column /\ g.type = Find(K, x).type
       /\ g.rowSpan = root.rowSpan /\ g.colSpan = root.colSpan
  <2>1. /\ g.type = Find(K, x).type
        /\ g.rowSpan = Find(K, x).rowSpan /\ g.colSpan = Find(K, x).colSpan
        /\ g.row = Find(K, x).row + dr /\ g.column = Find(K, x).column + dc
    BY <1>3, <1>8 DEF IsPasted
  <2> QED BY <1>2, <1>11, <2>1
<1> HIDE DEF g, dr, dc
<1>14. Fits(L, {}, g, p)
  <2> DEFINE r == [row |-> place.row, column |-> place.column,
                   rowSpan |-> root.rowSpan, colSpan |-> root.colSpan]
  <2>1. Fits(L, {}, r, p)
    BY <1>2, <1>6 DEF FreePlace
  <2>2. SamePlace(r, g)
    BY <1>13 DEF SamePlace
  <2> HIDE DEF r
  <2> QED BY <2>1, <2>2, FitsSame
<1>15. g.type = RichText => g.column = ScopeColumn(L, p) /\ g.colSpan = ScopeColumns(L, p)
  <2> SUFFICES ASSUME g.type = RichText
               PROVE  g.column = ScopeColumn(L, p) /\ g.colSpan = ScopeColumns(L, p)
    OBVIOUS
  <2>1. root.colSpan = ScopeColumns(L, p)
    BY <1>1, <1>2, <1>13
  <2>2. place.column <= ScopeColumn(L, p) + ScopeColumns(L, p) - root.colSpan
    BY <1>2, <1>6 DEF FreePlace
  <2>3. place.column >= ScopeColumn(L, p)
    BY <1>13, <1>14 DEF Fits
  <2>4. ScopeColumn(L, p) \in Int /\ ScopeColumns(L, p) \in Int
    BY <1>1, GridFacts
  <2> HIDE DEF p
  <2> QED BY <1>11, <1>13, <2>1, <2>2, <2>3, <2>4
<1>16. Grafts(L, K, x, fresh, M, J, dr, dc)
  BY <1>1, <1>2, <1>8, <1>10, <1>12, <1>14, <1>15 DEF Grafts, U, g
<1> HIDE DEF J
<1>17. Good(J)
  BY <1>16, GraftGood
<1>18. /\ Ids(L) \subseteq Ids(J) /\ \A y \in Ids(L) : Find(J, y) = Find(L, y)
       /\ \A y \in Ids(J) : y \in Ids(L) \/ y \in {fresh[z] : z \in U}
  BY <1>8, <1>10 DEF IsJoin, IsPasted
<1>19. p \in Ids(L) \union {Root}
  BY <1>1, GridFacts
<1>20. J \in Layouts /\ Tree(J) /\ Sound(J, {}, {}) /\ p \in Ids(J) \union {Root}
  BY <1>17, <1>18, <1>19 DEF Good, Sound
<1>21. PICK T : Around(J, p, T)
  <2> HIDE DEF p
  <2> QED BY <1>20, PathExists
<1>22. place.row + root.rowSpan \in Int
  BY <1>2, <1>11 DEF Fields
<1>23. Expanded(J, N, p, T)
  <2> HIDE DEF p
  <2>1. ASSUME NEW n \in Int PROVE Expanded(J, ExpandToFit(J, p, n), p, T)
    BY <1>20, <1>21, ExpandIs
  <2>2. Expanded(J, ExpandToFit(J, p, place.row + root.rowSpan), p, T)
    BY <1>22, <2>1
  <2> QED BY <1>5, <2>2 DEF p
<1> QED BY <1>17, <1>18, <1>19, <1>21, <1>23 DEF N, C, U

-----------------------------------------------------------------------------
(* BuildSchema sorts. *)
(* buildSchema sorts: the same fields in another order. *)
UpTo(L, i) ==
    {j \in DOMAIN L : \/ Before(L[j], L[i])
                      \/ ~Before(L[i], L[j]) /\ j <= i}
Rank(L, i) == Cardinality(UpTo(L, i))
LEMMA UpToIs ==
  ASSUME NEW L \in Layouts, NEW i \in DOMAIN L
  PROVE  UpTo(L, i) = {j \in DOMAIN L : Leads(L, j, i)} \union {i}
<1>1. ~Before(L[i], L[i])
  <2>1. L[i] \in Fields
    BY LayoutFacts
  <2> QED BY <2>1 DEF Before, Fields
<1>2. i \in Int /\ \A j \in DOMAIN L : j \in Int
  BY LayoutFacts
<1>3. ASSUME NEW j \in DOMAIN L PROVE j \in UpTo(L, i) <=> Leads(L, j, i) \/ j = i
  <2>1. CASE j = i
    BY <1>1, <1>2, <2>1 DEF UpTo
  <2>2. CASE j # i
    <3>1. j <= i <=> j < i
      BY <1>2, <2>2
    <3> QED BY <2>2, <3>1 DEF UpTo, Leads
  <2> QED BY <2>1, <2>2
<1>4. UpTo(L, i) \subseteq DOMAIN L
  BY DEF UpTo
<1> QED BY <1>3, <1>4

LEMMA RanksApart ==
  ASSUME NEW L \in Layouts, NEW i \in DOMAIN L, NEW k \in DOMAIN L, Leads(L, i, k)
  PROVE  Rank(L, i) # Rank(L, k)
<1>1. DOMAIN L = 1 .. Len(L) /\ Len(L) \in Nat
  BY LayoutFacts
<1>2. IsFiniteSet(DOMAIN L)
  BY <1>1, FS_Interval
<1>3. UpTo(L, k) \in SUBSET DOMAIN L
  BY DEF UpTo
<1>4. IsFiniteSet(UpTo(L, k))
  BY <1>2, <1>3, FS_Subset
<1>5. UpTo(L, i) \subseteq UpTo(L, k)
  <2> SUFFICES ASSUME NEW j \in UpTo(L, i) PROVE j \in UpTo(L, k)
    OBVIOUS
  <2>1. j \in DOMAIN L /\ (Leads(L, j, i) \/ j = i)
    BY UpToIs DEF UpTo
  <2>2. Leads(L, j, k)
    BY <2>1, LeadsOrder
  <2> QED BY <2>1, <2>2, UpToIs
<1>6. k \in UpTo(L, k)
  BY UpToIs
<1>7. k \notin UpTo(L, i)
  <2>1. ~Leads(L, k, i) /\ k # i
    BY LeadsOrder
  <2> QED BY <2>1, UpToIs
<1>8. UpTo(L, i) # UpTo(L, k)
  BY <1>6, <1>7
<1>9. UpTo(L, i) \in SUBSET UpTo(L, k)
  BY <1>5
<1> QED BY <1>4, <1>8, <1>9, FS_Subset DEF Rank

LEMMA RankOnto ==
  ASSUME NEW L \in Layouts
  PROVE  \A r \in DOMAIN L : \E i \in DOMAIN L : Rank(L, i) = r
<1> DEFINE n == Len(L)
           h == [i \in 1 .. n |-> Rank(L, i)]
<1>1. DOMAIN L = 1 .. n /\ n \in Nat
  BY LayoutFacts
<1> HIDE DEF h
<1>2. IsFiniteSet(1 .. n) /\ Cardinality(1 .. n) = n
  <2> HIDE DEF n
  <2> QED BY <1>1, FirstNumbers
<1>3. ASSUME NEW i \in 1 .. n PROVE Rank(L, i) \in 1 .. n
  <2>1. UpTo(L, i) \in SUBSET (1 .. n) /\ i \in UpTo(L, i)
    BY <1>1, UpToIs DEF UpTo
  <2>2. IsFiniteSet(UpTo(L, i)) /\ Cardinality(UpTo(L, i)) <= n
    BY <1>2, <2>1, FS_Subset
  <2>3. Cardinality(UpTo(L, i)) \in Nat
    BY <2>2, FS_CardinalityType
  <2>4. Cardinality(UpTo(L, i)) # 0
    BY <2>1, <2>2, FS_EmptySet
  <2> QED BY <1>1, <2>2, <2>3, <2>4 DEF Rank
<1>4. \A i, k \in 1 .. n : Rank(L, i) = Rank(L, k) => i = k
  <2> SUFFICES ASSUME NEW i \in 1 .. n, NEW k \in 1 .. n, i # k PROVE Rank(L, i) # Rank(L, k)
    OBVIOUS
  <2>1. Leads(L, i, k) \/ Leads(L, k, i)
    BY <1>1, LeadsOrder
  <2> QED BY <1>1, <2>1, RanksApart
<1>5. h \in Injection(1 .. n, 1 .. n)
  BY <1>3, <1>4 DEF Injection, IsInjective, h
<1> HIDE DEF h
<1>6. h \in Surjection(1 .. n, 1 .. n)
  BY <1>2, <1>5, FS_Injection
<1> QED BY <1>1, <1>6 DEF Surjection, h

SameFields(L, B) ==
    /\ B \in Layouts /\ Ids(B) = Ids(L)
    /\ \A y \in Ids(L) : Find(B, y) = Find(L, y)
LEMMA SortedIs ==
  ASSUME NEW L \in Layouts
  PROVE  SameFields(L, Sorted(L))
<1> DEFINE From(r) == CHOOSE i \in DOMAIN L : Rank(L, i) = r
           B == [r \in DOMAIN L |-> L[From(r)]]
<1>1. Sorted(L) = B
  BY DEF Sorted, Rank, UpTo
<1>2. \A r \in DOMAIN L : From(r) \in DOMAIN L /\ Rank(L, From(r)) = r
  BY RankOnto
<1>3. DOMAIN B = DOMAIN L /\ \A r \in DOMAIN L : B[r] = L[From(r)]
  OBVIOUS
<1>4. DOMAIN L = 1 .. Len(L) /\ Len(L) \in Nat /\ \A i \in DOMAIN L : L[i] \in Fields
  BY LayoutFacts
<1>5. ASSUME NEW i \in DOMAIN L PROVE \E r \in DOMAIN L : From(r) = i
  <2>1. Rank(L, i) \in DOMAIN L
    <3>1. UpTo(L, i) \in SUBSET (1 .. Len(L)) /\ i \in UpTo(L, i)
      BY <1>4, UpToIs DEF UpTo
    <3>2. IsFiniteSet(1 .. Len(L)) /\ Cardinality(1 .. Len(L)) = Len(L)
      BY <1>4, FirstNumbers
    <3>3. IsFiniteSet(UpTo(L, i)) /\ Cardinality(UpTo(L, i)) <= Len(L)
      BY <3>1, <3>2, FS_Subset
    <3>4. Cardinality(UpTo(L, i)) \in Nat /\ Cardinality(UpTo(L, i)) # 0
      BY <3>1, <3>3, FS_CardinalityType, FS_EmptySet
    <3> QED BY <1>4, <3>3, <3>4 DEF Rank
  <2>2. From(Rank(L, i)) \in DOMAIN L /\ Rank(L, From(Rank(L, i))) = Rank(L, i)
    BY <1>2, <2>1
  <2>3. From(Rank(L, i)) = i
    <3> DEFINE k == From(Rank(L, i))
    <3>1. k # i => Leads(L, i, k) \/ Leads(L, k, i)
      BY <2>2, LeadsOrder
    <3> HIDE DEF k
    <3>2. k \in DOMAIN L /\ Rank(L, k) = Rank(L, i)
      BY <2>2 DEF k
    <3>3. k = i
      BY <3>1, <3>2, RanksApart
    <3> QED BY <3>3 DEF k
  <2> QED BY <2>1, <2>3
<1> HIDE DEF From
<1>6. B \in Seq(Fields)
  BY <1>2, <1>3, <1>4
<1> HIDE DEF B
<1>7. OneEach(B)
  <2> SUFFICES ASSUME NEW a \in DOMAIN L, NEW b \in DOMAIN L, B[a].id = B[b].id PROVE a = b
    BY <1>3 DEF OneEach
  <2>1. L[From(a)].id = L[From(b)].id
    BY <1>3
  <2>2. From(a) = From(b)
    BY <1>2, <2>1 DEF Layouts, OneEach
  <2> QED BY <1>2, <2>2
<1>8. B \in Layouts
  BY <1>6, <1>7 DEF Layouts
<1>9. Ids(B) = Ids(L)
  <2>1. \A x \in Ids(B) : x \in Ids(L)
    BY <1>2, <1>3 DEF Ids
  <2>2. ASSUME NEW x \in Ids(L) PROVE x \in Ids(B)
    <3>1. PICK i \in DOMAIN L : x = L[i].id
      BY DEF Ids
    <3>2. PICK r \in DOMAIN L : From(r) = i
      BY <1>5
    <3>3. B[r].id = x
      BY <1>3, <3>1, <3>2
    <3> QED BY <1>3, <3>3 DEF Ids
  <2> QED BY <2>1, <2>2
<1>10. ASSUME NEW x \in Ids(L) PROVE Find(B, x) = Find(L, x)
  <2>1. PICK i \in DOMAIN L : L[i].id = x /\ Find(L, x) = L[i]
    BY LayoutFacts
  <2>2. PICK r \in DOMAIN L : From(r) = i
    BY <1>5
  <2>3. B[r] = L[i] /\ r \in DOMAIN B
    BY <1>3, <2>2
  <2>4. Find(B, B[r].id) = B[r]
    BY <1>8, <2>3, LayoutFacts
  <2> QED BY <2>1, <2>3, <2>4
<1> QED BY <1>1, <1>8, <1>9, <1>10 DEF SameFields

(* Two layouts with the same fields. *)
LEMMA SortedGood ==
  ASSUME NEW L, Good(L), NEW B, SameFields(L, B)
  PROVE  Good(B)
<1>1. L \in Layouts /\ Tree(L)
  BY DEF Good, Sound
<1>2. Ids(B) = Ids(L) /\ B \in Layouts /\ \A y \in Ids(L) : Find(B, y) = Find(L, y)
  BY DEF SameFields
<1>3. IsPart(L, B, Ids(L))
  BY <1>2 DEF IsPart
<1>4. \A x \in Ids(B) : Parent(L, x) = Root \/ Parent(L, x) \in Ids(L)
  BY <1>1, <1>2, ScopeFacts
<1>5. Sound(L, {}, {}) /\ \A x \in Ids(L) : Fills(L, x)
  BY DEF Good, Filled
<1>6. Sound(B, {}, {}) /\ (\A x \in Ids(B) : Fills(L, x) => Fills(B, x))
  BY <1>3, <1>4, <1>5, PartSound
<1> QED BY <1>2, <1>5, <1>6 DEF Good, Filled

(* A schema on its way to the server. *)
LEMMA BuiltIs ==
  ASSUME NEW L, Good(L)
  PROVE  SameFields(L, BuildSchema(L)) /\ Good(BuildSchema(L))
<1> DEFINE N == NormalizeRichText(L)
<1>1. L \in Layouts /\ Tree(L) /\ Filled(L)
  BY DEF Good, Sound
<1>2. IsNormal(L, N)
  BY <1>1, NormalizeIs
<1> HIDE DEF N
<1>3. N \in Layouts /\ Ids(N) = Ids(L) /\ \A x \in Ids(L) : Find(N, x) = Find(L, x)
  BY <1>1, <1>2, NormalFilled DEF IsNormal
<1>4. SameFields(N, Sorted(N))
  BY <1>3, SortedIs
<1>5. SameFields(L, Sorted(N))
  BY <1>3, <1>4 DEF SameFields
<1> QED BY <1>5, SortedGood DEF BuildSchema, N

LEMMA NoSubform ==
  ASSUME NEW L \in Layouts
  PROVE  {id \in Ids(L) : TypeOf(L, id) = Subform} = {}
<1> SUFFICES ASSUME NEW x \in Ids(L) PROVE TypeOf(L, x) # Subform
  OBVIOUS
<1>1. TypeOf(L, x) = Find(L, x).type /\ Find(L, x) \in Fields
  BY LayoutFacts, FindIsField
<1> QED BY <1>1 DEF Fields, PlainTypes, Text, Area, Group, RichText, Subform

LEMMA OnlyNone ==
  ASSUME NEW L \in Layouts
  PROVE  Only(L, {}) = << >>
<1> DEFINE O == Only(L, {})
<1>1. IsPart(L, O, {})
  BY OnlyIs
<1> HIDE DEF O
<1>2. O \in Seq(Fields) /\ Ids(O) = {}
  BY <1>1 DEF IsPart, Layouts
<1>3. DOMAIN O = {}
  BY <1>2 DEF Ids
<1>4. DOMAIN O = 1 .. Len(O) /\ Len(O) \in Nat
  BY <1>2
<1>5. Len(O) = 0
  BY <1>3, <1>4
<1>6. O = << >>
  BY <1>2, <1>5
<1> QED BY <1>6 DEF O

LEMMA FoldNothing ==
  ASSUME NEW L
  PROVE  FoldLeft(NormalizeTable, L, << >>) = L
<1> DEFINE Q(h) == h = [s \in SUBSET (DOMAIN << >>) |->
                            IF s = {} THEN L
                            ELSE NormalizeTable(h[s \ {Max(s)}], << >>[Max(s)])]
           g == [s \in SUBSET {} |-> L]
<1>1. DOMAIN << >> = {}
  OBVIOUS
<1>2. Q(g)
  BY <1>1
<1>3. Q(CHOOSE h : Q(h))
  BY <1>2
<1>4. FoldLeft(NormalizeTable, L, << >>) = (CHOOSE h : Q(h))[DOMAIN << >>]
  BY DEF FoldLeft, MapThenFoldSet
<1> DEFINE k == CHOOSE h : Q(h)
<1> HIDE DEF k
<1>5. k = [s \in SUBSET (DOMAIN << >>) |->
                            IF s = {} THEN L
                            ELSE NormalizeTable(k[s \ {Max(s)}], << >>[Max(s)])]
  BY <1>3 DEF k
<1>6. k[{}] = L
  BY <1>1, <1>5
<1> QED BY <1>1, <1>4, <1>6 DEF k

LEMMA SubformsNormal ==
  ASSUME NEW L \in Layouts
  PROVE  NormalizeSubforms(L) = L
  BY NoSubform, OnlyNone, FoldNothing DEF NormalizeSubforms

-----------------------------------------------------------------------------
(* Nobody leaves his group. *)
(* What stays in a group stays inside it, unless one beside it grew, or the
   group became lower and it is a rich text. *)
Lower(L, N, x) ==
    /\ Find(L, x).type = RichText
    /\ Find(N, Parent(L, x)).rowSpan < Find(L, Parent(L, x)).rowSpan
StayIn(L, N) ==
    \A x \in Ids(L) \cap Ids(N) :
        Contained(L, x) /\ Parent(N, x) = Parent(L, x) =>
            \/ Contained(N, x)
            \/ Ids(L) \subseteq Ids(N) /\ GrewBeside(L, N, x)
            \/ Lower(L, N, x)

LEMMA HoldsStayIn ==
  ASSUME NEW L, NEW N, Ids(L) \subseteq Ids(N), NEW Y, Holds(L, N, Y),
         \A x \in Ids(L) : x \in Y \/ Lower(L, N, x)
  PROVE  StayIn(L, N)
  BY DEF StayIn, Holds

(* Nobody is elsewhere. *)
LEMMA SameStayIn ==
  ASSUME NEW L \in Layouts, NEW N \in Layouts, Tree(N),
         \A y \in Ids(L) \cap Ids(N) : Find(N, y) = Find(L, y)
  PROVE  StayIn(L, N)
<1> SUFFICES ASSUME NEW x \in Ids(L) \cap Ids(N), Contained(L, x), Parent(N, x) = Parent(L, x)
             PROVE  Contained(N, x)
  BY DEF StayIn
<1>1. Parent(L, x) \in Ids(L) /\ Parent(L, x) # Root
  BY RootIsNoId DEF Contained
<1>2. Parent(L, x) \in Ids(N)
  BY <1>1 DEF Tree
<1> QED BY <1>1, <1>2 DEF Contained

(* The rows where a field lies, and its group. *)
SameRows(M, N) ==
    /\ Ids(M) \subseteq Ids(N)
    /\ \A y \in Ids(M) : /\ Find(N, y).row = Find(M, y).row
                         /\ Find(N, y).rowSpan = Find(M, y).rowSpan
                         /\ Parent(N, y) = Parent(M, y)
LEMMA HoldsAlike ==
  ASSUME NEW L, NEW K, NEW M, NEW N, NEW Y, Holds(K, M, Y), Y \subseteq Ids(L), Ids(K) = Ids(L),
         \A y \in Ids(L) : Find(K, y) = Find(L, y), Ids(L) \subseteq Ids(M), SameRows(M, N)
  PROVE  Holds(L, N, Y)
<1> SUFFICES ASSUME NEW x \in Y, Contained(L, x)
             PROVE  Contained(N, x) \/ GrewBeside(L, N, x)
  BY DEF Holds
<1>1. Contained(K, x)
  BY DEF Contained, Parent
<1>2. CASE Contained(M, x)
  <2>1. x \in Ids(M) /\ Parent(M, x) \in Ids(M)
    BY <1>2 DEF Contained
  <2>2. Contained(N, x)
    BY <1>2, <2>1 DEF Contained, SameRows, Bottom
  <2> QED BY <2>2
<1>3. CASE GrewBeside(K, M, x)
  <2>1. PICK c \in Ids(K) \ {x} : /\ Find(K, c).type = Group /\ Parent(K, c) = Parent(K, x)
                                  /\ Find(M, c).rowSpan > Find(K, c).rowSpan
    BY <1>3 DEF GrewBeside
  <2>2. /\ c \in Ids(L) \ {x} /\ Find(L, c).type = Group /\ Parent(L, c) = Parent(L, x)
        /\ Find(N, c).rowSpan > Find(L, c).rowSpan
    BY <2>1 DEF SameRows, Parent
  <2> QED BY <2>2 DEF GrewBeside
<1> QED BY <1>1, <1>2, <1>3 DEF Holds

(* Groups grow after nobody left his group. *)
LEMMA ExpandedHolds ==
  ASSUME NEW L, NEW M, NEW p, NEW T, NEW Y, Rises(L, M, p, T, Y), Holds(L, M, Y),
         NEW N, Expanded(M, N, p, T)
  PROVE  Holds(L, N, Y)
<1>1. PICK n \in Int : N = ExpandToFit(M, p, n)
  BY DEF Expanded
<1>2. ClimbHolds(L, [fields |-> M, container |-> p], n, Y)
  BY DEF ClimbHolds, Holds, Rises
<1> QED BY <1>1, <1>2, ExpandHolds

(* Nothing happened before the groups grow. *)
LEMMA RisesSelf ==
  ASSUME NEW L, Good(L), NEW M, Good(M), Ids(L) \subseteq Ids(M),
         \A y \in Ids(L) : Find(M, y) = Find(L, y),
         NEW p \in Ids(L) \union {Root}, NEW T, Around(M, p, T)
  PROVE  Rises(L, M, p, T, Ids(L)) /\ Holds(L, M, Ids(L))
<1>1. L \in Layouts /\ Tree(L) /\ Sound(M, {}, {})
  BY DEF Good, Sound
<1>2. IsIn(L, M)
  BY DEF IsIn, Parent
<1>3. \A c \in Ids(L) : Find(M, c).rowSpan >= Find(L, c).rowSpan
  <2>1. \A c \in Ids(L) : Find(L, c) \in Fields
    BY <1>1, FindIsField
  <2>2. \A c \in Ids(L) : Find(L, c).rowSpan \in Nat
    BY <2>1 DEF Fields
  <2> QED BY <2>2
<1>4. Holds(L, M, Ids(L))
  BY DEF Holds, Contained, Parent
<1> QED BY <1>1, <1>2, <1>3, <1>4 DEF Rises

(* A field goes elsewhere, after nobody else left his group. *)
LEMMA MovedStayIn ==
  ASSUME NEW L, Good(L), NEW M \in Layouts, SameTree(L, M), NEW N, NEW x, NEW g,
         MayGo(M, x, g), IsPlaced(M, N, x, g),
         g.rowSpan = Find(M, x).rowSpan,
         g.parent \in Ids(M) => Bottom(g) <= Bottom(Find(M, g.parent)),
         Holds(L, M, Ids(L) \ {x})
  PROVE  StayIn(L, N)
<1> DEFINE U == Moved(M, {x})
           p == g.parent
           dr == g.row - Find(M, x).row
<1>1. /\ Ids(M) = Ids(L) /\ L \in Layouts
      /\ \A y \in Ids(L) : Parent(M, y) = Parent(L, y)
  BY DEF SameTree, Good, Sound
<1>2. /\ Tree(M) /\ Ids(N) = Ids(M) /\ x \in Ids(M) /\ N \in Layouts
      /\ \A y \in Ids(M) : Parent(N, y) = IF y = x THEN p ELSE Parent(M, y)
      /\ \A y \in Ids(M) \ {x} : Find(N, y).rowSpan = Find(M, y).rowSpan
      /\ \A y \in Ids(M) \ U : Find(N, y) = Find(M, y)
      /\ \A y \in Ids(M) \cap U : Find(N, y).row = Find(M, y).row + dr
  <2>1. HasGone(M, N, x, g)
    BY PlacedFacts
  <2> QED BY <2>1 DEF HasGone
<1>3. Find(N, x) = g /\ g \in Fields /\ p \notin U
  BY <1>2 DEF IsPlaced, MayGo
<1>4. \A y \in Ids(M) : Find(N, y).rowSpan = Find(M, y).rowSpan
  BY <1>2, <1>3
<1>5. /\ \A y \in Ids(M) : Parent(M, y) \in U => y \in U
      /\ \A y \in U : y = x \/ Parent(M, y) \in U
  BY <1>2, MovedTree
<1>6. \A y \in Ids(M) : Find(M, y) \in Fields /\ Find(N, y) \in Fields
  BY <1>2, FindIsField
<1>7. dr \in Int
  BY <1>2, <1>3, <1>6 DEF Fields
<1> HIDE DEF U, dr
<1> SUFFICES ASSUME NEW y \in Ids(L), Contained(L, y), Parent(N, y) = Parent(L, y)
             PROVE  Contained(N, y) \/ GrewBeside(L, N, y)
  BY <1>1, <1>2 DEF StayIn
<1> DEFINE q == Parent(L, y)
<1>8. q \in Ids(M) /\ Parent(N, y) = q /\ Parent(M, y) = q
  BY <1>1 DEF Contained
<1>9. CASE y = x
  <2>1. p = q
    BY <1>2, <1>8, <1>9
  <2>2. Find(N, q) = Find(M, q)
    BY <1>2, <1>3, <1>8, <2>1
  <2> QED BY <1>2, <1>3, <1>8, <1>9, <2>1, <2>2 DEF Contained
<1>10. CASE y # x /\ GrewBeside(L, M, y)
  <2>1. GrewBeside(L, N, y)
    BY <1>1, <1>4, <1>10 DEF GrewBeside
  <2> QED BY <2>1
<1>11. CASE y # x /\ Contained(M, y)
  <2>1. Bottom(Find(M, y)) <= Bottom(Find(M, q))
    BY <1>8, <1>11 DEF Contained
  <2>2. CASE y \notin U
    <3>1. q \notin U
      BY <1>1, <1>5, <1>8, <2>2
    <3>2. Find(N, y) = Find(M, y) /\ Find(N, q) = Find(M, q)
      BY <1>1, <1>2, <1>8, <2>2, <3>1
    <3> QED BY <1>2, <1>8, <2>1, <3>2 DEF Contained
  <2>3. CASE y \in U
    <3>1. q \in U
      BY <1>5, <1>8, <1>11, <2>3
    <3>2. /\ Find(N, y).row = Find(M, y).row + dr /\ Find(N, q).row = Find(M, q).row + dr
          /\ Find(N, y).rowSpan = Find(M, y).rowSpan /\ Find(N, q).rowSpan = Find(M, q).rowSpan
      BY <1>1, <1>2, <1>4, <1>8, <2>3, <3>1
    <3> DEFINE a == Find(M, y)
               b == Find(M, q)
    <3>3. a \in Fields /\ b \in Fields
      BY <1>1, <1>6, <1>8
    <3> HIDE DEF a, b
    <3>4. (a.row + dr) + a.rowSpan <= (b.row + dr) + b.rowSpan
      <4>1. a.row + a.rowSpan <= b.row + b.rowSpan
        BY <2>1 DEF a, b, Bottom
      <4>2. a.row \in Int /\ a.rowSpan \in Int /\ b.row \in Int /\ b.rowSpan \in Int
        BY <3>3 DEF Fields
      <4> QED BY <1>7, <4>1, <4>2
    <3>5. Bottom(Find(N, y)) <= Bottom(Find(N, q))
      BY <3>2, <3>4 DEF a, b, Bottom
    <3> QED BY <1>2, <1>8, <3>5 DEF Contained
  <2> QED BY <2>2, <2>3
<1> QED BY <1>9, <1>10, <1>11 DEF Holds

(* Where a field goes, it fits. *)
LEMMA GoesFits ==
  ASSUME NEW M \in Layouts, NEW x \in Ids(M), NEW p, IsGrid(M, p), NEW row \in Int, NEW column \in Int,
         CanPlace(M, x, PlaceFor(M, x, row, column, p), p)
  PROVE  LET g == Goes(M, x, row, column, p)
         IN  /\ g.parent = p /\ g.rowSpan = Find(M, x).rowSpan /\ g.row = row
             /\ p \in Ids(M) => Bottom(g) <= Bottom(Find(M, p))
<1> DEFINE r == PlaceFor(M, x, row, column, p)
           g == Goes(M, x, row, column, p)
<1>1. IsRect(r) /\ r.row = row /\ r.rowSpan = Find(M, x).rowSpan
  BY PlaceForFacts
<1>2. p \in Ids(M) => Bottom(r) <= Bottom(Find(M, p))
  BY PlaceFits
<1>3. Find(M, x) \in Fields
  BY FindIsField
<1>4. p \in FieldIds \union {Root}
  BY GridFacts, FindIsField
<1> HIDE DEF r
<1>5. g = At(Find(M, x), r, p)
  BY DEF Goes, r
<1> HIDE DEF g
<1>6. g.parent = p /\ SamePlace(r, g)
  BY <1>1, <1>3, <1>4, <1>5, AtFacts
<1>7. g.row = row /\ g.rowSpan = Find(M, x).rowSpan /\ Bottom(g) = Bottom(r)
  BY <1>1, <1>6 DEF SamePlace, Bottom
<1> QED BY <1>2, <1>6, <1>7 DEF g

(* A drag onto a cell, after the others rose around it. *)
LEMMA DragStayIn ==
  ASSUME NEW L, Good(L), NEW M \in Layouts, SameTree(L, M), NEW x \in Ids(L), NEW p, IsGrid(M, p),
         NEW row \in Int, NEW column \in Int, NEW N, MovedOrNot(M, N, x, row, column, p),
         Holds(L, M, Ids(L) \ {x}), ~MayMove(M, x, row, column, p) => Holds(L, M, Ids(L))
  PROVE  StayIn(L, N)
<1> DEFINE g == Goes(M, x, row, column, p)
<1>1. Ids(M) = Ids(L)
  BY DEF SameTree
<1>2. CASE ~MayMove(M, x, row, column, p)
  <2>1. N = M
    BY <1>2 DEF MovedOrNot
  <2> QED BY <1>1, <1>2, <2>1, HoldsStayIn
<1>3. CASE MayMove(M, x, row, column, p)
  <2>1. MayGo(M, x, g) /\ IsPlaced(M, N, x, g)
    BY <1>3 DEF MovedOrNot
  <2>2. CanPlace(M, x, PlaceFor(M, x, row, column, p), p)
    BY <1>3 DEF MayMove
  <2>3. /\ g.parent = p /\ g.rowSpan = Find(M, x).rowSpan
        /\ p \in Ids(M) => Bottom(g) <= Bottom(Find(M, p))
    BY <1>1, <2>2, GoesFits
  <2> HIDE DEF g
  <2> QED BY <2>1, <2>3, MovedStayIn
<1> QED BY <1>2, <1>3

LEMMA MovedSame ==
  ASSUME NEW L \in Layouts, Tree(L), NEW M \in Layouts, SameTree(L, M), NEW x \in Ids(L)
  PROVE  Moved(M, {x}) = Moved(L, {x})
<1> DEFINE A == Moved(L, {x})
           B == Moved(M, {x})
<1>1. Tree(M) /\ Ids(M) = Ids(L) /\ \A y \in Ids(L) : Parent(M, y) = Parent(L, y)
  BY SameTreeTree DEF SameTree
<1>2. /\ A \in SUBSET Ids(L) /\ x \in A
      /\ \A y \in Ids(L) : Parent(L, y) \in A => y \in A
      /\ \A y \in A : y = x \/ Parent(L, y) \in A
  BY MovedTree
<1>3. /\ B \in SUBSET Ids(L) /\ x \in B
      /\ \A y \in Ids(L) : Parent(L, y) \in B => y \in B
      /\ \A y \in B : y = x \/ Parent(L, y) \in B
  BY <1>1, MovedTree
<1> HIDE DEF A, B
<1>4. A \ B = {}
  <2> DEFINE S == A \ B
  <2>1. S \in SUBSET Ids(L) /\ \A y \in S : Parent(L, y) \in S
    BY <1>2, <1>3
  <2> HIDE DEF S
  <2> QED BY <2>1, NoCircle DEF S
<1>5. B \ A = {}
  <2> DEFINE S == B \ A
  <2>1. S \in SUBSET Ids(L) /\ \A y \in S : Parent(L, y) \in S
    BY <1>2, <1>3
  <2> HIDE DEF S
  <2> QED BY <2>1, NoCircle DEF S
<1> QED BY <1>4, <1>5 DEF A, B

(* A new field is in, after groups grew around it. *)
LEMMA AddedStayIn ==
  ASSUME NEW L, NEW F, NEW p, NEW T, Rises(L, F, p, T, Ids(L)), Holds(L, F, Ids(L)),
         Ids(L) \subseteq Ids(F), NEW M, Expanded(F, M, p, T), NEW N, NEW x, WithNew(M, N, x)
  PROVE  StayIn(L, N)
<1>1. Holds(L, M, Ids(L))
  BY ExpandedHolds
<1>2. Ids(L) \subseteq Ids(M)
  BY DEF Expanded, SameTree
<1>3. SameRows(M, N)
  BY DEF SameRows, WithNew, Parent
<1>4. Holds(L, N, Ids(L))
  BY <1>1, <1>2, <1>3, HoldsAlike
<1>5. Ids(L) \subseteq Ids(N)
  BY <1>2, <1>3 DEF SameRows
<1> QED BY <1>4, <1>5, HoldsStayIn

(* The others made room for a field, nobody left his group. *)
RoomHeld(L, F, x) ==
    /\ L \in Layouts /\ Tree(L) /\ F \in Layouts /\ SameTree(L, F)
    /\ Holds(L, F, Ids(L) \ {x})
    /\ \A c \in Ids(L) : Find(F, c).rowSpan >= Find(L, c).rowSpan
LEMMA InRoomHolds ==
  ASSUME NEW L, Good(L), NEW f, NEW p, NEW made, NEW plan, NEW T, Inserted(L, f, p, made, plan, T)
  PROVE  RoomHeld(L, plan.fields, f.id)
<1> DEFINE F == plan.fields
           R == made.fields
           x == f.id
           U == DraggedBy(L, x)
           O == Without(L, U)
<1>1. L \in Layouts /\ Tree(L)
  BY DEF Good, Sound
<1>2. FullFacts(L, F, U, R, p, x)
  BY FullSound
<1>3. IsPart(L, O, Ids(L) \ U) /\ PlanMade(O, SizeIn(L, f, p), made, p, T)
  BY DEF Inserted
<1>4. /\ \A y \in Ids(L) : Parent(L, y) \in U => y \in U
      /\ \A y \in U : y = x \/ Parent(L, y) \in U
      /\ U \subseteq Ids(L)
  BY <1>1, DraggedIs
<1> HIDE DEF O, U, F, R, x
<1>5. /\ F \in Layouts /\ SameTree(L, F) /\ Ids(F) = Ids(L)
      /\ \A y \in Ids(L) : Parent(F, y) = Parent(L, y)
      /\ \A y \in Ids(L) \ U : Find(F, y) = Find(R, y)
      /\ \A y \in U : Find(F, y) = Find(L, y)
  BY <1>2 DEF FullFacts, SameTree
<1>6. /\ Ids(O) = Ids(L) \ U /\ \A y \in Ids(O) : Find(O, y) = Find(L, y)
  BY <1>3 DEF IsPart
<1>7. RoomMade(O, R, Rect(SizeIn(L, f, p), made.target), p, T)
  BY <1>3 DEF PlanMade, R
<1>8. Holds(O, R, Ids(O)) /\ Keeps(O, R, T, T)
  BY <1>7 DEF RoomMade
<1>9. \A c \in Ids(L) : Find(L, c).rowSpan \in Nat
  <2>1. \A c \in Ids(L) : Find(L, c) \in Fields
    BY <1>1, FindIsField
  <2> QED BY <2>1 DEF Fields
<1>10. ASSUME NEW c \in Ids(L) PROVE Find(F, c).rowSpan >= Find(L, c).rowSpan
  <2>1. CASE c \in U
    BY <1>5, <1>9, <2>1
  <2>2. CASE c \notin U
    <3>1. c \in Ids(O) /\ Find(O, c) = Find(L, c) /\ Find(F, c) = Find(R, c)
      BY <1>5, <1>6, <2>2
    <3>2. Find(R, c).rowSpan >= Find(O, c).rowSpan
      BY <1>8, <1>9, <3>1 DEF Keeps
    <3> QED BY <3>1, <3>2
  <2> QED BY <2>1, <2>2
<1>11. ASSUME NEW y \in Ids(L), y # x, Contained(L, y)
       PROVE  Contained(F, y) \/ GrewBeside(L, F, y)
  <2> DEFINE q == Parent(L, y)
  <2>1. q \in Ids(L) /\ Bottom(Find(L, y)) <= Bottom(Find(L, q))
    BY <1>11 DEF Contained
  <2>2. CASE y \in U
    <3>1. q \in U
      BY <1>4, <1>11, <2>2
    <3> QED BY <1>5, <2>1, <2>2, <3>1 DEF Contained
  <2>3. CASE y \notin U
    <3>1. q \notin U
      BY <1>4, <2>3
    <3>2. y \in Ids(O) /\ q \in Ids(O) /\ Parent(O, y) = q
      BY <1>6, <2>1, <2>3, <3>1 DEF Parent
    <3>3. Contained(O, y)
      BY <1>6, <2>1, <3>2 DEF Contained
    <3>4. CASE Contained(R, y)
      <4>1. Parent(R, y) = q
        BY <1>5, <2>3 DEF Parent
      <4> QED BY <1>5, <2>1, <2>3, <3>1, <3>4, <4>1 DEF Contained
    <3>5. CASE GrewBeside(O, R, y)
      <4>1. PICK c \in Ids(O) \ {y} : /\ Find(O, c).type = Group /\ Parent(O, c) = Parent(O, y)
                                      /\ Find(R, c).rowSpan > Find(O, c).rowSpan
        BY <3>5 DEF GrewBeside
      <4>2. /\ c \in Ids(L) \ {y} /\ Find(L, c).type = Group /\ Parent(L, c) = q
            /\ Find(F, c).rowSpan > Find(L, c).rowSpan
        BY <1>5, <1>6, <3>2, <4>1 DEF Parent
      <4> QED BY <4>2 DEF GrewBeside
    <3> QED BY <1>8, <3>2, <3>3, <3>4, <3>5 DEF Holds
  <2> QED BY <2>2, <2>3
<1>12. Holds(L, F, Ids(L) \ {x})
  BY <1>11 DEF Holds
<1> QED BY <1>1, <1>5, <1>10, <1>12 DEF RoomHeld, F, x

(* A field that is dragged to where it is lies in the room that is there. *)
LEMMA StaysInRoom ==
  ASSUME NEW L, Good(L), NEW x \in Ids(L), NEW f, f = Find(L, x), NEW p, NEW made, NEW plan, NEW T,
         Inserted(L, f, p, made, plan, T),
         ~MayMove(plan.fields, x, plan.target.row, plan.target.column, p)
  PROVE  Contained(L, x) => Contained(plan.fields, x)
<1> DEFINE F == plan.fields
           U == DraggedBy(L, f.id)
           row == plan.target.row
           column == plan.target.column
<1>1. L \in Layouts /\ Tree(L) /\ f.id = x
  BY FindIsField DEF Good, Sound
<1>2. /\ CanPlace(F, x, PlaceFor(F, x, row, column, p), p)
      /\ p \in Ids(F) => row + f.rowSpan <= Bottom(Find(F, p))
  BY RoomHolds
<1>3. FullFacts(L, F, U, made.fields, p, x)
  BY <1>1, FullSound
<1>4. x \in U /\ U = Moved(L, {x})
  BY <1>1, MovedTree DEF DraggedBy
<1> HIDE DEF F, U, row, column
<1>5. /\ F \in Layouts /\ SameTree(L, F) /\ Tree(F) /\ p \notin U /\ IsGrid(F, p)
      /\ Ids(F) = Ids(L) /\ Find(F, x) = f
  BY <1>3, <1>4 DEF FullFacts, SameTree
<1>6. f.row = row /\ f.parent = p
  <2>1. TypeOf(F, p) # Subform
    BY <1>5, GridFacts
  <2>2. p # x
    BY <1>4, <1>5
  <2>3. p \notin Descendants(F, x)
    <3>1. Descendants(F, x) = DescendantsOf(F, {x})
      BY <1>5, NotInItself
    <3>2. Moved(F, {x}) = U
      BY <1>1, <1>4, <1>5, MovedSame
    <3> QED BY <1>5, <3>1, <3>2 DEF Moved
  <2> QED BY <1>2, <1>5, <2>1, <2>2, <2>3 DEF MayMove, F, row, column
<1>7. ASSUME Contained(L, x) PROVE Contained(F, x)
  <2>1. p \in Ids(F)
    BY <1>5, <1>6, <1>7 DEF Contained, Parent
  <2>2. Bottom(Find(F, x)) <= Bottom(Find(F, p))
    BY <1>2, <1>5, <1>6, <2>1 DEF Bottom
  <2> QED BY <1>5, <1>6, <2>1, <2>2 DEF Contained, Parent
<1> QED BY <1>7 DEF F

(* A resized group holds what is in it; its rich texts are not asked. *)
LEMMA ResizedHolds ==
  ASSUME NEW L, NEW x, NEW m, NEW n, Resizes(L, x, m, n), NEW R, NEW s,
         s = SizedTo(Find(L, x), m, n), IsResized(L, R, x, s),
         NEW y \in Ids(L), y # x, Contained(L, y)
  PROVE  \/ Contained(R, y)
         \/ Find(L, y).type = RichText /\ Parent(L, y) = x /\ s.rowSpan < Find(L, x).rowSpan
<1> DEFINE f == Find(L, x)
           q == Parent(L, y)
<1>1. L \in Layouts /\ Tree(L) /\ x \in Ids(L)
  BY DEF Resizes, Sizes, Good, Sound
<1>2. /\ f \in Fields /\ s \in Fields /\ s.row = f.row /\ f.id = x
  BY <1>1, SizedToIs, FindIsField DEF Resizes, SizeFacts
<1>3. /\ Ids(R) = Ids(L) /\ \A z \in Ids(L) : Find(R, z) = IF z = x THEN s ELSE Find(L, z)
  BY DEF IsResized
<1>4. q \in Ids(L) /\ Bottom(Find(L, y)) <= Bottom(Find(L, q)) /\ Find(R, y) = Find(L, y)
      /\ Parent(R, y) = q
  BY <1>3 DEF Contained, Parent
<1>5. CASE q # x
  BY <1>3, <1>4, <1>5 DEF Contained
<1>6. CASE q = x
  <2>1. f.type = Group
    BY <1>1, <1>4, <1>6, ScopeFacts
  <2>2. HoldsChildren(L, f, RowsOf(f, m), ColumnsOf(f, n))
    BY <2>1 DEF Resizes, MayResize
  <2>3. y \in Descendants(L, f.id)
    <3>1. HasField(L, x) /\ TypeOf(L, x) = Group
      BY <1>1, <2>1, LayoutFacts
    <3>2. y \in DescendantsOf(L, {x})
      BY <1>1, <1>6, InsideTree
    <3> QED BY <1>2, <3>1, <3>2 DEF Descendants, IsContainer
  <2>4. \/ Find(L, y).type = RichText /\ Find(L, y).parent = f.id
        \/ Bottom(Find(L, y)) <= Bottom(s)
    <3>1. s = [f EXCEPT !.rowSpan = RowsOf(f, m), !.colSpan = ColumnsOf(f, n)]
      BY DEF SizedTo
    <3> HIDE DEF f
    <3> QED BY <2>2, <2>3, <3>1 DEF HoldsChildren
  <2>5. CASE Bottom(Find(L, y)) <= Bottom(s)
    BY <1>1, <1>3, <1>4, <1>6, <2>5 DEF Contained
  <2>6. CASE Find(L, y).type = RichText /\ ~(s.rowSpan < f.rowSpan)
    <3>1. Find(L, y) \in Fields
      BY <1>1, FindIsField
    <3>2. Bottom(Find(L, y)) \in Int
      BY <3>1 DEF Fields, Bottom
    <3>3. Bottom(f) <= Bottom(s)
      BY <1>2, <2>6 DEF Fields, Bottom
    <3>4. Bottom(f) \in Int /\ Bottom(s) \in Int
      BY <1>2 DEF Fields, Bottom
    <3>5. Bottom(Find(L, y)) <= Bottom(s)
      BY <1>4, <1>6, <3>2, <3>3, <3>4
    <3> QED BY <1>1, <1>3, <1>4, <1>6, <3>5 DEF Contained
  <2> QED BY <1>6, <2>4, <2>5, <2>6
<1> QED BY <1>5, <1>6

LEMMA ResizeStayIn ==
  ASSUME NEW L, NEW x, NEW m, NEW n, Resizes(L, x, m, n)
  PROVE  StayIn(L, ResizeField(L, x, m, n))
<1> DEFINE f == Find(L, x)
           p == Parent(L, x)
           T == Up(L, p)
           s == SizedTo(f, m, n)
           R == Resized(L, x, s)
           M == GiveWay(R, s, p, Downwards).fields
           E == EncloseChildren(M, p, 0)
           N == ResizeField(L, x, m, n)
           Y == {y \in Ids(L) : ~ /\ Find(L, y).type = RichText /\ Parent(L, y) = x
                                  /\ s.rowSpan < f.rowSpan}
<1>1. /\ Good(L) /\ L \in Layouts /\ Tree(L) /\ x \in Ids(L) /\ IsGrid(L, p)
  BY DEF Resizes, Sizes, Good, Sound
<1>2. SizeFacts(f, s)
  BY SizedToIs DEF Resizes
<1>3. s \in Fields /\ s.id = x
  BY <1>1, <1>2, FindIsField DEF SizeFacts
<1>4. N = NormalizeRichText(E) /\ ~GiveWay(R, s, p, Downwards).tooComplex
  BY ResizeUnfold DEF Resizes, MayResize, Parent
<1>5. p \in Ids(L) \union {Root}
  BY <1>1, GridFacts
<1>6. Around(L, p, T)
  BY <1>1, <1>5, UpIs
<1> HIDE DEF s, N, T
<1>7. IsResized(L, R, x, s)
  BY <1>1, <1>3, ResizedIs
<1>8. SameTree(L, R) /\ Tree(R)
  BY <1>7, ResizedScoped DEF s
<1>9. Pushes(R, s, p, T, Downwards)
  BY <1>6, <1>7, ResizedPushes DEF s
<1>10. \A y \in Ids(L) : y # x /\ Contained(L, y) =>
            \/ Contained(R, y)
            \/ Find(L, y).type = RichText /\ Parent(L, y) = x /\ s.rowSpan < f.rowSpan
  BY <1>7, ResizedHolds DEF s
<1> HIDE DEF R
<1>11. GaveWay(R, M, p, T)
  BY <1>4, <1>9, GiveWayIs
<1> HIDE DEF M, p, f
<1>12. /\ Sound(M, {}, {}) /\ M \in Layouts /\ Tree(M) /\ Follows(R, M, {p}) /\ SameHeights(R, M)
       /\ SameTree(R, M)
  BY <1>11 DEF GaveWay, Keeps, Sound, Follows
<1>13. /\ R \in Layouts /\ Ids(R) = Ids(L)
       /\ \A y \in Ids(L) \ {x} : Find(R, y) = Find(L, y)
       /\ Find(R, x) = s
  BY <1>1, <1>7 DEF IsResized
<1>14. SameTree(L, M) /\ Ids(M) = Ids(L)
  BY <1>8, <1>12, SameTreeTrans DEF SameTree
<1>15. Around(M, p, T)
  <2>1. Path(M, T)
    BY <1>1, <1>6, <1>14, PathSame DEF Around
  <2> QED BY <1>6, <1>14, <2>1 DEF Around, SameTree
<1>16. x \notin T
  BY <1>1, <1>6 DEF Around, p
<1>17. \A c \in T \cap Ids(L) : Find(M, c).rowSpan >= Find(L, c).rowSpan
  <2>1. \A c \in Ids(L) : Find(L, c) \in Fields
    BY <1>1, FindIsField
  <2>2. \A c \in Ids(L) : Find(L, c).rowSpan \in Nat
    BY <2>1 DEF Fields
  <2> QED BY <1>12, <1>13, <1>16, <2>2 DEF SameHeights
<1> HIDE DEF Y
<1>18. Y \subseteq Ids(L)
  BY DEF Y
<1>19. Rises(L, M, p, T, Y)
  BY <1>1, <1>5, <1>12, <1>14, <1>15, <1>17, <1>18 DEF Rises, IsIn, SameTree
<1>20. ASSUME NEW y \in Y, Parent(L, y) # p, Contained(L, y) PROVE Contained(M, y)
  <2>1. y # x /\ y \in Ids(L)
    BY <1>18, <1>20 DEF p
  <2>2. Contained(R, y)
    BY <1>10, <1>20, <2>1 DEF Y
  <2>3. Parent(R, y) \notin {p}
    BY <1>8, <1>20, <2>1 DEF SameTree
  <2> QED BY <1>8, <1>12, <1>13, <2>1, <2>2, <2>3, FollowsHold
<1>21. Holds(L, E, Y)
  BY <1>19, <1>20, EncloseHolds
<1>22. Expanded(M, E, p, T)
  BY <1>5, <1>12, <1>14, <1>15, EncloseIs
<1> HIDE DEF E
<1>23. /\ Sound(E, {}, {}) /\ E \in Layouts /\ Tree(E) /\ Ids(E) = Ids(L)
       /\ \A y \in Ids(L) \ T : Find(E, y).rowSpan = Find(M, y).rowSpan
  BY <1>14, <1>22 DEF Expanded, Sound, SameTree
<1>24. IsNormal(E, N)
  BY <1>4, <1>23, NormalizeIs
<1>25. SameRows(E, N)
  BY <1>23, <1>24, NormalKeeps DEF SameRows, SameTree
<1>26. Holds(L, N, Y)
  BY <1>18, <1>21, <1>23, <1>25, HoldsAlike
<1>27. Find(N, x).rowSpan = s.rowSpan
  BY <1>1, <1>12, <1>13, <1>16, <1>23, <1>25 DEF SameRows, SameHeights
<1>28. \A y \in Ids(L) : y \in Y \/ Lower(L, N, y)
  BY <1>27 DEF Y, Lower, f
<1>29. StayIn(L, N)
  BY <1>23, <1>25, <1>26, <1>28, HoldsStayIn DEF SameRows
<1> QED BY <1>29 DEF N

-----------------------------------------------------------------------------
(* Groups move whole. *)
(* What stays in a group that moves, moves with it. *)
MovesAlong(f, g, p, q) ==
    (q.row # p.row \/ q.column # p.column) =>
        /\ g.row - f.row = q.row - p.row
        /\ g.column - f.column = q.column - p.column

(* GroupsMoveWhole, from one layout to the next. *)
Whole(L, N) ==
    \A x \in Ids(L) \cap Ids(N) :
        /\ Parent(L, x) \in Ids(L) \cap Ids(N) /\ Parent(N, x) = Parent(L, x)
        /\ Find(L, x).type # RichText
        => MovesAlong(Find(L, x), Find(N, x), Find(L, Parent(L, x)), Find(N, Parent(L, x)))
(* Nobody is new but X, and nobody changes his type. *)
Known(L, N, X) == \A x \in Ids(N) \ X : x \in Ids(L) /\ Find(N, x).type = Find(L, x).type

(* A layout becomes another good one, groups move whole and keep what is in them. *)
Step(L, N, X) == Good(N) /\ Whole(L, N) /\ StayIn(L, N) /\ Known(L, N, X)

LEMMA FollowsWhole ==
  ASSUME NEW L \in Layouts, Tree(L), NEW N, NEW T, Follows(L, N, T), Stays(L, N, T)
  PROVE  Whole(L, N)
<1> SUFFICES ASSUME NEW x \in Ids(L), Parent(L, x) \in Ids(L), Find(L, x).type # RichText
             PROVE  MovesAlong(Find(L, x), Find(N, x), Find(L, Parent(L, x)), Find(N, Parent(L, x)))
  BY DEF Whole
<1> DEFINE q == Parent(L, x)
<1>1. Find(L, q).type = Group /\ x # Root /\ q # Root
  BY ScopeFacts, RootIsNoId
<1>2. CASE q \in T
  <2>1. Find(N, q).row = Find(L, q).row /\ Find(N, q).column = Find(L, q).column
    BY <1>1, <1>2 DEF Stays, Group, RichText
  <2> QED BY <2>1 DEF MovesAlong
<1>3. CASE q \notin T
  <2>1. RowShift(L, N, x) = RowShift(L, N, q) /\ ColumnShift(L, N, x) = ColumnShift(L, N, q)
    BY <1>3 DEF Follows
  <2> QED BY <1>1, <2>1 DEF RowShift, ColumnShift, MovesAlong
<1> QED BY <1>2, <1>3

(* Who finds the same fields finds the same moves. *)
LEMMA WholeAlike ==
  ASSUME NEW L, NEW N, NEW K, NEW M, Whole(K, M),
         Ids(L) \cap Ids(N) \subseteq Ids(K) \cap Ids(M),
         \A y \in Ids(L) : Find(K, y) = Find(L, y),
         \A y \in Ids(L) \cap Ids(N) : Find(M, y) = Find(N, y)
  PROVE  Whole(L, N)
<1> SUFFICES ASSUME NEW x \in Ids(L) \cap Ids(N), Parent(L, x) \in Ids(L) \cap Ids(N),
                    Parent(N, x) = Parent(L, x), Find(L, x).type # RichText
             PROVE  MovesAlong(Find(L, x), Find(N, x), Find(L, Parent(L, x)), Find(N, Parent(L, x)))
  BY DEF Whole
<1>1. /\ Find(K, x) = Find(L, x) /\ Find(M, x) = Find(N, x) /\ x \in Ids(K) \cap Ids(M)
      /\ Parent(K, x) = Parent(L, x) /\ Parent(M, x) = Parent(L, x)
      /\ Parent(L, x) \in Ids(K) \cap Ids(M)
  BY DEF Parent
<1>2. /\ Find(K, Parent(L, x)) = Find(L, Parent(L, x))
      /\ Find(M, Parent(L, x)) = Find(N, Parent(L, x))
  OBVIOUS
<1>3. MovesAlong(Find(K, x), Find(M, x), Find(K, Parent(L, x)), Find(M, Parent(L, x)))
  BY <1>1 DEF Whole
<1> QED BY <1>1, <1>2, <1>3

LEMMA SameWhole ==
  ASSUME NEW L, NEW N, \A y \in Ids(L) \cap Ids(N) : Find(N, y) = Find(L, y)
  PROVE  Whole(L, N)
  BY DEF Whole, MovesAlong

LEMMA FollowsAlike ==
  ASSUME NEW L \in Layouts, Tree(L), NEW O \in Layouts, NEW F, NEW R, NEW K, NEW T,
         Ids(O) = Ids(L), SameTree(L, F), Follows(O, R, K), Stays(O, R, T),
         \A y \in Ids(L) : Find(O, y) = Find(L, y) /\ Find(R, y) = Find(F, y)
  PROVE  Follows(L, F, K) /\ Stays(L, F, T)
<1>1. \A y \in Ids(L) \union {Root} : /\ RowShift(O, R, y) = RowShift(L, F, y)
                                      /\ ColumnShift(O, R, y) = ColumnShift(L, F, y)
  BY DEF RowShift, ColumnShift
<1>2. \A y \in Ids(L) : Parent(O, y) = Parent(L, y) /\ Parent(L, y) \in Ids(L) \union {Root}
  BY ScopeFacts DEF Parent
<1>3. Follows(L, F, K)
  BY <1>1, <1>2 DEF Follows
<1>4. Stays(L, F, T)
  BY DEF Stays
<1> QED BY <1>3, <1>4

(* The steps of the canvas. *)
LEMMA ResizeSteps ==
  ASSUME NEW L, NEW x, NEW m \in Int, NEW n \in Int, Good(L), x \in Ids(L), IsGrid(L, Parent(L, x)),
         ResizeField(L, x, m, n) # L
  PROVE  Step(L, ResizeField(L, x, m, n), {})
<1>1. L \in Layouts /\ Tree(L)
  BY DEF Good, Sound
<1>2. Resizes(L, x, m, n)
  BY ResizeUnfold DEF Resizes, Sizes
<1>3. Parent(L, x) \in Ids(L) \union {Root}
  BY <1>1, GridFacts
<1>4. PICK T : Around(L, Parent(L, x), T)
  BY <1>1, <1>3, PathExists
<1> DEFINE N == ResizeField(L, x, m, n)
<1>5. Good(N) /\ Follows(L, N, T) /\ Stays(L, N, T)
  BY <1>2, <1>4, ResizeDoes
<1> HIDE DEF N
<1>6. Whole(L, N)
  BY <1>1, <1>5, FollowsWhole
<1>7. StayIn(L, N)
  BY <1>2, ResizeStayIn DEF N
<1>8. Known(L, N, {})
  BY <1>5 DEF Known, Follows, SameTree
<1> QED BY <1>5, <1>6, <1>7, <1>8 DEF Step, N

LEMMA RemoveSteps ==
  ASSUME NEW L, Good(L), NEW x \in Ids(L)
  PROVE  Step(L, Without(L, {x} \union Descendants(L, x)), {})
<1> DEFINE N == Without(L, {x} \union Descendants(L, x))
<1>1. /\ Good(N) /\ \A y \in Ids(N) : y \in Ids(L) /\ Find(N, y) = Find(L, y)
  BY RemoveGood
<1> HIDE DEF N
<1>2. Whole(L, N)
  BY <1>1, SameWhole
<1>3. StayIn(L, N)
  BY <1>1, SameStayIn DEF Good, Sound
<1> QED BY <1>1, <1>2, <1>3 DEF Step, Known, N

LEMMA PasteSteps ==
  ASSUME NEW L, NEW K, NEW x, NEW fresh, Pastes(L, K, x, fresh)
  PROVE  Step(L, PasteFields(L, Renamed(SubtreeOf(K, x), fresh)),
              {fresh[z] : z \in Moved(K, {x})})
<1> DEFINE N == PasteFields(L, Renamed(SubtreeOf(K, x), fresh))
           p == Parent(K, x)
           X == {fresh[z] : z \in Moved(K, {x})}
<1>1. PICK J : /\ Good(J) /\ Ids(L) \subseteq Ids(J)
               /\ \A y \in Ids(J) : y \in Ids(L) \/ y \in X
               /\ \A y \in Ids(L) : Find(J, y) = Find(L, y)
               /\ p \in Ids(L) \union {Root}
               /\ \E T : Around(J, p, T) /\ Expanded(J, N, p, T)
  BY PasteIs
<1>2. PICK T : Around(J, p, T) /\ Expanded(J, N, p, T)
  BY <1>1
<1> HIDE DEF N, p, X
<1>3. J \in Layouts /\ Tree(J) /\ Filled(J)
  BY <1>1 DEF Good, Sound
<1>4. /\ Good(N) /\ Follows(J, N, T \ {p}) /\ Stays(J, N, T) /\ Ids(N) = Ids(J)
      /\ \A y \in Ids(J) : Find(N, y).type = Find(J, y).type
  BY <1>2, <1>3 DEF Expanded, Good, SameTree
<1>5. Follows(J, N, T)
  BY <1>4, FollowsMore
<1>6. Whole(J, N)
  BY <1>3, <1>4, <1>5, FollowsWhole
<1>7. Whole(L, N)
  BY <1>1, <1>4, <1>6, WholeAlike
<1>8. Good(L)
  BY DEF Pastes
<1>9. Rises(L, J, p, T, Ids(L)) /\ Holds(L, J, Ids(L))
  BY <1>1, <1>2, <1>8, RisesSelf
<1>10. Holds(L, N, Ids(L))
  BY <1>2, <1>9, ExpandedHolds
<1>11. StayIn(L, N)
  BY <1>1, <1>4, <1>10, HoldsStayIn
<1>12. Known(L, N, X)
  BY <1>1, <1>4 DEF Known
<1> QED BY <1>4, <1>7, <1>11, <1>12 DEF Step, N, X

LEMMA ReopenSteps ==
  ASSUME NEW L, Good(L)
  PROVE  /\ Step(L, NormalizeSubforms(NormalizeRichText(BuildSchema(L))), {})
         /\ Step(L, << >>, {})
<1> DEFINE B == BuildSchema(L)
           N == NormalizeRichText(B)
<1>1. SameFields(L, B) /\ Good(B)
  BY BuiltIs
<1> HIDE DEF B
<1>2. B \in Layouts /\ Tree(B) /\ Filled(B) /\ Sound(B, {}, {})
  BY <1>1 DEF Good, Sound
<1>3. IsNormal(B, N)
  BY <1>2, NormalizeIs
<1> HIDE DEF N
<1>4. Good(N)
  BY <1>2, <1>3, NormalSound, NormalKeeps DEF Good
<1>5. N \in Layouts /\ Ids(N) = Ids(B) /\ \A y \in Ids(B) : Find(N, y) = Find(B, y)
  BY <1>2, <1>3, NormalFilled DEF IsNormal
<1>6. NormalizeSubforms(N) = N
  BY <1>5, SubformsNormal
<1>7. Whole(L, N)
  BY <1>1, <1>5, SameWhole DEF SameFields
<1>9. StayIn(L, N)
  <2>1. L \in Layouts
    BY DEF Good, Sound
  <2> QED BY <1>1, <1>4, <1>5, <2>1, SameStayIn DEF SameFields, Good, Sound
<1>10. Known(L, N, {})
  BY <1>1, <1>5 DEF Known, SameFields
<1>8. Step(L, << >>, {})
  <2>1. Ids(<< >>) = {}
    BY DEF Ids
  <2>2. << >> \in Layouts
    BY DEF Layouts, OneEach
  <2>3. Tree(<< >>)
    BY <2>1 DEF Tree
  <2>4. Good(<< >>)
    BY <2>1, <2>2, <2>3 DEF Good, Sound, Filled
  <2>5. StayIn(L, << >>)
    BY <2>1 DEF StayIn
  <2> QED BY <2>1, <2>4, <2>5, SameWhole DEF Step, Known
<1> QED BY <1>4, <1>6, <1>7, <1>8, <1>9, <1>10 DEF Step, N, B

(* A drop on a free cell, or between fields that made room. *)
OnCell(L, plan) ==
    /\ plan.fields = L /\ IsGrid(L, plan.target.parent)
    /\ plan.target.row \in Int /\ plan.target.column \in Int
InRoom(L, f, plan) == \E p, made, T : Inserted(L, f, p, made, plan, T)

LEMMA GridAround ==
  ASSUME NEW L, Good(L), NEW p, IsGrid(L, p)
  PROVE  Around(L, p, Up(L, p))
<1>1. L \in Layouts /\ Tree(L)
  BY DEF Good, Sound
<1>2. p \in Ids(L) \union {Root}
  BY <1>1, GridFacts
<1> QED BY <1>1, <1>2, UpIs

LEMMA DropOnCell ==
  ASSUME NEW L, Good(L), NEW f \in Items, f.id \notin Ids(L), NEW plan, OnCell(L, plan),
         DroppedOn(L, plan, f) # L
  PROVE  Step(L, DroppedOn(L, plan, f), {f.id})
<1> DEFINE N == DroppedOn(L, plan, f)
           p == plan.target.parent
           T == Up(L, p)
<1>1. L \in Layouts /\ Tree(L)
  BY DEF Good, Sound
<1>2. AddStart(plan, f) /\ plan.fields = L /\ IsGrid(L, p)
  BY DEF OnCell, AddStart
<1>3. Around(L, p, T)
  BY <1>2, GridAround
<1> HIDE DEF T
<1>4. Around(plan.fields, plan.target.parent, T)
  BY <1>2, <1>3
<1>5. \E M : /\ Expanded(plan.fields, M, plan.target.parent, T) /\ Good(M)
             /\ Good(N) /\ WithNew(M, N, f.id)
  BY <1>2, <1>4, DropIs
<1>6. PICK M : Expanded(L, M, p, T) /\ Good(N) /\ WithNew(M, N, f.id)
  BY <1>2, <1>5
<1> HIDE DEF N, p
<1>7. Follows(L, M, T \ {p}) /\ Stays(L, M, T) /\ Ids(M) = Ids(L)
  BY <1>6 DEF Expanded, SameTree
<1>8. Whole(L, M)
  BY <1>1, <1>7, FollowsMore, FollowsWhole
<1>9. Whole(L, N)
  <2>1. Ids(L) \cap Ids(N) \subseteq Ids(L) \cap Ids(M)
    BY <1>7
  <2>2. \A y \in Ids(L) \cap Ids(N) : Find(M, y) = Find(N, y)
    BY <1>6, <1>7 DEF WithNew
  <2> QED BY <1>8, <2>1, <2>2, WholeAlike
<1>10. StayIn(L, N)
  <2>1. p \in Ids(L) \union {Root}
    BY <1>1, <1>2, GridFacts DEF p
  <2>2. Rises(L, L, p, T, Ids(L)) /\ Holds(L, L, Ids(L))
    BY <1>3, <2>1, RisesSelf DEF p
  <2> QED BY <1>6, <2>2, AddedStayIn
<1>11. Known(L, N, {f.id})
  BY <1>6 DEF Known, WithNew, Expanded, SameTree
<1> QED BY <1>6, <1>9, <1>10, <1>11 DEF Step, N

(* The others made room: nobody moved out of his group. *)
RoomFollows(L, plan, made, p, T) ==
    /\ L \in Layouts /\ Tree(L) /\ plan.fields \in Layouts
    /\ Follows(L, plan.fields, T) /\ Stays(L, plan.fields, T)
LEMMA DropFollows ==
  ASSUME NEW L, Good(L), NEW f \in Items, f.id \notin Ids(L), NEW p, NEW made, NEW plan, NEW T,
         Inserted(L, f, p, made, plan, T)
  PROVE  RoomFollows(L, plan, made, p, T)
<1> DEFINE F == plan.fields
           R == made.fields
           U == DraggedBy(L, f.id)
           O == Without(L, U)
<1>1. L \in Layouts /\ Tree(L)
  BY DEF Good, Sound
<1>2. U = {}
  BY DEF DraggedBy
<1>3. IsPart(L, O, Ids(L) \ U) /\ PlanMade(O, SizeIn(L, f, p), made, p, T)
  BY DEF Inserted
<1>4. /\ AddStart(plan, f) /\ SameTree(L, F)
      /\ \A y \in Ids(L) : Find(F, y) = Find(R, y)
  BY PlanGood
<1> HIDE DEF O, U, F, R
<1>5. O \in Layouts /\ Ids(O) = Ids(L) /\ \A y \in Ids(L) : Find(O, y) = Find(L, y)
  BY <1>2, <1>3 DEF IsPart
<1>6. Follows(O, R, T) /\ Stays(O, R, T)
  BY <1>3 DEF PlanMade, RoomMade, Keeps, R
<1>7. Follows(L, F, T) /\ Stays(L, F, T)
  BY <1>1, <1>4, <1>5, <1>6, FollowsAlike
<1>8. F \in Layouts
  BY <1>4 DEF AddStart, Good, Sound, F
<1> QED BY <1>1, <1>7, <1>8 DEF RoomFollows, F

LEMMA DropInRoom ==
  ASSUME NEW L, Good(L), NEW f \in Items, f.id \notin Ids(L), NEW plan, InRoom(L, f, plan),
         DroppedOn(L, plan, f) # L
  PROVE  Step(L, DroppedOn(L, plan, f), {f.id})
<1>1. PICK p, made, T : Inserted(L, f, p, made, plan, T)
  BY DEF InRoom
<1> DEFINE N == DroppedOn(L, plan, f)
           F == plan.fields
<1>2. RoomFollows(L, plan, made, p, T)
  BY <1>1, DropFollows
<1>3. /\ AddStart(plan, f) /\ plan.target.parent = p /\ SameTree(L, F) /\ Around(F, p, T)
  BY <1>1, PlanGood
<1>4. \E M : /\ Expanded(plan.fields, M, plan.target.parent, T) /\ Good(M)
             /\ Good(N) /\ WithNew(M, N, f.id)
  BY <1>3, DropIs
<1>5. PICK M : Expanded(F, M, p, T) /\ Good(M) /\ Good(N) /\ WithNew(M, N, f.id)
  BY <1>3, <1>4
<1>6. L \in Layouts /\ Tree(L) /\ F \in Layouts /\ Follows(L, F, T) /\ Stays(L, F, T)
  BY <1>2 DEF RoomFollows
<1> HIDE DEF N, F
<1>7. Follows(F, M, T \ {p}) /\ Stays(F, M, T) /\ Ids(M) = Ids(F) /\ M \in Layouts
  BY <1>5 DEF Expanded, SameTree, Sound, Good
<1>8. Follows(F, M, T)
  BY <1>7, FollowsMore
<1>9. Follows(L, M, T) /\ Stays(L, M, T)
  BY <1>3, <1>6, <1>7, <1>8, FollowsTrans, StaysTrans
<1>10. Whole(L, M)
  BY <1>6, <1>9, FollowsWhole
<1>11. Whole(L, N)
  <2>1. Ids(M) = Ids(L)
    BY <1>3, <1>7 DEF SameTree
  <2>2. Ids(L) \cap Ids(N) \subseteq Ids(L) \cap Ids(M)
    BY <2>1
  <2>3. \A y \in Ids(L) \cap Ids(N) : Find(M, y) = Find(N, y)
    BY <1>5, <2>1 DEF WithNew
  <2> QED BY <1>10, <2>2, <2>3, WholeAlike
<1>12. StayIn(L, N)
  <2>1. RoomHeld(L, F, f.id)
    BY <1>1, InRoomHolds DEF F
  <2>2. Holds(L, F, Ids(L))
    BY <2>1 DEF RoomHeld, Holds
  <2>3. Sound(F, {}, {}) /\ Ids(F) = Ids(L)
    BY <1>3 DEF AddStart, Good, SameTree, F
  <2>4. p \in Ids(L) \union {Root}
    BY <1>3, <1>6, <2>3, GridFacts DEF AddStart, F
  <2>5. Rises(L, F, p, T, Ids(L))
    BY <1>3, <1>6, <2>1, <2>3, <2>4 DEF Rises, RoomHeld, IsIn, SameTree
  <2> QED BY <1>5, <2>2, <2>3, <2>5, AddedStayIn
<1>13. Known(L, N, {f.id})
  BY <1>3, <1>5 DEF Known, WithNew, Expanded, SameTree
<1> QED BY <1>5, <1>11, <1>12, <1>13 DEF Step, N

(* A placed field is dragged. *)
LEMMA SameShift ==
  ASSUME NEW a \in Int, NEW b \in Int, NEW c \in Int, NEW d \in Int, NEW e \in Int, b - a = d - c
  PROVE  (b + e) - a = (d + e) - c
  OBVIOUS

LEMMA DragOnCell ==
  ASSUME NEW L, Good(L), NEW x \in Ids(L), NEW plan, OnCell(L, plan)
  PROVE  Step(L, DraggedTo(L, plan, x), {})
<1> DEFINE N == DraggedTo(L, plan, x)
           p == plan.target.parent
           row == plan.target.row
           column == plan.target.column
           T == Up(L, p)
<1>1. L \in Layouts /\ Tree(L)
  BY DEF Good, Sound
<1>2. ToCell(L, plan, x) /\ IsGrid(L, p)
  BY DEF OnCell, ToCell
<1>3. Around(L, p, T)
  BY <1>2, GridAround
<1>4. \E M : /\ Expanded(L, M, plan.target.parent, T) /\ Good(M)
             /\ MovedOrNot(M, N, x, plan.target.row, plan.target.column, plan.target.parent)
  BY <1>2, <1>3, DragToCell
<1>5. PICK M : Expanded(L, M, p, T) /\ Good(M) /\ MovedOrNot(M, N, x, row, column, p)
  BY <1>4
<1> HIDE DEF N, p, row, column
<1>6. Good(N)
  BY <1>5, MovedGood
<1>7. /\ Follows(L, M, T \ {p}) /\ Stays(L, M, T) /\ SameTree(L, M) /\ Ids(M) = Ids(L)
      /\ M \in Layouts /\ Tree(M)
  BY <1>5 DEF Expanded, SameTree, Good, Sound
<1>8. Follows(L, M, T)
  BY <1>7, FollowsMore
<1>9. Whole(L, M)
  BY <1>1, <1>7, <1>8, FollowsWhole
<1>12. StayIn(L, N)
  <2>1. p \in Ids(L) \union {Root} /\ row \in Int /\ column \in Int
    BY <1>1, <1>2, GridFacts DEF OnCell, p, row, column
  <2>2. Rises(L, L, p, T, Ids(L)) /\ Holds(L, L, Ids(L))
    BY <1>3, <2>1, RisesSelf DEF p
  <2>3. Holds(L, M, Ids(L))
    BY <1>5, <2>2, ExpandedHolds
  <2>4. Holds(L, M, Ids(L) \ {x})
    BY <2>3 DEF Holds
  <2>5. IsGrid(M, p)
    BY <1>2, <1>7 DEF IsGrid, SameTree, p
  <2> QED BY <1>5, <1>7, <2>1, <2>3, <2>4, <2>5, DragStayIn
<1>10. CASE N = M
  <2>1. Known(L, N, {})
    BY <1>7, <1>10 DEF Known, SameTree
  <2> QED BY <1>6, <1>9, <1>10, <1>12, <2>1 DEF Step, N
<1>11. CASE N # M
  <2> DEFINE g == Goes(M, x, row, column, p)
             U == Moved(M, {x})
  <2>1. MayGo(M, x, g) /\ IsPlaced(M, N, x, g)
    BY <1>5, <1>11 DEF MovedOrNot
  <2>2. HasGone(M, N, x, g)
    BY <2>1, PlacedFacts
  <2>3. g.parent = p
    BY <1>3, <1>7, <1>5 DEF Goes, At, MovedOrNot
  <2> HIDE DEF g
  <2>4. /\ Ids(N) = Ids(M)
        /\ \A y \in Ids(M) : Parent(N, y) = IF y = x THEN p ELSE Parent(M, y)
        /\ \A y \in Ids(M) \ U : Find(N, y) = Find(M, y)
        /\ \A y \in Ids(M) \cap U :
              /\ Find(N, y).row = Find(M, y).row + (g.row - Find(M, x).row)
              /\ Find(N, y).column = Find(M, y).column + (g.column - Find(M, x).column)
    BY <2>2, <2>3 DEF HasGone
  <2>5. p \notin U
    BY <2>1, <2>3 DEF MayGo
  <2>6. U = Moved(L, {x})
    BY <1>1, <1>7, MovedSame
  <2>7. U \cap T = {}
    BY <1>1, <2>5, <2>6, UpApart
  <2>8. /\ \A y \in Ids(L) : Parent(L, y) \in U => y \in U
        /\ \A y \in U : y = x \/ Parent(L, y) \in U
        /\ U \subseteq Ids(L) /\ x \in U /\ Root \notin U
    BY <1>1, <2>6, MovedTree
  <2> HIDE DEF U, T
  <2>9. \A y \in Ids(M) : Find(M, y) \in Fields /\ Find(L, y) \in Fields
    BY <1>1, <1>7, FindIsField
  <2>10. g \in Fields
    BY <2>1 DEF IsPlaced
  <2>11. Whole(L, N)
    <3> SUFFICES ASSUME NEW y \in Ids(L), Parent(L, y) \in Ids(L), Parent(N, y) = Parent(L, y),
                        Find(L, y).type # RichText
                 PROVE  MovesAlong(Find(L, y), Find(N, y), Find(L, Parent(L, y)), Find(N, Parent(L, y)))
      BY <1>7, <2>4 DEF Whole
    <3> DEFINE q == Parent(L, y)
    <3>1. MovesAlong(Find(L, y), Find(M, y), Find(L, q), Find(M, q))
      BY <1>7, <1>9 DEF Whole, SameTree
    <3>2. CASE y \notin U
      <4>1. q \notin U
        BY <2>8, <3>2
      <4> QED BY <1>7, <2>4, <3>1, <3>2, <4>1
    <3>3. CASE y \in U /\ y # x
      <4>1. q \in U /\ q \notin T
        BY <2>7, <2>8, <3>3
      <4>2. /\ RowShift(L, M, y) = RowShift(L, M, q)
            /\ ColumnShift(L, M, y) = ColumnShift(L, M, q)
        BY <1>8, <4>1 DEF Follows
      <4>3. y # Root /\ q # Root
        BY <2>8, <3>3, <4>1
      <4> DEFINE dr == g.row - Find(M, x).row
                 dc == g.column - Find(M, x).column
      <4>4. /\ Find(N, y).row = Find(M, y).row + dr /\ Find(N, y).column = Find(M, y).column + dc
            /\ Find(N, q).row = Find(M, q).row + dr /\ Find(N, q).column = Find(M, q).column + dc
        BY <1>7, <2>4, <3>3, <4>1
      <4>5. /\ Find(M, y).row - Find(L, y).row = Find(M, q).row - Find(L, q).row
            /\ Find(M, y).column - Find(L, y).column = Find(M, q).column - Find(L, q).column
        BY <4>2, <4>3 DEF RowShift, ColumnShift
      <4>6. /\ Find(L, y).row \in Int /\ Find(L, y).column \in Int
            /\ Find(M, y).row \in Int /\ Find(M, y).column \in Int
            /\ Find(L, q).row \in Int /\ Find(L, q).column \in Int
            /\ Find(M, q).row \in Int /\ Find(M, q).column \in Int
        BY <1>7, <2>9 DEF Fields
      <4>7. dr \in Int /\ dc \in Int
        BY <1>7, <2>8, <2>9, <2>10 DEF Fields
      <4> HIDE DEF dr, dc, q
      <4>8. /\ Find(N, y).row - Find(L, y).row = Find(N, q).row - Find(L, q).row
            /\ Find(N, y).column - Find(L, y).column = Find(N, q).column - Find(L, q).column
        <5>1. (Find(M, y).row + dr) - Find(L, y).row = (Find(M, q).row + dr) - Find(L, q).row
          <6> DEFINE a == Find(L, y).row
                     b == Find(M, y).row
                     c == Find(L, q).row
                     d == Find(M, q).row
          <6>1. a \in Int /\ b \in Int /\ c \in Int /\ d \in Int /\ b - a = d - c
            BY <4>5, <4>6
          <6> HIDE DEF a, b, c, d
          <6>2. (b + dr) - a = (d + dr) - c
            BY <4>7, <6>1, SameShift
          <6> QED BY <6>2 DEF a, b, c, d
        <5>2. (Find(M, y).column + dc) - Find(L, y).column = (Find(M, q).column + dc) - Find(L, q).column
          <6> DEFINE a == Find(L, y).column
                     b == Find(M, y).column
                     c == Find(L, q).column
                     d == Find(M, q).column
          <6>1. a \in Int /\ b \in Int /\ c \in Int /\ d \in Int /\ b - a = d - c
            BY <4>5, <4>6
          <6> HIDE DEF a, b, c, d
          <6>2. (b + dc) - a = (d + dc) - c
            BY <4>7, <6>1, SameShift
          <6> QED BY <6>2 DEF a, b, c, d
        <5> QED BY <4>4, <5>1, <5>2
      <4> QED BY <4>8 DEF MovesAlong, q
    <3>4. CASE y = x
      <4>1. q = p /\ p \in T
        BY <1>3, <1>7, <2>4, <3>4 DEF Around
      <4>2. Find(L, q).type = Group
        BY <1>1, ScopeFacts
      <4>3. Find(M, q).row = Find(L, q).row /\ Find(M, q).column = Find(L, q).column
        BY <1>7, <4>1, <4>2 DEF Stays, Group, RichText
      <4>4. Find(N, q) = Find(M, q)
        BY <1>7, <2>4, <2>5, <4>1
      <4> QED BY <4>3, <4>4 DEF MovesAlong
    <3> QED BY <3>2, <3>3, <3>4
  <2>12. Known(L, N, {})
    BY <1>7, <2>2 DEF Known, SameTree, HasGone
  <2> QED BY <1>6, <1>12, <2>11, <2>12 DEF Step, N
<1> QED BY <1>10, <1>11

(* The others made room: those who are not dragged follow their groups. *)
LEMMA OthersFollow ==
  ASSUME NEW L, Good(L), NEW x \in Ids(L), NEW p, NEW made, NEW plan, NEW T,
         Inserted(L, Find(L, x), p, made, plan, T)
  PROVE  LET F == plan.fields
             U == Moved(L, {x})
         IN  /\ FullFacts(L, F, U, made.fields, p, x)
             /\ p \in Ids(L) => p \in T
             /\ \A y \in Ids(L) \ U : Parent(L, y) \in Ids(L) /\ Find(L, y).type # RichText =>
                    MovesAlong(Find(L, y), Find(F, y), Find(L, Parent(L, y)), Find(F, Parent(L, y)))
             /\ p \in Ids(L) => Find(F, p).row = Find(L, p).row /\ Find(F, p).column = Find(L, p).column
<1> DEFINE f == Find(L, x)
           F == plan.fields
           R == made.fields
           U == Moved(L, {x})
           O == Without(L, U)
<1>1. L \in Layouts /\ Tree(L) /\ Good(L)
  BY DEF Good, Sound
<1>2. f.id = x /\ U = DraggedBy(L, f.id)
  BY <1>1, FindIsField DEF DraggedBy
<1>3. FullFacts(L, F, U, R, p, x)
  BY <1>2, FullSound
<1>4. /\ IsPart(L, O, Ids(L) \ U) /\ PlanMade(O, SizeIn(L, f, p), made, p, T)
      /\ Good(O) /\ Around(O, p, T)
  BY <1>2 DEF Inserted
<1>5. /\ U \subseteq Ids(L) /\ x \in U
      /\ \A y \in Ids(L) : Parent(L, y) \in U => y \in U
  BY <1>1, MovedTree
<1> HIDE DEF O, U, F, R, f
<1>6. /\ O \in Layouts /\ Tree(O) /\ Ids(O) = Ids(L) \ U
      /\ \A y \in Ids(O) : Find(O, y) = Find(L, y)
  BY <1>4 DEF IsPart, Good, Sound
<1>7. Follows(O, R, T) /\ Stays(O, R, T)
  BY <1>4 DEF PlanMade, RoomMade, Keeps, R
<1>8. Whole(O, R) /\ SameTree(O, R)
  BY <1>6, <1>7, FollowsWhole DEF Follows
<1>9. p \notin U /\ IsGrid(L, p) /\ \A y \in Ids(L) \ U : Find(F, y) = Find(R, y)
  BY <1>3 DEF FullFacts
<1>10. ASSUME NEW y \in Ids(L) \ U, Parent(L, y) \in Ids(L), Find(L, y).type # RichText
       PROVE  MovesAlong(Find(L, y), Find(F, y), Find(L, Parent(L, y)), Find(F, Parent(L, y)))
  <2>1. Parent(L, y) \notin U
    BY <1>5, <1>10
  <2>2. Parent(O, y) = Parent(L, y) /\ Parent(L, y) \in Ids(O) /\ y \in Ids(O)
    BY <1>6, <1>10, <2>1 DEF Parent
  <2>3. MovesAlong(Find(O, y), Find(R, y), Find(O, Parent(L, y)), Find(R, Parent(L, y)))
    BY <1>6, <1>8, <1>10, <2>2 DEF Whole, SameTree
  <2> QED BY <1>6, <1>9, <1>10, <2>1, <2>2, <2>3
<1>11. ASSUME p \in Ids(L)
       PROVE  /\ p \in T
              /\ Find(F, p).row = Find(L, p).row /\ Find(F, p).column = Find(L, p).column
  <2>1. p \in Ids(O) /\ p \in T
    BY <1>4, <1>6, <1>9, <1>11 DEF Around
  <2>2. Find(O, p).type = Group
    BY <1>6, <1>9, <1>11, <2>1, GridFacts, <1>1
  <2>3. Find(R, p).row = Find(O, p).row /\ Find(R, p).column = Find(O, p).column
    BY <1>7, <2>1, <2>2 DEF Stays, Group, RichText
  <2> QED BY <1>6, <1>9, <1>11, <2>1, <2>3
<1> QED BY <1>3, <1>10, <1>11 DEF U, F, R

LEMMA DragInRoom ==
  ASSUME NEW L, Good(L), NEW x \in Ids(L), NEW plan, InRoom(L, Find(L, x), plan)
  PROVE  Step(L, DraggedTo(L, plan, x), {})
<1>1. PICK p, made, T : Inserted(L, Find(L, x), p, made, plan, T)
  BY DEF InRoom
<1> DEFINE N == DraggedTo(L, plan, x)
           F == plan.fields
           U == Moved(L, {x})
           row == plan.target.row
           column == plan.target.column
           g == Goes(F, x, row, column, p)
<1>2. /\ FullFacts(L, F, U, made.fields, p, x)
      /\ p \in Ids(L) => p \in T
      /\ \A y \in Ids(L) \ U : Parent(L, y) \in Ids(L) /\ Find(L, y).type # RichText =>
             MovesAlong(Find(L, y), Find(F, y), Find(L, Parent(L, y)), Find(F, Parent(L, y)))
      /\ p \in Ids(L) => Find(F, p).row = Find(L, p).row /\ Find(F, p).column = Find(L, p).column
  BY <1>1, OthersFollow
<1>3. /\ MovedOrNot(F, N, x, row, column, p)
      /\ ~MayMove(F, x, row, column, p) => Good(F)
  BY <1>1, RoomIsTaken
<1>4. CanPlace(F, x, PlaceFor(F, x, row, column, p), p)
  BY <1>1, RoomHolds
<1>5. /\ L \in Layouts /\ Tree(L)
  BY DEF Good, Sound
<1>6. /\ \A y \in Ids(L) : Parent(L, y) \in U => y \in U
      /\ \A y \in U : y = x \/ Parent(L, y) \in U
      /\ U \subseteq Ids(L) /\ x \in U /\ Root \notin U
  BY <1>5, MovedTree
<1>7. Good(N)
  BY <1>3, MovedGood
<1>8. /\ F \in Layouts /\ SameTree(L, F) /\ Tree(F) /\ p \notin U /\ IsGrid(F, p)
      /\ \A y \in U : Find(F, y) = Find(L, y)
      /\ Ids(F) = Ids(L)
  BY <1>2 DEF FullFacts, SameTree
<1>9. Moved(F, {x}) = U
  BY <1>5, <1>8, MovedSame
<1>10. \A y \in Ids(L) : Find(F, y) \in Fields /\ Find(L, y) \in Fields
  BY <1>5, <1>8, FindIsField
<1>11. g.parent = p
  BY <1>8, <1>10 DEF Goes, At, Fields
<1> HIDE DEF F, N, g, U, row, column
<1>12. Parent(L, x) = p \/ MayMove(F, x, row, column, p)
  <2> SUFFICES ASSUME ~MayMove(F, x, row, column, p) PROVE Parent(L, x) = p
    OBVIOUS
  <2>1. TypeOf(F, p) # Subform
    BY <1>8, GridFacts
  <2>2. p # x
    BY <1>6, <1>8
  <2>3. p \notin Descendants(F, x)
    <3>1. Descendants(F, x) = DescendantsOf(F, {x})
      BY <1>6, <1>8, NotInItself
    <3> QED BY <1>8, <1>9, <3>1 DEF Moved
  <2>4. Find(F, x).parent = p
    BY <1>4, <2>1, <2>2, <2>3 DEF MayMove
  <2> QED BY <1>6, <1>8, <2>4 DEF Parent
<1>13. /\ Ids(N) = Ids(L)
       /\ \A y \in Ids(L) \ U : Find(N, y) = Find(F, y)
      /\ \A y \in Ids(L) : Find(N, y).type = Find(F, y).type
  <2>1. CASE ~MayMove(F, x, row, column, p)
    BY <1>3, <1>8, <2>1 DEF MovedOrNot
  <2>2. CASE MayMove(F, x, row, column, p)
    <3>1. HasGone(F, N, x, g)
      BY <1>3, <2>2, PlacedFacts DEF MovedOrNot, g
    <3> QED BY <1>8, <1>9, <3>1 DEF HasGone
  <2> QED BY <2>1, <2>2
<1>14. ASSUME NEW y \in Ids(L), Parent(L, y) \in Ids(L), Parent(N, y) = Parent(L, y),
              Find(L, y).type # RichText
       PROVE  MovesAlong(Find(L, y), Find(N, y), Find(L, Parent(L, y)), Find(N, Parent(L, y)))
  <2> DEFINE q == Parent(L, y)
  <2>1. CASE y \notin U
    <3>1. q \notin U
      BY <1>6, <2>1
    <3> QED BY <1>2, <1>13, <1>14, <2>1, <3>1
  <2>2. CASE y \in U /\ y # x
    <3>1. q \in U
      BY <1>6, <2>2
    <3>2. Find(F, y) = Find(L, y) /\ Find(F, q) = Find(L, q)
      BY <1>8, <2>2, <3>1
    <3>3. CASE ~MayMove(F, x, row, column, p)
      <4>1. N = F
        BY <1>3, <3>3 DEF MovedOrNot
      <4> QED BY <3>2, <4>1 DEF MovesAlong
    <3>4. CASE MayMove(F, x, row, column, p)
      <4>1. HasGone(F, N, x, g) /\ IsPlaced(F, N, x, g)
        BY <1>3, <3>4, PlacedFacts DEF MovedOrNot, g
      <4> DEFINE dr == g.row - Find(F, x).row
                 dc == g.column - Find(F, x).column
      <4>2. /\ Find(N, y).row = Find(L, y).row + dr /\ Find(N, y).column = Find(L, y).column + dc
            /\ Find(N, q).row = Find(L, q).row + dr /\ Find(N, q).column = Find(L, q).column + dc
        BY <1>8, <1>9, <1>14, <2>2, <3>1, <3>2, <4>1 DEF HasGone
      <4>3. g \in Fields
        BY <4>1 DEF IsPlaced
      <4>4. dr \in Int /\ dc \in Int
        BY <1>6, <1>10, <4>3 DEF Fields
      <4>5. Find(L, y) \in Fields /\ Find(L, q) \in Fields
        BY <1>10, <1>14
      <4> DEFINE a == Find(L, y)
                 b == Find(N, y)
                 c == Find(L, q)
                 d == Find(N, q)
      <4>6. /\ a.row \in Int /\ a.column \in Int /\ c.row \in Int /\ c.column \in Int
            /\ b.row = a.row + dr /\ b.column = a.column + dc
            /\ d.row = c.row + dr /\ d.column = c.column + dc
        BY <4>2, <4>5 DEF Fields
      <4> HIDE DEF a, b, c, d, dr, dc
      <4>7. /\ b.row - a.row = d.row - c.row /\ b.column - a.column = d.column - c.column
        BY <4>4, <4>6
      <4>8. MovesAlong(a, b, c, d)
        BY <4>7 DEF MovesAlong
      <4> QED BY <4>8 DEF a, b, c, d
    <3> QED BY <3>3, <3>4
  <2>3. CASE y = x
    <3>1. q = p
      <4>1. CASE MayMove(F, x, row, column, p)
        <5>1. HasGone(F, N, x, g)
          BY <1>3, <4>1, PlacedFacts DEF MovedOrNot, g
        <5>2. Parent(N, x) = p
          BY <1>6, <1>8, <1>11, <5>1 DEF HasGone
        <5> QED BY <1>14, <2>3, <5>2
      <4>2. CASE ~MayMove(F, x, row, column, p)
        BY <1>12, <2>3, <4>2
      <4> QED BY <4>1, <4>2
    <3>2. Find(N, p) = Find(F, p)
      BY <1>8, <1>13, <1>14, <3>1
    <3> QED BY <1>2, <1>14, <3>1, <3>2 DEF MovesAlong
  <2> QED BY <2>1, <2>2, <2>3
<1>15. Whole(L, N)
  BY <1>13, <1>14 DEF Whole
<1>16. StayIn(L, N)
  <2>1. RoomHeld(L, F, x)
    <3>1. Find(L, x).id = x
      BY <1>5, FindIsField
    <3> QED BY <1>1, <3>1, InRoomHolds DEF F
  <2>2. ~MayMove(F, x, row, column, p) => Holds(L, F, Ids(L))
    <3>1. ~MayMove(F, x, row, column, p) => (Contained(L, x) => Contained(F, x))
      BY <1>1, StaysInRoom DEF F, row, column
    <3> QED BY <2>1, <3>1 DEF RoomHeld, Holds
  <2>3. row \in Int /\ column \in Int
    BY <1>1 DEF Inserted, PlanMade, row, column
  <2> QED BY <1>3, <1>8, <2>1, <2>2, <2>3, DragStayIn DEF RoomHeld
<1>17. Known(L, N, {})
  BY <1>8, <1>13 DEF Known, SameTree
<1> QED BY <1>7, <1>15, <1>16, <1>17 DEF Step, N

-----------------------------------------------------------------------------
(* The canvas. *)
(* The steps of the canvas keep a layout good. *)
LEMMA EmptyGood == Good(<< >>) /\ << >> \in Layouts /\ Ids(<< >>) = {}
<1>1. << >> \in Layouts /\ Ids(<< >>) = {}
  BY DEF Layouts, OneEach, Ids
<1>2. Sound(<< >>, {}, {})
  BY <1>1 DEF Sound, Tree
<1>3. Filled(<< >>)
  BY <1>1 DEF Filled
<1> QED BY <1>1, <1>2, <1>3 DEF Good

LEMMA ScopesAre ==
  ASSUME Good(fields), NEW p \in Scopes
  PROVE  IsGrid(fields, p) /\ p \in Placed \union {Root}
<1>1. fields \in Layouts
  BY DEF Good, Sound
<1>2. p = Root \/ (p \in Ids(fields) /\ IsContainer(Find(fields, p).type))
  BY DEF Scopes, Field, Placed
<1>3. CASE p = Root
  BY <1>3 DEF IsGrid
<1>4. CASE p \in Ids(fields) /\ IsContainer(Find(fields, p).type)
  <2>1. Find(fields, p).type \in PlainTypes
    BY <1>1, <1>4, FindIsField DEF Fields
  <2>2. Find(fields, p).type = Group
    BY <1>4, <2>1 DEF PlainTypes, IsContainer, Text, Area, Group, RichText, Subform
  <2> QED BY <1>4, <2>2 DEF IsGrid, Placed
<1> QED BY <1>2, <1>3, <1>4

LEMMA CellsAre ==
  ASSUME Good(fields), NEW p \in Scopes, NEW cell \in FreeCells(p)
  PROVE  cell[1] \in Int /\ cell[2] \in Int
<1>1. fields \in Layouts /\ IsGrid(fields, p) /\ p \in Placed \union {Root}
  BY ScopesAre DEF Good, Sound
<1>2. cell \in CellsOf(p)
  BY DEF FreeCells
<1>3. CASE p = Root
  <2>1. CellsOf(p) = (0 .. RowCount(fields) - 1) \X (0 .. COLUMN_COUNT - 1)
    BY <1>3 DEF CellsOf
  <2> HIDE DEF CellsOf
  <2> QED BY <1>2, <2>1
<1>4. CASE p # Root
  <2> DEFINE q == Field(p)
  <2>1. q.type = Group
    BY <1>1, <1>4 DEF IsGrid, Field
  <2>2. CellsOf(p) = (q.row .. Bottom(q) - 1) \X (q.column .. Right(q) - 1)
    BY <1>4, <2>1 DEF CellsOf
  <2> HIDE DEF CellsOf, q
  <2> QED BY <1>2, <2>2
<1> QED BY <1>3, <1>4

(* Where a drag may end. *)
LEMMA InRoomAlike ==
  ASSUME NEW L, NEW f, NEW plan, InRoom(L, f, plan)
  PROVE  InRoom(L, f, [fields |-> plan.fields, target |-> plan.target])
<1> DEFINE same == [fields |-> plan.fields, target |-> plan.target]
<1>1. PICK p, made, T : Inserted(L, f, p, made, plan, T)
  BY DEF InRoom
<1>2. same.fields = plan.fields /\ same.target = plan.target
  OBVIOUS
<1> HIDE DEF same
<1>3. Inserted(L, f, p, made, same, T)
  BY <1>1, <1>2 DEF Inserted
<1>4. InRoom(L, f, same)
  BY <1>3 DEF InRoom
<1> QED BY <1>4 DEF same

LEMMA PlansAre ==
  ASSUME Good(fields), NEW f, IsIncoming(f), NEW plan \in Plans(f)
  PROVE  OnCell(fields, plan) \/ InRoom(fields, f, plan)
<1>1. \/ \E p \in Scopes : \E cell \in FreeCells(p) :
            plan = [fields |-> fields,
                    target |-> [row |-> cell[1], column |-> cell[2], parent |-> p]]
      \/ \E id \in Placed : \E d \in Directions :
            LET made == PlanInsertion(fields, f, Field(id), d)
            IN  made.valid /\ plan = [fields |-> made.fields, target |-> made.target]
  <2>1. \/ \E p \in Scopes : \E cell \in FreeCells(p) :
              plan = [fields |-> fields,
                      target |-> [row |-> cell[1], column |-> cell[2], parent |-> p]]
        \/ \E made \in UNION {{PlanInsertion(fields, f, Field(id), d) : d \in Directions} :
                                id \in {g \in Placed : Shown(g)}} :
                made.valid /\ plan = [fields |-> made.fields, target |-> made.target]
    BY DEF Plans, CellPlans, InsertionPlans
  <2> QED BY <2>1
<1>2. ASSUME NEW p \in Scopes, NEW cell \in FreeCells(p),
             plan = [fields |-> fields,
                     target |-> [row |-> cell[1], column |-> cell[2], parent |-> p]]
      PROVE  OnCell(fields, plan)
  <2>1. IsGrid(fields, p) /\ cell[1] \in Int /\ cell[2] \in Int
    BY ScopesAre, CellsAre
  <2> QED BY <1>2, <2>1 DEF OnCell
<1>3. ASSUME NEW id \in Placed, NEW d \in Directions,
             PlanInsertion(fields, f, Field(id), d).valid,
             plan = [fields |-> PlanInsertion(fields, f, Field(id), d).fields,
                     target |-> PlanInsertion(fields, f, Field(id), d).target]
      PROVE  InRoom(fields, f, plan)
  <2> DEFINE b == Field(id)
  <2>1. fields \in Layouts /\ id \in Ids(fields)
    BY DEF Good, Sound, Placed
  <2>2. b = Find(fields, id) /\ b.id = id
    BY <2>1, FindIsField DEF Field
  <2>3. Beside(fields, f, b)
    BY <2>1, <2>2 DEF Beside
  <2> HIDE DEF b
  <2>4. \E T : Inserted(fields, f, b.parent, PlanIn(fields, f, b, d),
                        PlanInsertion(fields, f, b, d), T)
    BY <1>3, <2>3, InsertionIs DEF b
  <2>5. InRoom(fields, f, PlanInsertion(fields, f, b, d))
    BY <2>4 DEF InRoom
  <2> QED BY <1>3, <2>5, InRoomAlike DEF b
<1> QED BY <1>1, <1>2, <1>3

LEMMA AddSteps ==
  ASSUME Good(fields), Subform \notin Types, NEW id \in FieldIds, NEW type \in Types,
         AddField(id, type)
  PROVE  Step(fields, fields', {id})
<1> DEFINE f == [id |-> id, type |-> type, rowSpan |-> InitialSize(type).rowSpan,
                 colSpan |-> InitialSize(type).colSpan]
<1>1. id \notin Ids(fields)
  BY DEF AddField, Placed
<1>2. PICK plan \in Plans(f) : Dropped(plan, f) # fields /\ fields' = Dropped(plan, f)
  BY DEF AddField
<1>3. f \in Items /\ f.id = id
  <2>1. type \in PlainTypes
    BY DesignerAssumption DEF ComponentTypes, PlainTypes
  <2>2. InitialSize(type).rowSpan \in Nat \ {0}
    BY DEF InitialSize
  <2>3. InitialSize(type).colSpan \in Nat \ {0}
    <3>1. CASE type = Group
      BY <3>1 DEF InitialSize, Group, RichText, Subform
    <3>2. CASE type = RichText
      BY <3>2, DesignerAssumption DEF InitialSize, Group, RichText
    <3>3. CASE type \in {Text, Area}
      BY <3>3 DEF InitialSize, Group, RichText, Text, Area, Subform
    <3> QED BY <2>1, <3>1, <3>2, <3>3 DEF PlainTypes
  <2> QED BY <2>1, <2>2, <2>3 DEF Items
<1> HIDE DEF f
<1>4. OnCell(fields, plan) \/ InRoom(fields, f, plan)
  BY <1>2, <1>3, PlansAre DEF IsIncoming
<1>5. Dropped(plan, f) = DroppedOn(fields, plan, f)
  BY DEF Dropped, DroppedOn
<1> QED BY <1>1, <1>2, <1>3, <1>4, <1>5, DropOnCell, DropInRoom

LEMMA DragSteps ==
  ASSUME Good(fields), NEW id, DragField(id)
  PROVE  Step(fields, fields', {})
<1> DEFINE f == Field(id)
<1>1. id \in Ids(fields)
  BY DEF DragField, Placed
<1>2. PICK plan \in Plans(f) : fields' = Dragged(plan, id)
  BY DEF DragField
<1>3. f = Find(fields, id) /\ IsIncoming(f)
  BY <1>1, FindIsField DEF Field, IsIncoming, Good, Sound
<1> HIDE DEF f
<1>4. OnCell(fields, plan) \/ InRoom(fields, f, plan)
  BY <1>2, <1>3, PlansAre
<1>5. Dragged(plan, id) = DraggedTo(fields, plan, id)
  BY DEF Dragged, DraggedTo, Field
<1> QED BY <1>1, <1>2, <1>3, <1>4, <1>5, DragOnCell, DragInRoom

LEMMA GridOf ==
  ASSUME NEW L, Good(L), NEW x \in Ids(L)
  PROVE  IsGrid(L, Parent(L, x)) /\ Find(L, x) \in Fields
<1>1. L \in Layouts /\ Tree(L)
  BY DEF Good, Sound
<1> QED BY <1>1, FindIsField DEF Tree, IsGrid

LEMMA ResizeActs ==
  ASSUME Good(fields), NEW id, Resize(id)
  PROVE  Step(fields, fields', {})
<1>1. id \in Ids(fields)
  BY DEF Resize, Placed
<1>2. PICK rowSpan \in Int, colSpan \in Int :
        fields' = ResizeField(fields, id, rowSpan, colSpan) /\ fields' # fields
  <2>1. MaxRow \in Int /\ COLUMN_COUNT \in Int
    BY DesignerAssumption
  <2>2. PICK rowSpan \in IF ResizesRows(Field(id).type) THEN 1 .. MaxRow ELSE {1},
             colSpan \in IF ResizesColumns(Field(id).type) THEN 1 .. COLUMN_COUNT ELSE {1} :
          fields' = ResizeField(fields, id, rowSpan, colSpan) /\ fields' # fields
    BY DEF Resize
  <2> QED BY <2>1, <2>2
<1>3. IsGrid(fields, Parent(fields, id))
  BY <1>1, GridOf
<1> QED BY <1>1, <1>2, <1>3, ResizeSteps

LEMMA RemoveActs ==
  ASSUME Good(fields), NEW id, RemoveField(id)
  PROVE  Step(fields, fields', {})
<1>1. id \in Ids(fields) /\ fields' = Without(fields, {id} \union Descendants(fields, id))
  BY DEF RemoveField, Placed
<1> QED BY <1>1, RemoveSteps

LEMMA OpenActs ==
  ASSUME Good(fields), Reopen \/ ShowSaved
  PROVE  Step(fields, fields', {})
<1>1. \/ fields' = NormalizeSubforms(NormalizeRichText(BuildSchema(fields)))
      \/ fields' = << >>
  BY DEF Reopen, ShowSaved, Opened
<1> QED BY <1>1, ReopenSteps

(* What was copied stems from a good layout, and the grid that it lay in is
   one, if it is still there. *)
FromGood(K, x) ==
    /\ Good(K) /\ x \in Ids(K) /\ clipboard = SubtreeOf(K, x)
    /\ Parent(K, x) \in Ids(fields) => IsGrid(fields, Parent(K, x))
ClipGood == clipboard = << >> \/ \E K, x : FromGood(K, x)

LEMMA ClipFirst ==
  ASSUME NEW K, NEW x, FromGood(K, x)
  PROVE  clipboard # << >> /\ clipboard[1] = Find(K, x) /\ clipboard[1].parent = Parent(K, x)
<1>1. K \in Layouts /\ Tree(K) /\ x \in Ids(K)
  BY DEF FromGood, Good, Sound
<1>2. 1 \in DOMAIN SubtreeOf(K, x) /\ SubtreeOf(K, x)[1] = Find(K, x)
  BY <1>1, SubtreeIs
<1>3. 1 \notin DOMAIN << >>
  OBVIOUS
<1> HIDE DEF SubtreeOf
<1> QED BY <1>2, <1>3 DEF FromGood, Parent

LEMMA ClipStays ==
  ASSUME Good(fields), ClipGood, clipboard' = clipboard \/ clipboard' = << >>,
         NEW X, Step(fields, fields', X), clipboard # << >> => clipboard[1].parent \notin X
  PROVE  ClipGood'
<1>1. CASE clipboard' = << >>
  BY <1>1 DEF ClipGood
<1>2. CASE clipboard' = clipboard /\ clipboard # << >>
  <2>1. PICK K, x : FromGood(K, x)
    BY <1>2 DEF ClipGood
  <2> DEFINE p == Parent(K, x)
  <2>2. p \notin X
    BY <1>2, <2>1, ClipFirst
  <2>3. p \in Ids(fields') => IsGrid(fields', p)
    <3> SUFFICES ASSUME p \in Ids(fields') PROVE IsGrid(fields', p)
      OBVIOUS
    <3>1. p \in Ids(fields) /\ Find(fields', p).type = Find(fields, p).type
      BY <2>2 DEF Step, Known
    <3>2. IsGrid(fields, p)
      BY <2>1, <3>1 DEF FromGood
    <3> QED BY <3>1, <3>2 DEF IsGrid
  <2>4. FromGood(K, x)'
    BY <1>2, <2>1, <2>3 DEF FromGood
  <2> QED BY <2>4 DEF ClipGood
<1> QED BY <1>1, <1>2

LEMMA CopyActs ==
  ASSUME Good(fields), NEW id, Copy(id)
  PROVE  fields' = fields /\ ClipGood'
<1>1. id \in Ids(fields) /\ fields' = fields /\ clipboard' = SubtreeOf(fields, id)
  BY DEF Copy, Placed, Subtree, SubtreeOf, Field
<1>2. IsGrid(fields, Parent(fields, id))
  BY <1>1, GridOf
<1>3. \E K, x : FromGood(K, x)'
  <2>1. FromGood(fields, id)'
    BY <1>1, <1>2 DEF FromGood
  <2> QED BY <2>1
<1> QED BY <1>1, <1>3 DEF ClipGood

LEMMA PasteActs ==
  ASSUME Good(fields), ClipGood, Paste, ~Narrow(clipboard[1])
  PROVE  \E X : Step(fields, fields', X) /\ (clipboard # << >> => clipboard[1].parent \notin X)
<1>1. PICK K, x : FromGood(K, x)
  BY DEF ClipGood, Paste
<1> DEFINE S == SubtreeOf(K, x)
           U == Moved(K, {x})
           p == Parent(K, x)
<1>2. PICK fresh \in Injection(Ids(S), FieldIds \ Ids(fields)) :
        CanPaste(fields, Renamed(S, fresh)) /\ fields' = PasteFields(fields, Renamed(S, fresh))
  <2>1. PICK fresh \in Injection(Ids(clipboard), FieldIds \ Placed) :
          CanPaste(fields, Renamed(clipboard, fresh)) /\ fields' = PasteFields(fields, Renamed(clipboard, fresh))
    BY DEF Paste
  <2> QED BY <1>1, <2>1 DEF FromGood, Placed
<1>3. Good(K) /\ x \in Ids(K) /\ K \in Layouts /\ Tree(K) /\ fields \in Layouts
  BY <1>1 DEF FromGood, Good, Sound
<1>4. Names(fields, Ids(S), fresh)
  BY <1>2 DEF Injection, Names, IsInjective
<1>5. Ids(S) = U
  BY <1>3, SubtreeIs
<1> HIDE DEF S
<1>6. AsBefore(Renamed(S, fresh)[1], Find(K, x))
  <2>1. LET C == Renamed(SubtreeOf(K, x), fresh) IN AsBefore(C[1], Find(K, x))
    BY <1>3, <1>4, CopiesAre DEF S
  <2> QED BY <2>1 DEF S
<1>7. p = Root \/ p \in Ids(fields)
  <2>1. \/ Renamed(S, fresh)[1].parent = Root
        \/ HasField(fields, Renamed(S, fresh)[1].parent)
    BY <1>2 DEF CanPaste
  <2>2. Renamed(S, fresh)[1].parent = p
    BY <1>6 DEF AsBefore, Parent
  <2> QED BY <1>3, <2>1, <2>2, LayoutFacts
<1>8. IsGrid(fields, p)
  BY <1>1, <1>7 DEF FromGood, IsGrid
<1>9. clipboard[1] = Find(K, x) /\ clipboard[1].parent = p
  BY <1>1, ClipFirst
<1>10. Find(K, x).type = RichText => Find(K, x).colSpan = ScopeColumns(fields, p)
  BY <1>9 DEF Narrow
<1>11. Pastes(fields, K, x, fresh)
  BY <1>2, <1>3, <1>4, <1>8, <1>10 DEF Pastes, S
<1>12. Step(fields, fields', {fresh[z] : z \in U})
  BY <1>2, <1>11, PasteSteps DEF S
<1>13. p \notin {fresh[z] : z \in U}
  BY <1>4, <1>5, <1>7, DesignerAssumption DEF Names
<1> QED BY <1>9, <1>12, <1>13

(* The inductive invariant: the canvas, and what was copied, is in order,  *)
(* unless a rich text was pasted too narrow.                               *)
InOrder == ~stale => Good(fields) /\ ClipGood

LEMMA CanvasSteps ==
  ASSUME Subform \notin Types, InOrder, CanvasNext, ~stale', ~stale
  PROVE  ClipGood' /\ (fields' = fields \/ \E X : Step(fields, fields', X))
<1>1. Good(fields) /\ ClipGood
  BY DEF InOrder
<1>2. ASSUME Rearrange
      PROVE  \E X : Step(fields, fields', X) /\ (clipboard # << >> => clipboard[1].parent \notin X)
  <2>1. ASSUME NEW id \in FieldIds, NEW type \in Types, AddField(id, type)
        PROVE  Step(fields, fields', {id}) /\ (clipboard # << >> => clipboard[1].parent \notin {id})
    <3>1. clipboard # << >> => clipboard[1].parent # id
      BY <2>1 DEF AddField, CopiedFrom
    <3> QED BY <1>1, <2>1, <3>1, AddSteps
  <2>2. ASSUME NEW id \in FieldIds, DragField(id) \/ Resize(id) \/ RemoveField(id)
        PROVE  Step(fields, fields', {})
    BY <1>1, <2>2, DragSteps, ResizeActs, RemoveActs
  <2> DEFINE After(X) == Step(fields, fields', X) /\ (clipboard # << >> => clipboard[1].parent \notin X)
  <2>3. CASE \E id \in FieldIds : \E type \in Types : AddField(id, type)
    <3>1. PICK id \in FieldIds : \E type \in Types : AddField(id, type)
      BY <2>3
    <3>2. After({id})
      BY <2>1, <3>1
    <3> HIDE DEF After
    <3> QED BY <3>2 DEF After
  <2>4. CASE \E id \in FieldIds : DragField(id) \/ Resize(id) \/ RemoveField(id)
    <3>1. After({})
      BY <2>2, <2>4
    <3> HIDE DEF After
    <3> QED BY <3>1 DEF After
  <2> QED BY <1>2, <2>3, <2>4 DEF Rearrange
<1>3. clipboard' = clipboard \/ clipboard' = << >> \/ \E id \in FieldIds : Copy(id)
  BY DEF CanvasNext, Rearrange, KeepsClipboard, Paste, Reopen, ShowSaved
<1>4. CASE \E id \in FieldIds : Copy(id)
  BY <1>1, <1>4, CopyActs
<1>5. ASSUME NEW X, Step(fields, fields', X), clipboard # << >> => clipboard[1].parent \notin X,
             ~ \E id \in FieldIds : Copy(id)
      PROVE  ClipGood'
  BY <1>1, <1>3, <1>5, ClipStays
<1>6. CASE ~ \E id \in FieldIds : Copy(id)
  <2>1. \E X : Step(fields, fields', X) /\ (clipboard # << >> => clipboard[1].parent \notin X)
    <3>1. ASSUME Paste PROVE ~Narrow(clipboard[1])
      BY <3>1 DEF Paste
    <3>2. ASSUME Reopen \/ ShowSaved PROVE Step(fields, fields', {})
      BY <1>1, <3>2, OpenActs
    <3> QED BY <1>1, <1>2, <1>6, <3>1, <3>2, PasteActs DEF CanvasNext
  <2> QED BY <1>5, <1>6, <2>1
<1> QED BY <1>4, <1>6

(* From a stale canvas one that is not only comes when everything is gone. *)
LEMMA StaleSteps ==
  ASSUME CanvasNext, stale, ~stale'
  PROVE  fields' = << >> /\ clipboard' = << >>
<1>1. ASSUME NEW id, Copy(id) PROVE FALSE
  BY <1>1 DEF Copy
<1> QED BY <1>1 DEF CanvasNext, Rearrange, Paste, Reopen, ShowSaved, StaysStale

LEMMA InOrderKept ==
  ASSUME Subform \notin Types
  PROVE  CanvasSpec => []InOrder
<1>1. CanvasInit => InOrder
  BY EmptyGood DEF CanvasInit, InOrder, ClipGood
<1>2. InOrder /\ [CanvasNext]_canvasVars => InOrder'
  <2> SUFFICES ASSUME InOrder, [CanvasNext]_canvasVars, ~stale' PROVE Good(fields') /\ ClipGood'
    BY DEF InOrder
  <2>1. CASE UNCHANGED canvasVars
    BY <2>1 DEF InOrder, canvasVars, ClipGood, FromGood
  <2>2. CASE CanvasNext /\ stale
    BY <2>2, StaleSteps, EmptyGood DEF ClipGood
  <2>3. CASE CanvasNext /\ ~stale
    BY <2>3, CanvasSteps DEF InOrder, Step
  <2> QED BY <2>1, <2>2, <2>3
<1> QED BY <1>1, <1>2, PTL DEF CanvasSpec

(* Whatever is added, dragged, resized, copied, pasted, removed or opened
   again: every field lies in its scope, no two siblings lie on each other,
   rich texts fill their scopes and parents are groups without a cycle, until
   a rich text is pasted that was copied while its group was narrower
   (copiedFieldsRef, placePastedFields).  A subform is not in the palette
   (with one, OpensAgain fails). *)
THEOREM CanvasIsGood ==
  ASSUME Subform \notin Types
  PROVE  CanvasSpec => [](~stale => Good(fields))
<1>1. InOrder => (~stale => Good(fields))
  BY DEF InOrder
<1> QED BY <1>1, InOrderKept, PTL

LEMMA GoodApart ==
  ASSUME ~stale => Good(fields)
  PROVE  NoOverlap
<1> SUFFICES ASSUME NEW a \in Placed, NEW b \in Placed, a # b, Field(a).parent = Field(b).parent,
                    Overlap(Field(a), Field(b)), ~stale
             PROVE  FALSE
  BY DEF NoOverlap
<1>1. Clash(Find(fields, a), Find(fields, b))
  BY OverlapClash DEF Field
<1>2. Parent(fields, a) = Parent(fields, b)
  BY DEF Field, Parent
<1> QED BY <1>1, <1>2 DEF Good, Sound, Placed

(* No two fields of one grid ever lie on each other, however many are pushed
   aside by insertions, growing groups, pastes of what was copied earlier and
   resizes (designer-layout.ts), until a rich text is pasted too narrow. *)
THEOREM CanvasNoOverlap ==
  ASSUME Subform \notin Types
  PROVE  CanvasSpec => []NoOverlap
<1>1. (~stale => Good(fields)) => NoOverlap
  BY GoodApart
<1> QED BY <1>1, CanvasIsGood, PTL

LEMMA GoodOpens ==
  ASSUME Good(fields)
  PROVE  OpensAgain
<1> DEFINE B == BuildSchema(fields)
<1> SUFFICES ASSUME SchemaValid(fields) PROVE Parses(B)
  BY DEF OpensAgain
<1>1. SameFields(fields, B) /\ Good(B)
  BY BuiltIs
<1> HIDE DEF B
<1>2. /\ fields \in Layouts /\ B \in Layouts /\ Ids(B) = Ids(fields) /\ Tree(B)
      /\ \A y \in Ids(fields) : Find(B, y) = Find(fields, y)
  BY <1>1 DEF SameFields, Good, Sound
<1>3. SchemaValid(B)
  <2> SUFFICES ASSUME NEW id \in Ids(B), IsContainer(TypeOf(B, id)) PROVE Siblings(B, id) # {}
    BY DEF SchemaValid
  <2>1. TypeOf(B, id) = Find(fields, id).type /\ TypeOf(fields, id) = Find(fields, id).type
    BY <1>2, LayoutFacts
  <2>2. Siblings(fields, id) # {}
    BY <1>2, <2>1 DEF SchemaValid
  <2>3. PICK i \in DOMAIN fields : fields[i].parent = id
    BY <2>2 DEF Siblings
  <2>4. fields[i].id \in Ids(fields) /\ Find(fields, fields[i].id) = fields[i]
    BY <1>2, LayoutFacts
  <2>5. PICK j \in DOMAIN B : Find(B, fields[i].id) = B[j]
    BY <1>2, <2>4, LayoutFacts
  <2>6. B[j].parent = id
    BY <1>2, <2>3, <2>4, <2>5
  <2> QED BY <2>6 DEF Siblings
<1>4. ASSUME NEW i \in DOMAIN B
      PROVE  /\ B[i].row >= 0 /\ B[i].column >= 0
             /\ B[i].rowSpan >= 1 /\ B[i].colSpan >= 1
             /\ Right(B[i]) <= COLUMN_COUNT
             /\ B[i].parent # Root => IsContainer(TypeOf(B, B[i].parent))
  <2>1. B[i] \in Fields /\ B[i].id \in Ids(B) /\ Find(B, B[i].id) = B[i]
    BY <1>2, LayoutFacts
  <2>2. OnCanvas(B[i])
    BY <1>1, <2>1, AllOnCanvas
  <2>3. B[i].rowSpan \in Nat \ {0} /\ B[i].colSpan \in Nat \ {0}
    BY <2>1 DEF Fields
  <2>4. ASSUME B[i].parent # Root PROVE IsContainer(TypeOf(B, B[i].parent))
    <3>1. B[i].parent \in Ids(B) /\ Find(B, B[i].parent).type = Group
      BY <1>2, <2>1, <2>4 DEF Tree, Parent
    <3>2. TypeOf(B, B[i].parent) = Group
      BY <1>2, <3>1, LayoutFacts
    <3> QED BY <3>2 DEF IsContainer
  <2>5. B[i].rowSpan >= 1 /\ B[i].colSpan >= 1
    BY <2>3
  <2> QED BY <2>2, <2>4, <2>5 DEF OnCanvas
<1> QED BY <1>3, <1>4 DEF Parses

(* A layout that may be saved is one that parseDesignerSource accepts when
   the form is opened again, after buildSchema has sorted it; on a stale
   canvas TLC checks it, within the bounds. *)
THEOREM CanvasOpensAgain ==
  ASSUME Subform \notin Types
  PROVE  CanvasSpec => [](~stale => OpensAgain)
<1>1. (~stale => Good(fields)) => (~stale => OpensAgain)
  BY GoodOpens
<1> QED BY <1>1, CanvasIsGood, PTL

LEMMA WholeMoves ==
  ASSUME Good(fields), NEW X, Step(fields, fields', X)
  PROVE  \A id \in Kept : MovesWithItsParent(Find(fields, id), Find(fields', id))
<1>1. fields \in Layouts /\ fields' \in Layouts /\ Whole(fields, fields')
  BY DEF Step, Good, Sound
<1>2. Kept = Ids(fields) \cap Ids(fields')
  BY <1>1, LayoutFacts DEF Kept, Placed
<1> SUFFICES ASSUME NEW id \in Kept,
                    Find(fields, id).parent \in Kept,
                    Find(fields', id).parent = Find(fields, id).parent,
                    Find(fields, id).type # RichText
             PROVE  LET f == Find(fields, id) g == Find(fields', id)
                        p == Find(fields, f.parent) q == Find(fields', f.parent)
                    IN  q.row # p.row \/ q.column # p.column =>
                            /\ g.row - f.row = q.row - p.row
                            /\ g.column - f.column = q.column - p.column
  BY DEF MovesWithItsParent
<1>3. MovesAlong(Find(fields, id), Find(fields', id),
                 Find(fields, Parent(fields, id)), Find(fields', Parent(fields, id)))
  BY <1>1, <1>2 DEF Whole, Parent
<1> QED BY <1>3 DEF MovesAlong, Parent

(* A group that a step moves, by dragging it or by pushing it aside, takes
   along everything that stays in it, at the same distance
   (collectSubtree, translateFields), as long as the canvas is not stale; on
   a stale one TLC checks it, within the bounds. *)
THEOREM CanvasGroupsMoveWhole ==
  ASSUME Subform \notin Types
  PROVE  CanvasSpec /\ []~stale => GroupsMoveWhole
<1> DEFINE AllMove == \A id \in Kept : MovesWithItsParent(Find(fields, id), Find(fields', id))
<1>1. InOrder /\ ~stale /\ ~stale' /\ [CanvasNext]_canvasVars => [AllMove]_fields
  <2> SUFFICES ASSUME InOrder, ~stale, ~stale', [CanvasNext]_canvasVars, fields' # fields
               PROVE  AllMove
    OBVIOUS
  <2>1. CanvasNext
    BY DEF canvasVars
  <2>2. Good(fields) /\ \E X : Step(fields, fields', X)
    BY <2>1, CanvasSteps DEF InOrder
  <2> QED BY <2>2, WholeMoves
<1> QED BY <1>1, InOrderKept, PTL DEF CanvasSpec, GroupsMoveWhole

(* What lies in a good layout in the rows of its group lies inside it. *)
LEMMA ContainedInside ==
  ASSUME NEW L, Good(L), NEW x \in Ids(L), ~InsideGroup(L, Find(L, x))
  PROVE  ~Contained(L, x)
<1> SUFFICES ASSUME Contained(L, x) PROVE FALSE
  OBVIOUS
<1> DEFINE f == Find(L, x)
           q == Parent(L, x)
           p == Find(L, q)
<1>1. L \in Layouts /\ Tree(L) /\ Scoped(L, x) /\ Fills(L, x)
  BY DEF Good, Sound, Filled
<1>2. q \in Ids(L) /\ Bottom(f) <= Bottom(p)
  BY DEF Contained
<1>3. /\ f \in Fields /\ p \in Fields /\ q # Root
      /\ ScopeColumn(L, q) = p.column /\ ScopeColumns(L, q) = p.colSpan
  BY <1>1, <1>2, ScopeFacts
<1>4. f.row >= p.row
  BY <1>1, <1>3 DEF Scoped, ScopeRow
<1>5. f.column >= p.column /\ Right(f) <= Right(p)
  <2>1. CASE f.type = RichText
    <3>1. f.column = p.column /\ f.colSpan = p.colSpan
      BY <1>1, <1>3, <2>1 DEF Fills
    <3> QED BY <1>3, <3>1 DEF Fields, Right
  <2>2. CASE f.type # RichText
    <3>1. f.column >= p.column /\ Right(f) <= p.column + p.colSpan
      BY <1>1, <1>3, <2>2 DEF Scoped
    <3> QED BY <3>1 DEF Right
  <2> QED BY <2>1, <2>2
<1> QED BY <1>2, <1>4, <1>5 DEF InsideGroup, Parent

LEMMA EscapeGrown ==
  ASSUME Good(fields), NEW X, Step(fields, fields', X)
  PROVE  \A id \in Kept :
            LET f == Find(fields, id)
            IN  Escapes(f, Find(fields', id)) =>
                    \/ NeighbourGrows(f)
                    \/ /\ f.type = RichText
                       /\ Find(fields', f.parent).rowSpan < Find(fields, f.parent).rowSpan
<1>1. /\ fields \in Layouts /\ Tree(fields) /\ fields' \in Layouts /\ Tree(fields')
      /\ Good(fields') /\ StayIn(fields, fields')
  BY DEF Step, Good, Sound
<1>2. Kept = Ids(fields) \cap Ids(fields')
  BY <1>1, LayoutFacts DEF Kept, Placed
<1> SUFFICES ASSUME NEW id \in Kept, Escapes(Find(fields, id), Find(fields', id))
             PROVE  \/ NeighbourGrows(Find(fields, id))
                    \/ /\ Find(fields, id).type = RichText
                       /\ Find(fields', Find(fields, id).parent).rowSpan
                            < Find(fields, Find(fields, id).parent).rowSpan
  OBVIOUS
<1> DEFINE f == Find(fields, id)
           q == Parent(fields, id)
<1>3. /\ id \in Ids(fields) /\ id \in Ids(fields') /\ Parent(fields', id) = q /\ f.id = id
      /\ ~InsideGroup(fields', Find(fields', id)) /\ InsideGroup(fields, f)
  BY <1>1, <1>2, FindIsField DEF Escapes, Parent
<1>4. ~Contained(fields', id)
  BY <1>1, <1>3, ContainedInside
<1>5. q \in Ids(fields)
  <2>1. CASE q = Root
    <3>1. TypeOf(fields', q) = "canvas"
      BY <1>1, <1>3, <2>1, ScopeFacts
    <3> QED BY <1>3, <3>1 DEF InsideGroup, Parent, Group
  <2> QED BY <1>1, <1>3, <2>1, ScopeFacts
<1>6. Contained(fields, id)
  <2>1. TypeOf(fields, q) = Group
    BY <1>1, <1>3, <1>5, ScopeFacts
  <2> QED BY <1>3, <1>5, <2>1 DEF InsideGroup, Contained, Parent
<1>7. CASE Lower(fields, fields', id)
  BY <1>7 DEF Lower, Parent
<1>8. CASE Ids(fields) \subseteq Ids(fields') /\ GrewBeside(fields, fields', id)
  <2>1. PICK c \in Ids(fields) \ {id} :
            /\ Find(fields, c).type = Group /\ Parent(fields, c) = q
            /\ Find(fields', c).rowSpan > Find(fields, c).rowSpan
    BY <1>8 DEF GrewBeside
  <2>2. c \in Kept \ {f.id}
    BY <1>2, <1>3, <1>8, <2>1
  <2> QED BY <2>1, <2>2 DEF NeighbourGrows, Parent
<1> QED BY <1>1, <1>3, <1>4, <1>6, <1>7, <1>8 DEF StayIn

(* A field that leaves the cells of its group, and with them the screen, does
   so beside a group that grew, or is a rich text whose group was made lower:
   every other rearrangement asks expandContainerToFit for the room
   (designer-layout.ts), so that the groups around it grow along.  Again for
   a canvas that is not stale. *)
THEOREM CanvasEscapesOnlyWhenGrown ==
  ASSUME Subform \notin Types
  PROVE  CanvasSpec /\ []~stale => EscapesOnlyWhenGrown
<1> DEFINE AllStay == \A id \in Kept :
                        LET f == Find(fields, id)
                        IN  Escapes(f, Find(fields', id)) =>
                                \/ NeighbourGrows(f)
                                \/ /\ f.type = RichText
                                   /\ Find(fields', f.parent).rowSpan < Find(fields, f.parent).rowSpan
<1>1. InOrder /\ ~stale /\ ~stale' /\ [CanvasNext]_canvasVars => [AllStay]_fields
  <2> SUFFICES ASSUME InOrder, ~stale, ~stale', [CanvasNext]_canvasVars, fields' # fields
               PROVE  AllStay
    OBVIOUS
  <2>1. CanvasNext
    BY DEF canvasVars
  <2>2. Good(fields) /\ \E X : Step(fields, fields', X)
    BY <2>1, CanvasSteps DEF InOrder
  <2> QED BY <2>2, EscapeGrown
<1> QED BY <1>1, InOrderKept, PTL DEF CanvasSpec, EscapesOnlyWhenGrown

=============================================================================
