------------------------ MODULE ViewportsLayoutModel ------------------------
(***************************************************************************)
(* A layout of viewports: a grid whose cells are items, where a viewport   *)
(* may span a square of cells.  The item in the square's top left cell has *)
(* the span; the items of the other cells are hidden, and say in negative  *)
(* spans how far away that item is.  normalize() brings the items to this  *)
(* form after every change, starting over whenever two spans collide.      *)
(*                                                                         *)
(* Items are numbered from 0, row by row; those past the grid's end are    *)
(* kept from a larger one.  Their cameras are left out.  Everything runs   *)
(* on the GUI thread: the steps of normalize() are told apart because what *)
(* has to be shown of it is about its loops, not because anything else     *)
(* happens between them.                                                   *)
(***************************************************************************)
EXTENDS Integers, FiniteSets

CONSTANT Sizes   \* bound: the sizes a layout is given; [1-9]x[1-9] in SideBar.qml

ASSUME SizesAssumption ==
    Sizes \subseteq [columns : Nat \ {0}, rows : Nat \ {0}] /\ Sizes # {}

VARIABLES
    size, m_items,
    saved,    \* what toJSValue() returned last, of this layout or another
    at,       \* where normalize() is: "unhiding", "hiding", its two loops; "rest"
    index,    \* the second loop's index
    caller,   \* of normalize(): "editing", or fromJSValue() when "sizing",
              \* "growing" and at last "loading" the items
    given     \* history: the items it was called with

layoutVars == <<size, m_items, saved, at, index, caller, given>>

Cells(s) == s.columns * s.rows

\* column(), row() and dataIndex().
Column(s, i) == i % s.columns
Row(s, i) == i \div s.columns
DataIndex(s, column, row) == s.columns * row + column

Clamp(v, lo, hi) ==
    IF hi < lo THEN lo ELSE IF v < lo THEN lo ELSE IF hi < v THEN hi ELSE v

Item == [columnSpan : Int, rowSpan : Int, visible : BOOLEAN]

NewItem == [columnSpan |-> 1, rowSpan |-> 1, visible |-> TRUE]

\* The items put in place of others of the same index.
Over(items, others) ==
    [i \in (DOMAIN items) \cup (DOMAIN others) |->
        IF i \in DOMAIN items THEN items[i] ELSE others[i]]

\* m_items.resize() to these indices: it never shrinks.
Grown(items, indices) == Over(items, [i \in indices |-> NewItem])

\* The cells an item's span reaches, its own among them.
SpannedBy(s, items, i) ==
    {DataIndex(s, Column(s, i) + c, Row(s, i) + r) :
        c \in 0 .. items[i].columnSpan - 1, r \in 0 .. items[i].rowSpan - 1}

-----------------------------------------------------------------------------
(***************************************************************************)
(* normalize(), called for items of a layout of size s.                    *)
(***************************************************************************)
Normalize(s, items, who) ==
    /\ size' = s
    /\ m_items' = Grown(items, 0 .. Cells(s) - 1)
    /\ given' = m_items'
    /\ at' = "unhiding" /\ caller' = who
    /\ UNCHANGED <<saved, index>>

Spanning(item, n) == [item EXCEPT !.columnSpan = n, !.rowSpan = n]

\* The first loop: each item is visible, its span a square inside the grid.
NormalSpan(s, items, i) ==
    LET columnSpan == Clamp(items[i].columnSpan, 1, s.columns - Column(s, i))
        rowSpan == Clamp(items[i].rowSpan, 1, s.rows - Row(s, i))
    IN  IF columnSpan = s.columns /\ rowSpan = s.rows THEN 1
        ELSE IF rowSpan < columnSpan THEN rowSpan ELSE columnSpan

Unhidden(s, items) ==
    [i \in DOMAIN items |->
        [Spanning(items[i], NormalSpan(s, items, i)) EXCEPT !.visible = TRUE]]

Unhides ==
    /\ at = "unhiding"
    /\ m_items' = Unhidden(size, m_items)
    /\ at' = "hiding"
    /\ UNCHANGED <<size, saved, index, caller, given>>

\* What the second loop hides at an item.
Covered(i) == IF m_items[i].visible THEN SpannedBy(size, m_items, i) \ {i} ELSE {}

HiddenBehind(i, cells) ==
    [cell \in DOMAIN m_items |->
        IF cell \in cells
        THEN [columnSpan |-> Column(size, i) - Column(size, cell),
              rowSpan |-> Row(size, i) - Row(size, cell), visible |-> FALSE]
        ELSE m_items[cell]]

\* Mutant: an item another span covers is hidden again.
HidesAnyway ==
    /\ at = "hiding" /\ index \in DOMAIN m_items
    /\ m_items' = HiddenBehind(index, Covered(index))
    /\ index' = index + 1
    /\ UNCHANGED <<size, saved, at, caller, given>>

Hides ==
    /\ at = "hiding" /\ index \in DOMAIN m_items
    /\ \A cell \in Covered(index) : m_items[cell].visible
    /\ m_items' = HiddenBehind(index, Covered(index))
    /\ index' = index + 1
    /\ UNCHANGED <<size, saved, at, caller, given>>

\* Mutant: the span that collided is kept.
CollidesForever ==
    /\ at = "hiding" /\ index \in DOMAIN m_items
    /\ \E hidden \in Covered(index) :
         LET before == {cell \in Covered(index) : cell < hidden}
         IN  /\ ~m_items[hidden].visible
             /\ \A cell \in before : m_items[cell].visible
             /\ m_items' = HiddenBehind(index, before)
    /\ at' = "unhiding" /\ index' = 0
    /\ UNCHANGED <<size, saved, caller, given>>

\* Mutant: all spans are given up.
CollidesForAll ==
    /\ at = "hiding" /\ index \in DOMAIN m_items
    /\ \E hidden \in Covered(index) : ~m_items[hidden].visible
    /\ m_items' = [i \in DOMAIN m_items |-> Spanning(m_items[i], 1)]
    /\ at' = "unhiding" /\ index' = 0
    /\ UNCHANGED <<size, saved, caller, given>>

\* A cell is hidden already: those before it are hidden too by now.  All over again.
Collides ==
    /\ at = "hiding" /\ index \in DOMAIN m_items
    /\ \E hidden \in Covered(index) :
         LET before == {cell \in Covered(index) : cell < hidden}
         IN  /\ ~m_items[hidden].visible
             /\ \A cell \in before : m_items[cell].visible
             /\ m_items' = [HiddenBehind(index, before) EXCEPT ![index] = Spanning(@, 1)]
    /\ at' = "unhiding" /\ index' = 0
    /\ UNCHANGED <<size, saved, caller, given>>

Returns ==
    /\ at = "hiding" /\ index \notin DOMAIN m_items
    /\ at' = "rest" /\ index' = 0 /\ given' = << >>
    /\ UNCHANGED <<size, m_items, saved, caller>>

-----------------------------------------------------------------------------
AtRest == at = "rest" /\ caller \in {"editing", "loading"}

\* setSize(), resize().
SetSize(s) ==
    /\ AtRest /\ s # size
    /\ Normalize(s, m_items, "editing")

(***************************************************************************)
(* ViewportsLayout.qml: the user selects from one viewport to another and  *)
(* merges the cells between them, or splits the viewport in the corner.    *)
(***************************************************************************)
Viewports == {i \in 0 .. Cells(size) - 1 : m_items[i].visible}

Least(a, b) == IF a < b THEN a ELSE b
Greatest(a, b) == IF a > b THEN a ELSE b

Selection(i, j) ==
    [left   |-> Least(Column(size, i), Column(size, j)),
     top    |-> Least(Row(size, i), Row(size, j)),
     right  |-> Greatest(Column(size, i) + m_items[i].columnSpan,
                         Column(size, j) + m_items[j].columnSpan),
     bottom |-> Greatest(Row(size, i) + m_items[i].rowSpan,
                         Row(size, j) + m_items[j].rowSpan)]

MergeCells(i, j) ==
    LET sel == Selection(i, j)
        width == sel.right - sel.left
        topLeft == DataIndex(size, sel.left, sel.top)
        item == m_items[topLeft]
        span == IF item.columnSpan > 1 \/ item.rowSpan > 1 THEN 1 ELSE width
    IN  /\ AtRest
        /\ width = sel.bottom - sel.top
        /\ width < size.columns \/ width < size.rows
        /\ Normalize(size, [m_items EXCEPT ![topLeft] = Spanning(@, span)], "editing")

-----------------------------------------------------------------------------
Saved == [size |-> size, items |-> m_items]

ToJSValue ==
    /\ AtRest
    /\ saved' = Saved
    /\ UNCHANGED <<size, m_items, at, index, caller, given>>

\* fromJSValue(): the size first.
FromJSValue ==
    /\ AtRest
    /\ IF saved.size # size THEN Normalize(saved.size, m_items, "sizing")
       ELSE Normalize(size, Grown(m_items, DOMAIN saved.items), "growing")

\* As many items as are saved, normalized with whatever they were.
GrowsItems ==
    /\ at = "rest" /\ caller = "sizing"
    /\ Normalize(size, Grown(m_items, DOMAIN saved.items), "growing")

\* Mutant: the first item is not set.
SetsItemsButFirst ==
    /\ at = "rest" /\ caller = "growing"
    /\ Normalize(size, Over([i \in DOMAIN saved.items \ {0} |-> saved.items[i]], m_items),
                 "loading")

\* The saved properties over what is there.
SetsItems ==
    /\ at = "rest" /\ caller = "growing"
    /\ Normalize(size, Over(saved.items, m_items), "loading")

\* The collection appends layouts it has too few of: those are loaded with
\* neither a size nor items of their own.
LoadsAppended == AtRest /\ Normalize(saved.size, << >>, "sizing")

-----------------------------------------------------------------------------
\* A layout gets its first size when there are no items, which are shown as they come.
FirstItems(s) == Grown(<< >>, 0 .. Cells(s) - 1)

\* Another layout, as RootWindow.qml makes them when the program starts; what
\* was saved may be loaded into it.
NewLayout(s) ==
    /\ AtRest
    /\ size' = s /\ m_items' = FirstItems(s) /\ caller' = "editing"
    /\ UNCHANGED <<saved, at, index, given>>

LayoutInit ==
    /\ size \in Sizes
    /\ m_items = FirstItems(size)
    /\ saved = Saved
    /\ at = "rest" /\ index = 0 /\ caller = "editing" /\ given = << >>

NormalizeStep == Unhides \/ Hides \/ Collides \/ Returns \/ GrowsItems \/ SetsItems

LayoutNext ==
    \/ \E s \in Sizes : SetSize(s) \/ NewLayout(s)
    \/ \E i, j \in Viewports : MergeCells(i, j)
    \/ ToJSValue \/ FromJSValue \/ LoadsAppended
    \/ NormalizeStep

LayoutSpec == LayoutInit /\ [][LayoutNext]_layoutVars /\ WF_layoutVars(NormalizeStep)

-----------------------------------------------------------------------------
(***************************************************************************)
(* Types: the items are numbered without a gap, and there is one for each  *)
(* cell of the grid, shown or saved (get() of a cell is never null).       *)
(***************************************************************************)
ItemsOf(s, items) ==
    LET count == Cardinality(DOMAIN items)
    IN  /\ IsFiniteSet(DOMAIN items) /\ items \in [0 .. count - 1 -> Item]
        /\ Cells(s) <= count

LayoutTypeOK ==
    /\ size \in Sizes /\ saved.size \in Sizes
    /\ ItemsOf(size, m_items) /\ ItemsOf(saved.size, saved.items)
    /\ at \in {"rest", "unhiding", "hiding"}
    /\ index \in Nat
    /\ caller \in {"editing", "sizing", "growing", "loading"}

(***************************************************************************)
(* Whatever is merged, split, resized and loaded, and wherever normalize() *)
(* had to start over: each cell of the grid is drawn on by one viewport,   *)
(* that does not leave the grid, and a hidden item's negative spans lead   *)
(* to that viewport (spanningIndex() moves the focus by them).             *)
(***************************************************************************)
EveryCellIsDrawnOnce ==
    at = "rest" =>
    /\ \A i \in Viewports :
         /\ Column(size, i) + m_items[i].columnSpan <= size.columns
         /\ Row(size, i) + m_items[i].rowSpan <= size.rows
    /\ \A cell \in 0 .. Cells(size) - 1 :
         LET item == m_items[cell]
             owner == IF item.visible THEN cell
                      ELSE DataIndex(size, Column(size, cell) + item.columnSpan,
                                     Row(size, cell) + item.rowSpan)
         IN  {i \in Viewports : cell \in SpannedBy(size, m_items, i)} = {owner}

(***************************************************************************)
(* The layout saved is the one shown after it is loaded, into a model with *)
(* any other size, spans and left-over items: the loading normalizes three *)
(* times, twice with spans that are not the saved ones.                    *)
(***************************************************************************)
SavedLayoutIsRestored ==
    at = "rest" /\ caller = "loading" =>
    /\ size = saved.size
    /\ \A i \in 0 .. Cells(size) - 1 : m_items[i] = saved.items[i]

(***************************************************************************)
(* Merging, splitting, resizing and loading change no viewport but those   *)
(* in the way: an item that no other wide one meets, as they were given    *)
(* and the first loop cut them, is just so when normalize() returns,       *)
(* however often it started over for the others.                           *)
(***************************************************************************)
Untouched(s, asked, i) ==
    \A j \in DOMAIN asked : j # i /\ asked[j].columnSpan > 1 =>
        SpannedBy(s, asked, i) \cap SpannedBy(s, asked, j) = {}

UntouchedItemsStay ==
    at = "hiding" /\ index \notin DOMAIN m_items =>
        LET asked == Unhidden(size, given)
        IN  \A i \in DOMAIN asked : Untouched(size, asked, i) => m_items[i] = asked[i]

(***************************************************************************)
(* normalize() widens no span, and starts over only after it narrowed one: *)
(* so it starts over at most once for each viewport that spans more than   *)
(* its cell.                                                               *)
(***************************************************************************)
Wide == {i \in DOMAIN m_items : m_items[i].columnSpan > 1}

EachRestartNarrows ==
    [][at # "rest" => /\ Wide' \subseteq Wide
                      /\ at' = "unhiding" => Wide' # Wide]_layoutVars

(***************************************************************************)
(* normalize() returns, and a layout that is being loaded gets its items:  *)
(* nothing else runs on the thread meanwhile.                              *)
(***************************************************************************)
NormalizeEnds == at # "rest" ~> AtRest
=============================================================================
