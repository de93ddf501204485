------------------------------ MODULE ChatList ------------------------------
(***************************************************************************)
(* The scrolling list of internal/ui/list/list.go: items of some height,   *)
(* stacked with a gap between them, seen through a viewport.  A list is a  *)
(* record with the fields of the code's struct: items, height, selectedIdx,*)
(* offsetIdx (the item the viewport begins in) and offsetLine (how many of *)
(* its rows are above the viewport).  Indices begin at 0, as in the code;  *)
(* -1 is no selection, and the offset of a list that was empty.            *)
(* Rendering is abstracted to the height of an item; the reverse order and *)
(* the operations the chat does not use are left out.                      *)
(***************************************************************************)
EXTENDS Integers, Sequences, FiniteSetsExt, SequencesExt

CONSTANT gap  \* rows between two items

ASSUME GapNat == gap \in Nat

LastIdx(l) == Len(l.items) - 1
Indices(l) == 0 .. LastIdx(l)
ItemAt(l, i) == l.items[i + 1]
AtLeastZero(n) == IF n > 0 THEN n ELSE 0

(* A list that was empty begins at -1, where there is nothing to render.   *)
HeightAt(l, i) == IF i \in Indices(l) THEN ItemAt(l, i).h ELSE 0

(* The rows above each of the items, and above their end.                  *)
Starts(items) ==
    LET start[n \in 0 .. Len(items)] ==
            IF n = 0 THEN 0 ELSE start[n - 1] + items[n].h + gap
    IN start

(* The rows of the items from i to before j, each with the gap behind it.  *)
Stack(l, i, j) ==
    IF i < j THEN Starts(l.items)[j] - Starts(l.items)[AtLeastZero(i)] ELSE 0

(* The rows from the top of item i to the bottom of item j.                *)
Extent(l, i, j) == IF i > j THEN 0 ELSE Stack(l, i, j) + HeightAt(l, j)

(* The row of the viewport in which item i begins.                         *)
TopOf(l, i) == Stack(l, l.offsetIdx, i) - l.offsetLine

(* The early return compares what lies before an item with the viewport    *)
(* without taking the offset into account; the last item decides.          *)
AtBottom(l) ==
    \/ l.items = <<>>
    \/ /\ Extent(l, l.offsetIdx, LastIdx(l) - 1) <= l.height
       /\ Extent(l, l.offsetIdx, LastIdx(l)) - l.offsetLine <= l.height

(* The last place the viewport may begin at, an item and a row of it: the  *)
(* walk goes upwards until the rows from an item on fill more than a view. *)
lastOffsetItem(l) ==
    LET fills == {i \in Indices(l) : Extent(l, i, LastIdx(l)) > l.height}
        idx == IF fills = {} THEN 0 ELSE Max(fills)
    IN <<idx, AtLeastZero(Extent(l, idx, LastIdx(l)) - l.height)>>

BeginAt(l, idx, line) == [l EXCEPT !.offsetIdx = idx, !.offsetLine = line]

ListToTop(l) == BeginAt(l, 0, 0)

ListToBottom(l) ==
    IF l.items = <<>> THEN l
    ELSE LET last == lastOffsetItem(l) IN BeginAt(l, last[1], last[2])

ListToIndex(l, index) ==
    BeginAt(l, Min({AtLeastZero(index), LastIdx(l)}), 0)

(* Mutant: scrolling down does not stop at the bottom.                     *)
Unclamped(l) == l

Clamp(l) ==
    LET last == lastOffsetItem(l)
    IN IF \/ l.offsetIdx > last[1]
          \/ l.offsetIdx = last[1] /\ l.offsetLine > last[2]
       THEN BeginAt(l, last[1], last[2])
       ELSE l

(* On the way down a row of the gap becomes the first of the next item.    *)
PastGap(line) == AtLeastZero(line - gap)

(* The two loops of ScrollBy, each with the rows that are left on reaching *)
(* an item; a walk stops at the first item where they suffice.             *)
Down(l, lines) ==
    LET left[i \in l.offsetIdx .. LastIdx(l)] ==
            IF i = l.offsetIdx THEN l.offsetLine + lines
            ELSE PastGap(left[i - 1] - HeightAt(l, i - 1))
        stops == {i \in l.offsetIdx .. LastIdx(l) : left[i] < HeightAt(l, i)}
    IN IF stops = {} THEN ListToBottom(l)
       ELSE Clamp(BeginAt(l, Min(stops), left[Min(stops)]))

Up(l, lines) ==
    LET left(i) == Stack(l, i, l.offsetIdx) + l.offsetLine - lines
        stops == {i \in 0 .. l.offsetIdx : left(i) >= 0}
    IN IF stops = {} THEN ListToTop(l)
       ELSE BeginAt(l, Max(stops), left(Max(stops)))

ListBy(l, lines) ==
    IF \/ l.items = <<>>
       \/ lines = 0
       \/ lines > 0 /\ AtBottom(l)
    THEN l
    ELSE IF lines > 0 THEN Down(l, lines) ELSE Up(l, -lines)

(* The first and the last visible item; a gap counts as the item above it. *)
VisibleItemIndices(l) ==
    IF l.items = <<>> THEN <<0, 0>>
    ELSE LET reaches == {i \in l.offsetIdx .. LastIdx(l) :
                             TopOf(l, i + 1) >= l.height}
         IN <<l.offsetIdx, IF reaches = {} THEN LastIdx(l) ELSE Min(reaches)>>

InView(l, i) ==
    LET visible == VisibleItemIndices(l)
    IN visible[1] <= i /\ i <= visible[2]

SelectedItemInView(l) == l.selectedIdx \in Indices(l) /\ InView(l, l.selectedIdx)

ListToSelected(l) ==
    LET sel == l.selectedIdx
        fills == {i \in 0 .. sel : Extent(l, i, sel) >= l.height}
    IN IF sel \notin Indices(l) \/ SelectedItemInView(l) THEN l
       ELSE IF sel < l.offsetIdx THEN BeginAt(l, sel, 0)
       ELSE IF fills = {} THEN ListToTop(l)
       ELSE BeginAt(l, Max(fills), Extent(l, Max(fills), sel) - l.height)

setItems(l, items) ==
    LET last == Len(items) - 1
    IN [l EXCEPT !.items = items,
                 !.selectedIdx = Min({l.selectedIdx, last}),
                 !.offsetIdx = Min({l.offsetIdx, last}),
                 !.offsetLine = 0]

AppendItems(l, items) == [l EXCEPT !.items = l.items \o items]

RemoveItem(l, idx) ==
    LET left == Len(l.items) - 1
        pastEnd == l.offsetIdx = idx /\ idx >= left
    IN [l EXCEPT
        !.items = SubSeq(l.items, 1, idx) \o SubSeq(l.items, idx + 2, left + 1),
        !.selectedIdx = IF l.selectedIdx = idx THEN -1
                        ELSE IF l.selectedIdx > idx THEN l.selectedIdx - 1
                        ELSE l.selectedIdx,
        !.offsetIdx = IF l.offsetIdx > idx THEN l.offsetIdx - 1
                      ELSE IF pastEnd THEN AtLeastZero(left - 1)
                      ELSE l.offsetIdx,
        !.offsetLine = IF pastEnd THEN 0 ELSE l.offsetLine]

Select(l, idx) == [l EXCEPT !.selectedIdx = IF idx \in Indices(l) THEN idx ELSE -1]

(* Mutant: the rows above the viewport are not taken off.                  *)
findFromItemTop(l, y) ==
    LET top(i) == TopOf(l, i) + l.offsetLine
        hit == {i \in l.offsetIdx .. LastIdx(l) :
                    top(i) <= y /\ y < top(i) + HeightAt(l, i)}
    IN IF 0 <= y /\ y < l.height /\ hit # {} THEN Min(hit) ELSE -1

(* The item that a click in row y of the viewport hits, or -1.             *)
findItemAtY(l, y) ==
    LET hit == {i \in l.offsetIdx .. LastIdx(l) :
                    TopOf(l, i) <= y /\ y < TopOf(l, i) + HeightAt(l, i)}
    IN IF 0 <= y /\ y < l.height /\ hit # {} THEN Min(hit) ELSE -1

(* What the rows of the viewport show: the item of each row, -1 for a gap. *)
Blank(n) == [k \in 1 .. AtLeastZero(n) |-> -1]

(* The rows of item i from one of its rows or of the gap behind it on.     *)
RowsFrom(l, i, line) ==
    IF line < HeightAt(l, i)
    THEN [k \in 1 .. HeightAt(l, i) - line |-> i] \o Blank(gap)
    ELSE Blank(gap - (line - HeightAt(l, i)))

Rows(l) ==
    FlattenSeq([k \in 1 .. Len(l.items) - l.offsetIdx |->
        RowsFrom(l, l.offsetIdx + k - 1, IF k = 1 THEN l.offsetLine ELSE 0)])

Render(l) ==
    IF l.items = <<>> THEN <<>>
    ELSE LET rows == Rows(l)
         IN SubSeq(rows, 1, Min({l.height, Len(rows)}))

=============================================================================
