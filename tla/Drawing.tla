------------------------------ MODULE Drawing -------------------------------
(***************************************************************************)
(* How runes_display_draw_screen draws one row: the cells are gathered     *)
(* into strings of one look, a string is cut where the selection begins or *)
(* ends inside it, the empty cells between strings are filled, and the     *)
(* text of a string is drawn at once if the font allows.                   *)
(*                                                                         *)
(* A cell has one of a few kinds: whether it is empty, what it looks like, *)
(* how many bytes and columns it takes.  Every row does the same, so the   *)
(* other rows are only the places above and below where the selection may  *)
(* start or end.                                                           *)
(***************************************************************************)
EXTENDS Integers, Sequences, FiniteSets, SequencesExt

CONSTANTS
    Cols,           \* the columns of the screen (grid->max.col)
    Kinds           \* the kinds of cells that occur, a subset of AllKinds

\* "tail" is the second column of a wide cell; the kinds in ascii take a
\* byte, the others more.
AllKinds == {"empty", "tail", "ascii", "bold", "inverse", "red", "accent", "wide"}

ASSUME DrawingAssumption == Cols \in Nat \ {0} /\ Kinds \subseteq AllKinds

Columns == 0..(Cols - 1)
Row == {r \in [Columns -> Kinds] :
           \A c \in Columns : r[c] = "tail" <=> c > 0 /\ r[c - 1] = "wide"}
\* A wide cell needs two columns.
Rows == {r \in Row : r[Cols - 1] # "wide"}

\* An end of the selection: in the row above, in this row, in the one below.
Locs == [row : {-1, 1}, col : {0}] \cup [row : {0}, col : 0..Cols]

VARIABLES
    cells,          \* the cells of the row
    sel,            \* the selection: shown, start, end
    c, start,       \* the locals of the loop
    string,         \* the columns of the cells gathered so far (cells)
    rects,          \* the rectangles painted, in order
    glyphs,         \* the texts drawn: which cell, and in which column
    done            \* the row is drawn

vars == <<cells, sel, c, start, string, rects, glyphs, done>>

Looks == [fg : {"fgdefault", "bgdefault", "red"}, bg : {"fgdefault", "bgdefault", "red"}]

TypeOK ==
    /\ cells \in Rows
    /\ sel \in [shown : BOOLEAN, start : Locs, end : Locs]
    /\ c \in 0..(Cols + 1) /\ start \in 0..Cols
    /\ string \in Seq(Columns) /\ Len(string) <= Cols
    /\ rects \in Seq([col : Columns, width : 1..Cols, look : Looks, selected : BOOLEAN])
    /\ glyphs \in Seq([cell : Columns, at : Columns])
    /\ done \in BOOLEAN

Init ==
    /\ cells \in Rows
    /\ sel \in [shown : BOOLEAN, start : Locs, end : Locs]
    /\ c = 0 /\ start = 0 /\ string = <<>>
    /\ rects = <<>> /\ glyphs = <<>> /\ done = FALSE

-----------------------------------------------------------------------------
(* Cells *)

IsEmpty(i) == cells[i] \in {"empty", "tail"}
Width(i) == IF cells[i] = "wide" THEN 2 ELSE 1
Ascii(i) == cells[i] \notin {"accent", "wide"}

\* The attributes of a cell: colours, and what else its look depends on.
Attrs(i) ==
    [fg |-> IF cells[i] = "red" THEN "red" ELSE "default",
     bg |-> IF cells[i] = "red" THEN "red" ELSE "default",
     bold |-> cells[i] = "bold", inverse |-> cells[i] = "inverse"]

\* vt100_screen_row_max_col: the columns up to the last cell with text.
RowMaxCol ==
    IF \A i \in Columns : cells[i] = "empty" THEN 0
    ELSE 1 + (CHOOSE i \in Columns : /\ cells[i] # "empty"
                                     /\ \A j \in Columns : j > i => cells[j] = "empty")

\* runes_display_continue_string; an empty prev is NULL.
ContinueString(prev, i) ==
    prev # <<>> => /\ ~IsEmpty(Head(prev)) /\ ~IsEmpty(i)
                   /\ Attrs(Head(prev)) = Attrs(i)

-----------------------------------------------------------------------------
(* The selection *)

Before(l, m) == l.row < m.row \/ (l.row = m.row /\ l.col < m.col)

\* runes_display_loc_is_between
LocIsBetween(l, from, to) ==
    IF Before(to, from) THEN ~Before(l, to) /\ Before(l, from)
    ELSE ~Before(l, from) /\ Before(l, to)

Loc(col) == [row |-> 0, col |-> col]

\* An end beyond the text of the row is at the end of the row.
Beyond(l) == IF l.row = 0 /\ l.col > RowMaxCol THEN Loc(Cols) ELSE l

\* runes_display_loc_is_selected
LocIsSelected(col) ==
    sel.shown /\ LocIsBetween(Loc(col), Beyond(sel.start), Beyond(sel.end))

-----------------------------------------------------------------------------
(* Painting *)

\* The colours of a string of cells, or of a gap, in draw_string.
Look(s, selected) ==
    LET a == Attrs(Head(s))
        fg == IF a.fg = "default" THEN "fgdefault" ELSE a.fg
        bg == IF a.bg = "default" THEN "bgdefault" ELSE a.bg
        exchanged == IF s = <<>> THEN selected ELSE a.inverse # selected
    IN  IF s = <<>> \/ (exchanged /\ a.fg = a.bg)
        THEN IF exchanged THEN [fg |-> "bgdefault", bg |-> "fgdefault"]
             ELSE [fg |-> "fgdefault", bg |-> "bgdefault"]
        ELSE IF exchanged THEN [fg |-> bg, bg |-> fg]
        ELSE [fg |-> fg, bg |-> bg]

Rect(col, width, s) ==
    LET selected == LocIsSelected(col)
    IN  [col |-> col, width |-> width, look |-> Look(s, selected), selected |-> selected]

\* Whether a string is cut: the selection begins or ends inside it.
Cut(col, width, s) ==
    /\ Len(s) > 1
    /\ sel.shown /\ sel.start # sel.end
    /\ \/ LocIsBetween(sel.start, Loc(col), Loc(col + width))
       \/ LocIsBetween(sel.end, Loc(col), Loc(col + width))

\* The column of the i-th cell of a string at col: a column for each cell
\* before it, and another for each wide one.
At(s, col, i) == col + (i - 1) + Cardinality({j \in 1..(i - 1) : Width(s[j]) = 2})

\* Mutant: a selection inside a string does not cut it.
DrawStringWhole(col, width, s) ==
    IF width = 0 THEN <<>> ELSE <<Rect(col, width, s)>>

\* runes_display_draw_string, the rectangles.
DrawString(col, width, s) ==
    IF width = 0 THEN <<>>
    ELSE IF Cut(col, width, s)
    THEN [i \in 1..Len(s) |-> Rect(At(s, col, i), Width(s[i]), <<s[i]>>)]
    ELSE <<Rect(col, width, s)>>

\* Mutant: the glyphs of any characters are taken from the cache.
GlyphsUnchecked(col, s) == [i \in 1..Len(s) |-> [cell |-> s[i], at |-> col + i - 1]]

\* runes_display_draw_glyphs: the cached glyphs of ASCII characters are put
\* a column apart; other text is laid out by the font or, if that is not
\* monospace, drawn cell by cell.
Glyphs(col, s) ==
    [i \in 1..Len(s) |->
        [cell |-> s[i],
         at |-> IF \A j \in ToSet(s) : Ascii(j) /\ ~Attrs(j).bold
                THEN col + i - 1 ELSE At(s, col, i)]]

\* draw_string of the string gathered so far.
Gathered == DrawString(start, c - start, string)
GatheredGlyphs == IF c = start THEN <<>> ELSE Glyphs(start, string)

-----------------------------------------------------------------------------
(* The loop *)

Prev == IF string = <<>> THEN <<>> ELSE <<Last(string)>>

\* The cell goes on with the string.
Gather ==
    /\ c < Cols /\ ContinueString(Prev, c)
    /\ string' = Append(string, c) /\ c' = c + Width(c)
    /\ UNCHANGED <<cells, sel, start, rects, glyphs, done>>

\* The first cell from i on that is not empty, or Cols.
GapEnd(i) ==
    CHOOSE e \in i..Cols : /\ \A j \in i..(e - 1) : IsEmpty(j)
                           /\ e = Cols \/ ~IsEmpty(e)

\* Mutant: a gap is not filled.
BreakNoGap ==
    /\ c < Cols /\ ~ContinueString(Prev, c)
    /\ LET e == GapEnd(c)
           first == IF e = Cols THEN Cols - 1 ELSE e
       IN  /\ rects' = rects \o Gathered
           /\ glyphs' = glyphs \o GatheredGlyphs
           /\ start' = e
           /\ string' = <<first>>
           /\ c' = e + Width(first)
    /\ UNCHANGED <<cells, sel, done>>

\* The cell does not: the string is drawn, then the gap that follows, and a
\* new string begins.  After a gap that reaches the end of the row its last
\* cell is gathered, too, and c runs past the row.
Break ==
    /\ c < Cols /\ ~ContinueString(Prev, c)
    /\ LET e == GapEnd(c)
           first == IF e = Cols THEN Cols - 1 ELSE e
       IN  /\ rects' = rects \o Gathered \o DrawString(c, e - c, <<>>)
           /\ glyphs' = glyphs \o GatheredGlyphs
           /\ start' = e
           /\ string' = <<first>>
           /\ c' = e + Width(first)
    /\ UNCHANGED <<cells, sel, done>>

\* What is left is drawn after the loop.
Finish ==
    /\ c >= Cols /\ ~done
    /\ rects' = rects \o DrawString(start, Cols - start, string)
    /\ glyphs' = glyphs \o (IF start = Cols THEN <<>> ELSE Glyphs(start, string))
    /\ done' = TRUE
    /\ UNCHANGED <<cells, sel, c, start, string>>

Next == Gather \/ Break \/ Finish

Spec == Init /\ [][Next]_vars /\ WF_vars(Next)

-----------------------------------------------------------------------------
(* Properties *)

Covers(r, i) == r.col <= i /\ i < r.col + r.width

\* The row is painted from left to right without a gap or an overlap, at
\* every moment as far as it has come, and to its end when it is done, which
\* it will be.
CoversOnce ==
    /\ \A k \in DOMAIN rects :
          rects[k].col = IF k = 1 THEN 0 ELSE rects[k - 1].col + rects[k - 1].width
    /\ done => Last(rects).col + Last(rects).width = Cols

RowIsPainted == <>done /\ [](TypeOK /\ CoversOnce)

\* What the highlighted columns should be: those between the ends of the
\* selection in reading order.
ShouldBeSelected(i) ==
    sel.shown /\ \/ ~Before(Loc(i), Beyond(sel.start)) /\ Before(Loc(i), Beyond(sel.end))
                 \/ ~Before(Loc(i), Beyond(sel.end)) /\ Before(Loc(i), Beyond(sel.start))

\* However the cells were gathered, a cell with text is painted like itself:
\* in its own colours, and highlighted if and only if it is selected; and
\* what is highlighted does not look as it would without the selection.
CellsLookLikeThemselves ==
    \A k \in DOMAIN rects :
        LET r == rects[k]
            s == IF IsEmpty(r.col) THEN <<>> ELSE <<r.col>>
        IN  /\ \A i \in Columns : Covers(r, i) /\ ~IsEmpty(i) =>
                  /\ r.selected = ShouldBeSelected(i)
                  /\ r.look = Look(<<i>>, ShouldBeSelected(i))
            /\ r.selected => r.look.bg # Look(s, FALSE).bg

\* The text of every cell is drawn once, in the cell's own column.
TextInPlace ==
    /\ \A k \in DOMAIN glyphs : glyphs[k].at = glyphs[k].cell
    /\ \A k, l \in DOMAIN glyphs : glyphs[k].cell = glyphs[l].cell => k = l
    /\ done => \A i \in Columns : ~IsEmpty(i) => \E k \in DOMAIN glyphs : glyphs[k].cell = i

=============================================================================
