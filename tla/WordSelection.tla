--------------------------- MODULE WordSelection ----------------------------
(***************************************************************************)
(* The word that a double click selects: runes_window_beginning_of_word    *)
(* and runes_window_end_of_word walk from the clicked cell to the left and *)
(* to the right, over the ends of rows that are wrapped, and up into the   *)
(* rows that have been scrolled away.                                      *)
(*                                                                         *)
(* Rows are counted as the two functions do: row 0 is the first of the     *)
(* screen, and the rows of the scrollback are negative.  Some names say    *)
(* Word because SelectionProofs extends Selection, too.                    *)
(***************************************************************************)
EXTENDS Integers

CONSTANTS
    Cols,           \* grid->max.col
    ScreenRows,     \* grid->max.row
    RowTop,         \* grid->row_top: the rows of the scrollback
    Kinds,          \* the kinds of cells that occur, a subset of AllKinds
    LastWraps       \* the last row of the screen may be wrapped

\* "tail" is the second column of a wide cell, "combined" a character with
\* more characters on top, "mark" one that takes no column.
AllKinds == {"letter", "wide", "tail", "combined", "space", "mark", "empty"}

ASSUME WordSelectionAssumption ==
    /\ Cols \in Nat \ {0} /\ ScreenRows \in Nat \ {0} /\ RowTop \in Nat
    /\ Kinds \subseteq AllKinds /\ LastWraps \in BOOLEAN

RowIds == -RowTop..(ScreenRows - 1)
Columns == 0..(Cols - 1)
Contents ==
    {r \in [Columns -> Kinds] :
        /\ \A c \in Columns : r[c] = "tail" <=> c > 0 /\ r[c - 1] = "wide"
        /\ r[Cols - 1] # "wide"}
GridLocs == [row : RowIds, col : Columns]

VARIABLES
    grid,           \* the cells of the rows
    wrapped,        \* the rows that go on in the next one
    click,          \* the cell that was clicked
    row, col,       \* the locals of the walk
    first,          \* prev_row and prev_col: the last cell of the word seen
    phase           \* "left", "right" or "done"

wordvars == <<grid, wrapped, click, row, col, first, phase>>

WordTypeOK ==
    /\ grid \in [RowIds -> Contents] /\ wrapped \subseteq RowIds
    /\ click \in GridLocs /\ first \in GridLocs
    /\ row \in -(RowTop + 1)..ScreenRows /\ col \in -1..Cols
    /\ phase \in {"left", "right", "done"}

WordInit ==
    /\ grid \in [RowIds -> Contents]
    /\ wrapped \in SUBSET (IF LastWraps THEN RowIds ELSE RowIds \ {ScreenRows - 1})
    /\ click \in GridLocs
    /\ row = click.row /\ col = click.col /\ first = click /\ phase = "left"

-----------------------------------------------------------------------------

\* The cell before (r, c), or (r, c) itself where there is none: at the left
\* edge only the rows of the screen are looked at.
PrevCell(r, c) ==
    IF c > 0 THEN grid[r][c - 1]
    ELSE IF r > 0 /\ r - 1 \in wrapped THEN grid[r - 1][Cols - 1]
    ELSE grid[r][c]

\* Mutant: the second column of a wide cell is taken for an empty one.
IsWordCharHalf(r, c) == grid[r][c] \in {"letter", "wide", "combined"}

\* runes_window_is_word_char
IsWordChar(r, c) ==
    LET cell == IF PrevCell(r, c) = "wide" THEN "wide" ELSE grid[r][c]
    IN  cell \in {"letter", "wide", "combined"}

\* The walk to the left is over: it goes on to the right of the click.
Turn ==
    /\ phase' = "right" /\ row' = click.row /\ col' = click.col

\* One iteration of runes_window_beginning_of_word.
WalkLeft ==
    /\ phase = "left"
    /\ IF ~IsWordChar(row, col) THEN Turn /\ UNCHANGED first
       ELSE /\ first' = [row |-> row, col |-> col]
            /\ IF col > 0 THEN col' = col - 1 /\ UNCHANGED <<row, phase>>
               ELSE IF row - 1 \in RowIds /\ row - 1 \in wrapped
               THEN row' = row - 1 /\ col' = Cols - 1 /\ UNCHANGED phase
               ELSE Turn
    /\ UNCHANGED <<grid, wrapped, click>>

\* One iteration of runes_window_end_of_word.
WalkRight ==
    /\ phase = "right"
    /\ IF ~IsWordChar(row, col) THEN phase' = "done" /\ UNCHANGED <<row, col>>
       ELSE IF col + 1 < Cols THEN col' = col + 1 /\ UNCHANGED <<row, phase>>
       ELSE IF row \notin wrapped THEN col' = col + 1 /\ phase' = "done" /\ UNCHANGED row
       ELSE IF row + 1 >= ScreenRows
       THEN row' = row + 1 /\ col' = col + 1 /\ phase' = "done"
       ELSE row' = row + 1 /\ col' = 0 /\ UNCHANGED phase
    /\ UNCHANGED <<grid, wrapped, click, first>>

WordNext == WalkLeft \/ WalkRight

WordSpec == WordInit /\ [][WordNext]_wordvars /\ WF_wordvars(WordNext)

-----------------------------------------------------------------------------
(* Properties *)

\* A place in reading order.
Place(r, c) == r * Cols + c
From == Place(first.row, first.col)
To == Place(row, col)
Clicked == Place(click.row, click.col)
RowOf(i) == CHOOSE r \in RowIds : r * Cols <= i /\ i < (r + 1) * Cols

\* The kind of the character at a place, and whether it belongs to a word.
CharAt(i) == grid[RowOf(i)][i - RowOf(i) * Cols]
WordAt(i) == CharAt(i) \in {"letter", "combined", "wide", "tail"}

\* The two places next to each other are of one line of text.
Joined(i) == RowOf(i) = RowOf(i + 1) \/ RowOf(i) \in wrapped

Places == -(RowTop * Cols)..(ScreenRows * Cols - 1)

\* What a double click selects is a word, the whole word and nothing but the
\* word: it reaches over wrapped rows, never over the end of a line, takes
\* wide characters whole and holds the click.  Nothing is selected if there
\* is no word.
SelectsWord ==
    phase = "done" =>
        IF ~WordAt(Clicked) THEN From = Clicked /\ To = Clicked
        ELSE /\ From <= Clicked /\ Clicked < To
             /\ \A i \in From..(To - 1) : WordAt(i) /\ (i + 1 < To => Joined(i))
             /\ From - 1 \in Places => ~(WordAt(From - 1) /\ Joined(From - 1))
             /\ To \in Places => ~(WordAt(To) /\ Joined(To - 1))

\* Both ends are on rows that exist.
EndsExist == phase = "done" => row \in RowIds

\* A double click ends, with a word and places that exist.
DoubleClick == <>(phase = "done") /\ [](WordTypeOK /\ SelectsWord /\ EndsExist)

=============================================================================
