----------------------------- MODULE DisplayProofs -----------------------------
(***************************************************************************)
(* What a row looks like when it is drawn, for a row of any width, any     *)
(* cells in it, and any selection; and when a window is drawn, for every   *)
(* redraw rate, every length of the bell, and a wall clock that is set any *)
(* number of times.                                                        *)
(*                                                                         *)
(* A gathered string is a run of cells: what the run says of the columns   *)
(* of its cells makes the rectangles right whether or not it is cut, and   *)
(* puts the text in place whichever way the glyphs are laid out.           *)
(***************************************************************************)
EXTENDS Drawing, Redraw, SequenceTheorems, FiniteSetTheorems, WellFoundedInduction, TLAPS

-----------------------------------------------------------------------------
(* The inductive invariant *)

\* Each cell of a string is next to the one before it.
Adjacent(s) ==
    /\ \A i \in 1..(Len(s) - 1) : s[i + 1] = s[i] + Width(s[i])
    /\ \A i, j \in 1..Len(s) : i < j => s[i] < s[j]

\* The cells of a string look alike, and are where the string puts them.
Alike(s, from) ==
    \A i \in 1..Len(s) :
        /\ At(s, from, i) = s[i]
        /\ Attrs(s[i]) = Attrs(s[1])
        /\ Len(s) > 1 => ~IsEmpty(s[i])

\* Every one of some columns belongs to a cell of the string.
Filled(s, from, to) ==
    \A x \in from..(to - 1) :
        \E i \in 1..Len(s) : s[i] <= x /\ x < s[i] + Width(s[i])

\* A string of cells that fills the columns from the one up to the other.
Run(s, from, to) ==
    /\ s \in Seq(Columns) /\ Len(s) \in 1..(to - from)
    /\ from \in Columns /\ to \in 1..Cols
    /\ s[1] = from /\ s[Len(s)] + Width(s[Len(s)]) = to
    /\ Adjacent(s) /\ Alike(s, from) /\ Filled(s, from, to)

\* Nothing is gathered yet, a run, or the last cell after the gap at the end.
Gathering ==
    \/ string = <<>> /\ c = 0 /\ start = 0
    \/ Run(string, start, c)
    \/ string = <<Cols - 1>> /\ start = Cols /\ c = Cols + 1

Rects == [col : Columns, width : 1..Cols, look : Looks, selected : BOOLEAN]

\* A rectangle that looks like its cells.
GoodRect(r) ==
    /\ r \in Rects
    /\ \A i \in Columns : Covers(r, i) /\ ~IsEmpty(i) =>
          /\ r.selected = ShouldBeSelected(i)
          /\ r.look = Look(<<i>>, ShouldBeSelected(i))
    /\ LET s == IF IsEmpty(r.col) THEN <<>> ELSE <<r.col>>
       IN  r.selected => r.look.bg # Look(s, FALSE).bg

\* Rectangles side by side.
SideBySide(rs) ==
    \A k \in 1..(Len(rs) - 1) : rs[k + 1].col = rs[k].col + rs[k].width

\* Such rectangles, which cover the columns from the one up to the other.
Chain(rs, from, to) ==
    /\ rs \in Seq(Rects) /\ (\A k \in 1..Len(rs) : GoodRect(rs[k])) /\ SideBySide(rs)
    /\ IF rs = <<>> THEN from = to
       ELSE rs[1].col = from /\ rs[Len(rs)].col + rs[Len(rs)].width = to

\* The text of the cells of some columns, each once and in its place.
Text(g, from, to) ==
    /\ g \in Seq([cell : Columns, at : Columns])
    /\ \A k \in 1..Len(g) : /\ g[k].at = g[k].cell
                            /\ from <= g[k].cell /\ g[k].cell < to
    /\ \A k, l \in 1..Len(g) : g[k].cell = g[l].cell => k = l
    /\ \A i \in from..(to - 1) : ~IsEmpty(i) => \E k \in 1..Len(g) : g[k].cell = i

Inv ==
    /\ cells \in Rows
    /\ sel \in [shown : BOOLEAN, start : Locs, end : Locs]
    /\ done \in BOOLEAN /\ (done => c >= Cols)
    /\ Gathering
    /\ Chain(rects, 0, IF done THEN Cols ELSE start)
    /\ Text(glyphs, 0, IF done THEN Cols ELSE start)

-----------------------------------------------------------------------------
(* Cells *)

\* A set of numbers has a least element.
LEMMA LeastFacts ==
    ASSUME NEW S \in SUBSET Nat, S # {}
    PROVE  \E i \in S : \A j \in S : i <= j
<1>1. PICK x \in S : \A y \in S : ~(<<y, x>> \in OpToRel(<, Nat))
    BY NatLessThanWellFounded, WFMin, Zenon
<1>2. \A y \in S : <<y, x>> \in OpToRel(<, Nat) <=> y < x
    BY DEF OpToRel
<1>3. \A y \in S : ~(y < x)
    BY <1>1, <1>2, Zenon
<1>4. \A y \in S : x <= y
    <2>. SUFFICES ASSUME NEW y \in S PROVE x <= y
        OBVIOUS
    <2>1. x \in Nat /\ y \in Nat /\ ~(y < x)
        BY <1>3
    <2>. QED
        BY <2>1
<1>. QED
    BY <1>4

\* What the cells of a row are, and what they take.
LEMMA CellFacts ==
    ASSUME cells \in Rows
    PROVE  /\ Cols \in Nat /\ Cols > 0 /\ 0 \in Columns /\ Cols - 1 \in Columns
           /\ \A i \in Columns :
                 /\ cells[i] \in AllKinds
                 /\ Width(i) \in 1..2 /\ i + Width(i) \in 1..Cols
                 /\ Width(i) = 2 <=> cells[i] = "wide"
                 /\ cells[i] = "wide" => i + 1 \in Columns /\ cells[i + 1] = "tail"
<1>1. Cols \in Nat /\ Cols > 0 /\ Kinds \subseteq AllKinds
    BY DrawingAssumption
<1>2. /\ cells \in [Columns -> Kinds] /\ cells[Cols - 1] # "wide"
      /\ \A i \in Columns : cells[i] = "tail" <=> i > 0 /\ cells[i - 1] = "wide"
    BY DEF Rows, Row
<1>3. ASSUME NEW i \in Columns, cells[i] = "wide"
      PROVE  i + 1 \in Columns /\ cells[i + 1] = "tail"
    <2>1. i # Cols - 1
        BY <1>2, <1>3
    <2>2. i + 1 \in Columns /\ i + 1 > 0 /\ (i + 1) - 1 = i
        BY <1>1, <2>1 DEF Columns
    <2>. QED
        BY <1>2, <1>3, <2>2
<1>. QED
    BY <1>1, <1>2, <1>3 DEF Columns, Width

\* The end of a gap.
LEMMA GapEndFacts ==
    ASSUME cells \in Rows, NEW i \in 0..(Cols - 1)
    PROVE  /\ GapEnd(i) \in i..Cols
           /\ \A j \in i..(GapEnd(i) - 1) : IsEmpty(j)
           /\ GapEnd(i) = Cols \/ ~IsEmpty(GapEnd(i))
<1>. DEFINE S == {e \in i..Cols : e = Cols \/ ~IsEmpty(e)}
<1>1. Cols \in Nat
    BY DrawingAssumption
<1>2. S \in SUBSET Nat /\ Cols \in S
    BY <1>1
<1>3. PICK e \in S : \A j \in S : e <= j
    BY <1>2, LeastFacts
<1>4. \A j \in i..(e - 1) : IsEmpty(j)
    <2>. SUFFICES ASSUME NEW j \in i..(e - 1), ~IsEmpty(j) PROVE FALSE
        OBVIOUS
    <2>1. j \in S /\ j < e /\ e \in Int
        BY <1>1
    <2>. QED
        BY <1>3, <2>1
<1>5. e \in i..Cols /\ (e = Cols \/ ~IsEmpty(e))
    OBVIOUS
<1>. HIDE DEF S
<1>. QED
    BY <1>4, <1>5 DEF GapEnd

\* The text of a row ends after its last cell that is not empty.
LEMMA RowMaxColFacts ==
    ASSUME cells \in Rows
    PROVE  /\ RowMaxCol \in 0..Cols
           /\ \A i \in Columns : cells[i] # "empty" => i < RowMaxCol
<1>1. Cols \in Nat
    BY DrawingAssumption
<1>2. CASE \A i \in Columns : cells[i] = "empty"
    BY <1>1, <1>2 DEF RowMaxCol
<1>3. CASE ~ \A i \in Columns : cells[i] = "empty"
    <2>. DEFINE S == {Cols - 1 - i : i \in {j \in Columns : cells[j] # "empty"}}
                P(i) == /\ cells[i] # "empty"
                        /\ \A j \in Columns : j > i => cells[j] = "empty"
                m == CHOOSE i \in Columns : P(i)
    <2>1. S \in SUBSET Nat /\ S # {}
        BY <1>1, <1>3 DEF Columns
    <2>2. PICK x \in S : \A y \in S : x <= y
        BY <2>1, LeastFacts
    <2>3. PICK i \in Columns : x = Cols - 1 - i /\ cells[i] # "empty"
        BY <2>2
    <2>4. \A j \in Columns : j > i => cells[j] = "empty"
        <3>. SUFFICES ASSUME NEW j \in Columns, j > i, cells[j] # "empty" PROVE FALSE
            OBVIOUS
        <3>1. Cols - 1 - j \in S
            OBVIOUS
        <3>2. Cols - 1 - i <= Cols - 1 - j
            BY <2>2, <2>3, <3>1
        <3>. QED
            BY <1>1, <3>2 DEF Columns
    <2>5. m \in Columns /\ P(m)
        BY <2>3, <2>4
    <2>6. RowMaxCol = 1 + m
        BY <1>3 DEF RowMaxCol
    <2>. HIDE DEF m, S
    <2>7. \A j \in Columns : cells[j] # "empty" => j <= m
        BY <1>1, <2>5 DEF Columns
    <2>. QED
        BY <1>1, <2>5, <2>6, <2>7 DEF Columns
<1>. QED
    BY <1>2, <1>3

-----------------------------------------------------------------------------
(* The selection *)

\* The ends of the selection, wherever the text of the row ends.
LEMMA EndFacts ==
    ASSUME cells \in Rows, NEW l \in Locs
    PROVE  /\ l.row \in Int /\ l.col \in Int
           /\ Beyond(l).row \in Int /\ Beyond(l).col \in Int
           /\ l.row = 0 => l.col \in 0..Cols
           /\ l.row # 0 => Beyond(l) = l
           /\ l.row = 0 => /\ Beyond(l).row = 0
                           /\ Beyond(l).col = IF l.col > RowMaxCol THEN Cols ELSE l.col
<1>1. Cols \in Nat
    BY DrawingAssumption
<1>2. l.row \in Int /\ l.col \in Int /\ (l.row = 0 => l.col \in 0..Cols)
    BY <1>1 DEF Locs
<1>. QED
    BY <1>1, <1>2 DEF Beyond, Loc

\* runes_display_loc_is_selected asks what it should.
LEMMA SelectedFacts ==
    ASSUME cells \in Rows, sel \in [shown : BOOLEAN, start : Locs, end : Locs],
           NEW i \in 0..Cols
    PROVE  /\ LocIsSelected(i) \in BOOLEAN /\ ShouldBeSelected(i) \in BOOLEAN
           /\ LocIsSelected(i) = ShouldBeSelected(i)
<1>. DEFINE a == Beyond(sel.start)
            b == Beyond(sel.end)
<1>1. a.row \in Int /\ a.col \in Int /\ b.row \in Int /\ b.col \in Int /\ sel.shown \in BOOLEAN
    BY EndFacts
<1>. HIDE DEF a, b
<1>2. LocIsSelected(i) = (sel.shown /\ LocIsBetween(Loc(i), a, b))
    BY DEF LocIsSelected, a, b
<1>3. ShouldBeSelected(i) =
          (sel.shown /\ \/ ~Before(Loc(i), a) /\ Before(Loc(i), b)
                        \/ ~Before(Loc(i), b) /\ Before(Loc(i), a))
    BY DEF ShouldBeSelected, a, b
<1>. QED
    BY <1>1, <1>2, <1>3 DEF LocIsBetween, Before, Loc

\* Columns with no end of the selection among them are selected or not
\* together, when the columns are within the text of the row.
LEMMA SelectedTogether ==
    ASSUME cells \in Rows, sel \in [shown : BOOLEAN, start : Locs, end : Locs],
           NEW from \in 0..Cols, NEW to \in 0..Cols, from < to, to <= RowMaxCol,
           NEW s, Len(s) > 1, ~Cut(from, to - from, s),
           NEW i \in from..(to - 1)
    PROVE  ShouldBeSelected(i) = ShouldBeSelected(from)
<1>. DEFINE a == Beyond(sel.start)
            b == Beyond(sel.end)
            Together(l) == Before(Loc(i), l) = Before(Loc(from), l)
<1>1. Cols \in Nat /\ i \in Int /\ RowMaxCol \in 0..Cols /\ from + (to - from) = to
    BY DrawingAssumption, RowMaxColFacts
<1>2. CASE sel.start = sel.end
    BY <1>2 DEF ShouldBeSelected
<1>3. CASE ~sel.shown
    BY <1>3 DEF ShouldBeSelected
<1>4. CASE sel.shown /\ sel.start # sel.end
    <2>1. ASSUME NEW l \in Locs, ~LocIsBetween(l, Loc(from), Loc(to))
          PROVE  Together(Beyond(l))
        <3>1. /\ l.row \in Int /\ l.col \in Int
              /\ Beyond(l).row \in Int /\ Beyond(l).col \in Int
              /\ l.row # 0 => Beyond(l) = l
              /\ l.row = 0 => /\ Beyond(l).row = 0
                              /\ Beyond(l).col = IF l.col > RowMaxCol THEN Cols ELSE l.col
            BY EndFacts
        <3>2. l.row # 0 \/ l.col < from \/ l.col >= to
            BY <1>1, <2>1, <3>1 DEF LocIsBetween, Before, Loc
        <3>3. Beyond(l).row # 0 \/ Beyond(l).col < from \/ Beyond(l).col >= to
            BY <1>1, <3>1, <3>2
        <3>. QED
            BY <1>1, <3>1, <3>3 DEF Before, Loc
    <2>2. Together(a) /\ Together(b)
        BY <1>1, <1>4, <2>1 DEF Cut
    <2>. QED
        BY <2>2 DEF ShouldBeSelected
<1>. QED
    BY <1>2, <1>3, <1>4
-----------------------------------------------------------------------------
(* Rectangles *)

\* What a cell looks like depends on its attributes, an empty one looks like
\* a gap, and highlighting changes the background.
LEMMA LookFacts ==
    ASSUME cells \in Rows, NEW i \in Columns
    PROVE  /\ \A b \in BOOLEAN : Look(<<i>>, b) \in Looks /\ Look(<<>>, b) \in Looks
           /\ Look(<<i>>, TRUE).bg # Look(<<i>>, FALSE).bg
           /\ Look(<<>>, TRUE).bg # Look(<<>>, FALSE).bg
           /\ IsEmpty(i) => \A b \in BOOLEAN : Look(<<i>>, b) = Look(<<>>, b)
           /\ \A b \in BOOLEAN, s \in Seq(Columns) :
                 Len(s) > 0 /\ Attrs(i) = Attrs(s[1]) => Look(s, b) = Look(<<i>>, b)
<1>1. /\ Look(<<>>, TRUE) = [fg |-> "bgdefault", bg |-> "fgdefault"]
      /\ Look(<<>>, FALSE) = [fg |-> "fgdefault", bg |-> "bgdefault"]
    BY DEF Look
<1>2. <<i>> # <<>> /\ Head(<<i>>) = i
    OBVIOUS
<1>3. cells[i] \in AllKinds
    BY CellFacts
<1>4. /\ Attrs(i).fg = Attrs(i).bg /\ Attrs(i).fg \in {"red", "default"}
      /\ Attrs(i).inverse \in BOOLEAN
      /\ IsEmpty(i) => Attrs(i).fg = "default" /\ Attrs(i).inverse = FALSE
    BY DEF Attrs, IsEmpty
<1>. DEFINE a == Attrs(i)
            fg == IF a.fg = "default" THEN "fgdefault" ELSE a.fg
            bg == IF a.bg = "default" THEN "bgdefault" ELSE a.bg
<1>5. ASSUME NEW b \in BOOLEAN
      PROVE  Look(<<i>>, b) = IF a.inverse # b THEN [fg |-> "bgdefault", bg |-> "fgdefault"]
                              ELSE [fg |-> fg, bg |-> bg]
    BY <1>2, <1>4 DEF Look
<1>. HIDE DEF a
<1>6. /\ [fg |-> "bgdefault", bg |-> "fgdefault"] \in Looks
      /\ [fg |-> "fgdefault", bg |-> "bgdefault"] \in Looks
      /\ [fg |-> fg, bg |-> bg] \in Looks
    BY <1>4 DEF Looks, a
<1>7. ASSUME NEW b \in BOOLEAN, NEW s \in Seq(Columns), Len(s) > 0, Attrs(i) = Attrs(s[1])
      PROVE  Look(s, b) = Look(<<i>>, b)
    <2>1. s # <<>> /\ Head(s) = s[1]
        BY <1>7
    <2>. QED
        BY <1>2, <1>7, <2>1 DEF Look
<1>8. bg # "fgdefault" /\ (IsEmpty(i) => fg = "fgdefault" /\ bg = "bgdefault" /\ a.inverse = FALSE)
    BY <1>4 DEF a
<1>. HIDE DEF fg, bg
<1>9. a.inverse \in BOOLEAN
    BY <1>4 DEF a
<1>. DEFINE it == Look(<<i>>, TRUE)
            is == Look(<<i>>, FALSE)
            gt == Look(<<>>, TRUE)
            gf == Look(<<>>, FALSE)
<1>10. /\ gt = [fg |-> "bgdefault", bg |-> "fgdefault"]
       /\ gf = [fg |-> "fgdefault", bg |-> "bgdefault"]
       /\ a.inverse = TRUE => /\ is = [fg |-> "bgdefault", bg |-> "fgdefault"]
                              /\ it = [fg |-> fg, bg |-> bg]
       /\ a.inverse = FALSE => /\ it = [fg |-> "bgdefault", bg |-> "fgdefault"]
                               /\ is = [fg |-> fg, bg |-> bg]
    BY <1>1, <1>5
<1>11. ASSUME NEW b \in BOOLEAN
       PROVE  \/ Look(<<i>>, b) = it /\ Look(<<>>, b) = gt
              \/ Look(<<i>>, b) = is /\ Look(<<>>, b) = gf
    <2>1. CASE b = TRUE
        BY <2>1, Zenon
    <2>2. CASE b = FALSE
        BY <2>2, Zenon
    <2>. QED
        BY <2>1, <2>2
<1>. HIDE DEF it, is, gt, gf
<1>12. /\ it \in Looks /\ is \in Looks /\ gt \in Looks /\ gf \in Looks
       /\ it.bg # is.bg /\ gt.bg # gf.bg
       /\ IsEmpty(i) => it = gt /\ is = gf
    BY <1>6, <1>8, <1>9, <1>10
<1>13. \A b \in BOOLEAN : /\ Look(<<i>>, b) \in Looks /\ Look(<<>>, b) \in Looks
                          /\ IsEmpty(i) => Look(<<i>>, b) = Look(<<>>, b)
    BY <1>11, <1>12, Zenon
<1>14. Look(<<i>>, TRUE).bg # Look(<<i>>, FALSE).bg /\ Look(<<>>, TRUE).bg # Look(<<>>, FALSE).bg
    BY <1>12, Zenon DEF it, is, gt, gf
<1>. QED
    BY <1>7, <1>13, <1>14, Zenon

\* A rectangle of cells that are selected together and look alike.
LEMMA RectIsGood ==
    ASSUME cells \in Rows, sel \in [shown : BOOLEAN, start : Locs, end : Locs],
           NEW from \in Columns, NEW to \in 1..Cols, from < to,
           NEW s \in Seq(Columns),
           Len(s) > 0 => Attrs(from) = Attrs(s[1]),
           s = <<>> => IsEmpty(from),
           \A i \in from..(to - 1) : ~IsEmpty(i) =>
               /\ ShouldBeSelected(i) = ShouldBeSelected(from)
               /\ s # <<>> /\ Attrs(i) = Attrs(s[1])
    PROVE  GoodRect(Rect(from, to - from, s))
<1>. DEFINE r == Rect(from, to - from, s)
            b == ShouldBeSelected(from)
<1>1. Cols \in Nat /\ from \in 0..Cols /\ from \in Int /\ to \in Int
    BY DrawingAssumption DEF Columns
<1>2. b \in BOOLEAN /\ LocIsSelected(from) = b
    BY <1>1, SelectedFacts
<1>. HIDE DEF b
<1>3. r = [col |-> from, width |-> to - from, look |-> Look(s, b), selected |-> b]
    BY <1>2 DEF Rect
<1>. HIDE DEF r
<1>4. Look(s, b) = Look(IF IsEmpty(from) THEN <<>> ELSE <<from>>, b)
    <2>1. CASE s = <<>>
        BY <2>1
    <2>2. CASE s # <<>>
        <3>1. Len(s) > 0 /\ Attrs(from) = Attrs(s[1])
            BY <2>2
        <3>2. Look(s, b) = Look(<<from>>, b)
            BY <1>2, <3>1, LookFacts
        <3>3. IsEmpty(from) => Look(<<from>>, b) = Look(<<>>, b)
            BY <1>2, LookFacts
        <3>. QED
            BY <3>2, <3>3
    <2>. QED
        BY <2>1, <2>2
<1>5. Look(s, b) \in Looks
    BY <1>2, <1>4, LookFacts
<1>6. r \in Rects
    BY <1>1, <1>2, <1>3, <1>5 DEF Rects
<1>7. ASSUME NEW i \in Columns, Covers(r, i), ~IsEmpty(i)
      PROVE  r.selected = ShouldBeSelected(i) /\ r.look = Look(<<i>>, ShouldBeSelected(i))
    <2>1. i \in from..(to - 1)
        BY <1>1, <1>3, <1>7 DEF Covers, Columns
    <2>2. ShouldBeSelected(i) = b /\ s # <<>> /\ Attrs(i) = Attrs(s[1])
        BY <1>7, <2>1 DEF b
    <2>3. Len(s) > 0
        BY <2>2
    <2>4. Look(s, b) = Look(<<i>>, b)
        BY <1>2, <2>2, <2>3, LookFacts
    <2>. QED
        BY <1>3, <2>2, <2>4
<1>8. b => Look(s, b).bg # Look(IF IsEmpty(from) THEN <<>> ELSE <<from>>, FALSE).bg
    <2>1. CASE b = TRUE
        BY <1>4, <2>1, LookFacts
    <2>2. CASE b = FALSE
        BY <2>2
    <2>. QED
        BY <1>2, <2>1, <2>2
<1>9. r.col = from /\ r.selected = b /\ r.look = Look(s, b)
    BY <1>3
<1>10. GoodRect(r)
    BY <1>6, <1>7, <1>8, <1>9 DEF GoodRect
<1>. QED
    BY <1>10 DEF r
-----------------------------------------------------------------------------
(* Strings of cells *)

\* Where the cells of a string are: each as far on as the one before is wide.
LEMMA AtFacts ==
    ASSUME cells \in Rows, NEW s \in Seq(Columns), NEW from \in Int
    PROVE  /\ At(s, from, 1) = from
           /\ \A i \in 1..Len(s) : At(s, from, i + 1) = At(s, from, i) + Width(s[i])
           /\ \A i \in 1..Len(s) : At(s, from, i) \in Int
<1>. DEFINE W(i) == {j \in 1..(i - 1) : Width(s[j]) = 2}
<1>1. \A i \in Nat : IsFiniteSet(W(i)) /\ Cardinality(W(i)) \in Nat
    <2>. SUFFICES ASSUME NEW i \in Nat PROVE IsFiniteSet(W(i)) /\ Cardinality(W(i)) \in Nat
        OBVIOUS
    <2>1. IsFiniteSet(1..(i - 1))
        BY FS_Interval
    <2>2. W(i) \subseteq 1..(i - 1)
        OBVIOUS
    <2>. HIDE DEF W
    <2>3. IsFiniteSet(W(i))
        BY <2>1, <2>2, FS_Subset
    <2>. QED
        BY <2>3, FS_CardinalityType
<1>2. At(s, from, 1) = from
    <2>1. W(1) = {}
        OBVIOUS
    <2>2. Cardinality(W(1)) = 0
        BY <2>1, FS_EmptySet
    <2>. QED
        BY <2>2 DEF At
<1>3. ASSUME NEW i \in 1..Len(s)
      PROVE  /\ At(s, from, i) \in Int
             /\ At(s, from, i + 1) = At(s, from, i) + Width(s[i])
    <2>1. s[i] \in Columns /\ i \in Nat /\ i + 1 \in Nat
        OBVIOUS
    <2>2. Width(s[i]) \in 1..2
        BY <2>1, CellFacts
    <2>3. At(s, from, i) = from + (i - 1) + Cardinality(W(i))
        BY DEF At
    <2>4. At(s, from, i + 1) = from + i + Cardinality(W(i + 1))
        BY DEF At
    <2>5. Cardinality(W(i + 1)) = Cardinality(W(i)) + (Width(s[i]) - 1)
        <3>1. CASE Width(s[i]) = 2
            <4>1. W(i + 1) = W(i) \cup {i} /\ i \notin W(i)
                BY <3>1
            <4>. HIDE DEF W
            <4>2. Cardinality(W(i) \cup {i}) = Cardinality(W(i)) + 1
                BY <1>1, <2>1, <4>1, FS_AddElement
            <4>3. Cardinality(W(i + 1)) = Cardinality(W(i)) + 1
                BY <4>1, <4>2, Zenon
            <4>4. Cardinality(W(i)) \in Nat
                BY <1>1, <2>1
            <4>. QED
                BY <3>1, <4>3, <4>4
        <3>2. CASE Width(s[i]) = 1
            <4>1. W(i + 1) = W(i)
                BY <3>2
            <4>. HIDE DEF W
            <4>. QED
                BY <1>1, <2>1, <3>2, <4>1
        <3>. QED
            BY <2>2, <3>1, <3>2
    <2>. HIDE DEF W
    <2>6. Cardinality(W(i)) \in Nat
        BY <1>1, <2>1
    <2>. QED
        BY <2>2, <2>3, <2>4, <2>5, <2>6
<1>. QED
    BY <1>2, <1>3

\* Where the cells are does not depend on those that follow.
LEMMA AtAppend ==
    ASSUME cells \in Rows, NEW s \in Seq(Columns), NEW x \in Columns, NEW from \in Int,
           NEW i \in 1..Len(s)
    PROVE  At(Append(s, x), from, i) = At(s, from, i)
<1>1. {j \in 1..(i - 1) : Width(Append(s, x)[j]) = 2} = {j \in 1..(i - 1) : Width(s[j]) = 2}
    OBVIOUS
<1>. QED
    BY <1>1, Zenon DEF At

\* The cells of a run that have text are the cells of its columns that do.
LEMMA RunCells ==
    ASSUME cells \in Rows, NEW s, NEW from, NEW to, Run(s, from, to),
           NEW x \in from..(to - 1), ~IsEmpty(x)
    PROVE  \E i \in 1..Len(s) : s[i] = x
<1>1. PICK i \in 1..Len(s) : s[i] <= x /\ x < s[i] + Width(s[i])
    BY DEF Run, Filled
<1>2. s[i] \in Columns
    BY DEF Run
<1>3. /\ Width(s[i]) \in 1..2 /\ s[i] \in Int
      /\ Width(s[i]) = 2 => cells[s[i] + 1] = "tail"
    BY <1>2, CellFacts DEF Columns
<1>4. s[i] = x \/ (Width(s[i]) = 2 /\ x = s[i] + 1)
    <2>1. x \in Int
        BY <1>2 DEF Run, Columns
    <2>. QED
        BY <1>1, <1>3, <2>1
<1>. QED
    BY <1>3, <1>4 DEF IsEmpty

\* A cell is a run.
LEMMA RunOne ==
    ASSUME cells \in Rows, NEW x \in Columns
    PROVE  Run(<<x>>, x, x + Width(x))
<1>1. /\ Width(x) \in 1..2 /\ x + Width(x) \in 1..Cols /\ x \in Int /\ Cols \in Nat
    BY CellFacts DEF Columns
<1>2. <<x>> \in Seq(Columns) /\ Len(<<x>>) = 1 /\ <<x>>[1] = x
    OBVIOUS
<1>3. At(<<x>>, x, 1) = x
    BY <1>1, <1>2, AtFacts
<1>. QED
    BY <1>1, <1>2, <1>3 DEF Run, Adjacent, Alike, Filled

\* A run goes on with a cell that looks the same.
LEMMA RunAppend ==
    ASSUME cells \in Rows, NEW s, NEW from, NEW to, Run(s, from, to),
           to \in Columns, ~IsEmpty(s[Len(s)]), ~IsEmpty(to), Attrs(s[Len(s)]) = Attrs(to)
    PROVE  Run(Append(s, to), from, to + Width(to))
<1>. DEFINE r == Append(s, to)
            n == Len(s)
<1>1. /\ s \in Seq(Columns) /\ n \in Nat /\ n >= 1 /\ n <= to - from
      /\ from \in Columns /\ from \in Int /\ to \in Int
      /\ Width(to) \in 1..2 /\ to + Width(to) \in 1..Cols
    BY CellFacts DEF Run, Columns
<1>2. /\ r \in Seq(Columns) /\ Len(r) = n + 1 /\ r[n + 1] = to
      /\ \A i \in 1..n : r[i] = s[i]
    BY <1>1
<1>3. ASSUME NEW i \in 1..n
      PROVE  s[i] \in Columns /\ s[i] \in Int /\ Width(s[i]) \in 1..2
    <2>1. s[i] \in Columns
        BY <1>1
    <2>. QED
        BY <2>1, CellFacts DEF Columns
<1>4. s[1] = from /\ s[n] + Width(s[n]) = to
    BY DEF Run
<1>. HIDE DEF r
<1>5. \A i \in 1..n : r[i + 1] = r[i] + Width(r[i])
    <2>. SUFFICES ASSUME NEW i \in 1..n PROVE r[i + 1] = r[i] + Width(r[i])
        OBVIOUS
    <2>1. CASE i = n
        BY <1>1, <1>2, <1>4, <2>1
    <2>2. CASE i < n
        <3>1. i + 1 \in 1..n /\ i \in 1..(n - 1)
            BY <1>1, <2>2
        <3>2. s[i + 1] = s[i] + Width(s[i])
            BY <3>1 DEF Run, Adjacent
        <3>. QED
            BY <1>2, <3>1, <3>2
    <2>. QED
        BY <1>1, <2>1, <2>2
<1>6. \A i, j \in 1..(n + 1) : i < j => r[i] < r[j]
    <2>1. \A i, j \in 1..n : i < j => s[i] < s[j]
        BY DEF Run, Adjacent
    <2>2. \A i \in 1..n : s[i] < to
        <3>1. s[n] < to
            BY <1>1, <1>3, <1>4
        <3>. SUFFICES ASSUME NEW i \in 1..n PROVE s[i] < to
            OBVIOUS
        <3>2. i = n \/ s[i] < s[n]
            BY <1>1, <2>1
        <3>. QED
            BY <1>1, <1>3, <3>1, <3>2
    <2>. QED
        BY <1>1, <1>2, <2>1, <2>2
<1>7. ASSUME NEW i \in 1..(n + 1)
      PROVE  At(r, from, i) = r[i] /\ Attrs(r[i]) = Attrs(r[1]) /\ ~IsEmpty(r[i])
    <2>1. /\ \A k \in 1..n : At(s, from, k) = s[k]
          /\ \A k \in 1..n : Attrs(s[k]) = Attrs(s[1])
          /\ n > 1 => \A k \in 1..n : ~IsEmpty(s[k])
        BY DEF Run, Alike
    <2>2. CASE i = n + 1
        <3>1. At(r, from, n) = s[n]
            BY <1>1, <2>1, AtAppend DEF r
        <3>2. At(r, from, n + 1) = At(r, from, n) + Width(r[n])
            <4>1. n \in 1..Len(r)
                BY <1>1, <1>2
            <4>. QED
                BY <1>1, <1>2, <4>1, AtFacts
        <3>. QED
            BY <1>1, <1>2, <1>4, <2>1, <2>2, <3>1, <3>2
    <2>3. CASE i \in 1..n
        <3>1. At(r, from, i) = At(s, from, i)
            BY <1>1, <2>3, AtAppend DEF r
        <3>2. n = 1 => s[i] = s[n]
            BY <2>3
        <3>. QED
            BY <1>1, <1>2, <2>1, <2>3, <3>1, <3>2
    <2>. QED
        BY <1>1, <2>2, <2>3
<1>. DEFINE e == to + Width(to)
<1>8. Filled(r, from, e)
    <2>. SUFFICES ASSUME NEW x \in from..(e - 1)
                  PROVE  \E i \in 1..Len(r) : r[i] <= x /\ x < r[i] + Width(r[i])
        BY DEF Filled
    <2>1. CASE x >= to
        <3>1. r[n + 1] <= x /\ x < r[n + 1] + Width(r[n + 1])
            BY <1>1, <1>2, <2>1
        <3>2. n + 1 \in 1..Len(r)
            BY <1>1, <1>2
        <3>. QED
            BY <3>1, <3>2
    <2>2. CASE x < to
        <3>1. x \in from..(to - 1)
            BY <1>1, <2>2
        <3>2. PICK i \in 1..n : s[i] <= x /\ x < s[i] + Width(s[i])
            BY <3>1 DEF Run, Filled
        <3>. QED
            BY <1>1, <1>2, <3>2
    <2>. QED
        BY <1>1, <2>1, <2>2
<1>9. /\ r[1] = from /\ r[n + 1] + Width(r[n + 1]) = e
      /\ n + 1 \in 1..(e - from) /\ from \in Columns /\ e \in 1..Cols
    BY <1>1, <1>2, <1>4
<1>10. Adjacent(r)
    <2>1. Len(r) = n + 1 /\ Len(r) - 1 = n
        BY <1>1, <1>2
    <2>. QED
        BY <1>5, <1>6, <2>1, Zenon DEF Adjacent
<1>11. Alike(r, from)
    <2>1. 1..Len(r) = 1..(n + 1)
        BY <1>2
    <2>. QED
        BY <1>7, <2>1, Zenon DEF Alike
<1>. HIDE DEF n, e
<1>12. Len(r) = n + 1 /\ r \in Seq(Columns)
    BY <1>2
<1>13. Run(r, from, e)
    BY <1>8, <1>9, <1>10, <1>11, <1>12, Zenon DEF Run
<1>. QED
    BY <1>13 DEF r, e
-----------------------------------------------------------------------------
(* Rectangles side by side *)

LEMMA ChainOne ==
    ASSUME NEW r, GoodRect(r)
    PROVE  Chain(<<r>>, r.col, r.col + r.width)
<1>. DEFINE rs == <<r>>
<1>1. rs \in Seq(Rects) /\ Len(rs) = 1 /\ rs[1] = r /\ rs # <<>>
    BY DEF GoodRect
<1>. HIDE DEF rs
<1>2. (\A k \in 1..Len(rs) : GoodRect(rs[k])) /\ SideBySide(rs)
    BY <1>1 DEF SideBySide
<1>3. Chain(rs, r.col, r.col + r.width)
    BY <1>1, <1>2 DEF Chain
<1>. QED
    BY <1>3 DEF rs

\* No columns take no rectangles.
LEMMA ChainNone ==
    ASSUME NEW from
    PROVE  Chain(<<>>, from, from)
<1>1. <<>> \in Seq(Rects) /\ Len(<<>>) = 0 /\ 1..0 = {} /\ 1..(0 - 1) = {}
    OBVIOUS
<1>. QED
    BY <1>1 DEF Chain, SideBySide

LEMMA ChainConcat ==
    ASSUME NEW a, NEW b, NEW from, NEW mid, NEW to, Chain(a, from, mid), Chain(b, mid, to)
    PROVE  Chain(a \o b, from, to)
<1>. DEFINE r == a \o b
<1>1. /\ a \in Seq(Rects) /\ b \in Seq(Rects) /\ Len(a) \in Nat /\ Len(b) \in Nat
      /\ \A k \in 1..Len(a) : GoodRect(a[k])
      /\ \A k \in 1..Len(b) : GoodRect(b[k])
    BY DEF Chain
<1>2. CASE a = <<>>
    BY <1>1, <1>2 DEF Chain
<1>3. CASE b = <<>>
    BY <1>1, <1>3 DEF Chain
<1>4. CASE a # <<>> /\ b # <<>>
    <2>1. /\ r \in Seq(Rects) /\ Len(r) = Len(a) + Len(b) /\ Len(a) > 0 /\ Len(b) > 0
          /\ \A k \in 1..Len(a) : r[k] = a[k]
          /\ \A k \in 1..Len(b) : r[Len(a) + k] = b[k]
        BY <1>1, <1>4, ConcatProperties
    <2>. HIDE DEF r
    <2>2. \A k \in 1..Len(r) : k \in 1..Len(a) \/ \E m \in 1..Len(b) : k = Len(a) + m
        <3>. SUFFICES ASSUME NEW k \in 1..Len(r), k > Len(a)
                      PROVE  \E m \in 1..Len(b) : k = Len(a) + m
            BY <1>1, <2>1
        <3>1. k - Len(a) \in 1..Len(b) /\ k = Len(a) + (k - Len(a))
            BY <1>1, <2>1
        <3>. QED
            BY <3>1
    <2>3. \A k \in 1..Len(r) : GoodRect(r[k])
        BY <1>1, <2>1, <2>2
    <2>4. /\ r[1] = a[1] /\ r[Len(a)] = a[Len(a)] /\ r[Len(a) + 1] = b[1]
          /\ r[Len(r)] = b[Len(b)]
        <3>1. Len(a) \in 1..Len(a) /\ 1 \in 1..Len(a) /\ Len(b) \in 1..Len(b) /\ 1 \in 1..Len(b)
            BY <1>1, <2>1
        <3>. QED
            BY <2>1, <3>1
    <2>5. /\ r[1].col = from /\ r[Len(a)].col + r[Len(a)].width = r[Len(a) + 1].col
          /\ r[Len(r)].col + r[Len(r)].width = to
        BY <1>4, <2>4 DEF Chain
    <2>6. SideBySide(r)
        <3>. SUFFICES ASSUME NEW k \in 1..(Len(r) - 1)
                      PROVE  r[k + 1].col = r[k].col + r[k].width
            BY DEF SideBySide
        <3>1. CASE k < Len(a)
            <4>1. k \in 1..(Len(a) - 1) /\ k \in 1..Len(a) /\ k + 1 \in 1..Len(a)
                BY <1>1, <3>1
            <4>2. a[k + 1].col = a[k].col + a[k].width
                BY <4>1 DEF Chain, SideBySide
            <4>. QED
                BY <2>1, <4>1, <4>2
        <3>2. CASE k = Len(a)
            BY <2>5, <3>2
        <3>3. CASE k > Len(a)
            <4>. DEFINE m == k - Len(a)
            <4>1. /\ m \in 1..(Len(b) - 1) /\ m \in 1..Len(b) /\ m + 1 \in 1..Len(b)
                  /\ k = Len(a) + m /\ k + 1 = Len(a) + (m + 1)
                BY <1>1, <2>1, <3>3
            <4>. HIDE DEF m
            <4>2. b[m + 1].col = b[m].col + b[m].width
                BY <4>1 DEF Chain, SideBySide
            <4>3. r[k] = b[m] /\ r[k + 1] = b[m + 1]
                BY <2>1, <4>1
            <4>. QED
                BY <4>2, <4>3
        <3>. QED
            BY <1>1, <3>1, <3>2, <3>3
    <2>7. r # <<>>
        BY <2>1
    <2>8. Chain(r, from, to)
        BY <2>1, <2>3, <2>5, <2>6, <2>7 DEF Chain
    <2>. QED
        BY <2>8 DEF r
<1>. QED
    BY <1>2, <1>3, <1>4

\* The cells of a run have text, if there are several.
LEMMA RunEnd ==
    ASSUME cells \in Rows, NEW s, NEW from, NEW to, Run(s, from, to), Len(s) > 1
    PROVE  to <= RowMaxCol
<1>. DEFINE x == s[Len(s)]
<1>1. x \in Columns /\ x + Width(x) = to /\ ~IsEmpty(x)
    <2>1. Len(s) \in 1..Len(s) /\ s \in Seq(Columns)
        BY DEF Run
    <2>. QED
        BY <2>1 DEF Run, Alike
<1>. HIDE DEF x
<1>2. /\ Width(x) \in 1..2 /\ x \in Int
      /\ Width(x) = 2 => x + 1 \in Columns /\ cells[x + 1] = "tail"
    BY <1>1, CellFacts DEF Columns
<1>3. x < RowMaxCol /\ RowMaxCol \in Int
    BY <1>1, RowMaxColFacts DEF IsEmpty
<1>4. Width(x) = 2 => x + 1 < RowMaxCol
    BY <1>2, RowMaxColFacts
<1>. QED
    BY <1>1, <1>2, <1>3, <1>4

\* A run is drawn in such rectangles, cut or not.
LEMMA RunRects ==
    ASSUME cells \in Rows, sel \in [shown : BOOLEAN, start : Locs, end : Locs],
           NEW s, NEW from, NEW to, Run(s, from, to)
    PROVE  Chain(DrawString(from, to - from, s), from, to)
<1>1. /\ s \in Seq(Columns) /\ Len(s) \in Nat /\ Len(s) > 0 /\ s[1] = from
      /\ from \in Columns /\ from \in Int /\ from \in 0..Cols
      /\ to \in 1..Cols /\ to \in Int /\ to \in 0..Cols /\ from < to
      /\ Cols \in Nat
    BY DrawingAssumption DEF Run, Columns
<1>2. to - from # 0 /\ from + (to - from) = to
    BY <1>1
<1>3. CASE ~Cut(from, to - from, s)
    <2>1. ASSUME NEW i \in from..(to - 1), ~IsEmpty(i)
          PROVE  ShouldBeSelected(i) = ShouldBeSelected(from) /\ Attrs(i) = Attrs(s[1])
        <3>1. PICK j \in 1..Len(s) : s[j] = i
            BY <2>1, RunCells
        <3>2. Attrs(i) = Attrs(s[1])
            BY <3>1 DEF Run, Alike
        <3>3. CASE Len(s) = 1
            BY <1>1, <3>1, <3>2, <3>3
        <3>4. CASE Len(s) > 1
            <4>1. to <= RowMaxCol
                BY <3>4, RunEnd
            <4>2. ShouldBeSelected(i) = ShouldBeSelected(from)
                BY <1>1, <1>3, <3>4, <4>1, SelectedTogether
            <4>. QED
                BY <3>2, <4>2
        <3>5. Len(s) = 1 \/ Len(s) > 1
            <4>. DEFINE n == Len(s)
            <4>1. n \in Nat /\ n > 0
                BY <1>1
            <4>. HIDE DEF n
            <4>2. n = 1 \/ n > 1
                BY <4>1
            <4>. QED
                BY <4>2 DEF n
        <3>. QED
            BY <3>3, <3>4, <3>5, Zenon
    <2>2. s # <<>>
        BY <1>1
    <2>3. GoodRect(Rect(from, to - from, s))
        BY <1>1, <2>1, <2>2, RectIsGood
    <2>4. DrawString(from, to - from, s) = <<Rect(from, to - from, s)>>
        BY <1>2, <1>3 DEF DrawString
    <2>5. Rect(from, to - from, s).col = from /\ Rect(from, to - from, s).width = to - from
        BY DEF Rect
    <2>. QED
        BY <1>2, <2>3, <2>4, <2>5, ChainOne
<1>4. CASE Cut(from, to - from, s)
    <2>. DEFINE rs == [i \in 1..Len(s) |-> Rect(At(s, from, i), Width(s[i]), <<s[i]>>)]
    <2>1. DrawString(from, to - from, s) = rs
        BY <1>2, <1>4 DEF DrawString
    <2>2. ASSUME NEW i \in 1..Len(s)
          PROVE  /\ rs[i] = Rect(s[i], Width(s[i]), <<s[i]>>) /\ GoodRect(rs[i])
                 /\ rs[i].col = s[i] /\ rs[i].width = Width(s[i])
        <3>. DEFINE x == s[i]
                    e == x + Width(x)
        <3>1. At(s, from, i) = x
            BY DEF Run, Alike
        <3>2. rs[i] = Rect(x, Width(x), <<x>>)
            BY <3>1
        <3>3. x \in Columns
            BY <1>1
        <3>. HIDE DEF x, rs
        <3>4. /\ x \in Int /\ Width(x) \in 1..2 /\ e \in 1..Cols /\ x < e /\ e - x = Width(x)
              /\ Width(x) = 2 => cells[x + 1] = "tail"
            BY <3>3, CellFacts DEF Columns
        <3>5. ASSUME NEW k \in x..(e - 1), ~IsEmpty(k)
              PROVE  k = x
            <4>1. k = x \/ (Width(x) = 2 /\ k = x + 1)
                BY <3>4
            <4>. QED
                BY <3>4, <3>5, <4>1 DEF IsEmpty
        <3>6. <<x>> \in Seq(Columns) /\ <<x>> # <<>> /\ <<x>>[1] = x
            BY <3>3
        <3>. HIDE DEF e
        <3>7. GoodRect(Rect(x, e - x, <<x>>))
            BY <3>3, <3>4, <3>5, <3>6, RectIsGood
        <3>8. GoodRect(rs[i])
            BY <3>2, <3>4, <3>7
        <3>9. rs[i].col = x /\ rs[i].width = Width(x)
            BY <3>2 DEF Rect
        <3>. QED
            BY <3>2, <3>8, <3>9 DEF x
    <2>3. Len(rs) = Len(s) /\ rs # <<>>
        BY <1>1
    <2>. HIDE DEF rs
    <2>4. rs \in Seq(Rects)
        <3>1. \A i \in 1..Len(s) : rs[i] \in Rects
            BY <2>2 DEF GoodRect
        <3>. QED
            BY <1>1, <3>1 DEF rs
    <2>5. SideBySide(rs)
        <3>. SUFFICES ASSUME NEW k \in 1..(Len(s) - 1)
                      PROVE  rs[k + 1].col = rs[k].col + rs[k].width
            BY <2>3 DEF SideBySide
        <3>1. k \in 1..Len(s) /\ k + 1 \in 1..Len(s)
            BY <1>1
        <3>2. s[k + 1] = s[k] + Width(s[k])
            BY DEF Run, Adjacent
        <3>. QED
            BY <2>2, <3>1, <3>2
    <2>6. rs[1].col = from /\ rs[Len(s)].col + rs[Len(s)].width = to
        <3>1. 1 \in 1..Len(s) /\ Len(s) \in 1..Len(s)
            BY <1>1
        <3>2. s[Len(s)] + Width(s[Len(s)]) = to
            BY DEF Run
        <3>. QED
            BY <1>1, <2>2, <3>1, <3>2
    <2>7. Chain(rs, from, to)
        BY <2>2, <2>3, <2>4, <2>5, <2>6 DEF Chain
    <2>. QED
        BY <2>1, <2>7
<1>. QED
    BY <1>3, <1>4

\* So is a gap.
LEMMA GapRects ==
    ASSUME cells \in Rows, sel \in [shown : BOOLEAN, start : Locs, end : Locs],
           NEW from \in Columns, NEW to \in from..Cols,
           \A i \in from..(to - 1) : IsEmpty(i)
    PROVE  Chain(DrawString(from, to - from, <<>>), from, to)
<1>1. Cols \in Nat /\ from \in Nat /\ to \in Nat
    BY DrawingAssumption DEF Columns
<1>2. CASE from = to
    <2>1. DrawString(from, to - from, <<>>) = <<>>
        BY <1>1, <1>2 DEF DrawString
    <2>. QED
        BY <1>2, <2>1, ChainNone
<1>3. CASE from < to
    <2>1. to - from # 0 /\ from + (to - from) = to /\ ~Cut(from, to - from, <<>>)
        BY <1>1, <1>3 DEF Cut
    <2>2. DrawString(from, to - from, <<>>) = <<Rect(from, to - from, <<>>)>>
        BY <2>1 DEF DrawString
    <2>3. IsEmpty(from) /\ to \in 1..Cols
        BY <1>1, <1>3
    <2>4. GoodRect(Rect(from, to - from, <<>>))
        <3>1. <<>> \in Seq(Columns) /\ ~(Len(<<>>) > 0)
            OBVIOUS
        <3>. QED
            BY <1>3, <2>3, <3>1, RectIsGood
    <2>5. /\ Rect(from, to - from, <<>>).col = from
          /\ Rect(from, to - from, <<>>).width = to - from
        BY DEF Rect
    <2>. QED
        BY <2>1, <2>2, <2>4, <2>5, ChainOne
<1>. QED
    BY <1>1, <1>2, <1>3
-----------------------------------------------------------------------------
(* The text *)

LEMMA TextNone ==
    ASSUME NEW from \in Int
    PROVE  Text(<<>>, from, from)
<1>1. <<>> \in Seq([cell : Columns, at : Columns]) /\ Len(<<>>) = 0 /\ 1..0 = {}
    OBVIOUS
<1>2. from..(from - 1) = {}
    OBVIOUS
<1>. QED
    BY <1>1, <1>2 DEF Text

LEMMA TextConcat ==
    ASSUME NEW a, NEW b, NEW from \in Int, NEW mid \in Int, NEW to \in Int,
           from <= mid, mid <= to, Text(a, from, mid), Text(b, mid, to)
    PROVE  Text(a \o b, from, to)
<1>. DEFINE g == a \o b
            T == [cell : Columns, at : Columns]
<1>1. /\ a \in Seq(T) /\ b \in Seq(T) /\ Len(a) \in Nat /\ Len(b) \in Nat
      /\ \A k \in 1..Len(a) : a[k].at = a[k].cell /\ from <= a[k].cell /\ a[k].cell < mid
      /\ \A k \in 1..Len(b) : b[k].at = b[k].cell /\ mid <= b[k].cell /\ b[k].cell < to
    BY DEF Text
<1>2. /\ \A k \in 1..Len(a) : a[k].cell \in Int
      /\ \A k \in 1..Len(b) : b[k].cell \in Int
    <2>3. \A x \in T : x.cell \in Int
        BY DEF Columns
    <2>. HIDE DEF T
    <2>1. \A k \in 1..Len(a) : a[k] \in T
        BY <1>1
    <2>2. \A k \in 1..Len(b) : b[k] \in T
        BY <1>1
    <2>. QED
        BY <2>1, <2>2, <2>3
<1>3. /\ g \in Seq(T) /\ Len(g) = Len(a) + Len(b)
      /\ \A k \in 1..Len(a) : g[k] = a[k]
      /\ \A k \in 1..Len(b) : g[Len(a) + k] = b[k]
    BY <1>1, ConcatProperties
<1>. HIDE DEF g, T
<1>4. ASSUME NEW k \in 1..Len(g)
      PROVE  \/ k \in 1..Len(a) /\ g[k] = a[k]
             \/ \E m \in 1..Len(b) : k = Len(a) + m /\ g[k] = b[m]
    <2>1. CASE k <= Len(a)
        BY <1>1, <1>3, <2>1
    <2>2. CASE k > Len(a)
        <3>. DEFINE m == k - Len(a)
        <3>1. m \in 1..Len(b) /\ k = Len(a) + m
            BY <1>1, <1>3, <2>2
        <3>. HIDE DEF m
        <3>. QED
            BY <1>3, <3>1
    <2>. QED
        BY <1>1, <2>1, <2>2
<1>5. ASSUME NEW k \in 1..Len(g)
      PROVE  g[k].at = g[k].cell /\ from <= g[k].cell /\ g[k].cell < to
    <2>1. CASE k \in 1..Len(a) /\ g[k] = a[k]
        BY <1>1, <1>2, <2>1
    <2>2. CASE \E m \in 1..Len(b) : k = Len(a) + m /\ g[k] = b[m]
        BY <1>1, <1>2, <2>2
    <2>. QED
        BY <1>4, <2>1, <2>2
<1>6. ASSUME NEW k \in 1..Len(g), NEW l \in 1..Len(g), g[k].cell = g[l].cell
      PROVE  k = l
    <2>1. CASE k \in 1..Len(a) /\ g[k] = a[k] /\ l \in 1..Len(a) /\ g[l] = a[l]
        BY <1>6, <2>1 DEF Text
    <2>2. CASE /\ \E m \in 1..Len(b) : k = Len(a) + m /\ g[k] = b[m]
               /\ \E m \in 1..Len(b) : l = Len(a) + m /\ g[l] = b[m]
        <3>1. PICK m \in 1..Len(b) : k = Len(a) + m /\ g[k] = b[m]
            BY <2>2
        <3>2. PICK o \in 1..Len(b) : l = Len(a) + o /\ g[l] = b[o]
            BY <2>2
        <3>3. m = o
            BY <1>6, <3>1, <3>2 DEF Text
        <3>. QED
            BY <3>1, <3>2, <3>3
    <2>3. CASE /\ k \in 1..Len(a) /\ g[k] = a[k]
               /\ \E m \in 1..Len(b) : l = Len(a) + m /\ g[l] = b[m]
        BY <1>1, <1>2, <1>6, <2>3
    <2>4. CASE /\ l \in 1..Len(a) /\ g[l] = a[l]
               /\ \E m \in 1..Len(b) : k = Len(a) + m /\ g[k] = b[m]
        BY <1>1, <1>2, <1>6, <2>4
    <2>. QED
        BY <1>4, <2>1, <2>2, <2>3, <2>4
<1>7. ASSUME NEW i \in from..(to - 1), ~IsEmpty(i)
      PROVE  \E k \in 1..Len(g) : g[k].cell = i
    <2>1. CASE i < mid
        <3>1. i \in from..(mid - 1)
            BY <2>1
        <3>2. PICK k \in 1..Len(a) : a[k].cell = i
            BY <1>7, <3>1 DEF Text
        <3>. QED
            BY <1>1, <1>3, <3>2
    <2>2. CASE i >= mid
        <3>1. i \in mid..(to - 1)
            BY <2>2
        <3>2. PICK k \in 1..Len(b) : b[k].cell = i
            BY <1>7, <3>1 DEF Text
        <3>3. Len(a) + k \in 1..Len(g) /\ g[Len(a) + k].cell = i
            BY <1>1, <1>3, <3>2
        <3>. QED
            BY <3>3
    <2>. QED
        BY <2>1, <2>2
<1>8. Text(g, from, to)
    BY <1>3, <1>5, <1>6, <1>7 DEF Text, T
<1>. QED
    BY <1>8 DEF g

\* Where the text of a run is drawn, whichever way it is laid out.
LEMMA RunText ==
    ASSUME cells \in Rows, NEW s, NEW from, NEW to, Run(s, from, to)
    PROVE  Text(Glyphs(from, s), from, to)
<1>. DEFINE g == Glyphs(from, s)
            fast == \A j \in ToSet(s) : Ascii(j) /\ ~Attrs(j).bold
<1>1. /\ s \in Seq(Columns) /\ Len(s) \in Nat /\ Len(s) > 0 /\ s[1] = from
      /\ from \in Int /\ to \in Int
    BY DEF Run, Columns
<1>2. ASSUME NEW i \in 1..Len(s)
      PROVE  /\ s[i] \in Columns /\ s[i] \in Int /\ Width(s[i]) \in 1..2
             /\ At(s, from, i) = s[i]
    <2>1. s[i] \in Columns
        BY <1>1
    <2>2. s[i] \in Int /\ Width(s[i]) \in 1..2
        BY <2>1, CellFacts DEF Columns
    <2>. QED
        BY <2>1, <2>2 DEF Run, Alike
<1>3. ASSUME fast, NEW i \in 1..Len(s)
      PROVE  from + i - 1 = At(s, from, i)
    <2>1. ASSUME NEW j \in 1..Len(s)
          PROVE  Width(s[j]) = 1
        <3>1. s[j] \in ToSet(s)
            BY <1>1 DEF ToSet
        <3>2. Ascii(s[j])
            BY <1>3, <3>1
        <3>. QED
            BY <3>2 DEF Ascii, Width
    <2>2. {j \in 1..(i - 1) : Width(s[j]) = 2} = {}
        BY <1>1, <2>1
    <2>3. Cardinality({j \in 1..(i - 1) : Width(s[j]) = 2}) = 0
        BY <2>2, FS_EmptySet
    <2>. QED
        BY <1>1, <2>3 DEF At
<1>4. ASSUME NEW i \in 1..Len(s)
      PROVE  g[i] = [cell |-> s[i], at |-> s[i]]
    <2>1. g[i] = [cell |-> s[i], at |-> IF fast THEN from + i - 1 ELSE At(s, from, i)]
        BY DEF Glyphs
    <2>. HIDE DEF fast, g
    <2>. QED
        BY <1>2, <1>3, <2>1
<1>. HIDE DEF g, fast
<1>5. Len(g) = Len(s) /\ g \in Seq([cell : Columns, at : Columns])
    <2>. DEFINE T == [cell : Columns, at : Columns]
    <2>1. \A i \in 1..Len(s) : [cell |-> s[i], at |-> s[i]] \in T
        BY <1>2
    <2>. HIDE DEF T
    <2>2. \A i \in 1..Len(s) : g[i] \in T
        BY <1>4, <2>1
    <2>3. DOMAIN g = 1..Len(s) /\ g = [i \in 1..Len(s) |-> g[i]]
        BY DEF g, Glyphs
    <2>4. g \in [1..Len(s) -> T]
        BY <2>2, <2>3
    <2>5. Len(g) = Len(s) /\ g \in Seq(T)
        BY <1>1, <2>4
    <2>. QED
        BY <2>5 DEF T
<1>6. ASSUME NEW k \in 1..Len(g)
       PROVE  k \in 1..Len(s) /\ g[k].at = s[k] /\ g[k].cell = s[k]
    <2>1. k \in 1..Len(s)
        BY <1>5
    <2>2. g[k] = [cell |-> s[k], at |-> s[k]]
        BY <1>4, <2>1
    <2>3. g[k].at = s[k] /\ g[k].cell = s[k]
        BY <2>2
    <2>. QED
        BY <2>1, <2>3
<1>7. ASSUME NEW k \in 1..Len(g)
      PROVE  g[k].at = g[k].cell /\ from <= g[k].cell /\ g[k].cell < to
    <2>1. g[k].at = s[k] /\ g[k].cell = s[k]
        BY <1>6
    <2>2. \A i, j \in 1..Len(s) : i < j => s[i] < s[j]
        BY DEF Run, Adjacent
    <2>3. s[Len(s)] + Width(s[Len(s)]) = to
        BY DEF Run
    <2>4. 1 \in 1..Len(s) /\ Len(s) \in 1..Len(s) /\ k \in 1..Len(s)
        BY <1>1, <1>5
    <2>5. k = 1 \/ s[1] < s[k]
        BY <2>2, <2>4
    <2>6. k = Len(s) \/ s[k] < s[Len(s)]
        BY <1>1, <2>2, <2>4
    <2>7. from <= s[k]
        BY <1>1, <1>2, <2>4, <2>5
    <2>8. s[Len(s)] < to
        BY <1>1, <1>2, <2>3, <2>4
    <2>9. s[k] < to
        BY <1>1, <1>2, <2>4, <2>6, <2>8
    <2>. QED
        BY <2>1, <2>7, <2>9
<1>8. ASSUME NEW k \in 1..Len(g), NEW l \in 1..Len(g), g[k].cell = g[l].cell
      PROVE  k = l
    <2>1. g[k].cell = s[k] /\ g[l].cell = s[l] /\ k \in 1..Len(s) /\ l \in 1..Len(s)
        BY <1>6
    <2>2. k < l => s[k] < s[l]
        BY <2>1 DEF Run, Adjacent
    <2>3. l < k => s[l] < s[k]
        BY <2>1 DEF Run, Adjacent
    <2>4. s[k] \in Int /\ s[l] \in Int
        BY <1>2, <2>1
    <2>5. s[k] = s[l]
        BY <1>8, <2>1
    <2>6. k \in Int /\ l \in Int
        BY <2>1
    <2>. QED
        BY <2>2, <2>3, <2>4, <2>5, <2>6
<1>9. ASSUME NEW i \in from..(to - 1), ~IsEmpty(i)
      PROVE  \E k \in 1..Len(g) : g[k].cell = i
    <2>1. PICK k \in 1..Len(s) : s[k] = i
        BY <1>9, RunCells
    <2>2. k \in 1..Len(g)
        BY <1>5
    <2>. QED
        BY <1>6, <2>1, <2>2
<1>10. Text(g, from, to)
    BY <1>5, <1>7, <1>8, <1>9 DEF Text
<1>. QED
    BY <1>10 DEF g

-----------------------------------------------------------------------------
(* The loop *)

LEMMA InvInit == Init => Inv
<1>. SUFFICES ASSUME Init PROVE Inv
    OBVIOUS
<1>1. /\ cells \in Rows /\ sel \in [shown : BOOLEAN, start : Locs, end : Locs]
      /\ done = FALSE /\ string = <<>> /\ c = 0 /\ start = 0 /\ rects = <<>> /\ glyphs = <<>>
    BY DEF Init
<1>2. Chain(<<>>, 0, 0) /\ Text(<<>>, 0, 0)
    BY ChainNone, TextNone
<1>. QED
    BY <1>1, <1>2 DEF Inv, Gathering

\* Before the row is drawn, the loop gathers a run or is past the end.
LEMMA GatheringFacts ==
    ASSUME Inv
    PROVE  /\ c \in 0..(Cols + 1) /\ start \in 0..Cols /\ Cols \in Nat /\ Cols > 0
           /\ string \in Seq(Columns) /\ Len(string) <= Cols
           /\ c < Cols => c \in Columns
           /\ c < Cols /\ string # <<>> => Run(string, start, c)
<1>1. Cols \in Nat /\ Cols > 0 /\ Cols - 1 \in Columns
    BY CellFacts DEF Inv
<1>2. CASE string = <<>> /\ c = 0 /\ start = 0
    BY <1>1, <1>2 DEF Columns
<1>3. CASE Run(string, start, c)
    BY <1>1, <1>3 DEF Run, Columns
<1>4. CASE string = <<Cols - 1>> /\ start = Cols /\ c = Cols + 1
    BY <1>1, <1>4
<1>. QED
    BY <1>2, <1>3, <1>4 DEF Inv, Gathering

\* What a step does not touch, the parts of the invariant about it keep.
LEMMA SameRow ==
    ASSUME cells' = cells, sel' = sel
    PROVE  /\ \A s, from, to : Run(s, from, to)' <=> Run(s, from, to)
           /\ \A rs, from, to : Chain(rs, from, to)' <=> Chain(rs, from, to)
           /\ \A g, from, to : Text(g, from, to)' <=> Text(g, from, to)
<1>1. /\ \A i : IsEmpty(i)' <=> IsEmpty(i)
      /\ \A i : Width(i)' = Width(i)
      /\ \A i : Attrs(i)' = Attrs(i)
    BY DEF IsEmpty, Width, Attrs
<1>2. \A s, from, i : At(s, from, i)' = At(s, from, i)
    BY <1>1 DEF At, Width
<1>3. RowMaxCol' = RowMaxCol
    BY SMT DEF RowMaxCol
<1>4. \A l : Beyond(l)' = Beyond(l)
    BY <1>3 DEF Beyond
<1>5. \A i : ShouldBeSelected(i)' = ShouldBeSelected(i)
    BY <1>4 DEF ShouldBeSelected
<1>6. \A s, b : Look(s, b)' = Look(s, b)
    BY <1>1, Zenon DEF Look
<1>7. \A r : GoodRect(r)' <=> GoodRect(r)
    BY <1>1, <1>5, <1>6 DEF GoodRect
<1>8. \A s, from, to : Run(s, from, to)' <=> Run(s, from, to)
    BY <1>1, <1>2 DEF Run, Adjacent, Alike, Filled
<1>9. \A rs, from, to : Chain(rs, from, to)' <=> Chain(rs, from, to)
    BY <1>7 DEF Chain
<1>10. \A g, from, to : Text(g, from, to)' <=> Text(g, from, to)
    BY <1>1 DEF Text
<1>. QED
    BY <1>8, <1>9, <1>10

LEMMA GatherKeeps ==
    ASSUME Inv, Gather
    PROVE  Inv'
<1>1. /\ cells \in Rows /\ cells' = cells /\ sel' = sel /\ start' = start /\ done' = done
      /\ rects' = rects /\ glyphs' = glyphs
      /\ c < Cols /\ string' = Append(string, c) /\ c' = c + Width(c)
      /\ ContinueString(Prev, c)
    BY DEF Gather, Inv
<1>2. /\ c \in Columns /\ c \in Int /\ Cols \in Int /\ string \in Seq(Columns)
      /\ string # <<>> => Run(string, start, c)
    BY <1>1, GatheringFacts
<1>3. done = FALSE
    BY <1>1, <1>2 DEF Inv
<1>4. Run(Append(string, c), start, c + Width(c))
    <2>1. CASE string = <<>>
        <3>1. c = start
            BY <1>1, <2>1 DEF Inv, Gathering, Run
        <3>2. Append(string, c) = <<c>>
            BY <2>1
        <3>. QED
            BY <1>1, <1>2, <3>1, <3>2, RunOne
    <2>2. CASE string # <<>>
        <3>. DEFINE x == string[Len(string)]
        <3>1. Prev = <<x>>
            BY <1>2, <2>2 DEF Prev, Last
        <3>. HIDE DEF x
        <3>2. <<x>> # <<>> /\ Head(<<x>>) = x
            OBVIOUS
        <3>3. ~IsEmpty(x) /\ ~IsEmpty(c) /\ Attrs(x) = Attrs(c)
            BY <1>1, <3>1, <3>2 DEF ContinueString
        <3>. QED
            BY <1>1, <1>2, <2>2, <3>3, RunAppend DEF x
    <2>. QED
        BY <2>1, <2>2
<1>5. Gathering'
    <2>1. Run(string', start', c')
        BY <1>1, <1>4
    <2>2. Run(string, start, c)'
        BY <1>1, <2>1, SameRow
    <2>. QED
        BY <2>2 DEF Gathering
<1>6. Chain(rects, 0, IF done THEN Cols ELSE start)' /\ Text(glyphs, 0, IF done THEN Cols ELSE start)'
    BY <1>1, SameRow DEF Inv
<1>. QED
    BY <1>1, <1>3, <1>5, <1>6 DEF Inv

LEMMA BreakKeeps ==
    ASSUME Inv, Break
    PROVE  Inv'
<1>. DEFINE e == GapEnd(c)
            first == IF e = Cols THEN Cols - 1 ELSE e
            gap == DrawString(c, e - c, <<>>)
<1>1. /\ cells \in Rows /\ sel \in [shown : BOOLEAN, start : Locs, end : Locs]
      /\ cells' = cells /\ sel' = sel /\ done' = done
      /\ c < Cols /\ ~ContinueString(Prev, c)
      /\ rects' = rects \o Gathered \o gap
      /\ glyphs' = glyphs \o GatheredGlyphs
      /\ start' = e /\ string' = <<first>> /\ c' = e + Width(first)
    BY DEF Break, Inv
<1>2. string # <<>>
    BY <1>1 DEF ContinueString, Prev
<1>3. /\ Run(string, start, c) /\ c \in Columns /\ c \in 0..(Cols - 1)
      /\ Cols \in Nat /\ Cols > 0 /\ start \in 0..Cols
    BY <1>1, <1>2, GatheringFacts DEF Columns
<1>4. done = FALSE
    BY <1>1, <1>3 DEF Inv
<1>5. e \in c..Cols /\ (\A j \in c..(e - 1) : IsEmpty(j)) /\ (e = Cols \/ ~IsEmpty(e))
    BY <1>1, <1>3, GapEndFacts
<1>. HIDE DEF e
<1>6. start < c
    BY <1>3 DEF Run, Columns
<1>7. Gathering'
    <2>1. CASE e = Cols
        <3>1. Width(Cols - 1) = 1
            BY <1>1, CellFacts DEF Rows, Width
        <3>2. string' = <<Cols - 1>> /\ start' = Cols /\ c' = Cols + 1
            BY <1>1, <2>1, <3>1
        <3>. QED
            BY <3>2 DEF Gathering
    <2>2. CASE e # Cols
        <3>1. e \in Columns
            BY <1>3, <1>5, <2>2 DEF Columns
        <3>2. Run(<<e>>, e, e + Width(e))
            BY <1>1, <3>1, RunOne
        <3>3. Run(string', start', c')
            BY <1>1, <2>2, <3>2
        <3>4. Run(string, start, c)'
            BY <1>1, <3>3, SameRow
        <3>. QED
            BY <3>4 DEF Gathering
    <2>. QED
        BY <2>1, <2>2
<1>8. Chain(rects \o Gathered \o gap, 0, e)
    <2>1. Chain(rects, 0, start)
        BY <1>4 DEF Inv
    <2>2. Chain(Gathered, start, c)
        BY <1>1, <1>3, RunRects DEF Gathered
    <2>3. Chain(gap, c, e)
        BY <1>1, <1>3, <1>5, GapRects
    <2>. HIDE DEF gap
    <2>4. Chain(rects \o Gathered, 0, c)
        BY <2>1, <2>2, ChainConcat
    <2>. QED
        BY <2>3, <2>4, ChainConcat
<1>9. Text(glyphs \o GatheredGlyphs, 0, e)
    <2>1. Text(glyphs, 0, start)
        BY <1>4 DEF Inv
    <2>2. Text(GatheredGlyphs, start, c)
        BY <1>1, <1>3, <1>6, RunText DEF GatheredGlyphs
    <2>3. 0 \in Int /\ start \in Int /\ c \in Int /\ e \in Int /\ 0 <= start /\ start <= c
        BY <1>3, <1>5, <1>6
    <2>4. Text(glyphs \o GatheredGlyphs, 0, c)
        BY <2>1, <2>2, <2>3, TextConcat
    <2>5. ASSUME NEW i \in 0..(e - 1), ~IsEmpty(i)
          PROVE  i \in 0..(c - 1)
        BY <1>5, <2>3, <2>5
    <2>6. ASSUME NEW k \in 1..Len(glyphs \o GatheredGlyphs)
          PROVE  (glyphs \o GatheredGlyphs)[k].cell < e
        <3>. DEFINE g == glyphs \o GatheredGlyphs
                    T == [cell : Columns, at : Columns]
        <3>. HIDE DEF g, T
        <3>1. g \in Seq(T) /\ k \in 1..Len(g) /\ \A j \in 1..Len(g) : g[j].cell < c
            BY <2>4, Zenon DEF Text, g, T
        <3>2. g[k].cell < c /\ g[k] \in T
            BY <3>1
        <3>3. g[k].cell \in Int
            BY <3>2 DEF Columns, T
        <3>4. g[k].cell < e
            BY <1>5, <2>3, <3>2, <3>3
        <3>. QED
            BY <3>4 DEF g
    <2>. QED
        BY <2>4, <2>5, <2>6 DEF Text
<1>10. Chain(rects', 0, start') /\ Text(glyphs', 0, start')
    BY <1>1, <1>8, <1>9
<1>11. Chain(rects, 0, start)' /\ Text(glyphs, 0, start)'
    BY <1>1, <1>10, SameRow
<1>. QED
    BY <1>1, <1>4, <1>7, <1>11 DEF Inv

LEMMA FinishKeeps ==
    ASSUME Inv, Finish
    PROVE  Inv'
<1>1. /\ cells \in Rows /\ sel \in [shown : BOOLEAN, start : Locs, end : Locs]
      /\ cells' = cells /\ sel' = sel /\ done = FALSE /\ done' = TRUE
      /\ c >= Cols /\ c' = c /\ start' = start /\ string' = string
      /\ rects' = rects \o DrawString(start, Cols - start, string)
      /\ glyphs' = glyphs \o (IF start = Cols THEN <<>> ELSE Glyphs(start, string))
    BY DEF Finish, Inv
<1>2. start \in 0..Cols /\ Cols \in Nat /\ Cols > 0 /\ c \in Int
    BY GatheringFacts
<1>3. Chain(rects, 0, start) /\ Text(glyphs, 0, start)
    BY <1>1 DEF Inv
<1>4. Chain(rects', 0, Cols) /\ Text(glyphs', 0, Cols)
    <2>1. CASE start = Cols
        <3>1. DrawString(start, Cols - start, string) = <<>>
            BY <1>2, <2>1 DEF DrawString
        <3>2. Chain(<<>>, start, Cols) /\ Text(<<>>, start, Cols)
            BY <1>2, <2>1, ChainNone, TextNone
        <3>3. Chain(rects \o <<>>, 0, Cols) /\ Text(glyphs \o <<>>, 0, Cols)
            <4>1. 0 \in Int /\ start \in Int /\ Cols \in Int /\ 0 <= start /\ start <= Cols
                BY <1>2
            <4>2. Chain(rects \o <<>>, 0, Cols)
                BY <1>3, <3>2, ChainConcat
            <4>3. Text(glyphs \o <<>>, 0, Cols)
                BY <1>3, <3>2, <4>1, TextConcat
            <4>. QED
                BY <4>2, <4>3
        <3>. QED
            BY <1>1, <2>1, <3>1, <3>3
    <2>2. CASE start # Cols
        <3>1. Run(string, start, Cols)
            <4>1. Run(string, start, c)
                BY <1>1, <1>2, <2>2 DEF Inv, Gathering
            <4>2. c = Cols
                BY <1>1, <1>2, <4>1 DEF Run
            <4>. QED
                BY <4>1, <4>2
        <3>2. /\ Chain(DrawString(start, Cols - start, string), start, Cols)
              /\ Text(Glyphs(start, string), start, Cols)
            BY <1>1, <3>1, RunRects, RunText
        <3>3. /\ Chain(rects \o DrawString(start, Cols - start, string), 0, Cols)
              /\ Text(glyphs \o Glyphs(start, string), 0, Cols)
            BY <1>2, <1>3, <3>2, ChainConcat, TextConcat
        <3>. QED
            BY <1>1, <2>2, <3>3
    <2>. QED
        BY <2>1, <2>2
<1>5. Chain(rects, 0, Cols)' /\ Text(glyphs, 0, Cols)'
    BY <1>1, <1>4, SameRow
<1>6. Gathering'
    <2>1. Run(string, start, c) => Run(string, start, c)'
        BY <1>1, SameRow
    <2>. QED
        BY <1>1, <2>1 DEF Inv, Gathering
<1>. QED
    BY <1>1, <1>5, <1>6 DEF Inv

LEMMA InvNext == Inv /\ [Next]_vars => Inv'
<1>. SUFFICES ASSUME Inv, [Next]_vars PROVE Inv'
    OBVIOUS
<1>1. CASE UNCHANGED vars
    <2>1. /\ cells' = cells /\ sel' = sel /\ c' = c /\ start' = start /\ string' = string
          /\ rects' = rects /\ glyphs' = glyphs /\ done' = done
        BY <1>1 DEF vars
    <2>2. Run(string, start, c)' <=> Run(string, start, c)
        BY <2>1, SameRow
    <2>3. Chain(rects, 0, IF done THEN Cols ELSE start)' /\ Text(glyphs, 0, IF done THEN Cols ELSE start)'
        BY <2>1, SameRow DEF Inv
    <2>. QED
        BY <2>1, <2>2, <2>3 DEF Inv, Gathering
<1>2. CASE Gather
    BY <1>2, GatherKeeps
<1>3. CASE Break
    BY <1>3, BreakKeeps
<1>4. CASE Finish
    BY <1>4, FinishKeeps
<1>. QED
    BY <1>1, <1>2, <1>3, <1>4 DEF Next

LEMMA InvHolds == Spec => []Inv
BY InvInit, InvNext, PTL DEF Spec

-----------------------------------------------------------------------------
(* The properties *)

\* A row is painted from left to right, without a gap or an overlap, and to
\* its end when it is done, whatever strings its cells are gathered into and
\* wherever runes_display_draw_string cuts them.
THEOREM RowIsCovered == Spec => [](TypeOK /\ CoversOnce)
<1>1. Inv => TypeOK /\ CoversOnce
    <2>. SUFFICES ASSUME Inv PROVE TypeOK /\ CoversOnce
        OBVIOUS
    <2>1. TypeOK
        <3>1. rects \in Seq(Rects) /\ glyphs \in Seq([cell : Columns, at : Columns])
            BY DEF Inv, Chain, Text
        <3>. QED
            BY <3>1, GatheringFacts DEF TypeOK, Inv, Rects
    <2>2. Chain(rects, 0, IF done THEN Cols ELSE start) /\ Cols # 0
        BY GatheringFacts DEF Inv
    <2>3. /\ rects \in Seq(Rects) /\ SideBySide(rects)
          /\ rects # <<>> => rects[1].col = 0
          /\ done => rects # <<>> /\ rects[Len(rects)].col + rects[Len(rects)].width = Cols
        BY <2>2 DEF Chain
    <2>4. ASSUME NEW k \in DOMAIN rects
          PROVE  rects[k].col = IF k = 1 THEN 0 ELSE rects[k - 1].col + rects[k - 1].width
        <3>1. k \in 1..Len(rects) /\ rects # <<>>
            BY <2>3
        <3>2. CASE k = 1
            BY <2>3, <3>1, <3>2
        <3>3. CASE k # 1
            <4>1. k - 1 \in 1..(Len(rects) - 1) /\ (k - 1) + 1 = k
                BY <2>3, <3>1, <3>3
            <4>2. rects[(k - 1) + 1].col = rects[k - 1].col + rects[k - 1].width
                BY <2>3, <4>1 DEF SideBySide
            <4>. QED
                BY <3>3, <4>1, <4>2
        <3>. QED
            BY <3>2, <3>3
    <2>5. done => Last(rects).col + Last(rects).width = Cols
        BY <2>3 DEF Last
    <2>. QED
        BY <2>1, <2>4, <2>5 DEF CoversOnce
<1>. QED
    BY <1>1, InvHolds, PTL

\* Every cell with text is painted in its own colours, and highlighted if and
\* only if the selection holds it, in whatever string it is painted: cutting
\* the strings in which the selection begins or ends, and no others, is enough.
THEOREM CellsKeepTheirLook == Spec => []CellsLookLikeThemselves
<1>1. Inv => CellsLookLikeThemselves
    <2>. SUFFICES ASSUME Inv, NEW k \in DOMAIN rects
                  PROVE  LET r == rects[k]
                             s == IF IsEmpty(r.col) THEN <<>> ELSE <<r.col>>
                         IN  /\ \A i \in Columns : Covers(r, i) /\ ~IsEmpty(i) =>
                                   /\ r.selected = ShouldBeSelected(i)
                                   /\ r.look = Look(<<i>>, ShouldBeSelected(i))
                             /\ r.selected => r.look.bg # Look(s, FALSE).bg
        BY Zenon DEF CellsLookLikeThemselves
    <2>1. rects \in Seq(Rects) /\ \A j \in 1..Len(rects) : GoodRect(rects[j])
        BY DEF Inv, Chain
    <2>2. GoodRect(rects[k])
        BY <2>1
    <2>. QED
        BY <2>2, Zenon DEF GoodRect
<1>. QED
    BY <1>1, InvHolds, PTL

\* The text of every cell is drawn once, in the cell's own column, whether
\* the cached glyphs are put a column apart or the string is laid out.
THEOREM TextStaysInPlace == Spec => []TextInPlace
<1>1. Inv => TextInPlace
    <2>. SUFFICES ASSUME Inv PROVE TextInPlace
        OBVIOUS
    <2>1. Text(glyphs, 0, IF done THEN Cols ELSE start) /\ done \in BOOLEAN
        BY DEF Inv
    <2>2. DOMAIN glyphs = 1..Len(glyphs)
        BY <2>1 DEF Text
    <2>3. Columns = 0..(Cols - 1)
        BY DEF Columns
    <2>. QED
        BY <2>1, <2>2, <2>3 DEF Text, TextInPlace
<1>. QED
    BY <1>1, InvHolds, PTL

-----------------------------------------------------------------------------
(* When a window is drawn                                                  *)
(*                                                                         *)
(* Neither bound of Redraw is inductive.  That a stale window is drawn in  *)
(* time needs that a timer is pending for it, and how late each timer can  *)
(* be: as long as the clock was never set back a bell and a delay exclude  *)
(* each other and the delay is counted from the change; afterwards a delay *)
(* may start over, but only until the wall clock has caught up with the    *)
(* last drawing, which it does within the time it was set back.            *)

\* The clock as the last drawing read it, whatever it was set to since.
LastRead ==
    /\ drawn <= now
    /\ drawn - back <= last /\ last <= drawn + ahead

\* The loop runs a timer when it is due; no timer is set further ahead than
\* its length.
TimersDue ==
    /\ delay # Never => now <= delay /\ delay <= now + Rate
    /\ ring # Never => now <= ring /\ ring <= now + BellLength
    /\ stale # Never => delay # Never \/ ring # Never
    /\ ring # Never => stale # Never
    /\ stale # Never => drawn <= stale /\ stale <= now

\* A delay starts only while the wall clock is less than Rate beyond last.
DelayBound == delay # Never => Rate # 0 /\ delay <= drawn + 2 * Rate + back - 1

\* The clock was never set back.
Forward ==
    back = 0 =>
        /\ delay # Never /\ stale # Never => delay <= stale + Rate
        /\ delay # Never => last + Rate <= delay + ahead
        /\ ring # Never => ring <= stale + Rate + BellLength
        /\ ring # Never => Rate = 0 \/ last <= Wall - Rate

\* It was.
SetBack ==
    back # 0 /\ ring # Never => ring <= stale + 2 * Rate + back - 1 + BellLength

\* A bell that could not ring waits for the delayed redraw, so that no bell
\* follows on the heels of another.
BellWaits == bell => delay # Never

RedrawIInv ==
    RedrawTypeOK /\ LastRead /\ TimersDue /\ DelayBound /\ Forward /\ SetBack /\ BellWaits

LEMMA ThrottleInit == RedrawInit => RedrawIInv
<1>. SUFFICES ASSUME RedrawInit PROVE RedrawIInv
    OBVIOUS
<1>. USE RedrawAssumption DEF RedrawInit, Never
<1>1. bell \in BOOLEAN
    BY Zenon
<1>2. /\ now \in Times /\ back \in 0..MaxSet /\ ahead \in 0..MaxSet
      /\ last \in -(Rate + MaxSet)..(MaxTime + MaxSet)
      /\ delay \in 0..Never /\ ring \in 0..Never
      /\ stale = Never /\ drawn \in -Rate..MaxTime
    BY DEF Times
<1>3. RedrawTypeOK
    BY <1>1, <1>2 DEF RedrawTypeOK
<1>4. LastRead /\ TimersDue /\ DelayBound
    BY DEF LastRead, TimersDue, DelayBound
<1>5. Forward /\ SetBack
    BY DEF Forward, SetBack
<1>6. BellWaits
    BY Zenon DEF BellWaits
<1>. QED
    BY <1>3, <1>4, <1>5, <1>6 DEF RedrawIInv

DrawnApart == drawn' # drawn => drawn' - drawn >= Rate - ahead

\* What the callers of runes_window_flush have in common.  A timer that is
\* not counted as pending has just fired.
LEMMA FlushKeeps ==
    ASSUME RedrawIInv, NEW s \in Times \cup {Never}, NEW b \in BOOLEAN,
           NEW delaying \in BOOLEAN, NEW ringing \in BOOLEAN,
           Flush(s, b, delaying, ringing), UNCHANGED <<now, back, ahead>>,
           s = stale \/ (stale = Never /\ s = now),
           IF delaying THEN delay # Never ELSE delay = Never \/ delay <= now,
           IF ringing THEN ring # Never ELSE ring = Never \/ ring <= now,
           b => delaying \/ ringing \/ ring = Never
    PROVE  RedrawIInv' /\ DrawnApart
<1>. USE RedrawAssumption
<1>1. CASE Recent(delaying)
    <2>1. /\ Rate # 0 /\ bell' \in BOOLEAN
          /\ stale' = s /\ last' = last /\ drawn' = drawn
          /\ \/ delay # Never /\ delay' = delay
             \/ (delay = Never \/ delay <= now) /\ delay' = now + Rate /\ Wall - Rate < last
          /\ \/ ring # Never /\ ring' = ring
             \/ (ring = Never \/ ring <= now) /\ ring' = Never
        BY <1>1, Zenon DEF Flush, Delay, Recent
    <2>. USE <2>1 DEF RedrawIInv, Times, Never
    <2>2. RedrawTypeOK'
        BY DEF RedrawTypeOK, Forward, TimersDue, Wall
    <2>3. LastRead'
        BY DEF RedrawTypeOK, LastRead
    <2>4. TimersDue'
        BY DEF RedrawTypeOK, LastRead, TimersDue
    <2>5. DelayBound'
        BY DEF RedrawTypeOK, LastRead, DelayBound, Wall
    <2>6. Forward'
        BY DEF RedrawTypeOK, LastRead, Forward, TimersDue, Wall
    <2>7. SetBack'
        BY DEF RedrawTypeOK, SetBack, TimersDue
    <2>8. BellWaits'
        BY DEF RedrawTypeOK, BellWaits
    <2>. QED
        BY <2>2, <2>3, <2>4, <2>5, <2>6, <2>7, <2>8 DEF DrawnApart
<1>2. CASE ~Recent(delaying)
    <2>1. /\ bell' = FALSE /\ delay' = Never
          /\ Rate = 0 \/ (~(Wall - Rate < last) /\ ~delaying)
        BY <1>2, Zenon DEF Flush, Recent
    <2>2. delay = Never \/ delay <= now
        BY <2>1, Zenon DEF RedrawIInv, DelayBound
    <2>3. \/ /\ ring # Never /\ ring' = ring
             /\ stale' = (IF s = Never THEN now ELSE s) /\ last' = last /\ drawn' = drawn
          \/ /\ ring = Never
             /\ ring' = now + BellLength
             /\ stale' = (IF s = Never THEN now ELSE s) /\ last' = last /\ drawn' = drawn
          \/ /\ ring' = Never
             /\ stale' = Never /\ last' = Wall /\ drawn' = now
        <3>1. ~delaying
            BY <2>1, Zenon DEF RedrawIInv, DelayBound
        <3>. QED
            BY <1>2, <3>1, Zenon DEF Flush
    <2>4. bell' \in BOOLEAN
        BY <2>1, Zenon
    <2>5. Rate = 0 \/ ~(Wall - Rate < last)
        BY <2>1, Zenon
    <2>. USE <2>2, <2>3, <2>4, <2>5 DEF RedrawIInv, Times, Never
    <2>6. delay' = Never
        BY <2>1, Zenon
    <2>. USE <2>6
    <2>7. RedrawTypeOK'
        BY DEF RedrawTypeOK, TimersDue, Wall
    <2>8. LastRead'
        BY DEF RedrawTypeOK, LastRead, Wall
    <2>9. TimersDue'
        BY DEF RedrawTypeOK, LastRead, TimersDue
    <2>10. DelayBound'
        BY DEF DelayBound
    <2>11. Forward'
        BY DEF RedrawTypeOK, Forward, TimersDue, Wall
    <2>12. SetBack'
        BY DEF RedrawTypeOK, SetBack, TimersDue, DelayBound, LastRead
    <2>13. DrawnApart
        BY DEF RedrawTypeOK, LastRead, DrawnApart, Wall
    <2>14. BellWaits'
        BY <2>1, Zenon DEF BellWaits
    <2>. QED
        BY <2>7, <2>8, <2>9, <2>10, <2>11, <2>12, <2>13, <2>14
<1>. QED
    BY <1>1, <1>2

LEMMA ThrottleNext == RedrawIInv /\ [RedrawNext]_redrawvars => RedrawIInv' /\ DrawnApart
<1>. SUFFICES ASSUME RedrawIInv, [RedrawNext]_redrawvars PROVE RedrawIInv' /\ DrawnApart
    OBVIOUS
<1>0. /\ now \in Times /\ stale \in Times \cup {Never} /\ bell \in BOOLEAN
      /\ delay \in 0..Never /\ ring \in 0..Never
      /\ (delay # Never) \in BOOLEAN /\ (ring # Never) \in BOOLEAN
    BY Zenon DEF RedrawIInv, RedrawTypeOK
<1>1. ASSUME NEW wantsBell \in BOOLEAN, Output(wantsBell)
      PROVE  RedrawIInv' /\ DrawnApart
    <2>. DEFINE s == IF stale = Never THEN now ELSE stale
                b == bell \/ wantsBell
    <2>1. s \in Times \cup {Never} /\ b \in BOOLEAN
        BY <1>0, Zenon
    <2>2. Flush(s, b, delay # Never, ring # Never) /\ UNCHANGED <<now, back, ahead>>
        BY <1>1, Zenon DEF Output
    <2>3. s = stale \/ (stale = Never /\ s = now)
        BY Zenon
    <2>. HIDE DEF s, b
    <2>. QED
        BY <1>0, <2>1, <2>2, <2>3, FlushKeeps, Zenon
<1>2. CASE Expose
    BY <1>0, <1>2, FlushKeeps, Zenon DEF Expose
<1>3. CASE DelayEnds
    BY <1>0, <1>3, FlushKeeps, Zenon DEF DelayEnds
<1>4. CASE BellEnds
    <2>. DEFINE s == IF stale = Never THEN now ELSE stale
    <2>1. s \in Times \cup {Never}
        BY <1>0, Zenon
    <2>2. Flush(s, bell, delay # Never, FALSE) /\ UNCHANGED <<now, back, ahead>>
        BY <1>4, Zenon DEF BellEnds
    <2>3. ring <= now /\ (bell => delay # Never)
        BY <1>4, Zenon DEF BellEnds, RedrawIInv, BellWaits
    <2>4. s = stale \/ (stale = Never /\ s = now)
        BY Zenon
    <2>. HIDE DEF s
    <2>. QED
        BY <1>0, <2>1, <2>2, <2>3, <2>4, FlushKeeps, Zenon
<1>5. CASE Tick \/ SetClock \/ UNCHANGED redrawvars
    <2>1. /\ UNCHANGED <<last, delay, ring, bell, stale, drawn>>
          /\ \/ /\ now < MaxTime /\ now < delay /\ now < ring
                /\ now' = now + 1 /\ back' = back /\ ahead' = ahead
             \/ now' = now /\ back < MaxSet /\ back' = back + 1 /\ ahead' = ahead
             \/ now' = now /\ ahead < MaxSet /\ ahead' = ahead + 1 /\ back' = back
             \/ now' = now /\ ahead' = ahead /\ back' = back
        BY <1>5, Zenon DEF Tick, SetClock, redrawvars
    <2>2. bell' \in BOOLEAN /\ BellWaits'
        BY <2>1, Zenon DEF RedrawIInv, RedrawTypeOK, BellWaits
    <2>. USE RedrawAssumption, <2>1, <2>2 DEF RedrawIInv, Times, Never
    <2>3. RedrawTypeOK'
        BY DEF RedrawTypeOK
    <2>4. LastRead'
        BY DEF RedrawTypeOK, LastRead
    <2>5. TimersDue'
        BY DEF RedrawTypeOK, TimersDue
    <2>6. DelayBound'
        BY DEF RedrawTypeOK, DelayBound
    <2>7. Forward'
        BY DEF RedrawTypeOK, Forward, Wall
    <2>8. SetBack'
        BY DEF RedrawTypeOK, Forward, SetBack, TimersDue
    <2>. QED
        BY <2>3, <2>4, <2>5, <2>6, <2>7, <2>8 DEF DrawnApart
<1>. QED
    BY <1>1, <1>2, <1>3, <1>4, <1>5 DEF RedrawNext

LEMMA RedrawIInvHolds == RedrawSpec => []RedrawIInv
BY ThrottleInit, ThrottleNext, PTL DEF RedrawSpec

\* The window never shows an old screen for longer than a redraw interval and
\* a bell, and a clock that was set back by some time adds that time and less
\* than another interval (window-xlib.c:295-330, :546-600).
THEOREM ScreenIsFresh == RedrawSpec => []FreshScreen
<1>1. RedrawIInv => FreshScreen
    <2>. SUFFICES ASSUME RedrawIInv PROVE FreshScreen
        OBVIOUS
    <2>. USE RedrawAssumption DEF RedrawIInv, Times, Never
    <2>1. CASE back = 0
        BY <2>1 DEF RedrawTypeOK, TimersDue, Forward, FreshScreen
    <2>2. CASE back # 0
        BY <2>2 DEF RedrawTypeOK, TimersDue, DelayBound, SetBack, FreshScreen
    <2>. QED
        BY <2>1, <2>2
<1>. QED
    BY <1>1, RedrawIInvHolds, PTL

\* Output however fast is drawn once in a redraw interval, unless the clock is
\* set ahead (window-xlib.c:546-572).
THEOREM DrawingsAreApart == RedrawSpec => DrawsApart
<1>1. RedrawIInv /\ [RedrawNext]_redrawvars => [DrawnApart]_redrawvars
    BY ThrottleNext
<1>. QED
    BY <1>1, RedrawIInvHolds, PTL DEF RedrawSpec, DrawsApart, DrawnApart

=============================================================================
