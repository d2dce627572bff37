----------------------------- MODULE MouseProofs ------------------------------
(***************************************************************************)
(* What becomes of the mouse's events, for any size of the screen and of   *)
(* the scrollback, any modes of the program and any history of clicks.     *)
(*                                                                         *)
(* The operators of Mouse are functions of the window's record: a lemma    *)
(* for each says which fields it leaves alone.                             *)
(***************************************************************************)
EXTENDS Mouse, TLAPS

Deeds == {"report", "start", "follow", "extend", "click", "paste", "scroll"}

\* The fields that selecting does not touch.
SameMouse(u, w) ==
    /\ u.offset = w.offset /\ u.down = w.down /\ u.since = w.since /\ u.last = w.last

-----------------------------------------------------------------------------
(* Places *)

\* A clipped number is one of 0..(n - 1).
LEMMA ClipFacts ==
    ASSUME NEW x \in Int, NEW n \in Nat \ {0}
    PROVE  Clip(x, n) \in 0..(n - 1)
BY DEF Clip

\* The pointer is on a row that the window's view shows.
LEMMA PositionFacts ==
    ASSUME NEW w \in Window, NEW p \in Pointers, count \in Rows..MaxRows
    PROVE  /\ MousePosition(w, p) \in Locs
           /\ MousePosition(w, p).row = Clip(p.row, Rows) - w.offset + RowTop
           /\ MousePosition(w, p).col \in 0..(Cols - 1)
           /\ ReportedPosition(w, p) \in Locs
<1>1. Rows \in Nat \ {0} /\ Cols \in Nat \ {0} /\ MaxRows \in Nat /\ MaxRows >= Rows
    BY MouseAssumption
<1>2. p.row \in Int /\ p.col \in Int
    BY <1>1 DEF Pointers
<1>3. Clip(p.row, Rows) \in 0..(Rows - 1) /\ Clip(p.col, Cols) \in 0..(Cols - 1)
    BY <1>1, <1>2, ClipFacts
<1>4. w.offset \in 0..MaxRows /\ count \in Nat
    BY <1>1 DEF Window
<1>. DEFINE row == Clip(p.row, Rows) - w.offset + count - Rows
            col == Clip(p.col, Cols)
<1>5. /\ row \in -MaxRows..MaxRows /\ row - (count - Rows) \in -MaxRows..MaxRows
      /\ row = Clip(p.row, Rows) - w.offset + (count - Rows)
      /\ col \in 0..(Cols - 1) /\ col \in -1..Cols
    BY <1>1, <1>3, <1>4
<1>6. MousePosition(w, p) = [row |-> row, col |-> col]
    BY DEF MousePosition
<1>. HIDE DEF row, col
<1>7. ReportedPosition(w, p) = [row |-> row - (count - Rows), col |-> col]
    BY <1>6 DEF ReportedPosition, RowTop
<1>. QED
    BY <1>5, <1>6, <1>7 DEF Locs, RowTop

-----------------------------------------------------------------------------
(* What handlers are made of *)

\* The window when a handler begins.
LEMMA QuietFacts ==
    ASSUME win \in Window
    PROVE  Quiet \in Window /\ Quiet.did = {} /\ SameMouse(Quiet, win)
BY DEF Quiet, Window, SameMouse

\* A report ends scrolling back.
LEMMA ReportFacts ==
    ASSUME NEW w \in Window, MaxRows \in Nat
    PROVE  /\ Report(w) \in Window /\ Report(w).did = w.did \cup {"report"}
           /\ Report(w).offset = 0 /\ Report(w).down = w.down
           /\ Report(w).since = w.since /\ Report(w).last = w.last
<1>. DEFINE d == w.did \cup {"report"}
<1>1. d \in SUBSET Deeds /\ 0 \in 0..MaxRows
    BY DEF Window, Deeds
<1>2. Report(w) = [w EXCEPT !.did = d, !.offset = 0]
    BY DEF Report, Does, Window
<1>. HIDE DEF d
<1>3. Report(w).did = d
    BY <1>2 DEF Window
<1>. QED
    BY <1>1, <1>2, <1>3 DEF Window, Deeds, d

\* A selection starts where it ends.
LEMMA StartFacts ==
    ASSUME NEW w \in Window, NEW loc \in Locs
    PROVE  /\ StartSelection(w, loc) \in Window
           /\ StartSelection(w, loc).did = w.did \cup {"start"}
           /\ StartSelection(w, loc).start = loc
           /\ SameMouse(StartSelection(w, loc), w)
BY DEF StartSelection, Does, Window, SameMouse

\* An update moves the end, if at all.
LEMMA UpdateFacts ==
    ASSUME NEW w \in Window, NEW loc \in Locs, NEW how \in {"follow", "extend"}
    PROVE  /\ UpdateSelection(w, loc, how) \in Window
           /\ UpdateSelection(w, loc, how).did \in {w.did, w.did \cup {how}}
           /\ SameMouse(UpdateSelection(w, loc, how), w)
<1>1. CASE w.shown /\ w.end # loc
    BY <1>1 DEF UpdateSelection, Does, Window, SameMouse
<1>2. CASE ~(w.shown /\ w.end # loc)
    BY <1>2 DEF UpdateSelection, SameMouse
<1>. QED
    BY <1>1, <1>2

\* The view stays on the grid.
LEMMA ScrollFacts ==
    ASSUME NEW w \in Window, NEW n \in Int, count \in Rows..MaxRows
    PROVE  /\ VisibleScroll(w, n) \in Window
           /\ VisibleScroll(w, n).did = w.did \cup {"scroll"}
           /\ VisibleScroll(w, n).offset \in 0..(count - Rows)
           /\ VisibleScroll(w, n).down = w.down /\ VisibleScroll(w, n).since = w.since
<1>1. Rows \in Nat \ {0} /\ MaxRows \in Nat /\ w.offset + n \in Int /\ RowTop + 1 \in Nat \ {0}
    BY MouseAssumption DEF Window, RowTop
<1>. DEFINE o == Clip(w.offset + n, RowTop + 1)
<1>2. o \in 0..(count - Rows)
    BY <1>1, ClipFacts DEF RowTop
<1>3. o \in 0..MaxRows
    BY <1>1, <1>2
<1>4. VisibleScroll(w, n) = [Does(w, "scroll") EXCEPT !.offset = o]
    BY DEF VisibleScroll, Does
<1>. HIDE DEF o
<1>. QED
    BY <1>2, <1>3, <1>4 DEF Does, Window

\* A click is counted, and may select.
LEMMA MultiClickFacts ==
    ASSUME NEW w \in Window, NEW loc \in Locs, loc.col \in 0..(Cols - 1),
           NEW c \in MultiClick(w, loc)
    PROVE  /\ c \in Window
           /\ "click" \in c.did /\ c.did \subseteq w.did \cup {"click", "start", "extend"}
           /\ SameMouse(c, w)
<1>1. Cols \in Nat \ {0} /\ MaxRows \in Nat
    BY MouseAssumption
<1>. DEFINE k == [Does(w, "click") EXCEPT !.clicks = IF @ = 3 THEN 2 ELSE @ + 1]
<1>2. k \in Window /\ k.did = w.did \cup {"click"} /\ SameMouse(k, w)
    <2>. DEFINE d == w.did \cup {"click"}
                n == IF w.clicks = 3 THEN 2 ELSE w.clicks + 1
    <2>1. d \in SUBSET Deeds /\ n \in 0..3
        BY DEF Window, Deeds
    <2>2. k = [w EXCEPT !.did = d, !.clicks = n]
        BY DEF Does, Window
    <2>. HIDE DEF k, d, n
    <2>. QED
        BY <2>1, <2>2 DEF Window, SameMouse, Deeds, d
<1>3. \A x \in 0..Cols : [loc EXCEPT !.col = x] \in Locs
    BY <1>1 DEF Locs
<1>. HIDE DEF k
<1>4. ASSUME NEW from \in Locs, NEW to \in Locs
      PROVE  LET u == UpdateSelection(StartSelection(k, from), to, "extend")
             IN  /\ u \in Window /\ SameMouse(u, w)
                 /\ "click" \in u.did /\ u.did \subseteq w.did \cup {"click", "start", "extend"}
    <2>. DEFINE v == StartSelection(k, from)
                u == UpdateSelection(v, to, "extend")
    <2>1. v \in Window /\ v.did = k.did \cup {"start"} /\ SameMouse(v, k)
        BY <1>2, StartFacts
    <2>. HIDE DEF v
    <2>2. u \in Window /\ u.did \in {v.did, v.did \cup {"extend"}} /\ SameMouse(u, v)
        BY <2>1, UpdateFacts
    <2>. HIDE DEF u
    <2>3. u \in Window /\ SameMouse(u, w)
          /\ "click" \in u.did /\ u.did \subseteq w.did \cup {"click", "start", "extend"}
        BY <1>2, <2>1, <2>2 DEF SameMouse
    <2>. QED
        BY <2>3 DEF u, v
<1>5. \/ c = k
      \/ \E x \in 0..Cols, y \in 0..Cols :
            c = UpdateSelection(StartSelection(k, [loc EXCEPT !.col = x]),
                                [loc EXCEPT !.col = y], "extend")
    <2>1. loc.col \in 0..Cols /\ 0 \in 0..Cols /\ Cols \in 0..Cols
          /\ 0..loc.col \subseteq 0..Cols /\ loc.col..Cols \subseteq 0..Cols
        BY <1>1
    <2>. QED
        BY <2>1 DEF MultiClick, k
<1>. QED
    BY <1>2, <1>3, <1>4, <1>5

\* What the window makes of a press: never a report, never a drag.
LEMMA BuiltinPressFacts ==
    ASSUME NEW w \in Window, w.did = {}, NEW b \in 1..5, NEW p \in Pointers,
           NEW shift \in BOOLEAN, count \in Rows..MaxRows
    PROVE  LET u == BuiltinPress(w, b, p, shift)
           IN  /\ u \in Window /\ u.did \subseteq {"start", "extend", "paste", "scroll"}
               /\ u.offset = w.offset \/ u.offset \in 0..(count - Rows)
               /\ IF b = 1 THEN u.down /\ u.since = How(shift)
                  ELSE u.down = w.down /\ u.since = w.since
               /\ "start" \in u.did => u.start = MousePosition(w, p)
<1>. DEFINE u == BuiltinPress(w, b, p, shift)
<1>1. MousePosition(w, p) \in Locs
    BY PositionFacts
<1>2. ScrollLines \in Int /\ -ScrollLines \in Int
    BY MouseAssumption
<1>3. CASE b = 1
    <2>. DEFINE v == StartSelection(w, MousePosition(w, p))
    <2>1. v \in Window /\ v.did = w.did \cup {"start"}
          /\ v.start = MousePosition(w, p) /\ SameMouse(v, w)
        BY <1>1, StartFacts
    <2>2. u = [v EXCEPT !.down = TRUE, !.since = How(shift)]
        BY <1>3 DEF BuiltinPress
    <2>3. How(shift) \in {"none", "shift", "plain"}
        BY DEF How
    <2>. HIDE DEF v
    <2>4. /\ u \in Window /\ u.did = v.did /\ u.offset = v.offset
          /\ u.down /\ u.since = How(shift) /\ u.start = v.start
        BY <2>1, <2>2, <2>3 DEF Window
    <2>. QED
        BY <1>3, <2>1, <2>4 DEF SameMouse
<1>4. CASE b = 2
    <2>1. u = Does(w, "paste")
        BY <1>4 DEF BuiltinPress
    <2>. QED
        BY <1>4, <2>1 DEF Does, Window
<1>5. CASE b = 3
    <2>1. u = UpdateSelection(w, MousePosition(w, p), "extend")
        BY <1>5 DEF BuiltinPress
    <2>. QED
        BY <1>1, <1>5, <2>1, UpdateFacts DEF SameMouse
<1>6. CASE b = 4
    <2>1. u = VisibleScroll(w, ScrollLines)
        BY <1>6 DEF BuiltinPress
    <2>. HIDE DEF u
    <2>2. /\ u \in Window /\ u.did = {"scroll"} /\ u.offset \in 0..(count - Rows)
          /\ u.down = w.down /\ u.since = w.since
        BY <1>2, <2>1, ScrollFacts
    <2>. QED
        BY <1>6, <2>2 DEF u
<1>7. CASE b = 5
    <2>1. u = VisibleScroll(w, -ScrollLines)
        BY <1>7 DEF BuiltinPress
    <2>. HIDE DEF u
    <2>2. /\ u \in Window /\ u.did = {"scroll"} /\ u.offset \in 0..(count - Rows)
          /\ u.down = w.down /\ u.since = w.since
        BY <1>2, <2>1, ScrollFacts
    <2>. QED
        BY <1>7, <2>2 DEF u
<1>. QED
    BY <1>3, <1>4, <1>5, <1>6, <1>7

\* What the window makes of a release: a click of the first button.
LEMMA BuiltinReleaseFacts ==
    ASSUME NEW w \in Window, NEW b \in 1..5, NEW p \in Pointers, count \in Rows..MaxRows,
           NEW u \in BuiltinRelease(w, b, p)
    PROVE  /\ u \in Window /\ u.did \subseteq w.did \cup {"click", "start", "extend"}
           /\ b = 1 \/ w.did # {} => u.did # {}
           /\ "click" \in u.did \/ (b # 1 /\ u = w)
           /\ u.offset = w.offset /\ u.since = w.since
           /\ IF b = 1 THEN ~u.down ELSE u.down = w.down
<1>. DEFINE loc == MousePosition(w, p)
<1>1. loc \in Locs /\ loc.col \in 0..(Cols - 1)
    BY PositionFacts
<1>. HIDE DEF loc
<1>2. CASE b = 1
    <2>1. PICK c \in MultiClick(w, loc) : u = [c EXCEPT !.down = FALSE]
        BY <1>2 DEF BuiltinRelease, loc
    <2>2. /\ c \in Window /\ "click" \in c.did
          /\ c.did \subseteq w.did \cup {"click", "start", "extend"} /\ SameMouse(c, w)
        BY <1>1, MultiClickFacts
    <2>3. u \in Window /\ u.did = c.did /\ ~u.down /\ u.offset = c.offset /\ u.since = c.since
        BY <2>1, <2>2 DEF Window
    <2>. QED
        BY <1>2, <2>2, <2>3 DEF SameMouse
<1>3. CASE b # 1
    BY <1>3 DEF BuiltinRelease
<1>. QED
    BY <1>2, <1>3

-----------------------------------------------------------------------------
(* The inductive invariant *)

\* A press that still counts holds the first button down, and one without
\* Shift was made while the program asked for no reports.
DragIsHeld ==
    win.down /\ win.since # "none" => 1 \in held /\ (win.since = "plain" => mode = "off")

ViewOnGrid == ~Shrinks => win.offset <= count - Rows

IInv == OneFate /\ FollowsHeldButton /\ DragIsHeld /\ ViewOnGrid

LEMMA InitIInv == Init => IInv
<1>. SUFFICES ASSUME Init PROVE IInv
    OBVIOUS
<1>1. Rows \in Nat \ {0} /\ Cols \in Nat \ {0} /\ MaxRows \in Nat /\ MaxRows >= Rows
    BY MouseAssumption
<1>2. Nowhere \in Locs
    BY <1>1 DEF Nowhere, Locs
<1>3. win \in Window
    BY <1>1, <1>2 DEF Init, Window
<1>4. TypeOK
    BY <1>1, <1>3 DEF Init, TypeOK
<1>. QED
    BY <1>1, <1>4 DEF Init, IInv, OneFate, FollowsHeldButton, DragIsHeld, ViewOnGrid

\* The types that the steps start from.
LEMMA IInvTypes ==
    ASSUME IInv
    PROVE  /\ Rows \in Nat \ {0} /\ MaxRows \in Nat /\ Buttons \subseteq 1..5
           /\ count \in Rows..MaxRows /\ win \in Window /\ held \subseteq Buttons
           /\ mode \in Modes
           /\ Quiet \in Window /\ Quiet.did = {} /\ SameMouse(Quiet, win)
BY MouseAssumption, QuietFacts DEF IInv, OneFate, TypeOK

LEMMA PressIInv ==
    ASSUME IInv, NEW b \in Buttons, NEW p \in Pointers, NEW shift \in Shifts, Press(b, p, shift)
    PROVE  IInv'
<1>1. /\ held' = held \cup {b} /\ UNCHANGED <<mode, count>>
      /\ win' = IF WantsPress /\ ~shift THEN Report(Quiet) ELSE BuiltinPress(Quiet, b, p, shift)
    BY DEF Press
<1>2. b \in 1..5 /\ shift \in BOOLEAN
    BY IInvTypes, MouseAssumption
<1>3. CASE WantsPress /\ ~shift
    <2>1. win' \in Window /\ win'.did = {"report"} /\ win'.offset = 0
          /\ win'.down = win.down /\ win'.since = win.since
        BY <1>1, <1>3, IInvTypes, ReportFacts DEF SameMouse
    <2>. QED
        BY <1>1, <1>2, <2>1, IInvTypes
           DEF IInv, OneFate, TypeOK, FollowsHeldButton, DragIsHeld, ViewOnGrid
<1>4. CASE ~(WantsPress /\ ~shift)
    <2>1. /\ win' \in Window /\ win'.did \subseteq {"start", "extend", "paste", "scroll"}
          /\ win'.offset = win.offset \/ win'.offset \in 0..(count - Rows)
          /\ IF b = 1 THEN win'.down /\ win'.since = How(shift)
             ELSE win'.down = win.down /\ win'.since = win.since
        BY <1>1, <1>2, <1>4, IInvTypes, BuiltinPressFacts DEF SameMouse
    <2>2. OneFate' /\ FollowsHeldButton' /\ ViewOnGrid'
        BY <1>1, <1>2, <2>1, IInvTypes DEF IInv, OneFate, TypeOK, FollowsHeldButton, ViewOnGrid
    <2>3. DragIsHeld'
        <3>1. CASE b = 1
            BY <1>1, <1>4, <2>1, <3>1 DEF DragIsHeld, How, WantsPress
        <3>2. CASE b # 1
            BY <1>1, <2>1, <3>2 DEF IInv, DragIsHeld
        <3>. QED
            BY <3>1, <3>2
    <2>. QED
        BY <2>2, <2>3 DEF IInv
<1>. QED
    BY <1>3, <1>4

LEMMA ReleaseIInv ==
    ASSUME IInv, NEW b \in Buttons, NEW p \in Pointers, NEW shift \in Shifts, Release(b, p, shift)
    PROVE  IInv'
<1>. DEFINE r == Released(b, shift)
<1>1. held' = held \ {b} /\ UNCHANGED <<mode, count>>
    BY DEF Release
<1>2. b \in 1..5 /\ shift \in BOOLEAN
    BY IInvTypes, MouseAssumption
<1>3. /\ r \in Window /\ r.did = {} /\ r.down = win.down /\ r.offset = win.offset
      /\ r.since = IF b = 1 /\ win.since # How(shift) THEN "none" ELSE win.since
    BY IInvTypes DEF Released, SameMouse, Window
<1>. HIDE DEF r
<1>4. PICK w \in IF shift THEN BuiltinRelease(r, b, p) ELSE {r} :
          IF WantsRelease THEN win' = Report(w) ELSE win' \in BuiltinRelease(w, b, p)
    BY DEF Release, r
<1>5. /\ w \in Window /\ w.offset = win.offset /\ w.since = r.since
      /\ w.did \subseteq {"click", "start", "extend"}
      /\ "click" \in w.did \/ w.did = {}
      /\ IF shift /\ b = 1 THEN ~w.down ELSE w.down = win.down
    <2>1. CASE shift
        <3>1. w \in BuiltinRelease(r, b, p)
            BY <1>4, <2>1
        <3>2. /\ w \in Window /\ w.did \subseteq r.did \cup {"click", "start", "extend"}
              /\ "click" \in w.did \/ (b # 1 /\ w = r)
              /\ w.offset = r.offset /\ w.since = r.since
              /\ IF b = 1 THEN ~w.down ELSE w.down = r.down
            BY <1>2, <1>3, <3>1, IInvTypes, BuiltinReleaseFacts
        <3>. QED
            BY <1>3, <2>1, <3>2
    <2>2. CASE ~shift
        BY <1>3, <1>4, <2>2
    <2>. QED
        BY <1>2, <2>1, <2>2
<1>6. /\ win' \in Window /\ win'.since = r.since
      /\ win'.offset = 0 \/ win'.offset = win.offset
      /\ win'.did \subseteq {"click", "start", "extend", "report"}
      /\ "report" \in win'.did => win'.did = {"report"} \/ "click" \in win'.did
      /\ win'.down => win.down
      /\ b = 1 /\ (shift \/ ~WantsRelease) => ~win'.down
    <2>1. CASE WantsRelease
        <3>1. win' \in Window /\ win'.did = w.did \cup {"report"} /\ win'.offset = 0
              /\ win'.down = w.down /\ win'.since = w.since
            BY <1>4, <1>5, <2>1, IInvTypes, ReportFacts
        <3>. QED
            BY <1>5, <2>1, <3>1
    <2>2. CASE ~WantsRelease
        <3>1. /\ win' \in Window /\ win'.did \subseteq w.did \cup {"click", "start", "extend"}
              /\ win'.offset = w.offset /\ win'.since = w.since
              /\ IF b = 1 THEN ~win'.down ELSE win'.down = w.down
            BY <1>2, <1>4, <1>5, <2>2, IInvTypes, BuiltinReleaseFacts
        <3>. QED
            BY <1>5, <2>2, <3>1
    <2>. QED
        BY <2>1, <2>2
<1>7. OneFate' /\ FollowsHeldButton' /\ ViewOnGrid'
    BY <1>1, <1>6, IInvTypes DEF IInv, OneFate, TypeOK, FollowsHeldButton, ViewOnGrid
<1>8. DragIsHeld'
    <2>1. CASE b = 1
        BY <1>1, <1>2, <1>3, <1>6, <2>1 DEF IInv, DragIsHeld, How, WantsRelease
    <2>2. CASE b # 1
        BY <1>1, <1>3, <1>6, <2>2 DEF IInv, DragIsHeld
    <2>. QED
        BY <2>1, <2>2
<1>. QED
    BY <1>7, <1>8 DEF IInv

LEMMA MotionIInv == ASSUME IInv, NEW p \in Pointers, Motion(p) PROVE IInv'
<1>1. UNCHANGED <<mode, count, held>>
    BY DEF Motion
<1>2. MousePosition(Quiet, p) \in Locs /\ ReportedPosition(Quiet, p) \in Locs
    BY IInvTypes, PositionFacts
<1>3. /\ win' \in Window /\ win'.since = win.since /\ win'.down = win.down
      /\ win'.offset = 0 \/ win'.offset = win.offset
      /\ win'.did = {"report"} \/ win'.did = {} \/ (win'.did = {"follow"} /\ win.down)
    <2>1. CASE win' = [Report(Quiet) EXCEPT !.last = ReportedPosition(Quiet, p)]
        <3>. DEFINE u == Report(Quiet)
        <3>1. u \in Window /\ u.did = {"report"} /\ u.offset = 0
              /\ u.down = win.down /\ u.since = win.since
            BY IInvTypes, ReportFacts DEF SameMouse
        <3>. HIDE DEF u
        <3>. QED
            BY <1>2, <2>1, <3>1 DEF Window, u
    <2>2. CASE win.down /\ win' = UpdateSelection(Quiet, MousePosition(Quiet, p), "follow")
        BY <1>2, <2>2, IInvTypes, UpdateFacts DEF SameMouse
    <2>3. CASE win' = Quiet
        BY <2>3, IInvTypes DEF SameMouse
    <2>. QED
        BY <2>1, <2>2, <2>3 DEF Motion
<1>. QED
    BY <1>1, <1>3, IInvTypes
       DEF IInv, OneFate, TypeOK, FollowsHeldButton, DragIsHeld, ViewOnGrid

\* The other steps select nothing and tell nobody.
LEMMA OthersIInv ==
    ASSUME IInv, ClicksEnd \/ Key \/ (\E m \in Modes : Switch(m))
                 \/ (\E n \in Rows..MaxRows : Output(n))
    PROVE  IInv'
<1>1. CASE ClicksEnd
    <2>1. win' \in Window /\ win'.did = {} /\ SameMouse(win', win) /\ UNCHANGED <<mode, count, held>>
        <3>1. win' = [Quiet EXCEPT !.clicks = 0] /\ UNCHANGED <<mode, count, held>>
            BY <1>1 DEF ClicksEnd
        <3>. QED
            BY <3>1, IInvTypes DEF Window, SameMouse
    <2>. QED
        BY <2>1, IInvTypes
           DEF IInv, OneFate, TypeOK, FollowsHeldButton, DragIsHeld, ViewOnGrid, SameMouse
<1>2. CASE Key
    <2>1. UNCHANGED <<mode, count, held>>
        BY <1>2 DEF Key
    <2>2. /\ win' \in Window /\ win'.did \subseteq {"scroll"}
          /\ win'.offset \in 0..(count - Rows)
          /\ win'.down = win.down /\ win'.since = win.since
        <3>1. Rows - 1 \in Int /\ -(Rows - 1) \in Int /\ 0 \in 0..(count - Rows)
            BY IInvTypes
        <3>2. CASE win' \in {VisibleScroll(Quiet, Rows - 1), VisibleScroll(Quiet, -(Rows - 1))}
            BY <3>1, <3>2, IInvTypes, ScrollFacts DEF SameMouse
        <3>3. CASE win' = [Quiet EXCEPT !.offset = 0]
            BY <3>1, <3>3, IInvTypes DEF SameMouse, Window
        <3>. QED
            BY <1>2, <3>2, <3>3 DEF Key
    <2>. QED
        BY <2>1, <2>2, IInvTypes
           DEF IInv, OneFate, TypeOK, FollowsHeldButton, DragIsHeld, ViewOnGrid
<1>3. ASSUME NEW m \in Modes, Switch(m) PROVE IInv'
    <2>1. /\ win' \in Window /\ win'.did = {} /\ win'.down = win.down
          /\ win'.offset = win.offset
          /\ win'.since = IF m = mode THEN win.since ELSE "none"
          /\ mode' = m /\ UNCHANGED <<count, held>>
        BY <1>3, IInvTypes DEF Switch, Window, SameMouse
    <2>. QED
        BY <2>1, IInvTypes
           DEF IInv, OneFate, TypeOK, FollowsHeldButton, DragIsHeld, ViewOnGrid
<1>4. ASSUME NEW n \in Rows..MaxRows, Output(n) PROVE IInv'
    <2>1. /\ win' \in Window /\ win'.did = {} /\ win'.down = win.down
          /\ win'.offset = win.offset /\ win'.since = win.since
          /\ count' = n /\ (n >= count \/ Shrinks) /\ UNCHANGED <<mode, held>>
        BY <1>4, IInvTypes DEF Output, Window, SameMouse
    <2>. QED
        BY <2>1, IInvTypes DEF IInv, OneFate, TypeOK, FollowsHeldButton, DragIsHeld, ViewOnGrid, Window
<1>. QED
    BY <1>1, <1>2, <1>3, <1>4

LEMMA NextIInv == IInv /\ [Next]_vars => IInv'
<1>. SUFFICES ASSUME IInv, [Next]_vars PROVE IInv'
    OBVIOUS
<1>1. CASE UNCHANGED vars
    BY <1>1 DEF vars, IInv, OneFate, TypeOK, FollowsHeldButton, DragIsHeld, ViewOnGrid
<1>. QED
    BY <1>1, PressIInv, ReleaseIInv, MotionIInv, OthersIInv DEF Next

-----------------------------------------------------------------------------
(* The theorems *)

LEMMA Invariant == Spec => []IInv
<1>. QED
    BY InitIInv, NextIInv, PTL DEF Spec

\* What the program is told of does not also select, paste or scroll, in any
\* order of modes, clicks and keys (window-xlib.c:802-904).
THEOREM EventsHaveOneFate == Spec => []OneFate
<1>1. IInv => OneFate
    BY DEF IInv
<1>. QED
    BY <1>1, Invariant, PTL

\* A selection follows the mouse only with the first button down, as long
\* as the program does not change its mind (window-xlib.c:865-904).
THEOREM SelectionFollowsButton == Spec => []FollowsHeldButton
<1>1. IInv => FollowsHeldButton
    BY DEF IInv
<1>. QED
    BY <1>1, Invariant, PTL

\* A press selects the row that is drawn under the pointer, and what is drawn
\* is on the grid, as long as the grid loses no rows while the view is scrolled
\* back (window-xlib.c:1310-1328, display.c:104-121).
THEOREM PressSelectsWhatIsShown == ASSUME ~Shrinks PROVE Spec => SelectsWhatIsShown
<1>. DEFINE Shown == win'.offset <= count' - Rows /\ \A p \in Pointers, shift \in Shifts :
                        Press(1, p, shift) /\ "start" \in win'.did =>
                            win'.start.row = Clip(p.row, Rows) + RowTop - win.offset
<1>1. IInv /\ IInv' /\ [Next]_vars => [Shown]_vars
    <2>. SUFFICES ASSUME IInv, IInv' PROVE Shown
        OBVIOUS
    <2>1. win'.offset <= count' - Rows
        BY DEF IInv, ViewOnGrid
    <2>2. ASSUME NEW p \in Pointers, NEW shift \in Shifts,
                 Press(1, p, shift), "start" \in win'.did
          PROVE  win'.start.row = Clip(p.row, Rows) + RowTop - win.offset
        <3>1. CASE WantsPress /\ ~shift
            <4>1. win' = Report(Quiet)
                BY <2>2, <3>1 DEF Press
            <4>2. win'.did = {"report"}
                BY <4>1, IInvTypes, ReportFacts
            <4>. QED
                BY <2>2, <4>2
        <3>2. CASE ~(WantsPress /\ ~shift)
            <4>1. win' = BuiltinPress(Quiet, 1, p, shift)
                BY <2>2, <3>2 DEF Press
            <4>2. shift \in BOOLEAN
                BY MouseAssumption
            <4>3. win'.start = MousePosition(Quiet, p)
                BY <2>2, <4>1, <4>2, IInvTypes, BuiltinPressFacts
            <4>4. MousePosition(Quiet, p).row = Clip(p.row, Rows) - Quiet.offset + RowTop
                BY IInvTypes, PositionFacts
            <4>5. Clip(p.row, Rows) \in Int /\ win.offset \in Int /\ RowTop \in Int
                <5>1. p.row \in Int /\ Rows \in Nat \ {0}
                    BY MouseAssumption DEF Pointers
                <5>. QED
                    BY <5>1, IInvTypes, ClipFacts DEF Window, RowTop
            <4>. QED
                BY <4>3, <4>4, <4>5, IInvTypes DEF SameMouse
        <3>. QED
            BY <3>1, <3>2
    <2>. QED
        BY <2>1, <2>2
<1>. QED
    BY <1>1, Invariant, PTL DEF Spec, SelectsWhatIsShown

\* A program that asks for any motion is told of each motion but one inside
\* the cell that it was told of last (window-xlib.c:865-904).
THEOREM ProgramKnowsPointer == Spec => KnowsPointer
<1>. DEFINE Knows == \A p \in Pointers :
                Motion(p) /\ mode = "any" =>
                    /\ win'.last = ReportedPosition(win, p)
                    /\ win'.last # win.last <=> "report" \in win'.did
<1>1. IInv /\ [Next]_vars => [Knows]_vars
    <2>. SUFFICES ASSUME IInv, NEW p \in Pointers, Motion(p), mode = "any"
                  PROVE  /\ win'.last = ReportedPosition(win, p)
                         /\ win'.last # win.last <=> "report" \in win'.did
        OBVIOUS
    <2>. DEFINE loc == ReportedPosition(Quiet, p)
    <2>1. loc = ReportedPosition(win, p) /\ loc \in Locs
        BY IInvTypes, PositionFacts DEF ReportedPosition, MousePosition, SameMouse
    <2>2. CASE loc # win.last
        <3>. DEFINE u == Report(Quiet)
        <3>1. u \in Window /\ u.did = {"report"}
            BY IInvTypes, ReportFacts
        <3>2. win' = [u EXCEPT !.last = loc]
            BY <2>2 DEF Motion, WantsAnyMotion
        <3>. HIDE DEF u, loc
        <3>3. win'.last = loc /\ win'.did = {"report"}
            BY <3>1, <3>2 DEF Window
        <3>. QED
            BY <2>1, <2>2, <3>3
    <2>3. CASE loc = win.last
        <3>1. win' = Quiet
            BY <2>3 DEF Motion, WantsAnyMotion
        <3>. QED
            BY <2>1, <2>3, <3>1, IInvTypes DEF SameMouse
    <2>. QED
        BY <2>2, <2>3
<1>. QED
    BY <1>1, Invariant, PTL DEF Spec, KnowsPointer

=============================================================================
