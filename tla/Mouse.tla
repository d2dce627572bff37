------------------------------- MODULE Mouse --------------------------------
(***************************************************************************)
(* What becomes of the mouse's events in one window: a report to the       *)
(* program that asked for mouse reports, or a selection, a paste, a scroll *)
(* of the view.  The program changes what it asks for whenever it likes,   *)
(* also between a press and its release, and its output makes the grid     *)
(* longer while the view is scrolled back.                                 *)
(*                                                                         *)
(* The bytes of a report are the library's.  Who owns PRIMARY is the       *)
(* subject of Selection, the bounds of a word that of WordSelection, and   *)
(* the timer of multi-clicks that of RunesTerm.                            *)
(***************************************************************************)
EXTENDS Integers

CONSTANTS
    Rows, Cols,     \* the size of the screen
    MaxRows,        \* bound on the rows of the grid, scrollback included
    Buttons,        \* the buttons the user has, of 1..5
    ScrollLines,    \* scroll_lines of the configuration
    Modes,          \* what the program asks for, a subset of AllModes
    Switches,       \* the program changes its mind
    Shifts,         \* whether Shift may be up, and down, during an event
    Shrinks         \* the grid may lose rows: another screen, or a taller window

AllModes == {"off", "press", "normal", "button", "any"}

ASSUME MouseAssumption ==
    /\ Rows \in Nat \ {0} /\ Cols \in Nat \ {0}
    /\ MaxRows \in Nat /\ MaxRows >= Rows
    /\ Buttons \subseteq 1..5 /\ ScrollLines \in Nat
    /\ Modes \subseteq AllModes /\ Modes # {}
    /\ Switches \in BOOLEAN /\ Shrinks \in BOOLEAN
    /\ Shifts \subseteq BOOLEAN /\ Shifts # {}

\* Where the pointer may be, in cells of the window: it leaves the window
\* while a button is down.
Pointers == [row : -1..Rows, col : 0..Cols]
\* Cells of the grid, and cells as the program numbers them.
Locs == [row : -MaxRows..MaxRows, col : -1..Cols]
Nowhere == [row |-> -1, col |-> -1]

VARIABLES
    mode,           \* what the program asked for (libvt100)
    count,          \* rows of the grid (row_count)
    held,           \* the buttons that are down
    win             \* the window, and what it did with the last event

vars == <<mode, count, held, win>>

\* The part of struct runes_window and its display that the handlers use.
Window ==
    [offset : 0..MaxRows,        \* row_visible_offset
     down   : BOOLEAN,           \* mouse_down
     last   : Locs,              \* last_reported_mouse_position
     clicks : 0..3,              \* multi_clicks; 3 stands for 3, 5, ...
     shown  : BOOLEAN,           \* has_selection
     start  : Locs, end : Locs,  \* the selection
     did    : SUBSET {"report", "start", "follow", "extend",
                      "click", "paste", "scroll"},
     \* how the press that set mouse_down was made; "none" if the program has
     \* changed its mind, or the release was made in another way
     since  : {"none", "shift", "plain"}]

TypeOK ==
    /\ mode \in Modes /\ count \in Rows..MaxRows /\ held \subseteq Buttons
    /\ win \in Window

Init ==
    /\ mode \in Modes /\ count = Rows /\ held = {}
    /\ win = [offset |-> 0, down |-> FALSE, last |-> Nowhere, clicks |-> 0,
              shown |-> FALSE, start |-> Nowhere, end |-> Nowhere,
              did |-> {}, since |-> "none"]

\* vt100_screen_mouse_reporting_wants_*
WantsPress == mode # "off"
WantsRelease == mode \in {"normal", "button", "any"}
WantsButtonMotion == mode = "button"
WantsAnyMotion == mode = "any"

RowTop == count - Rows

-----------------------------------------------------------------------------
(* What handlers are made of: functions of the window's state *)

Does(w, what) == [w EXCEPT !.did = @ \cup {what}]

Clip(x, n) == IF x < 0 THEN 0 ELSE IF x > n - 1 THEN n - 1 ELSE x

\* Mutant: the view is not taken into account.
MousePositionUnscrolled(w, p) ==
    [row |-> Clip(p.row, Rows) + count - Rows, col |-> Clip(p.col, Cols)]

\* runes_window_get_mouse_position: a cell of the grid.
MousePosition(w, p) ==
    [row |-> Clip(p.row, Rows) - w.offset + count - Rows, col |-> Clip(p.col, Cols)]

\* The cell as the program numbers them.
ReportedPosition(w, p) == [MousePosition(w, p) EXCEPT !.row = @ - RowTop]

\* A report, sent by runes_window_write_to_pty, which ends scrolling back.
Report(w) == [Does(w, "report") EXCEPT !.offset = 0]

\* runes_window_start_selection_loc
StartSelection(w, loc) ==
    [Does(w, "start") EXCEPT !.shown = TRUE, !.start = loc, !.end = loc]

\* runes_window_update_selection_loc
UpdateSelection(w, loc, how) ==
    IF w.shown /\ w.end # loc THEN [Does(w, how) EXCEPT !.end = loc] ELSE w

\* runes_window_visible_scroll
VisibleScroll(w, n) ==
    [Does(w, "scroll") EXCEPT !.offset = Clip(@ + n, RowTop + 1)]

\* runes_window_handle_multi_click: the second click selects the word around
\* loc, somewhere between the cells of the grid, the third one the row.
MultiClick(w, loc) ==
    LET c == [Does(w, "click") EXCEPT
                 !.clicks = IF @ = 3 THEN 2 ELSE @ + 1]
    IN  IF w.clicks = 0 THEN {c}
        ELSE IF c.clicks % 2 = 1
        THEN {UpdateSelection(StartSelection(c, [loc EXCEPT !.col = 0]),
                              [loc EXCEPT !.col = Cols], "extend")}
        ELSE {UpdateSelection(StartSelection(c, [loc EXCEPT !.col = from]),
                              [loc EXCEPT !.col = to], "extend") :
              from \in 0..loc.col, to \in loc.col..Cols}

\* Mutant: a release leaves mouse_down as it is.
BuiltinReleaseStuck(w, b, p) == IF b = 1 THEN MultiClick(w, MousePosition(w, p)) ELSE {w}

\* runes_window_handle_builtin_button_press, the cases of ButtonRelease.
BuiltinRelease(w, b, p) ==
    IF b = 1
    THEN {[c EXCEPT !.down = FALSE] : c \in MultiClick(w, MousePosition(w, p))}
    ELSE {w}

How(shift) == IF shift THEN "shift" ELSE "plain"

\* runes_window_handle_builtin_button_press, the cases of ButtonPress.
BuiltinPress(w, b, p, shift) ==
    CASE b = 1 -> [StartSelection(w, MousePosition(w, p)) EXCEPT
                      !.down = TRUE, !.since = How(shift)]
      [] b = 2 -> Does(w, "paste")
      [] b = 3 -> UpdateSelection(w, MousePosition(w, p), "extend")
      [] b = 4 -> VisibleScroll(w, ScrollLines)
      [] b = 5 -> VisibleScroll(w, -ScrollLines)

-----------------------------------------------------------------------------
(* The handlers *)

\* The window when the handler begins.
Quiet == [win EXCEPT !.did = {}]

\* The window when the handler of a release begins.
Released(b, shift) ==
    IF b = 1 /\ win.since # How(shift) THEN [Quiet EXCEPT !.since = "none"] ELSE Quiet

\* Mutant: a press that the window has handled goes on to the program.
PressTwice(b, p, shift) ==
    /\ b \notin held
    /\ held' = held \cup {b}
    /\ LET w == IF shift THEN BuiltinPress(Quiet, b, p, shift) ELSE Quiet
       IN  win' = IF WantsPress THEN Report(w)
                  ELSE IF shift THEN w ELSE BuiltinPress(w, b, p, shift)
    /\ UNCHANGED <<mode, count>>

\* runes_window_handle_button_event, ButtonPress: with Shift the window
\* takes it, and all of its cases return 1.
Press(b, p, shift) ==
    /\ b \notin held
    /\ held' = held \cup {b}
    /\ win' = IF WantsPress /\ ~shift THEN Report(Quiet)
              ELSE BuiltinPress(Quiet, b, p, shift)
    /\ UNCHANGED <<mode, count>>

\* runes_window_handle_button_event, ButtonRelease: with Shift the window
\* takes it and returns 0, so that it is handled again.
Release(b, p, shift) ==
    /\ b \in held
    /\ held' = held \ {b}
    /\ \E w \in IF shift THEN BuiltinRelease(Released(b, shift), b, p)
                ELSE {Released(b, shift)} :
          IF WantsRelease THEN win' = Report(w)
          ELSE win' \in BuiltinRelease(w, b, p)
    /\ UNCHANGED <<mode, count>>

\* Mutant: a motion inside a cell is reported again.
MotionAnywhere(p) ==
    /\ win' = LET loc == ReportedPosition(Quiet, p)
              IN  IF WantsAnyMotion \/ (WantsButtonMotion /\ win.down)
                  THEN [Report(Quiet) EXCEPT !.last = loc]
                  ELSE IF win.down
                  THEN UpdateSelection(Quiet, MousePosition(Quiet, p), "follow")
                  ELSE Quiet
    /\ UNCHANGED <<mode, count, held>>

\* runes_window_handle_motion_event
Motion(p) ==
    /\ win' = LET loc == ReportedPosition(Quiet, p)
              IN  IF WantsAnyMotion \/ (WantsButtonMotion /\ win.down)
                  THEN IF loc # win.last
                       THEN [Report(Quiet) EXCEPT !.last = loc]
                       ELSE Quiet
                  ELSE IF win.down
                  THEN UpdateSelection(Quiet, MousePosition(Quiet, p), "follow")
                  ELSE Quiet
    /\ UNCHANGED <<mode, count, held>>

\* runes_window_multi_click_cb
ClicksEnd ==
    /\ win.clicks # 0
    /\ win' = [Quiet EXCEPT !.clicks = 0]
    /\ UNCHANGED <<mode, count, held>>

\* Shift and a page key, in runes_window_handle_builtin_keypress, or a key
\* for the program.
Key ==
    /\ win' \in {VisibleScroll(Quiet, Rows - 1), VisibleScroll(Quiet, -(Rows - 1)),
                 [Quiet EXCEPT !.offset = 0]}
    /\ UNCHANGED <<mode, count, held>>

\* The child asks for something else.
Switch(m) ==
    /\ Switches
    /\ mode' = m
    /\ win' = IF m = mode THEN Quiet ELSE [Quiet EXCEPT !.since = "none"]
    /\ UNCHANGED <<count, held>>

\* Output of the child, which may take away the selection.
Output(n) ==
    /\ n >= count \/ Shrinks
    /\ count' = n
    /\ \E h \in {FALSE, win.shown} : win' = [Quiet EXCEPT !.shown = h]
    /\ UNCHANGED <<mode, held>>

Next ==
    \/ \E p \in Pointers :
          \/ \E b \in Buttons, shift \in Shifts : Press(b, p, shift) \/ Release(b, p, shift)
          \/ Motion(p)
    \/ ClicksEnd
    \/ Key
    \/ \E m \in Modes : Switch(m)
    \/ \E n \in Rows..MaxRows : Output(n)

Spec == Init /\ [][Next]_vars

-----------------------------------------------------------------------------
(* Properties *)

\* The selection follows the mouse only while the first button is down
\* (window-xlib.c:897: "i'd expect it to only be true if we had Button1 held
\* down while moving the mouse").  mouse_down stands for the button, and it is
\* left set if the program changes its mind between the press and the release,
\* or Shift is down at one of them alone (window-xlib.c:809): nothing else may
\* do that.
FollowsHeldButton ==
    "follow" \in win.did /\ win.since # "none" => 1 \in held

\* An event has one fate: what the program is told of does not also select,
\* paste or scroll, except that a release with Shift is counted as a click
\* before it is reported.
OneFate ==
    /\ TypeOK
    /\ "report" \in win.did => win.did = {"report"} \/ "click" \in win.did

\* Every row that is drawn is a row of the grid, and a press of the first
\* button selects the cell under the pointer, where the view is scrolled to:
\* the row that runes_display_draw_screen draws there.
SelectsWhatIsShown ==
    [][win'.offset <= count' - Rows /\ \A p \in Pointers, shift \in Shifts :
          Press(1, p, shift) /\ "start" \in win'.did =>
             win'.start.row = Clip(p.row, Rows) + RowTop - win.offset]_vars

\* A program that asks for any motion knows where the pointer is: it is
\* told of each motion but one to the cell that it was told of last, whatever
\* it asked for in between.
KnowsPointer ==
    [][\A p \in Pointers :
          Motion(p) /\ mode = "any" =>
             /\ win'.last = ReportedPosition(win, p)
             /\ win'.last # win.last <=> "report" \in win'.did]_vars

=============================================================================
