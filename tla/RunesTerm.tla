------------------------------ MODULE RunesTerm ------------------------------
(***************************************************************************)
(* One terminal: struct runes_term with the struct runes_window,           *)
(* struct runes_display and vt100 screen it owns (term.h, window-xlib.h,   *)
(* display.h), as a record, and the functions of term.c, window-xlib.c and *)
(* pty-unix.c that change it, as operators from a record to a record.      *)
(*                                                                         *)
(* A terminal is kept alive by its registrations with the event loop: its  *)
(* two watches (the X connection and the pty) and its timers (a delayed    *)
(* redraw, the end of a visual bell, the end of a multi-click).  `reg'     *)
(* counts the registrations that really exist in the loop; `refcnt' is     *)
(* what the C code believes.                                               *)
(*                                                                         *)
(* "recent" is the answer of the clock comparison in                       *)
(* runes_window_check_recent, an input of every operator that may draw.    *)
(***************************************************************************)
EXTENDS Integers

CONSTANTS
    Throttled,      \* config->redraw_rate # 0
    AudibleBell     \* config->audible_bell

ASSUME ConfigAssumption == Throttled \in BOOLEAN /\ AudibleBell \in BOOLEAN

Kinds == {"window", "pty", "delay", "bell", "click"}
Watches == {"window", "pty"}

\* What the vt100 screen asks of the window at its next flush.
Requests == {"audible_bell", "visual_bell", "update_title", "update_icon_name"}

Recent == IF Throttled THEN BOOLEAN ELSE {FALSE}

TermState ==
    [life      : {"none", "alive", "freed"},
     refcnt    : Int,
     reg       : [Kinds -> Nat],
     delaying  : BOOLEAN,
     ringing   : BOOLEAN,       \* visual_bell_is_ringing
     clickptr  : BOOLEAN,       \* multi_click_timer_event # NULL
     clicks    : Nat,           \* multi_clicks
     requests  : SUBSET Requests,
     dirty     : BOOLEAN,       \* display->dirty
     scrolled  : BOOLEAN,       \* row_visible_offset # 0
     unfocused : BOOLEAN,
     painted   : BOOLEAN,       \* history: the window shows the current screen
     uaf       : BOOLEAN]       \* history: the struct was used while not alive

NoTerm ==
    [life |-> "none", refcnt |-> 0, reg |-> [k \in Kinds |-> 0],
     delaying |-> FALSE, ringing |-> FALSE, clickptr |-> FALSE, clicks |-> 0,
     requests |-> {}, dirty |-> FALSE, scrolled |-> FALSE,
     unfocused |-> FALSE, painted |-> FALSE, uaf |-> FALSE]

Registrations(s) ==
    s.reg["window"] + s.reg["pty"] + s.reg["delay"] + s.reg["bell"] + s.reg["click"]

-----------------------------------------------------------------------------
(* Memory and reference counting *)

\* Every read or write of the struct.
Touch(s) == [s EXCEPT !.uaf = @ \/ s.life # "alive"]

\* runes_loop_start_work and runes_loop_timer_set
Register(s, k) == [s EXCEPT !.reg[k] = @ + 1]

\* A one-shot event that is not added again, and runes_loop_timer_clear.
Unregister(s, k) == [s EXCEPT !.reg[k] = @ - 1]

Inc(s) == [Touch(s) EXCEPT !.refcnt = @ + 1]

\* Mutant: the count is tested before it is decremented.
DecTestsFirst(s) ==
    [Touch(s) EXCEPT !.refcnt = @ - 1, !.life = IF s.refcnt <= 0 THEN "freed" ELSE @]

Dec(s) ==
    [Touch(s) EXCEPT !.refcnt = @ - 1, !.life = IF s.refcnt - 1 <= 0 THEN "freed" ELSE @]

\* runes_term_new, then runes_term_register_with_loop
Created ==
    LET fresh == [NoTerm EXCEPT !.life = "alive"]
    IN  Register(Inc(Register(Inc(fresh), "window")), "pty")

-----------------------------------------------------------------------------
(* Drawing *)

\* Mutant: the timer is set before the terminal is marked as delaying, and
\* the mark is forgotten.
StartDelayForgetsMark(s) == Register(Inc(s), "delay")

StartDelay(s) == [Register(Inc(s), "delay") EXCEPT !.delaying = TRUE]

\* runes_window_visual_bell: the flash covers what was drawn.
VisualBell(s) ==
    IF s.ringing
    THEN s
    ELSE [Register(Inc(s), "bell") EXCEPT !.ringing = TRUE, !.painted = FALSE]

\* The requests of the screen, served by runes_window_flush.
ServeRequests(s) ==
    LET flash == \/ "visual_bell" \in s.requests
                 \/ "audible_bell" \in s.requests /\ ~AudibleBell
    IN  [(IF flash THEN VisualBell(s) ELSE s) EXCEPT !.requests = {}]

Draw(s) == [s EXCEPT !.dirty = FALSE, !.painted = TRUE]

\* Mutant: a flush that falls into a pending delay is forgotten even when
\* no timer is pending.
FlushSkipsDelay(s, recent) ==
    LET u == Touch(s)
        v == ServeRequests(u)
    IN  CASE Throttled /\ (u.delaying \/ recent) -> u
          [] OTHER -> IF v.ringing THEN v ELSE Draw(v)

Flush(s, recent) ==
    LET u == Touch(s)
        v == ServeRequests(u)
    IN  CASE Throttled /\ u.delaying             -> u
          [] Throttled /\ ~u.delaying /\ recent  -> StartDelay(u)
          [] OTHER -> IF v.ringing THEN v ELSE Draw(v)

\* A change of what the display shows, followed by a flush.
Redisplay(s, recent) == Flush([s EXCEPT !.dirty = TRUE, !.painted = FALSE], recent)

-----------------------------------------------------------------------------
(* Callbacks of the event loop *)

\* runes_pty_input_cb, bytes were read: vt100 changes the screen and raises
\* requests.
PtyData(s, raised, recent) ==
    Flush([Touch(s) EXCEPT !.requests = @ \cup raised, !.painted = FALSE], recent)

\* runes_pty_input_cb at end of file: the watch is not renewed.
PtyEof(s) == Dec(Unregister(Touch(s), "pty"))

\* runes_window_event_cb after a WM_DELETE_WINDOW
WindowClosed(s) == Dec(Unregister(Touch(s), "window"))

\* Mutant: the reference is dropped before the flush uses the terminal.
DelayCbDropsFirst(s, recent) ==
    Flush(Dec([Unregister(Touch(s), "delay") EXCEPT !.delaying = FALSE]), recent)

\* runes_window_delay_cb
DelayCb(s, recent) ==
    Dec(Flush([Unregister(Touch(s), "delay") EXCEPT !.delaying = FALSE], recent))

\* runes_window_reset_visual_bell
ResetVisualBell(s, recent) ==
    Dec(Flush([Unregister(Touch(s), "bell")
                  EXCEPT !.ringing = FALSE, !.painted = FALSE], recent))

\* Mutant: the dangling pointer to the fired timer is kept.
MultiClickCbKeepsPointer(s) ==
    Dec([Unregister(Touch(s), "click") EXCEPT !.clicks = 0])

\* runes_window_multi_click_cb
MultiClickCb(s) ==
    Dec([Unregister(Touch(s), "click") EXCEPT !.clicks = 0, !.clickptr = FALSE])

-----------------------------------------------------------------------------
(* Handlers of X events *)

\* runes_window_write_to_pty: typing brings the view back to the bottom.
WriteToPty(s, recent) ==
    IF s.scrolled
    THEN Redisplay([Touch(s) EXCEPT !.scrolled = FALSE], recent)
    ELSE Touch(s)

\* runes_window_visible_scroll; the view does not move at either end.
VisibleScroll(s, to, moved, recent) ==
    IF moved THEN Redisplay([Touch(s) EXCEPT !.scrolled = to], recent) ELSE Touch(s)

\* Mutant: the pending timer is cancelled and its reference is kept.
RestartClickTimerLeaks(s) ==
    LET cleared == IF s.clickptr THEN Unregister(s, "click") ELSE s
    IN  [Register(Inc(cleared), "click") EXCEPT !.clickptr = TRUE]

RestartClickTimer(s) ==
    LET cleared == IF s.clickptr THEN Dec(Unregister(s, "click")) ELSE s
    IN  [Register(Inc(cleared), "click") EXCEPT !.clickptr = TRUE]

\* runes_window_handle_multi_click: from the second click on, a word or a
\* row is selected, in one redisplay where the selection starts and one
\* where it is extended (not when it is empty or was cleared).
MultiClick(s, extends, r1, r2) ==
    LET u == [RestartClickTimer(Touch(s)) EXCEPT !.clicks = @ + 1]
        started == Redisplay(u, r1)
    IN  CASE u.clicks = 1               -> u
          [] u.clicks > 1 /\ ~extends   -> started
          [] u.clicks > 1 /\ extends    -> Redisplay(started, r2)

\* runes_window_handle_focus_event: only a change of focus is drawn.
FocusEvent(s, out, recent) ==
    IF s.unfocused = out
    THEN Touch(s)
    ELSE Flush([Touch(s) EXCEPT !.unfocused = out, !.painted = FALSE], recent)

\* runes_window_resize_window: the screen is resized and nothing is drawn.
ResizeWindow(s) == [Touch(s) EXCEPT !.painted = FALSE]

\* runes_window_handle_expose_event: the exposed area lost its contents.
ExposeEvent(s, recent) == Flush(s, recent)

=============================================================================
