------------------------------- MODULE Redraw -------------------------------
(***************************************************************************)
(* When a window is drawn: the throttle of redraws and the visual bell,    *)
(* with the clocks they use.  runes_window_check_recent reads the wall     *)
(* clock, which somebody may set; the timers of the loop count the time    *)
(* that really passes.                                                     *)
(*                                                                         *)
(* The reference counts of these timers are the subject of RunesTerm;      *)
(* there the throttle's answer is an input.  The names carry the module's: *)
(* DisplayProofs extends Drawing, too.                                     *)
(***************************************************************************)
EXTENDS Integers

CONSTANTS
    Rate,           \* redraw_rate
    BellLength,     \* of the visual bell
    MaxTime,        \* bound on the time
    MaxSet          \* bound on the time by which the wall clock is set

ASSUME RedrawAssumption ==
    Rate \in Nat /\ BellLength \in Nat \ {0} /\ MaxTime \in Nat /\ MaxSet \in Nat

Never == MaxTime + Rate + BellLength + 1     \* later than any time

VARIABLES
    now,            \* the time that has really passed
    back, ahead,    \* how far the wall clock has been set back, and ahead
    last,           \* last_redraw, on the wall clock
    delay,          \* when the timer of the delayed redraw fires (delaying)
    ring,           \* when the timer of the bell fires (visual_bell_is_ringing)
    bell,           \* the screen asks for a bell (vt100_screen.visual_bell)
    stale,          \* since when the window has not shown the screen
    drawn           \* when it was drawn last

redrawvars == <<now, back, ahead, last, delay, ring, bell, stale, drawn>>

Times == 0..MaxTime

RedrawTypeOK ==
    /\ now \in Times /\ back \in 0..MaxSet /\ ahead \in 0..MaxSet
    /\ last \in -(Rate + MaxSet)..(MaxTime + MaxSet)
    /\ delay \in 0..Never /\ ring \in 0..Never /\ bell \in BOOLEAN
    /\ stale \in Times \cup {Never} /\ drawn \in -Rate..MaxTime
    \* The bell never rings while a redraw is delayed, unless the clock was set.
    /\ back = 0 => delay = Never \/ ring = Never

\* The window is new: nothing was drawn for a long time.
RedrawInit ==
    /\ now = 0 /\ back = 0 /\ ahead = 0
    /\ last = -Rate /\ drawn = -Rate
    /\ delay = Never /\ ring = Never /\ bell = FALSE /\ stale = Never

Wall == now + ahead - back

-----------------------------------------------------------------------------

\* Mutant: a redraw that comes too early is dropped.
DelayNot == UNCHANGED delay

Delay == delay' = now + Rate

\* Mutant: the last redraw is not looked at.
RecentNever(delaying) == Rate # 0 /\ delaying

\* runes_window_check_recent
Recent(delaying) == Rate # 0 /\ (delaying \/ Wall - Rate < last)

\* runes_window_flush, of a screen that has not been shown since s and wants
\* a bell or not.  The bell paints over the window and leaves the drawing to
\* the end of the bell.
Flush(s, wantsBell, delaying, ringing) ==
    IF Recent(delaying)
    THEN /\ IF delaying THEN UNCHANGED delay ELSE Delay
         /\ bell' = wantsBell /\ stale' = s
         /\ ring' = IF ringing THEN ring ELSE Never
         /\ UNCHANGED <<last, drawn>>
    ELSE /\ bell' = FALSE /\ delay' = Never
         /\ ring' = IF ringing THEN ring
                    ELSE IF wantsBell THEN now + BellLength ELSE Never
         /\ IF ringing \/ wantsBell
            THEN stale' = (IF s = Never THEN now ELSE s) /\ UNCHANGED <<last, drawn>>
            ELSE stale' = Never /\ last' = Wall /\ drawn' = now

\* The output of the child, or an event without a change: runes_window_flush.
Output(wantsBell) ==
    /\ Flush(IF stale = Never THEN now ELSE stale, bell \/ wantsBell,
             delay # Never, ring # Never)
    /\ UNCHANGED <<now, back, ahead>>

Expose ==
    /\ Flush(stale, bell, delay # Never, ring # Never)
    /\ UNCHANGED <<now, back, ahead>>

\* runes_window_delay_cb
DelayEnds ==
    /\ delay <= now
    /\ Flush(stale, bell, FALSE, ring # Never)
    /\ UNCHANGED <<now, back, ahead>>

\* runes_window_reset_visual_bell: the background is painted, then flushed.
BellEnds ==
    /\ ring <= now
    /\ Flush(IF stale = Never THEN now ELSE stale, bell, delay # Never, FALSE)
    /\ UNCHANGED <<now, back, ahead>>

\* Time passes; the loop runs a timer when it is due.
Tick ==
    /\ now < MaxTime /\ now < delay /\ now < ring
    /\ now' = now + 1
    /\ UNCHANGED <<back, ahead, last, delay, ring, bell, stale, drawn>>

\* The wall clock is set.
SetClock ==
    /\ \/ back < MaxSet /\ back' = back + 1 /\ UNCHANGED ahead
       \/ ahead < MaxSet /\ ahead' = ahead + 1 /\ UNCHANGED back
    /\ UNCHANGED <<now, last, delay, ring, bell, stale, drawn>>

RedrawNext ==
    \/ \E wantsBell \in BOOLEAN : Output(wantsBell)
    \/ Expose
    \/ DelayEnds \/ BellEnds
    \/ Tick
    \/ SetClock

RedrawSpec == RedrawInit /\ [][RedrawNext]_redrawvars

-----------------------------------------------------------------------------
(* Properties *)

\* The window never shows an old screen for longer than a redraw interval
\* and a bell.  A clock that is set back adds the time by which it was, and
\* most of the interval in which the delayed redraw finds that out.
FreshScreen ==
    /\ RedrawTypeOK
    /\ stale # Never =>
          now - stale <= Rate + BellLength + (IF back = 0 THEN 0 ELSE back + Rate - 1)

\* Drawings are a redraw interval apart, less the time by which the clock was
\* set ahead: output however fast is drawn at this rate.
DrawsApart == [][drawn' # drawn => drawn' - drawn >= Rate - ahead]_redrawvars

=============================================================================
