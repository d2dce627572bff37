------------------------------ MODULE Selection ------------------------------
(***************************************************************************)
(* The mouse selection of the terminals of one process, and who owns the   *)
(* X server's PRIMARY selection.                                           *)
(*                                                                         *)
(* The mouse starts, moves and ends a selection; multi-clicks make one.    *)
(* The first time a selection grows the terminal takes PRIMARY, in three   *)
(* requests between which other clients of the server act.  The server     *)
(* tells a client that loses PRIMARY to another client; it says nothing    *)
(* when both windows belong to one client, so the new owner tells the old  *)
(* one itself.  Output of the child may take the selection away.           *)
(*                                                                         *)
(* Programs that ask for mouse reports get the events instead of the       *)
(* selection; those events are left out, and so are the requests of other  *)
(* clients for the contents.                                               *)
(***************************************************************************)
EXTENDS Naturals, Sequences, SequencesExt

CONSTANTS
    Terms,          \* the terminals of the process
    Other, None,    \* the window of another client, and no window
    OthersSelect,   \* other clients take PRIMARY, too
    Cells,          \* the number of cells of a screen, in reading order
    Pointers,       \* where the user moves the mouse to
    Rewritten,      \* the cells that the children change
    MaxTime         \* bound on the events that carry a time stamp

ASSUME SelectionAssumption ==
    /\ Other \notin Terms /\ None \notin Terms /\ Other # None
    /\ OthersSelect \in BOOLEAN
    /\ Cells \in Nat \ {0} /\ MaxTime \in Nat
    /\ Rewritten \subseteq 1..Cells
    \* On a cell or beyond the last one.
    /\ Pointers \subseteq (0..(Cells - 1)) \cup {Cells + 1}

\* A location is the boundary before a cell or after the last one.
Locs == 0..Cells
Texts == [1..Cells -> {0, 1}]
Windows == Terms \cup {Other, None}
Times == 0..MaxTime

\* The part of struct runes_term and its display that selections touch.
TermState ==
    [shown    : BOOLEAN,            \* has_selection
     start    : Locs, end : Locs,   \* selection_start, selection_end
     contents : Seq({0, 1}),        \* selection_contents
     owns     : BOOLEAN,            \* owns_selection
     down     : BOOLEAN,            \* mouse_down
     text     : Texts,              \* what the cells hold
     dirty    : BOOLEAN]            \* the screen has changes that are not drawn

Events == [type : {"press", "motion", "release", "extend", "clear"},
           at : Pointers \cup {0}, time : Times]

\* A handler in the middle of runes_window_acquire_selection.
Idle == [step |-> "idle", old |-> None, end |-> 0, time |-> 0]
Handler == [step : {"idle", "set", "ask", "tell"},
            old : Windows, end : Locs, time : Times]

VARIABLES
    term,           \* term[t]
    inbox,          \* inbox[t]: the events of t's window, in order
    acq,            \* acq[t]: what t's handler is in the middle of
    owner,          \* the server's owner of PRIMARY
    since,          \* and the time at which it took it
    clock,          \* the server's time: the events so far
    robbed          \* another client took PRIMARY under a handler's hands

vars == <<term, inbox, acq, owner, since, clock, robbed>>

TypeOK ==
    /\ term \in [Terms -> TermState]
    /\ inbox \in [Terms -> Seq(Events)]
    /\ acq \in [Terms -> Handler]
    /\ owner \in Windows
    /\ since \in Times /\ clock \in Times /\ since <= clock

Init ==
    /\ term = [t \in Terms |->
           [shown |-> FALSE, start |-> 0, end |-> 0, contents |-> <<>>,
            owns |-> FALSE, down |-> FALSE,
            text |-> [i \in 1..Cells |-> 0], dirty |-> FALSE]]
    /\ inbox = [t \in Terms |-> <<>>]
    /\ acq = [t \in Terms |-> Idle]
    /\ owner = None /\ since = 0 /\ clock = 0 /\ robbed = FALSE

\* The process is at its event loop: no handler is under way.
Waiting == \A u \in Terms : acq[u] = Idle

\* runes_window_get_mouse_position
MousePosition(at) == IF at < Cells THEN at ELSE Cells - 1

-----------------------------------------------------------------------------
(* The display *)

\* vt100_screen_get_string_plaintext, for locations in order.
Plaintext(text, from, to) == SubSeq(text, from + 1, to)

\* Mutant: the locations are not put in order.
SetSelectionUnordered(s, from, to) ==
    [s EXCEPT !.shown = TRUE, !.start = from, !.end = to,
              !.contents = Plaintext(s.text, from, to)]

\* runes_display_set_selection: the ends stay as the mouse gave them, the
\* contents are taken in reading order.
SetSelection(s, from, to) ==
    [s EXCEPT !.shown = TRUE, !.start = from, !.end = to,
              !.contents = IF from <= to THEN Plaintext(s.text, from, to)
                           ELSE Plaintext(s.text, to, from)]

\* Mutant: any change of the screen clears the selection.
MaybeClearAlways(s) == {FALSE}

\* runes_display_maybe_clear_selection compares the selected text with the
\* contents.  It passes the ends as they are: what the library makes of an
\* empty range, or of ends in the wrong order, is not settled here.
MaybeClear(s) ==
    IF ~s.shown THEN {FALSE}
    ELSE IF s.start < s.end THEN {Plaintext(s.text, s.start, s.end) = s.contents}
    ELSE BOOLEAN

\* runes_display_draw_screen
Drawn(s) ==
    IF s.dirty
    THEN {[s EXCEPT !.dirty = FALSE, !.shown = h] : h \in MaybeClear(s)}
    ELSE {s}

\* runes_window_flush draws at once or, if it has just drawn, later.
Flushed(s) == Drawn(s) \cup {s}

-----------------------------------------------------------------------------
(* runes_window_acquire_selection *)

Handle(t, s, h) ==
    /\ term' = [term EXCEPT ![t] = s]
    /\ acq' = [acq EXCEPT ![t] = h]

\* runes_window_update_selection_loc, in a terminal that has become s, up to
\* the first request of runes_window_acquire_selection.
Update(t, s, to, time) ==
    IF ~s.shown \/ s.end = to
    THEN Handle(t, s, Idle)
    ELSE IF s.owns
    THEN \E f \in Flushed(SetSelection(s, s.start, to)) : Handle(t, f, Idle)
    ELSE Handle(t, s, [step |-> "set", old |-> owner, end |-> to, time |-> time])

ClearEvent == [type |-> "clear", at |-> 0, time |-> 0]

\* XSetSelectionOwner: a request that is older than the last change is
\* ignored, and the server tells a loser that is another client.  Windows of
\* this process are one client.
SetOwner(t) ==
    /\ acq[t].step = "set"
    /\ IF acq[t].time >= since
       THEN owner' = t /\ since' = acq[t].time
       ELSE UNCHANGED <<owner, since>>
    /\ acq' = [acq EXCEPT ![t].step = "ask"]
    /\ UNCHANGED <<term, inbox, clock, robbed>>

\* The rest of runes_window_update_selection_loc.
Finish(t, s) ==
    \E f \in Flushed(SetSelection(s, s.start, acq[t].end)) : Handle(t, f, Idle)

\* The second XGetSelectionOwner: did it work?
AskOwner(t) ==
    /\ acq[t].step = "ask"
    /\ IF owner = t
       THEN Handle(t, [term[t] EXCEPT !.owns = TRUE], [acq[t] EXCEPT !.step = "tell"])
       ELSE Finish(t, term[t])
    /\ UNCHANGED <<inbox, owner, since, clock, robbed>>

\* Mutant: the old owner is not told.
TellNobody(t) ==
    /\ acq[t].step = "tell"
    /\ Finish(t, term[t])
    /\ UNCHANGED <<inbox, owner, since, clock, robbed>>

\* XSendEvent: the old owner is told, even if the server told it already.
TellOldOwner(t) ==
    /\ acq[t].step = "tell"
    /\ inbox' = [u \in Terms |->
           IF u = acq[t].old /\ u # t THEN Append(inbox[u], ClearEvent) ELSE inbox[u]]
    /\ Finish(t, term[t])
    /\ UNCHANGED <<owner, since, clock, robbed>>

-----------------------------------------------------------------------------
(* The events of a window *)

\* The next event of t's window, of one of the types, is handled.
Takes(t, types) ==
    /\ Waiting
    /\ inbox[t] # <<>> /\ Head(inbox[t]).type \in types
    /\ inbox' = [inbox EXCEPT ![t] = Tail(@)]
    /\ UNCHANGED <<owner, since, clock, robbed>>

\* runes_window_start_selection, then mouse_down.
Press(t) ==
    LET at == MousePosition(Head(inbox[t]).at)
    IN  /\ Takes(t, {"press"})
        /\ \E f \in Flushed(SetSelection(term[t], at, at)) :
              Handle(t, [f EXCEPT !.down = TRUE], Idle)

\* The mouse moves with the button down, or the third button extends.
Extend(t) ==
    LET e == Head(inbox[t])
    IN  /\ Takes(t, {"motion", "extend"})
        /\ IF e.type = "extend" \/ term[t].down
           THEN Update(t, term[t], MousePosition(e.at), e.time)
           ELSE Handle(t, term[t], Idle)

\* The first button goes up.  A multi-click selects the word or the line
\* around the mouse: it starts a selection at one end and updates it to the
\* other.
Release(t) ==
    LET e == Head(inbox[t])
        at == MousePosition(e.at)
        s == [term[t] EXCEPT !.down = FALSE]
    IN  /\ Takes(t, {"release"})
        /\ \/ Handle(t, s, Idle)
           \/ \E from \in 0..at, to \in at..Cells :
                 \E f \in Flushed(SetSelection(s, from, from)) :
                    Update(t, f, to, e.time)

\* Mutant: the terminal goes on believing that it owns PRIMARY.
ClearKeepsOwnership(t) ==
    /\ Takes(t, {"clear"})
    /\ \E f \in Flushed([term[t] EXCEPT !.shown = FALSE]) : Handle(t, f, Idle)

\* runes_window_handle_selection_clear_event
Clear(t) ==
    /\ Takes(t, {"clear"})
    /\ \E f \in Flushed([term[t] EXCEPT !.shown = FALSE, !.owns = FALSE]) :
          Handle(t, f, Idle)

-----------------------------------------------------------------------------
(* The child, the delayed redraw, the user and other clients *)

\* Output of the child changes a cell.
Output(t, c) ==
    /\ Waiting
    /\ \E f \in Flushed([term[t] EXCEPT !.text[c] = 1 - @, !.dirty = TRUE]) :
          Handle(t, f, Idle)
    /\ UNCHANGED <<inbox, owner, since, clock, robbed>>

DelayedRedraw(t) ==
    /\ Waiting
    /\ term[t].dirty
    /\ \E f \in Drawn(term[t]) : Handle(t, f, Idle)
    /\ UNCHANGED <<inbox, owner, since, clock, robbed>>

\* The first button is down, for the user, who is ahead of the handlers.
Held(t) ==
    LET clicks == SelectSeq(inbox[t], LAMBDA e : e.type \in {"press", "release"})
    IN  IF clicks = <<>> THEN term[t].down ELSE Last(clicks).type = "press"

\* The user's events are stamped with the server's time.
UserActs(t, type, at) ==
    /\ clock < MaxTime
    /\ type = "press" => ~Held(t)
    /\ type = "release" => Held(t)
    /\ clock' = clock + 1
    /\ inbox' = [inbox EXCEPT ![t] =
           Append(@, [type |-> type, at |-> at, time |-> clock + 1])]
    /\ UNCHANGED <<term, acq, owner, since, robbed>>

\* The server tells an owner that loses PRIMARY to another client.
OtherSelects ==
    /\ OthersSelect /\ clock < MaxTime
    /\ clock' = clock + 1 /\ since' = clock + 1 /\ owner' = Other
    /\ inbox' = [u \in Terms |->
           IF u = owner THEN Append(inbox[u], ClearEvent) ELSE inbox[u]]
    /\ robbed' = (robbed \/ \E u \in Terms : owner = u /\ acq[u].step = "ask")
    /\ UNCHANGED <<term, acq>>

Process ==
    \E t \in Terms :
        \/ Press(t) \/ Extend(t) \/ Release(t) \/ Clear(t)
        \/ SetOwner(t) \/ AskOwner(t) \/ TellOldOwner(t)
        \/ DelayedRedraw(t)

Environment ==
    \/ \E t \in Terms :
          \/ \E c \in Rewritten : Output(t, c)
          \/ \E type \in {"press", "motion", "release", "extend"}, at \in Pointers :
                UserActs(t, type, at)
    \/ OtherSelects

Next == Process \/ Environment

Spec == Init /\ [][Next]_vars

\* A handler that has begun goes on, and every event is handled in the end.
Fairness ==
    \A t \in Terms :
        /\ WF_vars(SetOwner(t)) /\ WF_vars(AskOwner(t)) /\ WF_vars(TellOldOwner(t))
        /\ SF_vars(Press(t) \/ Extend(t) \/ Release(t) \/ Clear(t))

FairSpec == Spec /\ Fairness

-----------------------------------------------------------------------------
(* Properties *)

ClearIsComing(t) ==
    \/ ClearEvent \in ToSet(inbox[t])
    \/ \E u \in Terms : acq[u].old = t /\ acq[u].step \in {"ask", "tell"}

\* A terminal that believes it owns PRIMARY does, or is about to hear that
\* it does not: otherwise its next selections would never reach the server.
\* Only another client that takes PRIMARY between XSetSelectionOwner and the
\* second XGetSelectionOwner of a handler makes it forget to tell the terminal
\* that owned PRIMARY before (window-xlib.c:733).
OwnsOnlyIfOwner ==
    \A t \in Terms : term[t].owns => owner = t \/ ClearIsComing(t) \/ robbed

\* The owner of PRIMARY knows that it is, so that a late or doubled clear
\* event never takes a selection away from the terminal that made it last.
OwnerKnows == \A t \in Terms : owner = t => term[t].owns \/ acq[t].step = "ask"

\* What the terminals believe of PRIMARY is right or about to be put right.
OwnershipKnown == TypeOK /\ OwnsOnlyIfOwner /\ OwnerKnows

\* What is highlighted is what a paste gets: after every drawing the
\* contents are the text between the ends of a selection that is still
\* shown, and whatever way it was dragged they are as long as it is.
ShownIsContents ==
    \A t \in Terms :
        LET s == term[t]
        IN  /\ s.shown /\ ~s.dirty /\ s.start <= s.end
                => s.contents = Plaintext(s.text, s.start, s.end)
            /\ s.shown => s.start + Len(s.contents) = s.end
                          \/ s.end + Len(s.contents) = s.start

\* Output of the child takes a selection away only if it changed the
\* selected text, as long as the selection was made in reading order.
OutputSparesSelection ==
    [][\A t \in Terms :
          LET s == term[t]
          IN  s.shown /\ s.start < s.end /\ term'[t].end = s.end /\ ~term'[t].shown
              => \/ Plaintext(term'[t].text, s.start, s.end) # s.contents
                 \/ inbox'[t] # inbox[t]]_vars

\* A terminal that lost PRIMARY lets go of it, with the same exception.
LoserLetsGo ==
    \A t \in Terms : (term[t].owns /\ owner # t) ~>
        (~term[t].owns \/ owner = t \/ robbed)

=============================================================================
