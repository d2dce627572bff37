---------------------------- MODULE TermLifecycle ----------------------------
(***************************************************************************)
(* The terminals of one process and its event loop.  The process is        *)
(* single-threaded: every callback of the loop runs to its end, so it is   *)
(* one action, and the interleaving is the order in which libevent runs    *)
(* the callbacks that are ready.  runes (one terminal, created before the  *)
(* loop starts) and runesd (terminals created by clients, until one of     *)
(* them asks the daemon to stop) are the two values of Daemon.             *)
(*                                                                         *)
(* How the X connection is polled is abstracted here: an event of a        *)
(* terminal is handled at any time while its watch is registered.          *)
(***************************************************************************)
EXTENDS RunesTerm

CONSTANTS
    Terms,          \* the terminals the process may create
    Daemon,         \* TRUE for runesd, FALSE for runes
    ChildRequests,  \* the requests that the output of a child may raise
    MaxClicks       \* bound on the clicks counted in one multi-click

ASSUME LifecycleAssumption ==
    /\ Daemon \in BOOLEAN
    /\ ChildRequests \subseteq Requests
    /\ MaxClicks \in Nat

VARIABLES
    term,           \* term[t]: the struct runes_term
    child,          \* child[t]: the processes that hold the pty's slave side
    wmdelete,       \* wmdelete[t]: a WM_DELETE_WINDOW message is on its way
    exposed,        \* exposed[t]: an Expose event is on its way
    loop,           \* the event loop: "running", "done" or "stopped"
    sockwatch       \* the daemon's socket is watched

vars == <<term, child, wmdelete, exposed, loop, sockwatch>>

TypeOK ==
    /\ term \in [Terms -> TermState]
    /\ child \in [Terms -> {"none", "running", "signalled", "exited"}]
    /\ wmdelete \in [Terms -> BOOLEAN]
    /\ exposed \in [Terms -> BOOLEAN]
    /\ loop \in {"running", "done", "stopped"}
    /\ sockwatch \in BOOLEAN
    /\ \A t \in Terms : term[t].refcnt >= 0

Init ==
    /\ sockwatch = Daemon
    /\ loop = "running"
    /\ term = [t \in Terms |-> IF Daemon THEN NoTerm ELSE Created]
    /\ child = [t \in Terms |-> IF Daemon THEN "none" ELSE "running"]
    /\ wmdelete = [t \in Terms |-> FALSE]
    /\ exposed = [t \in Terms |-> ~Daemon]

Registered(t, k) == term[t].reg[k] > 0

\* A callback or handler that changes the terminal and nothing else.
Becomes(t, s) ==
    /\ loop = "running"
    /\ term' = [term EXCEPT ![t] = s]
    /\ UNCHANGED <<child, wmdelete, exposed, loop, sockwatch>>

-----------------------------------------------------------------------------
(* The daemon's socket *)

NewTerm(t) ==
    /\ loop = "running" /\ sockwatch
    /\ term[t].life = "none"
    /\ term' = [term EXCEPT ![t] = Created]
    /\ child' = [child EXCEPT ![t] = "running"]
    /\ exposed' = [exposed EXCEPT ![t] = TRUE]
    /\ UNCHANGED <<wmdelete, loop, sockwatch>>

\* event_base_loopbreak: the terminals are left as they are.
KillDaemon ==
    /\ loop = "running" /\ sockwatch
    /\ loop' = "stopped"
    /\ sockwatch' = FALSE
    /\ UNCHANGED <<term, child, wmdelete, exposed>>

-----------------------------------------------------------------------------
(* The pty *)

PtyReadable(t) ==
    /\ Registered(t, "pty")
    /\ \E raised \in SUBSET ChildRequests, r \in Recent :
          Becomes(t, PtyData(term[t], raised, r))

\* Mutant: end of file drops the reference without closing the window.
PtyClosedQuietly(t) ==
    /\ Registered(t, "pty") /\ child[t] = "exited"
    /\ Becomes(t, PtyEof(term[t]))

\* The slave side is closed: runes_window_request_close sends a message to
\* the terminal's own window.
PtyClosed(t) ==
    /\ loop = "running"
    /\ Registered(t, "pty") /\ child[t] = "exited"
    /\ term' = [term EXCEPT ![t] = PtyEof(term[t])]
    /\ wmdelete' = [wmdelete EXCEPT ![t] = TRUE]
    /\ UNCHANGED <<child, exposed, loop, sockwatch>>

-----------------------------------------------------------------------------
(* Timers *)

DelayedRedraw(t) ==
    /\ Registered(t, "delay")
    /\ \E r \in Recent : Becomes(t, DelayCb(term[t], r))

BellEnds(t) ==
    /\ Registered(t, "bell")
    /\ \E r \in Recent : Becomes(t, ResetVisualBell(term[t], r))

MultiClickEnds(t) ==
    /\ Registered(t, "click")
    /\ Becomes(t, MultiClickCb(term[t]))

-----------------------------------------------------------------------------
(* Events of the terminal's windows *)

\* Mutant: the window goes without the child being told.
WindowCloseSparesChild(t) ==
    /\ Registered(t, "window") /\ wmdelete[t]
    /\ Becomes(t, WindowClosed(term[t]))

\* WM_DELETE_WINDOW, from the user or from runes_window_request_close: the
\* child gets SIGHUP.
WindowClose(t) ==
    /\ loop = "running"
    /\ Registered(t, "window") /\ wmdelete[t]
    /\ term' = [term EXCEPT ![t] = WindowClosed(term[t])]
    /\ child' = [child EXCEPT ![t] = IF @ = "running" THEN "signalled" ELSE @]
    /\ wmdelete' = [wmdelete EXCEPT ![t] = FALSE]
    /\ UNCHANGED <<exposed, loop, sockwatch>>

Expose(t) ==
    /\ loop = "running"
    /\ Registered(t, "window") /\ exposed[t]
    /\ \E r \in Recent : term' = [term EXCEPT ![t] = ExposeEvent(term[t], r)]
    /\ exposed' = [exposed EXCEPT ![t] = FALSE]
    /\ UNCHANGED <<child, wmdelete, loop, sockwatch>>

\* A new size: the X server answers XResizeWindow with an Expose event.
Configure(t) ==
    /\ loop = "running"
    /\ Registered(t, "window")
    /\ term' = [term EXCEPT ![t] = ResizeWindow(term[t])]
    /\ exposed' = [exposed EXCEPT ![t] = TRUE]
    /\ UNCHANGED <<child, wmdelete, loop, sockwatch>>

Focus(t) ==
    /\ Registered(t, "window")
    /\ \E out \in BOOLEAN, r \in Recent : Becomes(t, FocusEvent(term[t], out, r))

\* A key press, a paste or a mouse report.
Type(t) ==
    /\ Registered(t, "window")
    /\ \E r \in Recent : Becomes(t, WriteToPty(term[t], r))

Scroll(t) ==
    /\ Registered(t, "window")
    /\ \E to, moved \in BOOLEAN, r \in Recent :
          Becomes(t, VisibleScroll(term[t], to, moved, r))

\* The selection is started, extended or lost to another client.
Select(t) ==
    /\ Registered(t, "window")
    /\ \E r \in Recent : Becomes(t, Redisplay(term[t], r))

\* The first button is released; with Shift the release is handled twice,
\* or once and then reported to the program.
Release(t) ==
    /\ Registered(t, "window") /\ term[t].clicks < MaxClicks
    /\ \E e1, e2 \in BOOLEAN, r1, r2, r3, r4 \in Recent :
          LET once == MultiClick(term[t], e1, r1, r2)
          IN  \/ Becomes(t, once)
              \/ Becomes(t, MultiClick(once, e2, r3, r4))
              \/ Becomes(t, WriteToPty(once, r3))

-----------------------------------------------------------------------------
(* The environment, and the end of the loop *)

\* The user or the window manager closes the window.
UserCloses(t) ==
    /\ Registered(t, "window")
    /\ wmdelete' = [wmdelete EXCEPT ![t] = TRUE]
    /\ UNCHANGED <<term, child, exposed, loop, sockwatch>>

\* Another window uncovers part of this one.
Uncovered(t) ==
    /\ Registered(t, "window")
    /\ term' = [term EXCEPT ![t].painted = FALSE]
    /\ exposed' = [exposed EXCEPT ![t] = TRUE]
    /\ UNCHANGED <<child, wmdelete, loop, sockwatch>>

ChildExits(t) ==
    /\ child[t] \in {"running", "signalled"}
    /\ child' = [child EXCEPT ![t] = "exited"]
    /\ UNCHANGED <<term, wmdelete, exposed, loop, sockwatch>>

\* event_base_dispatch returns when no event is registered.
LoopEnds ==
    /\ loop = "running" /\ ~sockwatch
    /\ \A t \in Terms : Registrations(term[t]) = 0
    /\ loop' = "done"
    /\ UNCHANGED <<term, child, wmdelete, exposed, sockwatch>>

Handler(t) ==
    \/ NewTerm(t) \/ PtyReadable(t) \/ PtyClosed(t)
    \/ DelayedRedraw(t) \/ BellEnds(t) \/ MultiClickEnds(t)
    \/ WindowClose(t) \/ Expose(t) \/ Configure(t) \/ Focus(t)
    \/ Type(t) \/ Scroll(t) \/ Select(t) \/ Release(t)

Environment(t) == UserCloses(t) \/ Uncovered(t) \/ ChildExits(t)

Next ==
    \/ \E t \in Terms : Handler(t) \/ Environment(t)
    \/ KillDaemon
    \/ LoopEnds

Spec == Init /\ [][Next]_vars

\* The loop runs every callback that stays ready, and the X server delivers
\* what was sent to it.  A delayed redraw that finds the last drawing too
\* recent starts over; the clock does not stay behind for ever.  The user
\* and the child owe nothing.
NotRecent(t) == Registered(t, "delay") /\ Becomes(t, DelayCb(term[t], FALSE))

FairSpec ==
    /\ Spec
    /\ \A t \in Terms :
          /\ WF_vars(PtyClosed(t)) /\ WF_vars(WindowClose(t)) /\ WF_vars(Expose(t))
          /\ WF_vars(BellEnds(t)) /\ WF_vars(MultiClickEnds(t))
          /\ WF_vars(DelayedRedraw(t)) /\ SF_vars(NotRecent(t))
    /\ WF_vars(LoopEnds)

-----------------------------------------------------------------------------
(* Safety *)

\* The reference count is the number of callbacks the loop still owes the
\* terminal, so that no order of closing, drawing, ringing and clicking
\* frees it early or keeps it for ever (term.c:54-65).
RefcntExact ==
    \A t \in Terms : term[t].refcnt = Registrations(term[t])

\* A terminal exists exactly while something registered with the loop will
\* still call back with its address.
LivesWhileRegistered ==
    \A t \in Terms : term[t].life = "alive" <=> Registrations(term[t]) > 0

\* No callback and no handler reads or writes a terminal that was freed,
\* not even after the last reference went in the middle of it.
NoUseAfterFree == \A t \in Terms : ~term[t].uaf

\* Each kind of timer runs at most once per terminal, and the flag or
\* pointer that stands for it says so: a second delayed redraw, a second
\* bell or a timer that multi-click can no longer cancel never exists.
TimersMatchFlags ==
    \A t \in Terms :
        LET s == term[t]
        IN  /\ s.reg["delay"] = IF s.delaying THEN 1 ELSE 0
            /\ s.reg["bell"]  = IF s.ringing THEN 1 ELSE 0
            /\ s.reg["click"] = IF s.clickptr THEN 1 ELSE 0
            /\ s.reg["window"] \in {0, 1} /\ s.reg["pty"] \in {0, 1}

\* A change of the screen that is not drawn yet, and a request of the screen
\* that is not served yet, always has an event on its way that will flush:
\* throttling never loses the last frame of a burst of output, whatever
\* bells, resizes, exposures and clicks fall in between.
NoLostRedraw ==
    \A t \in Terms :
        LET s == term[t]
        IN  s.life = "alive" /\ (s.requests # {} \/ s.dirty \/ ~s.painted)
            => s.delaying \/ s.ringing \/ exposed[t]

\* A terminal whose window is gone, whoever closed it and whether or not the
\* rest of the terminal is still alive, has a child that exited or was sent
\* SIGHUP: no shell goes on without a window and without knowing it.
NoOrphan ==
    \A t \in Terms :
        term[t].life # "none" /\ ~Registered(t, "window")
            => child[t] \in {"signalled", "exited"}

\* When a loop ends by itself every terminal it ran was freed.
DoneMeansFreed == loop = "done" => \A t \in Terms : term[t].life # "alive"

-----------------------------------------------------------------------------
(* Liveness *)

\* A child that exits takes its terminal with it, unless the daemon is
\* stopped first.
ExitFrees ==
    \A t \in Terms : child[t] = "exited" ~> (term[t].life = "freed" \/ loop = "stopped")

-----------------------------------------------------------------------------
(* The promise to the rest of the program *)

Holders(t) == {k \in Kinds : Registered(t, k)}

Abstract == INSTANCE TermHolders WITH
    holders <- [t \in Terms |-> Holders(t)],
    life    <- [t \in Terms |-> term[t].life]

\* The reference counts implement "a terminal lives until its last holder
\* lets go, in that very step, and never comes back".
ImplementsHolders == Abstract!Spec

=============================================================================
