-------------------------------- MODULE XLoop --------------------------------
(***************************************************************************)
(* How the events of the X server reach the terminals of one process.      *)
(*                                                                         *)
(* All terminals share one X connection.  Each registers its own callback  *)
(* for the connection's descriptor, and the callback takes the events of   *)
(* its own windows, and no others, out of Xlib's queue.  The descriptor is *)
(* readable only while bytes are on the wire: an event that was read into  *)
(* Xlib's queue and belongs to somebody else wakes nobody.  Events are     *)
(* read into the queue by XCheckIfEvent, by every request that waits for a *)
(* reply, and, with an Xlib built on XCB, by XFlush.                       *)
(*                                                                         *)
(* TermLifecycle takes the delivery of events for granted; this module is  *)
(* about the delivery and leaves the handlers' other effects there.        *)
(***************************************************************************)
EXTENDS Naturals, SequencesExt

CONSTANTS
    Terms,          \* the terminals, registered before the first event
    MaxEvents,      \* bound on the events the server sends to a terminal
    RoundTripBells, \* bell_is_urgent: a bell asks the server for the WM hints
    FlushReads      \* XFlush reads what has arrived (Xlib on XCB)

ASSUME XLoopAssumption ==
    /\ MaxEvents \in Nat
    /\ RoundTripBells \in BOOLEAN /\ FlushReads \in BOOLEAN

\* What the handlers do differs by: a key press, a change of focus (its
\* handler waits for a reply), a new size, and WM_DELETE_WINDOW.
Types == {"key", "focus", "configure", "close"}

VARIABLES
    wire,           \* sent by the server, not read by the process
    queue,          \* Xlib's queue
    sent,           \* sent[t]: the types of all events sent to t, in order
    handled,        \* handled[t]: the numbers of the events handled, in order
    size,           \* size[t]: the number of the configure event t has the size of
    window,         \* the terminals whose X watch is pending in libevent
    pty,            \* the terminals whose pty watch is pending in libevent
    output,         \* output[t]: the child's unread output: "none", "data", "eof"
    round,          \* the callbacks libevent found active and has yet to run
    running,        \* the terminal whose window callback is running, if any
    newest,         \* its handler of a configure event: the number of the newest
                    \* size that it has taken; 0 if there is no such handler
    buried          \* an event was read when its terminal was not to be called

vars == <<wire, queue, sent, handled, size, window, pty, output, round, running,
          newest, buried>>

\* One event more than the server sends: the terminal's own close message.
Numbers == 1..(MaxEvents + 1)
Events == [to : Terms, type : Types, n : Numbers]

TypeOK ==
    /\ wire \in Seq(Events) /\ queue \in Seq(Events)
    /\ sent \in [Terms -> Seq(Types)]
    /\ handled \in [Terms -> Seq(Numbers)]
    /\ size \in [Terms -> 0..MaxEvents]
    /\ window \subseteq Terms /\ pty \subseteq Terms
    /\ output \in [Terms -> {"none", "data", "eof"}]
    /\ round \subseteq {"window", "pty"} \X Terms
    /\ running \in SUBSET Terms
    /\ newest \in 0..MaxEvents
    /\ buried \in BOOLEAN

Init ==
    /\ wire = <<>> /\ queue = <<>>
    /\ sent = [t \in Terms |-> <<>>]
    /\ handled = [t \in Terms |-> <<>>]
    /\ size = [t \in Terms |-> 0]
    /\ window = Terms /\ pty = Terms
    /\ output = [t \in Terms |-> "none"]
    /\ round = {} /\ running = {} /\ newest = 0 /\ buried = FALSE

\* The window callback of t is still called when there is something to read.
Watched(t) == t \in window \/ t \in running \/ <<"window", t>> \in round

-----------------------------------------------------------------------------
(* The X server and the children *)

\* The next event of t, on the wire.
Send(t, type) ==
    /\ sent' = [sent EXCEPT ![t] = Append(@, type)]
    /\ wire' = Append(wire, [to |-> t, type |-> type, n |-> Len(sent[t]) + 1])

ServerSends(t) ==
    /\ Len(sent[t]) < MaxEvents
    /\ \E type \in Types : Send(t, type)
    /\ UNCHANGED <<queue, handled, size, window, pty, output, round, running, newest>>

ChildWrites(t) ==
    /\ output[t] = "none"
    /\ output' = [output EXCEPT ![t] = "data"]
    /\ UNCHANGED <<wire, queue, sent, handled, size, window, pty, round, running, newest>>

ChildExits(t) ==
    /\ output[t] = "none"
    /\ output' = [output EXCEPT ![t] = "eof"]
    /\ UNCHANGED <<wire, queue, sent, handled, size, window, pty, round, running, newest>>

-----------------------------------------------------------------------------
(* The event loop *)

Idle == round = {} /\ running = {}

\* Every event of a readable descriptor becomes active, and is no longer
\* pending: the events of runes are one-shot.
Poll ==
    LET readable == [window |-> IF wire # <<>> THEN window ELSE {},
                     pty    |-> {t \in pty : output[t] # "none"}]
    IN  /\ Idle
        /\ readable.window \cup readable.pty # {}
        /\ round' = ({"window"} \X readable.window) \cup ({"pty"} \X readable.pty)
        /\ window' = window \ readable.window
        /\ pty' = pty \ readable.pty
        /\ UNCHANGED <<wire, queue, sent, handled, size, output, running, newest>>

StartWindowCallback(t) ==
    /\ running = {}
    /\ <<"window", t>> \in round
    /\ round' = round \ {<<"window", t>>}
    /\ running' = {t}
    /\ UNCHANGED <<wire, queue, sent, handled, size, window, pty, output, newest>>

-----------------------------------------------------------------------------
(* runes_window_event_cb *)

Matches(t, types, q) == {i \in DOMAIN q : q[i].to = t /\ q[i].type \in types}

FirstMatch(t, types, q) ==
    CHOOSE i \in Matches(t, types, q) : \A j \in Matches(t, types, q) : i <= j

\* XCheckIfEvent and XCheckTypedWindowEvent look at the queue first and read
\* the wire only when nothing there is wanted.
Scanned(t, types) == IF Matches(t, types, queue) # {} THEN queue ELSE queue \o wire
Unread(t, types) == IF Matches(t, types, queue) # {} THEN wire ELSE <<>>

\* No event is wanted, and all that has arrived was read.
NothingFound(t, types) ==
    /\ Matches(t, types, queue \o wire) = {}
    /\ queue' = queue \o wire /\ wire' = <<>>

\* Mutant: what arrives before the reply is lost.
RoundTripLosesEvents(q, w) == queue' = q /\ wire' = <<>>

\* A request that waits for its reply queues all that arrived before it.
RoundTrip(q, w) == queue' = q \o w /\ wire' = <<>>

\* What runes_window_handle_event does to the connection.
HandleEvent(t, e, q, w) ==
    /\ IF e.type = "focus" THEN RoundTrip(q, w) ELSE queue' = q /\ wire' = w
    /\ newest' = IF e.type = "configure" THEN e.n ELSE 0

\* Mutant: the callback takes one event and waits for the next wake-up.
TakeOneEvent(t) ==
    LET q == Scanned(t, Types)
        i == FirstMatch(t, Types, q)
        e == q[i]
    IN  /\ running = {t} /\ newest = 0
        /\ Matches(t, Types, q) # {}
        /\ HandleEvent(t, e, RemoveAt(q, i), Unread(t, Types))
        /\ handled' = IF e.type = "configure" THEN handled
                      ELSE [handled EXCEPT ![t] = Append(@, e.n)]
        /\ running' = IF e.type = "configure" THEN {t} ELSE {}
        /\ window' = IF e.type \in {"configure", "close"} THEN window ELSE window \cup {t}
        /\ UNCHANGED <<sent, size, pty, output, round>>

\* One turn of the callback's loop; a close event leaves it for good, and the
\* handler of a configure event goes on.
TakeEvent(t) ==
    LET q == Scanned(t, Types)
        i == FirstMatch(t, Types, q)
        e == q[i]
    IN  /\ running = {t} /\ newest = 0
        /\ Matches(t, Types, q) # {}
        /\ HandleEvent(t, e, RemoveAt(q, i), Unread(t, Types))
        /\ handled' = IF e.type = "configure" THEN handled
                      ELSE [handled EXCEPT ![t] = Append(@, e.n)]
        /\ running' = IF e.type = "close" THEN {} ELSE {t}
        /\ UNCHANGED <<sent, size, window, pty, output, round>>

\* Mutant: the sizes that follow are dropped, and the first one is used.
SkipToFirst(t) ==
    LET q == Scanned(t, {"configure"})
        i == FirstMatch(t, {"configure"}, q)
    IN  /\ running = {t} /\ newest # 0
        /\ Matches(t, {"configure"}, q) # {}
        /\ queue' = RemoveAt(q, i) /\ wire' = Unread(t, {"configure"})
        /\ UNCHANGED <<sent, handled, size, window, pty, output, round, running, newest>>

\* runes_window_handle_configure_event looks for a newer size, out of turn.
SkipSize(t) ==
    LET q == Scanned(t, {"configure"})
        i == FirstMatch(t, {"configure"}, q)
    IN  /\ running = {t} /\ newest # 0
        /\ Matches(t, {"configure"}, q) # {}
        /\ queue' = RemoveAt(q, i) /\ wire' = Unread(t, {"configure"})
        /\ newest' = q[i].n
        /\ UNCHANGED <<sent, handled, size, window, pty, output, round, running>>

\* There is none: the terminal gets the last one.
Resize(t) ==
    /\ running = {t} /\ newest # 0
    /\ NothingFound(t, {"configure"})
    /\ size' = [size EXCEPT ![t] = newest]
    /\ newest' = 0
    /\ UNCHANGED <<sent, handled, window, pty, output, round, running>>

\* No event is left, and the watch is pending again.
EndWindowCallback(t) ==
    /\ running = {t} /\ newest = 0
    /\ NothingFound(t, Types)
    /\ running' = {}
    /\ window' = window \cup {t}
    /\ UNCHANGED <<sent, handled, size, pty, output, round, newest>>

-----------------------------------------------------------------------------
(* runes_pty_input_cb *)

\* Output of the child: a bell may wait for a reply, drawing flushes.
ReadOutput(t) ==
    /\ running = {}
    /\ <<"pty", t>> \in round /\ output[t] = "data"
    /\ \E bell \in BOOLEAN :
          IF (bell /\ RoundTripBells) \/ FlushReads
          THEN RoundTrip(queue, wire)
          ELSE UNCHANGED <<queue, wire>>
    /\ output' = [output EXCEPT ![t] = "none"]
    /\ round' = round \ {<<"pty", t>>}
    /\ pty' = pty \cup {t}
    /\ UNCHANGED <<sent, handled, size, window, running, newest>>

\* Mutant: the terminal forgets to close its own window.
ReadEofQuietly(t) ==
    /\ running = {}
    /\ <<"pty", t>> \in round /\ output[t] = "eof"
    /\ round' = round \ {<<"pty", t>>}
    /\ UNCHANGED <<wire, queue, sent, handled, size, window, pty, output, running, newest>>

\* End of file: the terminal sends itself a close message, through the
\* server, and gives up the pty.
ReadEof(t) ==
    /\ running = {}
    /\ <<"pty", t>> \in round /\ output[t] = "eof"
    /\ Send(t, "close")
    /\ round' = round \ {<<"pty", t>>}
    /\ UNCHANGED <<queue, handled, size, window, pty, output, running, newest>>

-----------------------------------------------------------------------------

\* Events that a step reads into Xlib's queue although their terminal is not
\* going to be called in this turn of the loop.
Buried ==
    {e \in ToSet(queue') \ ToSet(queue) :
        e.to \in window /\ e.to \notin running' /\ <<"window", e.to>> \notin round'}

Process ==
    /\ \/ Poll
       \/ \E t \in Terms :
             \/ StartWindowCallback(t) \/ EndWindowCallback(t)
             \/ TakeEvent(t) \/ SkipSize(t) \/ Resize(t)
             \/ ReadOutput(t) \/ ReadEof(t)
    /\ buried' = (buried \/ Buried # {})

Environment ==
    /\ \E t \in Terms : ServerSends(t) \/ ChildWrites(t) \/ ChildExits(t)
    /\ UNCHANGED buried

Next == Process \/ Environment

Spec == Init /\ [][Next]_vars

\* The process runs while it has something to do.  The user, the server and
\* the children need not do anything.
FairSpec == Spec /\ WF_vars(Process)

-----------------------------------------------------------------------------
(* Properties *)

InTransit(t) == {e \in ToSet(queue) \cup ToSet(wire) : e.to = t}

\* Whatever other terminals, round trips and resizes do to the queue, the
\* handlers of a terminal run in the order in which its events were sent,
\* and never twice for the same event.
HandledInOrder ==
    \A t \in Terms : \A i, j \in DOMAIN handled[t] :
        i < j => handled[t][i] < handled[t][j]

\* No event of a terminal that is still watched is thrown away, except for
\* the sizes that a later size replaces.
NothingLost ==
    \A t \in Terms : \A n \in DOMAIN sent[t] :
        Watched(t) /\ sent[t][n] # "configure"
            => n \in ToSet(handled[t]) \cup {e.n : e \in InTransit(t)}

SizeUnderWay(t) ==
    (\E e \in InTransit(t) : e.type = "configure") \/ (t \in running /\ newest # 0)

\* Once no size is on its way and no handler is looking for one, the terminal
\* has the last size the server sent, although the handler drops sizes and
\* reads ahead in the queue while the server goes on sending.
SizeFollowsServer ==
    \A t \in Terms :
        Watched(t) /\ ~SizeUnderWay(t)
            => \A n \in DOMAIN sent[t] : sent[t][n] = "configure" => n <= size[t]

\* Every event is handled in order and exactly once, or on its way.
EventsKept == TypeOK /\ HandledInOrder /\ NothingLost

Received(t, n) == ~Watched(t) \/ n \in ToSet(handled[t])
KeyUnderWay(t, n) ==
    Watched(t) /\ [to |-> t, type |-> "key", n |-> n] \in InTransit(t)

\* Every key press that is sent to a terminal reaches it, unless it closes
\* (window-xlib.c:268: "we always want to receive keyboard events").
KeysAreReceived ==
    \A t \in Terms, n \in 1..MaxEvents : KeyUnderWay(t, n) ~> Received(t, n)

\* What the code does achieve: one thing alone can keep a key press from
\* its terminal, an event that was read while the callback of its terminal
\* was not to come, by the search of another terminal, by a bell's round trip
\* or by a flush.
KeysAreReceivedUnlessBuried ==
    \A t \in Terms, n \in 1..MaxEvents :
        KeyUnderWay(t, n) ~> (Received(t, n) \/ buried)

\* A terminal whose child has gone closes its window, by the message that
\* comes back from the server, unless that is buried, too.
ExitCloses == \A t \in Terms : output[t] = "eof" ~> (~Watched(t) \/ buried)

\* However an event got stuck in the queue, the next event that arrives for
\* any terminal of the process wakes up all of them: a stuck event is late,
\* never lost.
NextEventWakesAll ==
    \A t \in Terms, n \in 1..MaxEvents :
        (Idle /\ wire # <<>> /\ KeyUnderWay(t, n)) ~> Received(t, n)

=============================================================================
