--------------------------- MODULE SelectionProofs ----------------------------
(***************************************************************************)
(* Who owns PRIMARY and what is highlighted, for any set of terminals, any *)
(* screen, and any interleaving of the requests of a handler with other    *)
(* clients.                                                                *)
(*                                                                         *)
(* What the terminals believe of PRIMARY is right because of what may      *)
(* stand in a terminal's queue: at most one SelectionClear, none for the   *)
(* owner, and, if the terminal does not own PRIMARY, only stale events     *)
(* before it, with which it cannot take PRIMARY.                           *)
(*                                                                         *)
(* The last part is about the word that a double click selects.            *)
(***************************************************************************)
EXTENDS Selection, WordSelection, SequenceTheorems, TLAPS

IsClear(e) == e.type = "clear"
Clears(t) == {i \in DOMAIN inbox[t] : IsClear(inbox[t][i])}

-----------------------------------------------------------------------------
(* The inductive invariant of PRIMARY *)

\* Handlers run one after the other.
OneHandler ==
    /\ \A t, u \in Terms : acq[t].step # "idle" /\ acq[u].step # "idle" => t = u
    /\ \A t \in Terms : acq[t].step = "idle" => acq[t] = Idle

\* Events are not from the future.
InThePast == \A t \in Terms : \A i \in DOMAIN inbox[t] : inbox[t][i].time <= clock

\* A handler that is about to take PRIMARY: unless another client was
\* faster it takes it from the owner that it has seen.
TakingFrom(t) ==
    acq[t].step = "set" =>
        /\ ~term[t].owns /\ owner # t /\ acq[t].time <= clock
        /\ acq[t].time >= since => owner = acq[t].old /\ Clears(t) = {}

\* A handler that has tried to.
Took(t) ==
    /\ acq[t].step \in {"set", "ask", "tell"} => acq[t].old # t
    /\ acq[t].step = "ask" => ~term[t].owns
    /\ acq[t].step = "tell" => term[t].owns

\* It has PRIMARY from old, which does not know yet.
Owed(t, old) ==
    acq[t].old = old /\ (acq[t].step = "tell" \/ (acq[t].step = "ask" /\ owner = t))

\* Who is owed a SelectionClear has none, and did own PRIMARY.
OwedOnce ==
    \A t, old \in Terms : Owed(t, old) =>
        term[old].owns /\ owner # old /\ Clears(old) = {}

\* A clear event is the only one, and not for the owner.
ClearIsLate(t) ==
    \A i \in Clears(t) :
        /\ owner # t /\ Clears(t) = {i}
        /\ term[t].owns \/ \A j \in 1..(i - 1) : inbox[t][j].time < since

\* Who is wrong about PRIMARY will be told, with the exception of robbed.
WillKnow(t) ==
    term[t].owns =>
        \/ owner = t \/ robbed
        \/ ClearEvent \in ToSet(inbox[t])
        \/ \E u \in Terms : Owed(u, t)

Ownership ==
    /\ OneHandler /\ InThePast /\ OwnerKnows /\ OwedOnce
    /\ \A t \in Terms : TakingFrom(t) /\ Took(t) /\ ClearIsLate(t) /\ WillKnow(t)

\* A handler that takes PRIMARY is about to move the end of the selection.
Moving == \A t \in Terms : acq[t].step # "idle" => acq[t].end # term[t].end

-----------------------------------------------------------------------------
(* What is highlighted: one terminal *)

\* What ShownIsContents says of a terminal.
Right(s) ==
    /\ s.shown /\ ~s.dirty /\ s.start <= s.end
          => s.contents = Plaintext(s.text, s.start, s.end)
    /\ s.shown => s.start + Len(s.contents) = s.end \/ s.end + Len(s.contents) = s.start

\* What OutputSparesSelection says of a terminal that becomes d.
Spares(s, d) ==
    s.shown /\ s.start < s.end /\ d.end = s.end /\ ~d.shown
        => Plaintext(d.text, s.start, s.end) # s.contents

\* The fields that drawing leaves alone.
SameSelection(s, d) ==
    /\ d.start = s.start /\ d.end = s.end /\ d.contents = s.contents
    /\ d.text = s.text /\ d.owns = s.owns

\* And those that a change of the text leaves alone.
SameSelectionOf(s, d) ==
    /\ d.shown = s.shown /\ d.start = s.start /\ d.end = s.end
    /\ d.contents = s.contents /\ d.owns = s.owns

\* The mouse is on a cell.
LEMMA MousePositionFacts ==
    ASSUME NEW at \in Pointers \cup {0}
    PROVE  MousePosition(at) \in Locs /\ at \in Nat
BY SelectionAssumption DEF MousePosition, Locs

\* The text between two locations has a cell for each step between them.
LEMMA PlaintextFacts ==
    ASSUME NEW text \in Texts, NEW from \in Locs, NEW to \in Locs, from <= to
    PROVE  /\ Plaintext(text, from, to) \in Seq({0, 1})
           /\ Len(Plaintext(text, from, to)) = to - from
<1>1. Cells \in Nat /\ from + 1 \in Int /\ to \in Int
    BY SelectionAssumption DEF Locs
<1>2. \A i \in (from + 1)..to : text[i] \in {0, 1}
    BY <1>1 DEF Locs, Texts
<1>3. /\ SubSeq(text, from + 1, to) \in Seq({0, 1})
      /\ Len(SubSeq(text, from + 1, to)) = IF from + 1 <= to THEN to - (from + 1) + 1 ELSE 0
    BY <1>1, <1>2, SubSeqProperties
<1>. QED
    BY <1>1, <1>3 DEF Plaintext, Locs

\* Whatever way a selection was dragged, its contents are right.
LEMMA SetSelectionFacts ==
    ASSUME NEW s \in TermState, NEW from \in Locs, NEW to \in Locs
    PROVE  LET d == SetSelection(s, from, to)
           IN  /\ d \in TermState /\ Right(d)
               /\ d.end = to /\ d.owns = s.owns
<1>. DEFINE x == IF from <= to THEN Plaintext(s.text, from, to) ELSE Plaintext(s.text, to, from)
            d == SetSelection(s, from, to)
<1>1. s.text \in Texts /\ from \in Nat /\ to \in Nat
    BY SelectionAssumption DEF TermState, Locs
<1>3. x \in Seq({0, 1}) /\ (from + Len(x) = to \/ to + Len(x) = from)
    <2>1. CASE from <= to
        <3>1. x = Plaintext(s.text, from, to)
            BY <2>1
        <3>2. /\ Plaintext(s.text, from, to) \in Seq({0, 1})
              /\ Len(Plaintext(s.text, from, to)) = to - from
            BY <1>1, <2>1, PlaintextFacts
        <3>. HIDE DEF x
        <3>. QED
            BY <1>1, <3>1, <3>2
    <2>2. CASE ~(from <= to)
        <3>1. x = Plaintext(s.text, to, from)
            BY <2>2
        <3>2. /\ Plaintext(s.text, to, from) \in Seq({0, 1})
              /\ Len(Plaintext(s.text, to, from)) = from - to
            <4>1. to <= from
                BY <1>1, <2>2
            <4>. QED
                BY <1>1, <4>1, PlaintextFacts
        <3>. HIDE DEF x
        <3>. QED
            BY <1>1, <3>1, <3>2
    <2>. QED
        BY <2>1, <2>2
<1>4. from <= to => x = Plaintext(s.text, from, to)
    OBVIOUS
<1>5. d = [s EXCEPT !.shown = TRUE, !.start = from, !.end = to, !.contents = x]
    BY DEF SetSelection
<1>. HIDE DEF x, d
<1>6. /\ d \in TermState /\ d.end = to /\ d.owns = s.owns /\ d.start = from
      /\ d.contents = x /\ d.text = s.text
    BY <1>3, <1>5 DEF TermState
<1>. QED
    BY <1>3, <1>4, <1>6 DEF Right, d

\* A drawing highlights nothing new, and keeps a selection whose text has
\* not changed.
LEMMA DrawnFacts ==
    ASSUME NEW s \in TermState, NEW d \in Drawn(s)
    PROVE  /\ d \in TermState /\ SameSelection(s, d)
           /\ Right(s) => Right(d)
           /\ Spares(s, d)
<1>0. s.start \in Nat /\ s.end \in Nat /\ s.text \in Texts /\ s.contents \in Seq({0, 1})
      /\ s.start \in Locs /\ s.end \in Locs /\ s.shown \in BOOLEAN
    BY SelectionAssumption DEF TermState, Locs
<1>1. CASE ~s.dirty
    <2>1. d = s
        BY <1>1 DEF Drawn
    <2>. QED
        BY <2>1 DEF SameSelection, Spares
<1>2. CASE s.dirty
    <2>1. PICK h \in MaybeClear(s) : d = [s EXCEPT !.dirty = FALSE, !.shown = h]
        BY <1>2 DEF Drawn
    <2>2. h \in BOOLEAN /\ (h => s.shown)
          /\ (s.shown /\ s.start < s.end => h = (Plaintext(s.text, s.start, s.end) = s.contents))
        BY DEF MaybeClear
    <2>3. d \in TermState /\ SameSelection(s, d) /\ d.shown = h
        BY <2>1, <2>2 DEF TermState, SameSelection
    <2>4. Right(s) => Right(d)
        <3>. SUFFICES ASSUME Right(s), d.shown PROVE Right(d)
            BY DEF Right
        <3>1. CASE s.start < s.end
            BY <1>0, <2>2, <2>3, <3>1 DEF Right, SameSelection
        <3>2. CASE s.start = s.end
            <4>1. Len(s.contents) = 0
                BY <1>0, <2>2, <2>3, <3>2 DEF Right
            <4>2. s.contents = <<>>
                BY <1>0, <4>1, EmptySeq
            <4>3. Plaintext(s.text, s.start, s.end) \in Seq({0, 1})
                  /\ Len(Plaintext(s.text, s.start, s.end)) = 0
                BY <1>0, <3>2, PlaintextFacts
            <4>4. Plaintext(s.text, s.start, s.end) = <<>>
                BY <4>3, EmptySeq
            <4>. QED
                BY <2>2, <2>3, <4>2, <4>4 DEF Right, SameSelection
        <3>3. CASE s.start > s.end
            BY <1>0, <2>2, <2>3, <3>3 DEF Right, SameSelection
        <3>. QED
            BY <1>0, <3>1, <3>2, <3>3
    <2>5. Spares(s, d)
        BY <2>2, <2>3 DEF Spares, SameSelection
    <2>. QED
        BY <2>3, <2>4, <2>5
<1>. QED
    BY <1>1, <1>2

\* The drawing may also be left to a timer.
LEMMA FlushedFacts ==
    ASSUME NEW s \in TermState, NEW d \in Flushed(s)
    PROVE  /\ d \in TermState /\ SameSelection(s, d)
           /\ Right(s) => Right(d)
           /\ Spares(s, d)
<1>1. CASE d = s
    BY <1>1 DEF SameSelection, Spares
<1>2. CASE d \in Drawn(s)
    BY <1>2, DrawnFacts
<1>. QED
    BY <1>1, <1>2 DEF Flushed

-----------------------------------------------------------------------------
(* What the steps of a handler amount to *)

\* A handler goes on to take PRIMARY.
Asks(r, h, time) ==
    /\ h.step = "set" /\ h.old = owner /\ h.time = time
    /\ ~r.owns /\ h.end # r.end

\* A terminal in the middle of a handler becomes r, and the handler ends or
\* goes on to take PRIMARY.
Updated(t, s, time) ==
    \E r \in TermState, h \in Handler :
        /\ Handle(t, r, h)
        /\ r.owns = s.owns /\ Right(r)
        /\ h = Idle \/ Asks(r, h, time)

\* An event of the user is handled.
Served(t) ==
    /\ Takes(t, {"press", "motion", "release", "extend"})
    /\ Updated(t, term[t], Head(inbox[t]).time)

\* A handler ends, whose selection has grown.
Finished(t) ==
    \E r \in TermState :
        /\ Handle(t, r, Idle)
        /\ r.owns = term[t].owns /\ Right(r) /\ r.end = acq[t].end

\* The screen changes or is drawn.
Redrawn(t) ==
    /\ Waiting
    /\ \E r \in TermState :
          /\ Handle(t, r, Idle)
          /\ r.owns = term[t].owns
          /\ Right(term[t]) => Right(r)
          /\ Spares(term[t], r)
    /\ UNCHANGED <<inbox, owner, since, clock, robbed>>

\* An idle handler is a handler.
LEMMA IdleFacts ==
    Idle \in Handler /\ Idle.step = "idle"
BY SelectionAssumption DEF Idle, Handler, Windows, Locs, Times

\* A selection that a flush may draw.
LEMMA SetAndFlushedFacts ==
    ASSUME NEW s \in TermState, NEW from \in Locs, NEW to \in Locs,
           NEW f \in Flushed(SetSelection(s, from, to))
    PROVE  f \in TermState /\ f.owns = s.owns /\ f.end = to /\ Right(f)
<1>. DEFINE d == SetSelection(s, from, to)
<1>1. d \in TermState /\ Right(d) /\ d.end = to /\ d.owns = s.owns
    BY SetSelectionFacts
<1>. HIDE DEF d
<1>2. f \in TermState /\ SameSelection(d, f) /\ (Right(d) => Right(f))
    BY <1>1, FlushedFacts DEF d
<1>. QED
    BY <1>1, <1>2 DEF SameSelection

\* An update moves the end at once, or goes on to take PRIMARY, or does
\* nothing.
LEMMA UpdateFacts ==
    ASSUME TypeOK, NEW t \in Terms, NEW s \in TermState, NEW to \in Locs, NEW time \in Times,
           Right(s), Update(t, s, to, time)
    PROVE  Updated(t, s, time)
<1>1. CASE ~s.shown \/ s.end = to
    <2>1. Handle(t, s, Idle)
        BY <1>1 DEF Update
    <2>. QED
        BY <2>1, IdleFacts DEF Updated
<1>2. CASE s.shown /\ s.end # to /\ s.owns
    <2>1. PICK f \in Flushed(SetSelection(s, s.start, to)) : Handle(t, f, Idle)
        BY <1>2 DEF Update
    <2>2. s.start \in Locs
        BY DEF TermState
    <2>3. f \in TermState /\ f.owns = s.owns /\ Right(f)
        BY <2>2, SetAndFlushedFacts
    <2>. QED
        BY <2>1, <2>3, IdleFacts DEF Updated
<1>3. CASE s.shown /\ s.end # to /\ ~s.owns
    <2>. DEFINE h == [step |-> "set", old |-> owner, end |-> to, time |-> time]
    <2>1. Handle(t, s, h)
        BY <1>3 DEF Update
    <2>2. h \in Handler /\ Asks(s, h, time)
        BY <1>3 DEF TypeOK, Handler, Asks
    <2>. HIDE DEF h
    <2>. QED
        BY <2>1, <2>2 DEF Updated
<1>. QED
    BY <1>1, <1>2, <1>3

\* The event at the head of a queue.
LEMMA HeadFacts ==
    ASSUME TypeOK, NEW t \in Terms, inbox[t] # <<>>
    PROVE  /\ Head(inbox[t]) \in Events /\ Head(inbox[t]) = inbox[t][1]
           /\ Head(inbox[t]).time \in Times
           /\ MousePosition(Head(inbox[t]).at) \in Locs
           /\ MousePosition(Head(inbox[t]).at) \in Nat
<1>1. inbox[t] \in Seq(Events)
    BY DEF TypeOK
<1>2. Head(inbox[t]) \in Events /\ Head(inbox[t]) = inbox[t][1]
    BY <1>1
<1>3. Head(inbox[t]).at \in Pointers \cup {0} /\ Head(inbox[t]).time \in Times
    BY <1>2 DEF Events
<1>4. MousePosition(Head(inbox[t]).at) \in Locs
    BY <1>3, MousePositionFacts
<1>. QED
    BY <1>2, <1>3, <1>4, SelectionAssumption DEF Locs

\* What the user does is served.
LEMMA PressServes ==
    ASSUME TypeOK, NEW t \in Terms, Press(t)
    PROVE  Served(t)
<1>. DEFINE at == MousePosition(Head(inbox[t]).at)
<1>1. inbox[t] # <<>> /\ Takes(t, {"press"})
    BY DEF Press, Takes
<1>2. at \in Locs /\ term[t] \in TermState
    BY <1>1, HeadFacts DEF TypeOK
<1>3. PICK f \in Flushed(SetSelection(term[t], at, at)) :
          Handle(t, [f EXCEPT !.down = TRUE], Idle)
    BY DEF Press
<1>. HIDE DEF at
<1>4. f \in TermState /\ f.owns = term[t].owns /\ Right(f)
    BY <1>2, <1>3, SetAndFlushedFacts
<1>. DEFINE r == [f EXCEPT !.down = TRUE]
<1>5. r \in TermState /\ r.owns = f.owns /\ Right(r)
    BY <1>4 DEF TermState, Right
<1>. HIDE DEF r
<1>6. Handle(t, r, Idle)
    BY <1>3 DEF r
<1>. QED
    BY <1>1, <1>4, <1>5, <1>6, IdleFacts DEF Served, Updated, Takes

LEMMA ExtendServes ==
    ASSUME TypeOK, ShownIsContents, NEW t \in Terms, Extend(t)
    PROVE  Served(t)
<1>. DEFINE e == Head(inbox[t])
            at == MousePosition(e.at)
<1>1. inbox[t] # <<>> /\ Takes(t, {"motion", "extend"})
    BY DEF Extend, Takes
<1>2. at \in Locs /\ e.time \in Times /\ term[t] \in TermState /\ Right(term[t])
    BY <1>1, HeadFacts DEF TypeOK, ShownIsContents, Right
<1>3. Update(t, term[t], at, e.time) \/ Handle(t, term[t], Idle)
    BY DEF Extend
<1>. HIDE DEF e, at
<1>4. Updated(t, term[t], e.time)
    <2>1. CASE Update(t, term[t], at, e.time)
        BY <1>2, <2>1, UpdateFacts
    <2>2. CASE Handle(t, term[t], Idle)
        BY <1>2, <2>2, IdleFacts DEF Updated
    <2>. QED
        BY <1>3, <2>1, <2>2
<1>. QED
    BY <1>1, <1>4 DEF Served, Takes, e

LEMMA ReleaseServes ==
    ASSUME TypeOK, ShownIsContents, NEW t \in Terms, Release(t)
    PROVE  Served(t)
<1>. DEFINE e == Head(inbox[t])
            at == MousePosition(e.at)
            s == [term[t] EXCEPT !.down = FALSE]
<1>1. inbox[t] # <<>> /\ Takes(t, {"release"})
    BY DEF Release, Takes
<1>2. /\ at \in Locs /\ e.time \in Times /\ 0..at \subseteq Locs /\ at..Cells \subseteq Locs
      /\ term[t] \in TermState /\ Right(term[t])
    <2>1. at \in Locs /\ at \in Nat /\ e.time \in Times
        BY <1>1, HeadFacts
    <2>2. term[t] \in TermState /\ Right(term[t])
        BY DEF TypeOK, ShownIsContents, Right
    <2>. HIDE DEF at, e
    <2>3. 0..at \subseteq Locs /\ at..Cells \subseteq Locs
        BY <2>1, SelectionAssumption DEF Locs
    <2>. QED
        BY <2>1, <2>2, <2>3
<1>3. s \in TermState /\ s.owns = term[t].owns /\ Right(s)
    BY <1>2 DEF TermState, Right
<1>4. \/ Handle(t, s, Idle)
      \/ \E from \in 0..at, to \in at..Cells :
            \E f \in Flushed(SetSelection(s, from, from)) : Update(t, f, to, e.time)
    BY DEF Release
<1>. HIDE DEF e, at, s
<1>5. Updated(t, term[t], e.time)
    <2>1. CASE Handle(t, s, Idle)
        BY <1>3, <2>1, IdleFacts DEF Updated
    <2>2. ASSUME NEW from \in 0..at, NEW to \in at..Cells,
                 NEW f \in Flushed(SetSelection(s, from, from)), Update(t, f, to, e.time)
          PROVE  Updated(t, term[t], e.time)
        <3>1. from \in Locs /\ to \in Locs
            BY <1>2
        <3>2. f \in TermState /\ f.owns = s.owns /\ Right(f)
            BY <1>3, <3>1, SetAndFlushedFacts
        <3>3. Updated(t, f, e.time)
            BY <1>2, <2>2, <3>1, <3>2, UpdateFacts
        <3>. QED
            BY <1>3, <3>2, <3>3 DEF Updated
    <2>. QED
        BY <1>4, <2>1, <2>2
<1>. QED
    BY <1>1, <1>5 DEF Served, Takes, e

\* The end of a handler that tried to take PRIMARY.
LEMMA FinishFinishes ==
    ASSUME TypeOK, NEW t \in Terms, Finish(t, term[t])
    PROVE  Finished(t)
<1>1. term[t] \in TermState /\ term[t].start \in Locs /\ acq[t].end \in Locs
    BY DEF TypeOK, TermState, Handler
<1>2. PICK f \in Flushed(SetSelection(term[t], term[t].start, acq[t].end)) : Handle(t, f, Idle)
    BY DEF Finish
<1>3. f \in TermState /\ f.owns = term[t].owns /\ f.end = acq[t].end /\ Right(f)
    BY <1>1, SetAndFlushedFacts
<1>. QED
    BY <1>2, <1>3 DEF Finished

\* Output and the timer redraw.
LEMMA RedrawsFacts ==
    ASSUME TypeOK, NEW t \in Terms,
           DelayedRedraw(t) \/ \E c \in Rewritten : Output(t, c)
    PROVE  Redrawn(t)
<1>1. term[t] \in TermState
    BY DEF TypeOK
<1>2. CASE DelayedRedraw(t)
    <2>1. PICK f \in Drawn(term[t]) : Handle(t, f, Idle)
        BY <1>2 DEF DelayedRedraw
    <2>2. /\ f \in TermState /\ f.owns = term[t].owns
          /\ Right(term[t]) => Right(f)
          /\ Spares(term[t], f)
        BY <1>1, DrawnFacts DEF SameSelection
    <2>. QED
        BY <1>2, <2>1, <2>2 DEF DelayedRedraw, Redrawn
<1>3. ASSUME NEW c \in Rewritten, Output(t, c)
      PROVE  Redrawn(t)
    <2>. DEFINE s == [term[t] EXCEPT !.text[c] = 1 - @, !.dirty = TRUE]
    <2>1. PICK f \in Flushed(s) : Handle(t, f, Idle)
        BY <1>3 DEF Output
    <2>2. s \in TermState /\ SameSelectionOf(term[t], s) /\ s.dirty
        <3>1. c \in 1..Cells
            BY SelectionAssumption
        <3>2. term[t].text \in [1..Cells -> {0, 1}]
            BY <1>1 DEF TermState, Texts
        <3>3. [term[t].text EXCEPT ![c] = 1 - @] \in Texts
            <4>1. term[t].text[c] = 0 \/ term[t].text[c] = 1
                BY <3>1, <3>2
            <4>2. 1 - term[t].text[c] \in {0, 1}
                BY <4>1
            <4>. QED
                BY <3>1, <3>2, <4>2 DEF Texts
        <3>. QED
            BY <1>1, <3>3 DEF TermState, SameSelectionOf
    <2>. HIDE DEF s
    <2>3. f \in TermState /\ SameSelection(s, f) /\ (Right(s) => Right(f)) /\ Spares(s, f)
        BY <2>1, <2>2, FlushedFacts
    <2>4. Right(term[t]) => Right(s)
        BY <2>2 DEF Right, SameSelectionOf
    <2>5. Spares(term[t], f)
        BY <2>2, <2>3 DEF Spares, SameSelectionOf
    <2>6. f.owns = term[t].owns
        BY <2>2, <2>3 DEF SameSelection, SameSelectionOf
    <2>. QED
        BY <1>3, <2>1, <2>3, <2>4, <2>5, <2>6 DEF Output, Redrawn
<1>. QED
    BY <1>2, <1>3

-----------------------------------------------------------------------------
(* The queues *)

\* A queue without its head.
LEMMA TailFacts ==
    ASSUME NEW S, NEW q \in Seq(S), q # <<>>
    PROVE  /\ Tail(q) \in Seq(S) /\ Len(q) \in Nat \ {0} /\ Len(Tail(q)) = Len(q) - 1
           /\ DOMAIN Tail(q) = 1..(Len(q) - 1) /\ DOMAIN q = 1..Len(q)
           /\ \A i \in 1..(Len(q) - 1) : Tail(q)[i] = q[i + 1]
           /\ Head(q) = q[1]
OBVIOUS

\* A queue with one more event.
LEMMA AppendFacts ==
    ASSUME NEW S, NEW q \in Seq(S), NEW e \in S
    PROVE  /\ Append(q, e) \in Seq(S) /\ Len(q) \in Nat
           /\ DOMAIN Append(q, e) = 1..(Len(q) + 1) /\ DOMAIN q = 1..Len(q)
           /\ \A i \in 1..Len(q) : Append(q, e)[i] = q[i]
           /\ Append(q, e)[Len(q) + 1] = e
OBVIOUS

\* The clear event is an event.
LEMMA ClearEventFacts ==
    ClearEvent \in Events /\ ClearEvent.time = 0 /\ IsClear(ClearEvent)
BY SelectionAssumption DEF ClearEvent, Events, Times, IsClear

-----------------------------------------------------------------------------
(* PRIMARY *)

LEMMA InitOwnership ==
    Init => Ownership
<1>. SUFFICES ASSUME Init PROVE Ownership
    OBVIOUS
<1>1. /\ \A t \in Terms : acq[t] = Idle /\ inbox[t] = <<>> /\ ~term[t].owns
      /\ owner \notin Terms
    BY SelectionAssumption DEF Init
<1>2. \A t \in Terms : acq[t].step = "idle"
    BY <1>1, IdleFacts
<1>3. \A t \in Terms : DOMAIN inbox[t] = {} /\ Clears(t) = {}
    BY <1>1 DEF Clears
<1>. QED
    BY <1>1, <1>2, <1>3
    DEF Ownership, OneHandler, InThePast, OwnerKnows, OwedOnce, Owed, TakingFrom, Took,
        ClearIsLate, WillKnow

\* While no handler is under way nobody is owed a clear event.
LEMMA WaitingFacts ==
    ASSUME Waiting
    PROVE  /\ \A u \in Terms : acq[u].step = "idle"
           /\ \A u, v \in Terms : ~Owed(u, v)
BY IdleFacts DEF Waiting, Owed

\* A handler sees PRIMARY's owner, which is not its own terminal.
LEMMA OwnershipAfterServed ==
    ASSUME TypeOK, Ownership, NEW t \in Terms, Served(t)
    PROVE  Ownership'
<1>1. /\ Waiting /\ inbox[t] # <<>> /\ ~IsClear(Head(inbox[t]))
      /\ inbox' = [inbox EXCEPT ![t] = Tail(@)]
      /\ UNCHANGED <<owner, since, clock, robbed>>
    BY DEF Served, Takes, IsClear
<1>2. PICK r \in TermState, h \in Handler :
          /\ term' = [term EXCEPT ![t] = r] /\ acq' = [acq EXCEPT ![t] = h]
          /\ r.owns = term[t].owns
          /\ h = Idle \/ Asks(r, h, Head(inbox[t]).time)
    BY DEF Served, Updated, Handle
<1>3. /\ \A u \in Terms : acq[u] = Idle /\ acq[u].step = "idle"
      /\ \A u, v \in Terms : ~Owed(u, v)
    BY <1>1, WaitingFacts DEF Waiting
<1>4. /\ \A u \in Terms : term'[u].owns = term[u].owns
      /\ \A u \in Terms : u # t => acq'[u] = Idle /\ acq'[u].step = "idle" /\ inbox'[u] = inbox[u]
      /\ acq'[t] = h /\ inbox'[t] = Tail(inbox[t])
    BY <1>1, <1>2, <1>3 DEF TypeOK
<1>5. h.step = "idle" \/ Asks(r, h, Head(inbox[t]).time)
    BY <1>2, IdleFacts
<1>6. /\ Len(inbox[t]) \in Nat \ {0}
      /\ DOMAIN inbox'[t] = 1..(Len(inbox[t]) - 1) /\ DOMAIN inbox[t] = 1..Len(inbox[t])
      /\ \A i \in 1..(Len(inbox[t]) - 1) : inbox'[t][i] = inbox[t][i + 1]
      /\ Head(inbox[t]) = inbox[t][1] /\ ~IsClear(inbox[t][1])
    BY <1>1, <1>4, TailFacts DEF TypeOK
<1>7. \A i : i \in Clears(t)' <=> i \in DOMAIN inbox'[t] /\ i + 1 \in Clears(t)
    BY <1>6 DEF Clears, IsClear
<1>8. \A u \in Terms : u # t => Clears(u)' = Clears(u)
    BY <1>4 DEF Clears
<1>9. OneHandler'
    BY <1>2, <1>4, <1>5, IdleFacts DEF OneHandler, Asks
<1>10. InThePast'
    BY <1>1, <1>4, <1>6 DEF Ownership, InThePast
<1>11. OwnerKnows'
    BY <1>1, <1>3, <1>4 DEF Ownership, OwnerKnows
<1>12. \A u, v \in Terms : ~Owed(u, v)'
    BY <1>4, <1>5 DEF Owed, Asks
<1>13. OwedOnce'
    BY <1>12 DEF OwedOnce
<1>14. ASSUME NEW u \in Terms
       PROVE  TakingFrom(u)' /\ Took(u)'
    <2>1. CASE acq'[u].step = "idle"
        BY <2>1 DEF TakingFrom, Took
    <2>2. CASE acq'[u].step # "idle"
        <3>1. u = t /\ Asks(r, h, inbox[t][1].time)
            BY <1>4, <1>5, <1>6, <2>2
        <3>2. ~term[t].owns /\ ~term'[t].owns /\ owner # t
            BY <1>2, <1>3, <1>4, <3>1 DEF Asks, Ownership, OwnerKnows
        <3>3. inbox[t][1].time <= clock
            BY <1>6 DEF Ownership, InThePast
        <3>4. inbox[t][1].time >= since => Clears(t) = {}
            <4>. SUFFICES ASSUME inbox[t][1].time >= since, NEW i \in Clears(t)
                          PROVE  FALSE
                OBVIOUS
            <4>1. i \in DOMAIN inbox[t] /\ IsClear(inbox[t][i])
                BY DEF Clears
            <4>2. i # 1 /\ i \in 1..Len(inbox[t])
                BY <1>6, <4>1
            <4>3. 1 \in 1..(i - 1)
                BY <1>6, <4>2
            <4>4. inbox[t][1].time < since
                BY <3>2, <4>3 DEF Ownership, ClearIsLate
            <4>5. inbox[t][1].time \in Nat /\ since \in Nat
                BY <1>1, <1>6, HeadFacts, SelectionAssumption DEF TypeOK, Times
            <4>. QED
                BY <4>4, <4>5
        <3>5. Clears(t) = {} => Clears(t)' = {}
            BY <1>7
        <3>. QED
            BY <1>1, <1>4, <3>1, <3>2, <3>3, <3>4, <3>5 DEF TakingFrom, Took, Asks
    <2>. QED
        BY <2>1, <2>2
<1>15. ASSUME NEW u \in Terms
       PROVE  ClearIsLate(u)'
    <2>1. CASE u # t
        BY <1>1, <1>4, <1>8, <2>1 DEF Ownership, ClearIsLate
    <2>2. CASE u = t
        <3>. SUFFICES ASSUME NEW i \in Clears(t)'
                      PROVE  /\ owner' # t /\ Clears(t)' = {i}
                             /\ term'[t].owns \/ \A j \in 1..(i - 1) : inbox'[t][j].time < since'
            BY <2>2 DEF ClearIsLate
        <3>1. i + 1 \in Clears(t) /\ i \in 1..(Len(inbox[t]) - 1)
            BY <1>6, <1>7
        <3>2. /\ owner # t /\ Clears(t) = {i + 1}
              /\ term[t].owns \/ \A j \in 1..i : inbox[t][j].time < since
            BY <1>6, <3>1 DEF Ownership, ClearIsLate
        <3>3. Clears(t)' = {i}
            <4>1. \A j \in Clears(t)' : j + 1 = i + 1 /\ j \in 1..(Len(inbox[t]) - 1)
                BY <1>6, <1>7, <3>2
            <4>. QED
                BY <1>6, <3>1, <4>1
        <3>4. ASSUME NEW j \in 1..(i - 1)
              PROVE  j + 1 \in 1..i /\ inbox'[t][j] = inbox[t][j + 1]
            <4>1. j \in 1..(Len(inbox[t]) - 1) /\ j + 1 \in 1..i
                BY <1>6, <3>1
            <4>. QED
                BY <1>6, <4>1
        <3>. QED
            BY <1>1, <1>4, <3>2, <3>3, <3>4
    <2>. QED
        BY <2>1, <2>2
<1>16. ASSUME NEW u \in Terms
       PROVE  WillKnow(u)'
    <2>1. ClearEvent \in ToSet(inbox[u]) => ClearEvent \in ToSet(inbox'[u])
        <3>1. CASE u # t
            BY <1>4, <3>1
        <3>2. CASE u = t
            <4>. SUFFICES ASSUME NEW i \in DOMAIN inbox[t], inbox[t][i] = ClearEvent
                          PROVE  \E j \in DOMAIN inbox'[t] : inbox'[t][j] = ClearEvent
                BY <3>2 DEF ToSet
            <4>1. i # 1
                BY <1>6, ClearEventFacts
            <4>2. i - 1 \in DOMAIN inbox'[t] /\ inbox'[t][i - 1] = inbox[t][i]
                BY <1>6, <4>1
            <4>. QED
                BY <4>2
        <3>. QED
            BY <3>1, <3>2
    <2>. QED
        BY <1>1, <1>3, <1>4, <2>1 DEF Ownership, WillKnow
<1>. QED
    BY <1>9, <1>10, <1>11, <1>13, <1>14, <1>15, <1>16 DEF Ownership

\* A terminal lets go of PRIMARY, which it has indeed lost.
LEMMA OwnershipAfterClear ==
    ASSUME TypeOK, Ownership, NEW t \in Terms, Clear(t)
    PROVE  Ownership'
<1>1. /\ Waiting /\ inbox[t] # <<>> /\ IsClear(Head(inbox[t]))
      /\ inbox' = [inbox EXCEPT ![t] = Tail(@)]
      /\ UNCHANGED <<owner, since, clock, robbed>>
    BY DEF Clear, Takes, IsClear
<1>2. PICK f \in Flushed([term[t] EXCEPT !.shown = FALSE, !.owns = FALSE]) :
          /\ term' = [term EXCEPT ![t] = f] /\ acq' = [acq EXCEPT ![t] = Idle]
    BY DEF Clear, Handle
<1>3. ~f.owns
    <2>. DEFINE s == [term[t] EXCEPT !.shown = FALSE, !.owns = FALSE]
    <2>1. s \in TermState /\ ~s.owns
        BY DEF TypeOK, TermState
    <2>. HIDE DEF s
    <2>2. SameSelection(s, f)
        BY <1>2, <2>1, FlushedFacts DEF s
    <2>. QED
        BY <2>1, <2>2 DEF SameSelection
<1>4. /\ \A u \in Terms : acq[u] = Idle /\ acq[u].step = "idle"
      /\ \A u, v \in Terms : ~Owed(u, v)
    BY <1>1, WaitingFacts DEF Waiting
<1>5. /\ \A u \in Terms : acq'[u] = Idle /\ acq'[u].step = "idle"
      /\ \A u \in Terms : u # t => term'[u] = term[u] /\ inbox'[u] = inbox[u]
      /\ ~term'[t].owns /\ inbox'[t] = Tail(inbox[t])
    BY <1>1, <1>2, <1>3, <1>4, IdleFacts DEF TypeOK
<1>6. /\ Len(inbox[t]) \in Nat \ {0}
      /\ DOMAIN inbox'[t] = 1..(Len(inbox[t]) - 1) /\ DOMAIN inbox[t] = 1..Len(inbox[t])
      /\ \A i \in 1..(Len(inbox[t]) - 1) : inbox'[t][i] = inbox[t][i + 1]
      /\ IsClear(inbox[t][1])
    BY <1>1, <1>5, TailFacts DEF TypeOK
<1>7. owner # t /\ Clears(t) = {1}
    <2>1. 1 \in Clears(t)
        BY <1>6 DEF Clears
    <2>. QED
        BY <2>1 DEF Ownership, ClearIsLate
<1>8. Clears(t)' = {}
    <2>1. \A i \in Clears(t)' : i \in 1..(Len(inbox[t]) - 1) /\ i + 1 \in Clears(t)
        BY <1>6 DEF Clears, IsClear
    <2>2. \A i \in Clears(t)' : i + 1 = 1 /\ i \in Nat \ {0}
        BY <1>6, <1>7, <2>1
    <2>. QED
        BY <2>2
<1>9. \A u \in Terms : u # t => Clears(u)' = Clears(u)
    BY <1>5 DEF Clears
<1>10. OneHandler'
    BY <1>5 DEF OneHandler
<1>11. InThePast'
    BY <1>1, <1>5, <1>6 DEF Ownership, InThePast
<1>12. OwnerKnows'
    BY <1>1, <1>4, <1>5, <1>7 DEF Ownership, OwnerKnows
<1>13. \A u, v \in Terms : ~Owed(u, v)'
    BY <1>5 DEF Owed
<1>14. OwedOnce'
    BY <1>13 DEF OwedOnce
<1>15. \A u \in Terms : TakingFrom(u)' /\ Took(u)'
    BY <1>5 DEF TakingFrom, Took
<1>16. ASSUME NEW u \in Terms
       PROVE  ClearIsLate(u)' /\ WillKnow(u)'
    BY <1>1, <1>4, <1>5, <1>8, <1>9 DEF Ownership, ClearIsLate, WillKnow
<1>. QED
    BY <1>10, <1>11, <1>12, <1>14, <1>15, <1>16 DEF Ownership

\* The server took the request, or it was too late.
LEMMA OwnershipAfterSetOwner ==
    ASSUME TypeOK, Ownership, NEW t \in Terms, SetOwner(t)
    PROVE  Ownership'
<1>1. /\ acq[t].step = "set" /\ acq' = [acq EXCEPT ![t].step = "ask"]
      /\ UNCHANGED <<term, inbox, clock, robbed>>
    BY DEF SetOwner
<1>2. /\ acq'[t].step = "ask" /\ acq'[t].old = acq[t].old
      /\ \A u \in Terms : u # t => acq'[u] = acq[u] /\ acq[u].step = "idle"
    BY <1>1 DEF TypeOK, Handler, Ownership, OneHandler
<1>3. /\ ~term[t].owns /\ owner # t /\ acq[t].old # t /\ acq[t].time <= clock
      /\ acq[t].time >= since => owner = acq[t].old /\ Clears(t) = {}
    BY <1>1 DEF Ownership, TakingFrom, Took
<1>4. \A u, v \in Terms : ~Owed(u, v)
    BY <1>1, <1>2 DEF Owed
<1>5. \A u \in Terms : Clears(u)' = Clears(u)
    BY <1>1 DEF Clears
<1>6. OneHandler'
    BY <1>1, <1>2 DEF Ownership, OneHandler
<1>7. InThePast'
    BY <1>1 DEF Ownership, InThePast
<1>8. ASSUME NEW u \in Terms
      PROVE  TakingFrom(u)' /\ Took(u)'
    BY <1>1, <1>2, <1>3 DEF TakingFrom, Took
<1>9. CASE acq[t].time >= since
    <2>1. owner' = t /\ since' = acq[t].time /\ owner = acq[t].old /\ Clears(t) = {}
        BY <1>3, <1>9 DEF SetOwner
    <2>2. OwnerKnows'
        BY <1>2, <2>1 DEF OwnerKnows
    <2>3. \A u, v \in Terms : Owed(u, v)' <=> u = t /\ v = owner
        BY <1>2, <2>1 DEF Owed
    <2>4. owner \in Terms => term[owner].owns /\ owner # t /\ Clears(owner) = {}
        BY <1>1, <1>2, <1>3 DEF Ownership, OwnerKnows, ClearIsLate
    <2>5. OwedOnce'
        BY <1>1, <1>5, <2>1, <2>3, <2>4 DEF OwedOnce
    <2>6. ASSUME NEW u \in Terms
          PROVE  ClearIsLate(u)'
        <3>1. CASE u = t
            BY <1>5, <2>1, <3>1 DEF ClearIsLate
        <3>2. CASE u # t
            <4>1. \A i \in Clears(u) :
                      Clears(u) = {i} /\ (term[u].owns \/ \A j \in 1..(i - 1) : inbox[u][j].time < since)
                BY DEF Ownership, ClearIsLate
            <4>2. ASSUME NEW i \in Clears(u), NEW j \in 1..(i - 1), inbox[u][j].time < since
                  PROVE  inbox[u][j].time < since'
                <5>1. inbox[u] \in Seq(Events) /\ i \in DOMAIN inbox[u]
                    BY DEF TypeOK, Clears
                <5>2. inbox[u][j] \in Events
                    BY <5>1
                <5>3. inbox[u][j].time \in Nat /\ since \in Nat /\ since' \in Nat
                    BY <2>1, <5>2, SelectionAssumption DEF Events, Times, TypeOK, Handler
                <5>. QED
                    BY <1>9, <2>1, <4>2, <5>3
            <4>. QED
                BY <1>1, <1>5, <2>1, <3>2, <4>1, <4>2 DEF ClearIsLate
        <3>. QED
            BY <3>1, <3>2
    <2>7. ASSUME NEW u \in Terms
          PROVE  WillKnow(u)'
        BY <1>1, <1>3, <1>4, <2>1, <2>3 DEF Ownership, WillKnow
    <2>. QED
        BY <1>6, <1>7, <1>8, <2>2, <2>5, <2>6, <2>7 DEF Ownership
<1>10. CASE ~(acq[t].time >= since)
    <2>1. owner' = owner /\ since' = since
        BY <1>10 DEF SetOwner
    <2>2. OwnerKnows'
        BY <1>1, <1>2, <1>3, <2>1 DEF Ownership, OwnerKnows
    <2>3. \A u, v \in Terms : ~Owed(u, v)'
        BY <1>2, <1>3, <2>1 DEF Owed
    <2>4. OwedOnce'
        BY <2>3 DEF OwedOnce
    <2>5. ASSUME NEW u \in Terms
          PROVE  ClearIsLate(u)' /\ WillKnow(u)'
        BY <1>1, <1>4, <1>5, <2>1 DEF Ownership, ClearIsLate, WillKnow
    <2>. QED
        BY <1>6, <1>7, <1>8, <2>2, <2>4, <2>5 DEF Ownership
<1>. QED
    BY <1>9, <1>10

\* The handler learns whether it owns PRIMARY.
LEMMA OwnershipAfterAskOwner ==
    ASSUME TypeOK, Ownership, NEW t \in Terms, AskOwner(t)
    PROVE  Ownership'
<1>1. acq[t].step = "ask" /\ UNCHANGED <<inbox, owner, since, clock, robbed>>
    BY DEF AskOwner
<1>2. /\ \A u \in Terms : u # t => acq[u].step = "idle"
      /\ \A u, v \in Terms : Owed(u, v) <=> u = t /\ v = acq[t].old /\ owner = t
    BY <1>1 DEF Ownership, OneHandler, Owed
<1>3. acq[t].old # t /\ ~term[t].owns
    BY <1>1 DEF Ownership, Took
<1>4. \A u \in Terms : Clears(u)' = Clears(u)
    BY <1>1 DEF Clears
<1>5. InThePast'
    BY <1>1 DEF Ownership, InThePast
<1>6. CASE owner = t
    <2>1. /\ term' = [term EXCEPT ![t] = [term[t] EXCEPT !.owns = TRUE]]
          /\ acq' = [acq EXCEPT ![t] = [acq[t] EXCEPT !.step = "tell"]]
        BY <1>6 DEF AskOwner, Handle
    <2>2. /\ \A u \in Terms : u # t => term'[u] = term[u] /\ acq'[u] = acq[u]
          /\ acq'[t].step = "tell" /\ acq'[t].old = acq[t].old
          /\ term'[t].owns
        BY <2>1 DEF TypeOK, TermState, Handler
    <2>3. OneHandler'
        BY <1>2, <2>2 DEF Ownership, OneHandler
    <2>4. OwnerKnows'
        BY <1>1, <1>6, <2>2 DEF OwnerKnows
    <2>5. \A u, v \in Terms : Owed(u, v)' <=> Owed(u, v)
        BY <1>1, <1>2, <1>6, <2>2 DEF Owed
    <2>6. OwedOnce'
        BY <1>1, <1>2, <1>3, <1>4, <2>2, <2>5 DEF Ownership, OwedOnce
    <2>7. ASSUME NEW u \in Terms
          PROVE  TakingFrom(u)' /\ Took(u)' /\ ClearIsLate(u)' /\ WillKnow(u)'
        BY <1>1, <1>2, <1>3, <1>4, <1>6, <2>2, <2>5
        DEF Ownership, TakingFrom, Took, ClearIsLate, WillKnow
    <2>. QED
        BY <1>5, <2>3, <2>4, <2>6, <2>7 DEF Ownership
<1>7. CASE owner # t
    <2>1. Finished(t)
        BY <1>7, FinishFinishes DEF AskOwner
    <2>2. /\ \A u \in Terms : u # t => term'[u] = term[u] /\ acq'[u] = acq[u]
          /\ acq'[t] = Idle /\ acq'[t].step = "idle" /\ ~term'[t].owns
        BY <1>3, <2>1, IdleFacts DEF Finished, Handle, TypeOK
    <2>3. OneHandler'
        BY <1>2, <2>2 DEF Ownership, OneHandler
    <2>4. OwnerKnows'
        BY <1>1, <1>7, <2>2 DEF Ownership, OwnerKnows
    <2>5. \A u, v \in Terms : ~Owed(u, v) /\ ~Owed(u, v)'
        BY <1>1, <1>2, <1>7, <2>2 DEF Owed
    <2>6. OwedOnce'
        BY <2>5 DEF OwedOnce
    <2>7. ASSUME NEW u \in Terms
          PROVE  TakingFrom(u)' /\ Took(u)' /\ ClearIsLate(u)' /\ WillKnow(u)'
        <3>1. TakingFrom(u)' /\ Took(u)'
            BY <1>2, <2>2 DEF TakingFrom, Took
        <3>2. ClearIsLate(u)' /\ WillKnow(u)'
            <4>1. term'[u].owns <=> term[u].owns
                BY <1>3, <2>2
            <4>. QED
                BY <1>1, <1>4, <2>5, <4>1 DEF Ownership, ClearIsLate, WillKnow
        <3>. QED
            BY <3>1, <3>2
    <2>. QED
        BY <1>5, <2>3, <2>4, <2>6, <2>7 DEF Ownership
<1>. QED
    BY <1>6, <1>7

\* The old owner has a clear event, its only one.
LEMMA OwnershipAfterTellOldOwner ==
    ASSUME TypeOK, Ownership, NEW t \in Terms, TellOldOwner(t)
    PROVE  Ownership'
<1>1. /\ acq[t].step = "tell" /\ Finished(t)
      /\ UNCHANGED <<owner, since, clock, robbed>>
    BY FinishFinishes DEF TellOldOwner
<1>2. acq[t].old # t /\ term[t].owns
    BY <1>1 DEF Ownership, Took
<1>3. /\ \A u \in Terms : u # t => term'[u] = term[u] /\ acq'[u] = acq[u]
      /\ \A u \in Terms : term'[u].owns <=> term[u].owns
      /\ acq'[t] = Idle /\ acq'[t].step = "idle"
    BY <1>1, IdleFacts DEF Finished, Handle, TypeOK
<1>4. /\ \A u \in Terms : u # t => acq[u].step = "idle"
      /\ \A u, v \in Terms : Owed(u, v) <=> u = t /\ v = acq[t].old
      /\ \A u, v \in Terms : ~Owed(u, v)'
    BY <1>1, <1>3 DEF Ownership, OneHandler, Owed
<1>5. \A u \in Terms :
          inbox'[u] = IF u = acq[t].old THEN Append(inbox[u], ClearEvent) ELSE inbox[u]
    BY <1>2 DEF TellOldOwner
<1>6. ASSUME NEW u \in Terms, u = acq[t].old
      PROVE  /\ DOMAIN inbox'[u] = 1..(Len(inbox[u]) + 1) /\ DOMAIN inbox[u] = 1..Len(inbox[u])
             /\ Len(inbox[u]) \in Nat
             /\ \A i \in 1..Len(inbox[u]) : inbox'[u][i] = inbox[u][i]
             /\ inbox'[u][Len(inbox[u]) + 1] = ClearEvent
             /\ owner # u /\ term[u].owns /\ Clears(u) = {}
    <2>1. inbox[u] \in Seq(Events) /\ inbox'[u] = Append(inbox[u], ClearEvent)
        BY <1>5, <1>6 DEF TypeOK
    <2>2. owner # u /\ term[u].owns /\ Clears(u) = {}
        BY <1>4, <1>6 DEF Ownership, OwedOnce
    <2>. QED
        BY <2>1, <2>2, AppendFacts, ClearEventFacts
<1>7. OneHandler'
    BY <1>3, <1>4 DEF Ownership, OneHandler
<1>8. InThePast'
    <2>. SUFFICES ASSUME NEW u \in Terms, NEW i \in DOMAIN inbox'[u]
                  PROVE  inbox'[u][i].time <= clock
        BY <1>1 DEF InThePast
    <2>1. 0 <= clock
        BY SelectionAssumption DEF TypeOK, Times
    <2>2. \A j \in DOMAIN inbox[u] : inbox[u][j].time <= clock
        BY DEF Ownership, InThePast
    <2>3. CASE u = acq[t].old /\ i \in 1..Len(inbox[u])
        BY <1>6, <2>2, <2>3
    <2>4. CASE u = acq[t].old /\ i \notin 1..Len(inbox[u])
        <3>1. i = Len(inbox[u]) + 1
            BY <1>6, <2>4
        <3>. QED
            BY <1>6, <2>1, <2>4, <3>1, ClearEventFacts
    <2>5. CASE u # acq[t].old
        BY <1>5, <2>2, <2>5
    <2>. QED
        BY <2>3, <2>4, <2>5
<1>9. OwnerKnows'
    BY <1>1, <1>2, <1>3 DEF Ownership, OwnerKnows
<1>10. OwedOnce'
    BY <1>4 DEF OwedOnce
<1>11. ASSUME NEW u \in Terms
       PROVE  TakingFrom(u)' /\ Took(u)'
    BY <1>3, <1>4 DEF TakingFrom, Took
<1>12. ASSUME NEW u \in Terms
       PROVE  ClearIsLate(u)'
    <2>1. CASE u = acq[t].old
        <3>1. \A i \in Clears(u)' : i = Len(inbox[u]) + 1
            <4>. SUFFICES ASSUME NEW i \in Clears(u)', i # Len(inbox[u]) + 1 PROVE FALSE
                OBVIOUS
            <4>1. i \in 1..(Len(inbox[u]) + 1) /\ IsClear(inbox'[u][i])
                BY <1>6, <2>1 DEF Clears
            <4>2. i \in 1..Len(inbox[u])
                BY <1>6, <2>1, <4>1
            <4>3. i \in Clears(u)
                BY <1>6, <2>1, <4>1, <4>2 DEF Clears
            <4>. QED
                BY <1>6, <2>1, <4>3
        <3>. QED
            BY <1>1, <1>3, <1>6, <2>1, <3>1 DEF ClearIsLate
    <2>2. CASE u # acq[t].old
        BY <1>1, <1>3, <1>5, <2>2 DEF Ownership, ClearIsLate, Clears
    <2>. QED
        BY <2>1, <2>2
<1>13. ASSUME NEW u \in Terms
       PROVE  WillKnow(u)'
    <2>1. CASE u = acq[t].old
        <3>1. Len(inbox[u]) + 1 \in DOMAIN inbox'[u]
            BY <1>6, <2>1
        <3>. QED
            BY <1>6, <2>1, <3>1 DEF WillKnow, ToSet
    <2>2. CASE u # acq[t].old
        BY <1>1, <1>3, <1>4, <1>5, <2>2 DEF Ownership, WillKnow
    <2>. QED
        BY <2>1, <2>2
<1>. QED
    BY <1>7, <1>8, <1>9, <1>10, <1>11, <1>12, <1>13 DEF Ownership

\* Drawing has nothing to do with PRIMARY.
LEMMA OwnershipAfterRedrawn ==
    ASSUME TypeOK, Ownership, NEW t \in Terms, Redrawn(t)
    PROVE  Ownership'
<1>1. Waiting /\ UNCHANGED <<inbox, owner, since, clock, robbed>>
    BY DEF Redrawn
<1>2. /\ acq' = acq
      /\ \A u \in Terms : term'[u].owns <=> term[u].owns
    <2>1. PICK r \in TermState : Handle(t, r, Idle) /\ r.owns = term[t].owns
        BY DEF Redrawn
    <2>. QED
        BY <1>1, <2>1 DEF Handle, Waiting, TypeOK
<1>3. \A u \in Terms : Clears(u)' = Clears(u)
    BY <1>1 DEF Clears
<1>4. \A u, v \in Terms : Owed(u, v)' <=> Owed(u, v)
    BY <1>1, <1>2 DEF Owed
<1>5. OneHandler' /\ InThePast' /\ OwnerKnows'
    BY <1>1, <1>2 DEF Ownership, OneHandler, InThePast, OwnerKnows
<1>6. OwedOnce'
    BY <1>1, <1>2, <1>3, <1>4 DEF Ownership, OwedOnce
<1>7. ASSUME NEW u \in Terms
      PROVE  TakingFrom(u)' /\ Took(u)' /\ ClearIsLate(u)' /\ WillKnow(u)'
    <2>1. TakingFrom(u)' /\ Took(u)'
        BY <1>1, <1>2, <1>3 DEF Ownership, TakingFrom, Took
    <2>2. ClearIsLate(u)'
        BY <1>1, <1>2, <1>3 DEF Ownership, ClearIsLate
    <2>3. WillKnow(u)'
        BY <1>1, <1>2, <1>4 DEF Ownership, WillKnow
    <2>. QED
        BY <2>1, <2>2, <2>3
<1>. QED
    BY <1>5, <1>6, <1>7 DEF Ownership

\* The user's events are no clear events, and come last.
LEMMA OwnershipAfterUserActs ==
    ASSUME TypeOK, Ownership, NEW t \in Terms,
           NEW type \in {"press", "motion", "release", "extend"}, NEW at \in Pointers,
           UserActs(t, type, at)
    PROVE  TypeOK' /\ Ownership'
<1>. DEFINE e == [type |-> type, at |-> at, time |-> clock + 1]
<1>1. /\ clock' = clock + 1 /\ clock \in Nat /\ clock' \in Times /\ since \in Nat
      /\ UNCHANGED <<term, acq, owner, since, robbed>>
      /\ inbox' = [inbox EXCEPT ![t] = Append(@, e)]
    BY SelectionAssumption DEF UserActs, TypeOK, Times
<1>2. e \in Events /\ ~IsClear(e) /\ e.time = clock'
    BY <1>1 DEF Events, IsClear
<1>. HIDE DEF e
<1>3. inbox'[t] = Append(inbox[t], e) /\ \A u \in Terms : u # t => inbox'[u] = inbox[u]
    BY <1>1 DEF TypeOK
<1>4. /\ inbox'[t] \in Seq(Events) /\ Len(inbox[t]) \in Nat
      /\ DOMAIN inbox'[t] = 1..(Len(inbox[t]) + 1) /\ DOMAIN inbox[t] = 1..Len(inbox[t])
      /\ \A i \in 1..Len(inbox[t]) : inbox'[t][i] = inbox[t][i]
      /\ inbox'[t][Len(inbox[t]) + 1] = e
    BY <1>2, <1>3, AppendFacts DEF TypeOK
<1>5. TypeOK'
    BY <1>1, <1>3, <1>4 DEF TypeOK
<1>6. \A u \in Terms : Clears(u)' = Clears(u)
    <2>1. ASSUME NEW i \in Clears(t)' PROVE i \in Clears(t)
        <3>1. i \in 1..(Len(inbox[t]) + 1) /\ IsClear(inbox'[t][i])
            BY <1>4 DEF Clears
        <3>2. i \in 1..Len(inbox[t])
            BY <1>2, <1>4, <3>1
        <3>. QED
            BY <1>4, <3>1, <3>2 DEF Clears
    <2>2. ASSUME NEW i \in Clears(t) PROVE i \in Clears(t)'
        BY <1>4 DEF Clears
    <2>. QED
        BY <1>3, <2>1, <2>2 DEF Clears
<1>7. OneHandler' /\ OwnerKnows' /\ OwedOnce'
    <2>1. \A u, v \in Terms : Owed(u, v)' <=> Owed(u, v)
        BY <1>1 DEF Owed
    <2>. QED
        BY <1>1, <1>6, <2>1 DEF Ownership, OneHandler, OwnerKnows, OwedOnce
<1>8. InThePast'
    <2>. SUFFICES ASSUME NEW u \in Terms, NEW i \in DOMAIN inbox'[u]
                  PROVE  inbox'[u][i].time <= clock'
        BY DEF InThePast
    <2>1. \A j \in DOMAIN inbox[u] : inbox[u][j].time <= clock'
        <3>. SUFFICES ASSUME NEW j \in DOMAIN inbox[u] PROVE inbox[u][j].time <= clock'
            OBVIOUS
        <3>1. inbox[u][j] \in Events
            BY DEF TypeOK
        <3>2. inbox[u][j].time \in Nat /\ inbox[u][j].time <= clock
            BY <3>1, SelectionAssumption DEF Events, Times, Ownership, InThePast
        <3>. QED
            BY <1>1, <3>2
    <2>2. CASE u = t /\ i \in 1..Len(inbox[t])
        BY <1>4, <2>1, <2>2
    <2>3. CASE u = t /\ i \notin 1..Len(inbox[t])
        <3>1. i = Len(inbox[t]) + 1
            BY <1>4, <2>3
        <3>. QED
            BY <1>1, <1>2, <1>4, <2>3, <3>1
    <2>4. CASE u # t
        BY <1>3, <2>1, <2>4
    <2>. QED
        BY <2>2, <2>3, <2>4
<1>9. ASSUME NEW u \in Terms
      PROVE  TakingFrom(u)' /\ Took(u)' /\ ClearIsLate(u)' /\ WillKnow(u)'
    <2>1. TakingFrom(u)'
        <3>1. acq[u].time \in Nat
            BY SelectionAssumption DEF TypeOK, Handler, Times
        <3>. QED
            BY <1>1, <1>6, <3>1 DEF Ownership, TakingFrom
    <2>2. Took(u)'
        BY <1>1 DEF Ownership, Took
    <2>3. ClearIsLate(u)'
        <3>1. ASSUME NEW i \in Clears(u), NEW j \in 1..(i - 1)
              PROVE  inbox'[u][j] = inbox[u][j]
            <4>1. CASE u # t
                BY <1>3, <4>1
            <4>2. CASE u = t
                <5>1. j \in 1..Len(inbox[t])
                    BY <1>4, <4>2 DEF Clears
                <5>. QED
                    BY <1>4, <4>2, <5>1
            <4>. QED
                BY <4>1, <4>2
        <3>2. \A i \in Clears(u) :
                  /\ owner # u /\ Clears(u) = {i}
                  /\ term[u].owns \/ \A j \in 1..(i - 1) : inbox[u][j].time < since
            BY DEF Ownership, ClearIsLate
        <3>3. \A i \in Clears(u) :
                  term[u].owns \/ \A j \in 1..(i - 1) : inbox'[u][j].time < since
            BY <3>1, <3>2
        <3>. QED
            BY <1>1, <1>6, <3>2, <3>3 DEF ClearIsLate
    <2>4. WillKnow(u)'
        <3>1. ClearEvent \in ToSet(inbox[u]) => ClearEvent \in ToSet(inbox'[u])
            BY <1>3, <1>4 DEF ToSet
        <3>2. \A v \in Terms : Owed(v, u)' <=> Owed(v, u)
            BY <1>1 DEF Owed
        <3>. QED
            BY <1>1, <3>1, <3>2 DEF Ownership, WillKnow
    <2>. QED
        BY <2>1, <2>2, <2>3, <2>4
<1>. QED
    BY <1>5, <1>7, <1>8, <1>9 DEF Ownership

\* Another client takes PRIMARY: the owner is told, and all that a handler
\* knows is stale.
LEMMA OwnershipAfterOtherSelects ==
    ASSUME TypeOK, Ownership, OtherSelects
    PROVE  TypeOK' /\ Ownership'
<1>1. /\ clock' = clock + 1 /\ since' = clock + 1 /\ owner' = Other /\ owner' \notin Terms
      /\ clock \in Nat /\ clock' \in Times
      /\ UNCHANGED <<term, acq>>
      /\ robbed' = (robbed \/ \E u \in Terms : owner = u /\ acq[u].step = "ask")
    BY SelectionAssumption DEF OtherSelects, TypeOK, Times
<1>2. \A u \in Terms :
          inbox'[u] = IF u = owner THEN Append(inbox[u], ClearEvent) ELSE inbox[u]
    BY DEF OtherSelects
<1>3. ASSUME NEW u \in Terms, u = owner
      PROVE  /\ DOMAIN inbox'[u] = 1..(Len(inbox[u]) + 1) /\ DOMAIN inbox[u] = 1..Len(inbox[u])
             /\ Len(inbox[u]) \in Nat
             /\ \A i \in 1..Len(inbox[u]) : inbox'[u][i] = inbox[u][i]
             /\ inbox'[u][Len(inbox[u]) + 1] = ClearEvent
             /\ Clears(u) = {}
    <2>1. inbox[u] \in Seq(Events) /\ inbox'[u] = Append(inbox[u], ClearEvent)
        BY <1>2, <1>3 DEF TypeOK
    <2>2. Clears(u) = {}
        BY <1>3 DEF Ownership, ClearIsLate
    <2>. QED
        BY <2>1, <2>2, AppendFacts, ClearEventFacts
<1>4. TypeOK'
    <2>1. inbox' \in [Terms -> Seq(Events)]
        <3>1. \A u \in Terms : inbox'[u] \in Seq(Events)
            <4>1. \A u \in Terms : Append(inbox[u], ClearEvent) \in Seq(Events)
                BY ClearEventFacts, AppendFacts DEF TypeOK
            <4>. QED
                BY <1>2, <4>1 DEF TypeOK
        <3>. QED
            BY <3>1 DEF OtherSelects
    <2>. QED
        BY <1>1, <2>1 DEF TypeOK, Windows
<1>5. ASSUME NEW u \in Terms, NEW i \in DOMAIN inbox[u]
      PROVE  inbox[u][i].time <= clock' /\ inbox[u][i].time < since'
    <2>1. inbox[u][i] \in Events
        BY DEF TypeOK
    <2>2. inbox[u][i].time \in Nat /\ inbox[u][i].time <= clock
        BY <2>1, SelectionAssumption DEF Events, Times, Ownership, InThePast
    <2>. QED
        BY <1>1, <2>2
<1>6. OneHandler' /\ OwnerKnows'
    BY <1>1 DEF Ownership, OneHandler, OwnerKnows
<1>7. InThePast'
    <2>. SUFFICES ASSUME NEW u \in Terms, NEW i \in DOMAIN inbox'[u]
                  PROVE  inbox'[u][i].time <= clock'
        BY DEF InThePast
    <2>1. CASE u = owner /\ i \in 1..Len(inbox[u])
        BY <1>3, <1>5, <2>1
    <2>2. CASE u = owner /\ i \notin 1..Len(inbox[u])
        <3>1. i = Len(inbox[u]) + 1
            BY <1>3, <2>2
        <3>. QED
            BY <1>1, <1>3, <2>2, <3>1, ClearEventFacts
    <2>3. CASE u # owner
        BY <1>2, <1>5, <2>3
    <2>. QED
        BY <2>1, <2>2, <2>3
<1>8. \A u, v \in Terms : Owed(u, v)' <=> acq[u].old = v /\ acq[u].step = "tell"
    BY <1>1 DEF Owed
<1>9. \A u \in Terms : u # owner => Clears(u)' = Clears(u)
    BY <1>2 DEF Clears
<1>10. OwedOnce'
    <2>. SUFFICES ASSUME NEW u \in Terms, NEW v \in Terms, Owed(u, v)'
                  PROVE  term'[v].owns /\ owner' # v /\ Clears(v)' = {}
        BY DEF OwedOnce
    <2>1. Owed(u, v)
        BY <1>8 DEF Owed
    <2>. QED
        BY <1>1, <1>9, <2>1 DEF Ownership, OwedOnce
<1>11. ASSUME NEW u \in Terms
       PROVE  TakingFrom(u)' /\ Took(u)'
    <2>1. TakingFrom(u)'
        <3>1. acq[u].time \in Nat
            BY SelectionAssumption DEF TypeOK, Handler, Times
        <3>. QED
            BY <1>1, <3>1 DEF Ownership, TakingFrom
    <2>2. Took(u)'
        BY <1>1 DEF Ownership, Took
    <2>. QED
        BY <2>1, <2>2
<1>12. ASSUME NEW u \in Terms
       PROVE  ClearIsLate(u)'
    <2>1. CASE u = owner
        <3>1. \A i \in Clears(u)' : i = Len(inbox[u]) + 1
            <4>. SUFFICES ASSUME NEW i \in Clears(u)', i # Len(inbox[u]) + 1 PROVE FALSE
                OBVIOUS
            <4>1. i \in 1..(Len(inbox[u]) + 1) /\ IsClear(inbox'[u][i])
                BY <1>3, <2>1 DEF Clears
            <4>2. i \in 1..Len(inbox[u])
                BY <1>3, <2>1, <4>1
            <4>3. i \in Clears(u)
                BY <1>3, <2>1, <4>1, <4>2 DEF Clears
            <4>. QED
                BY <1>3, <2>1, <4>3
        <3>2. \A j \in 1..Len(inbox[u]) : inbox'[u][j].time < since'
            BY <1>3, <1>5, <2>1
        <3>3. \A i \in Clears(u)' : \A j \in 1..(i - 1) : j \in 1..Len(inbox[u])
            BY <1>3, <2>1, <3>1
        <3>4. \A i \in Clears(u)' : Clears(u)' = {i}
            BY <3>1
        <3>. QED
            BY <1>1, <3>2, <3>3, <3>4 DEF ClearIsLate
    <2>2. CASE u # owner
        <3>1. inbox'[u] = inbox[u] /\ Clears(u)' = Clears(u)
            BY <1>2, <1>9, <2>2
        <3>2. ASSUME NEW i \in Clears(u), NEW j \in 1..(i - 1)
              PROVE  inbox[u][j].time < since'
            <4>1. j \in DOMAIN inbox[u]
                <5>1. inbox[u] \in Seq(Events) /\ i \in DOMAIN inbox[u]
                    BY DEF TypeOK, Clears
                <5>. QED
                    BY <5>1
            <4>. QED
                BY <1>5, <4>1
        <3>. QED
            BY <1>1, <3>1, <3>2 DEF Ownership, ClearIsLate
    <2>. QED
        BY <2>1, <2>2
<1>13. ASSUME NEW u \in Terms
       PROVE  WillKnow(u)'
    <2>. SUFFICES ASSUME term[u].owns, ~robbed'
                  PROVE  \/ ClearEvent \in ToSet(inbox'[u])
                         \/ \E v \in Terms : Owed(v, u)'
        BY <1>1 DEF WillKnow
    <2>1. CASE u = owner
        <3>1. Len(inbox[u]) + 1 \in DOMAIN inbox'[u]
            BY <1>3, <2>1
        <3>. QED
            BY <1>3, <2>1, <3>1 DEF ToSet
    <2>2. CASE u # owner
        <3>1. \A v \in Terms : Owed(v, u) => Owed(v, u)'
            BY <1>1, <1>8 DEF Owed
        <3>2. ClearEvent \in ToSet(inbox[u]) \/ \E v \in Terms : Owed(v, u)
            BY <1>1, <2>2 DEF Ownership, WillKnow
        <3>. QED
            BY <1>2, <2>2, <3>1, <3>2
    <2>. QED
        BY <2>1, <2>2
<1>. QED
    BY <1>4, <1>6, <1>7, <1>10, <1>11, <1>12, <1>13 DEF Ownership

-----------------------------------------------------------------------------
(* What is highlighted *)

Inv == TypeOK /\ Ownership /\ ShownIsContents /\ Moving

\* The contents are right if they are in each terminal.
LEMMA RightFacts ==
    ShownIsContents <=> \A t \in Terms : Right(term[t])
BY DEF ShownIsContents, Right

\* A step of the terminal t, with its handler: what the other terminals show
\* does not change.
LEMMA HandleFacts ==
    ASSUME TypeOK, ShownIsContents, Moving, NEW t \in Terms, NEW r \in TermState, NEW h \in Handler,
           Handle(t, r, h)
    PROVE  /\ term' \in [Terms -> TermState] /\ acq' \in [Terms -> Handler]
           /\ term'[t] = r /\ acq'[t] = h
           /\ \A u \in Terms : u # t => term'[u] = term[u] /\ acq'[u] = acq[u]
           /\ Right(r) => ShownIsContents'
           /\ (h.step # "idle" => h.end # r.end) => Moving'
<1>1. /\ term' \in [Terms -> TermState] /\ acq' \in [Terms -> Handler]
      /\ term'[t] = r /\ acq'[t] = h
      /\ \A u \in Terms : u # t => term'[u] = term[u] /\ acq'[u] = acq[u]
    BY DEF Handle, TypeOK
<1>2. Right(r) => ShownIsContents'
    BY <1>1 DEF ShownIsContents, Right
<1>3. (h.step # "idle" => h.end # r.end) => Moving'
    BY <1>1 DEF Moving
<1>. QED
    BY <1>1, <1>2, <1>3

LEMMA InitInv ==
    Init => Inv
<1>. SUFFICES ASSUME Init PROVE Inv
    OBVIOUS
<1>1. 0 \in Locs /\ 0 \in Times /\ [i \in 1..Cells |-> 0] \in Texts /\ <<>> \in Seq({0, 1})
    BY SelectionAssumption DEF Locs, Times, Texts
<1>. DEFINE s == [shown |-> FALSE, start |-> 0, end |-> 0, contents |-> <<>>,
                  owns |-> FALSE, down |-> FALSE,
                  text |-> [i \in 1..Cells |-> 0], dirty |-> FALSE]
<1>2. s \in TermState /\ Right(s)
    BY <1>1 DEF TermState, Right
<1>3. term = [t \in Terms |-> s]
    BY DEF Init
<1>. HIDE DEF s
<1>4. TypeOK
    <2>1. /\ term \in [Terms -> TermState] /\ acq \in [Terms -> Handler]
          /\ inbox \in [Terms -> Seq(Events)]
        <3>1. term \in [Terms -> TermState]
            BY <1>2, <1>3
        <3>2. acq \in [Terms -> Handler]
            BY IdleFacts DEF Init
        <3>3. inbox \in [Terms -> Seq(Events)]
            BY DEF Init
        <3>. QED
            BY <3>1, <3>2, <3>3
    <2>2. owner \in Windows /\ since \in Times /\ clock \in Times /\ since <= clock
        BY <1>1 DEF Init, Windows
    <2>. QED
        BY <2>1, <2>2 DEF TypeOK
<1>5. ShownIsContents /\ Moving
    BY <1>2, <1>3, IdleFacts, RightFacts DEF Init, Moving
<1>. QED
    BY <1>4, <1>5, InitOwnership DEF Inv

\* What a step does to what is highlighted: the type invariant, the contents,
\* the handlers' targets, and that output spares the selection.
Shows ==
    /\ TypeOK' /\ ShownIsContents' /\ Moving'
    /\ \A t \in Terms : Spares(term[t], term'[t]) \/ inbox'[t] # inbox[t]

\* A terminal that does not change spares its selection.
LEMMA SameSpares ==
    ASSUME NEW s, NEW d, d = s
    PROVE  Spares(s, d)
BY DEF Spares

LEMMA ShowsAfterServed ==
    ASSUME Inv, NEW t \in Terms, Served(t)
    PROVE  Shows
<1>1. /\ inbox[t] # <<>> /\ inbox[t] \in Seq(Events)
      /\ inbox' = [inbox EXCEPT ![t] = Tail(@)]
      /\ UNCHANGED <<owner, since, clock>>
    BY DEF Served, Takes, Inv, TypeOK
<1>2. PICK r \in TermState, h \in Handler :
          /\ Handle(t, r, h) /\ Right(r)
          /\ h = Idle \/ Asks(r, h, Head(inbox[t]).time)
    BY DEF Served, Updated
<1>3. h.step # "idle" => h.end # r.end
    BY <1>2, IdleFacts DEF Asks
<1>4. Tail(inbox[t]) \in Seq(Events) /\ Tail(inbox[t]) # inbox[t]
    <2>1. /\ Tail(inbox[t]) \in Seq(Events) /\ Len(inbox[t]) \in Nat
          /\ Len(Tail(inbox[t])) = Len(inbox[t]) - 1
        BY <1>1, TailFacts
    <2>2. Len(Tail(inbox[t])) # Len(inbox[t])
        BY <2>1
    <2>. QED
        BY <2>1, <2>2
<1>5. ShownIsContents' /\ Moving' /\ TypeOK'
    BY <1>1, <1>2, <1>3, <1>4, HandleFacts DEF Inv, TypeOK
<1>6. ASSUME NEW u \in Terms
      PROVE  Spares(term[u], term'[u]) \/ inbox'[u] # inbox[u]
    BY <1>1, <1>2, <1>4, HandleFacts, SameSpares DEF Inv, TypeOK
<1>. QED
    BY <1>5, <1>6 DEF Shows

LEMMA ShowsAfterClear ==
    ASSUME Inv, NEW t \in Terms, Clear(t)
    PROVE  Shows
<1>1. /\ inbox[t] # <<>> /\ inbox[t] \in Seq(Events) /\ term[t] \in TermState
      /\ inbox' = [inbox EXCEPT ![t] = Tail(@)]
      /\ UNCHANGED <<owner, since, clock>>
    BY DEF Clear, Takes, Inv, TypeOK
<1>. DEFINE s == [term[t] EXCEPT !.shown = FALSE, !.owns = FALSE]
<1>2. PICK f \in Flushed(s) : Handle(t, f, Idle)
    BY DEF Clear
<1>3. s \in TermState /\ Right(s)
    BY <1>1 DEF TermState, Right
<1>. HIDE DEF s
<1>4. f \in TermState /\ Right(f)
    BY <1>2, <1>3, FlushedFacts
<1>5. Tail(inbox[t]) \in Seq(Events) /\ Tail(inbox[t]) # inbox[t]
    <2>1. /\ Tail(inbox[t]) \in Seq(Events) /\ Len(inbox[t]) \in Nat
          /\ Len(Tail(inbox[t])) = Len(inbox[t]) - 1
        BY <1>1, TailFacts
    <2>2. Len(Tail(inbox[t])) # Len(inbox[t])
        BY <2>1
    <2>. QED
        BY <2>1, <2>2
<1>6. ShownIsContents' /\ Moving' /\ TypeOK'
    BY <1>1, <1>2, <1>4, <1>5, HandleFacts, IdleFacts DEF Inv, TypeOK
<1>7. ASSUME NEW u \in Terms
      PROVE  Spares(term[u], term'[u]) \/ inbox'[u] # inbox[u]
    BY <1>1, <1>2, <1>4, <1>5, HandleFacts, IdleFacts, SameSpares DEF Inv, TypeOK
<1>. QED
    BY <1>6, <1>7 DEF Shows

\* The end of the selection moves when a handler finishes.
LEMMA ShowsAfterFinished ==
    ASSUME Inv, NEW t \in Terms, Finished(t), acq[t].step # "idle",
           inbox' \in [Terms -> Seq(Events)], UNCHANGED <<owner, since, clock>>
    PROVE  Shows
<1>1. PICK r \in TermState : Handle(t, r, Idle) /\ Right(r) /\ r.end = acq[t].end
    BY DEF Finished
<1>2. /\ term' \in [Terms -> TermState] /\ acq' \in [Terms -> Handler]
      /\ term'[t] = r /\ \A u \in Terms : u # t => term'[u] = term[u]
      /\ ShownIsContents' /\ Moving'
    BY <1>1, HandleFacts, IdleFacts DEF Inv
<1>3. TypeOK'
    BY <1>2 DEF Inv, TypeOK
<1>4. r.end # term[t].end
    BY <1>1 DEF Inv, Moving
<1>5. ASSUME NEW u \in Terms
      PROVE  Spares(term[u], term'[u])
    <2>1. CASE u = t
        BY <1>2, <1>4, <2>1 DEF Spares
    <2>2. CASE u # t
        BY <1>2, <2>2, SameSpares
    <2>. QED
        BY <2>1, <2>2
<1>. QED
    BY <1>2, <1>3, <1>5 DEF Shows

\* Only Drawing decides whether to keep the selection.
LEMMA ShowsAfterRedrawn ==
    ASSUME Inv, NEW t \in Terms, Redrawn(t)
    PROVE  Shows
<1>1. PICK r \in TermState :
          /\ Handle(t, r, Idle)
          /\ Right(term[t]) => Right(r)
          /\ Spares(term[t], r)
    BY DEF Redrawn
<1>2. UNCHANGED <<inbox, owner, since, clock>> /\ Right(term[t])
    BY RightFacts DEF Redrawn, Inv
<1>3. /\ term' \in [Terms -> TermState] /\ acq' \in [Terms -> Handler]
      /\ term'[t] = r /\ \A u \in Terms : u # t => term'[u] = term[u]
      /\ ShownIsContents' /\ Moving'
    BY <1>1, <1>2, HandleFacts, IdleFacts DEF Inv
<1>4. TypeOK'
    BY <1>2, <1>3 DEF Inv, TypeOK
<1>5. ASSUME NEW u \in Terms
      PROVE  Spares(term[u], term'[u])
    BY <1>1, <1>3, SameSpares
<1>. QED
    BY <1>3, <1>4, <1>5 DEF Shows

\* PRIMARY changes hands, or the handler asks who has it.
LEMMA ShowsAfterSetOwner ==
    ASSUME Inv, NEW t \in Terms, SetOwner(t)
    PROVE  Shows
<1>1. /\ acq[t].step = "set" /\ acq' = [acq EXCEPT ![t].step = "ask"]
      /\ UNCHANGED <<term, inbox, clock>>
    BY DEF SetOwner
<1>2. /\ acq' \in [Terms -> Handler] /\ acq'[t].end = acq[t].end
      /\ \A u \in Terms : u # t => acq'[u] = acq[u]
      /\ acq[t].time \in Times /\ since \in Times /\ clock \in Times /\ since <= clock
    BY <1>1 DEF Inv, TypeOK, Handler
<1>3. acq[t].time <= clock
    BY <1>1 DEF Inv, Ownership, TakingFrom
<1>4. TypeOK'
    <2>1. \/ owner' = t /\ since' = acq[t].time
          \/ owner' = owner /\ since' = since
        BY DEF SetOwner
    <2>. QED
        BY <1>1, <1>2, <1>3, <2>1 DEF Inv, TypeOK, Windows
<1>5. ShownIsContents' /\ Moving'
    BY <1>1, <1>2 DEF Inv, ShownIsContents, Moving
<1>6. \A u \in Terms : Spares(term[u], term'[u])
    BY <1>1, SameSpares
<1>. QED
    BY <1>4, <1>5, <1>6 DEF Shows

LEMMA ShowsAfterAskOwner ==
    ASSUME Inv, NEW t \in Terms, AskOwner(t)
    PROVE  Shows
<1>1. /\ acq[t].step = "ask" /\ term[t] \in TermState /\ acq[t] \in Handler /\ Right(term[t])
      /\ UNCHANGED <<inbox, owner, since, clock>>
    BY RightFacts DEF AskOwner, Inv, TypeOK
<1>2. CASE owner = t
    <2>. DEFINE r == [term[t] EXCEPT !.owns = TRUE]
                h == [acq[t] EXCEPT !.step = "tell"]
    <2>1. Handle(t, r, h)
        BY <1>2 DEF AskOwner
    <2>2. /\ r \in TermState /\ Right(r) /\ h \in Handler /\ h.end # r.end
          /\ Spares(term[t], r)
        BY <1>1 DEF TermState, Handler, Right, Spares, Inv, Moving
    <2>. HIDE DEF r, h
    <2>3. /\ term' \in [Terms -> TermState] /\ acq' \in [Terms -> Handler]
          /\ term'[t] = r /\ \A u \in Terms : u # t => term'[u] = term[u]
          /\ ShownIsContents' /\ Moving'
        BY <2>1, <2>2, HandleFacts DEF Inv
    <2>4. TypeOK'
        BY <1>1, <2>3 DEF Inv, TypeOK
    <2>5. ASSUME NEW u \in Terms
          PROVE  Spares(term[u], term'[u])
        BY <2>2, <2>3, SameSpares
    <2>. QED
        BY <2>3, <2>4, <2>5 DEF Shows
<1>3. CASE owner # t
    <2>1. Finished(t)
        BY <1>3, FinishFinishes DEF AskOwner, Inv
    <2>2. inbox' \in [Terms -> Seq(Events)]
        BY <1>1 DEF Inv, TypeOK
    <2>. QED
        BY <1>1, <2>1, <2>2, ShowsAfterFinished
<1>. QED
    BY <1>2, <1>3

LEMMA ShowsAfterTellOldOwner ==
    ASSUME Inv, NEW t \in Terms, TellOldOwner(t)
    PROVE  Shows
<1>1. acq[t].step = "tell" /\ Finished(t) /\ UNCHANGED <<owner, since, clock>>
    BY FinishFinishes DEF TellOldOwner, Inv
<1>2. inbox' \in [Terms -> Seq(Events)]
    <2>1. \A u \in Terms : inbox[u] \in Seq(Events) /\ Append(inbox[u], ClearEvent) \in Seq(Events)
        BY ClearEventFacts, AppendFacts DEF Inv, TypeOK
    <2>. QED
        BY <2>1 DEF TellOldOwner
<1>. QED
    BY <1>1, <1>2, ShowsAfterFinished

\* A step that changes no terminal and no handler.
LEMMA ShowsAfterOthers ==
    ASSUME Inv, TypeOK', UNCHANGED <<term, acq>>
    PROVE  Shows
<1>1. ShownIsContents' /\ Moving'
    BY DEF Inv, ShownIsContents, Moving
<1>. QED
    BY <1>1, SameSpares DEF Shows

\* Every step.
LEMMA StepFacts ==
    ASSUME Inv, [Next]_vars
    PROVE  Inv' /\ Shows
<1>1. TypeOK /\ Ownership /\ ShownIsContents
    BY DEF Inv
<1>2. ASSUME NEW t \in Terms, Press(t) \/ Extend(t) \/ Release(t)
      PROVE  Ownership' /\ Shows
    <2>1. Served(t)
        BY <1>1, <1>2, PressServes, ExtendServes, ReleaseServes
    <2>. QED
        BY <1>1, <2>1, OwnershipAfterServed, ShowsAfterServed
<1>3. ASSUME NEW t \in Terms, Clear(t)
      PROVE  Ownership' /\ Shows
    BY <1>1, <1>3, OwnershipAfterClear, ShowsAfterClear
<1>4. ASSUME NEW t \in Terms, SetOwner(t)
      PROVE  Ownership' /\ Shows
    BY <1>1, <1>4, OwnershipAfterSetOwner, ShowsAfterSetOwner
<1>5. ASSUME NEW t \in Terms, AskOwner(t)
      PROVE  Ownership' /\ Shows
    BY <1>1, <1>5, OwnershipAfterAskOwner, ShowsAfterAskOwner
<1>6. ASSUME NEW t \in Terms, TellOldOwner(t)
      PROVE  Ownership' /\ Shows
    BY <1>1, <1>6, OwnershipAfterTellOldOwner, ShowsAfterTellOldOwner
<1>7. ASSUME NEW t \in Terms, DelayedRedraw(t) \/ \E c \in Rewritten : Output(t, c)
      PROVE  Ownership' /\ Shows
    <2>1. Redrawn(t)
        BY <1>1, <1>7, RedrawsFacts
    <2>. QED
        BY <1>1, <2>1, OwnershipAfterRedrawn, ShowsAfterRedrawn
<1>8. ASSUME NEW t \in Terms, NEW type \in {"press", "motion", "release", "extend"},
             NEW at \in Pointers, UserActs(t, type, at)
      PROVE  Ownership' /\ Shows
    <2>1. TypeOK' /\ Ownership'
        BY <1>1, <1>8, OwnershipAfterUserActs
    <2>. QED
        BY <1>8, <2>1, ShowsAfterOthers DEF UserActs
<1>9. ASSUME OtherSelects
      PROVE  Ownership' /\ Shows
    <2>1. TypeOK' /\ Ownership'
        BY <1>1, <1>9, OwnershipAfterOtherSelects
    <2>. QED
        BY <1>9, <2>1, ShowsAfterOthers DEF OtherSelects
<1>10. ASSUME UNCHANGED vars
       PROVE  Ownership' /\ Shows
    <2>1. TypeOK'
        BY <1>1, <1>10 DEF vars, TypeOK
    <2>2. \A u, v \in Terms : Clears(u)' = Clears(u) /\ (Owed(u, v)' <=> Owed(u, v))
        BY <1>10 DEF vars, Clears, Owed
    <2>3. Ownership'
        BY <1>1, <1>10, <2>2
        DEF vars, Ownership, OneHandler, InThePast, OwnerKnows, OwedOnce, TakingFrom, Took,
            ClearIsLate, WillKnow
    <2>. QED
        BY <1>10, <2>1, <2>3, ShowsAfterOthers DEF vars
<1>11. Ownership' /\ Shows
    <2>1. CASE Process
        BY <1>2, <1>3, <1>4, <1>5, <1>6, <1>7, <2>1 DEF Process
    <2>2. CASE Environment
        BY <1>7, <1>8, <1>9, <2>2 DEF Environment
    <2>. QED
        BY <1>10, <2>1, <2>2 DEF Next
<1>. QED
    BY <1>11 DEF Inv, Shows

LEMMA InvHolds ==
    Spec => []Inv
<1>1. Inv /\ [Next]_vars => Inv'
    BY StepFacts
<1>. QED
    BY InitInv, <1>1, PTL DEF Spec

-----------------------------------------------------------------------------
(* The theorems *)

\* What the terminals believe of PRIMARY is right, or about to be put right:
\* a terminal that believes it owns PRIMARY does, or will hear that it does
\* not, unless another client took PRIMARY under a handler's hands; and the
\* owner always knows.
THEOREM OwnershipIsKnown == Spec => []OwnershipKnown
<1>1. Inv => OwnershipKnown
    <2>. SUFFICES ASSUME Inv, NEW t \in Terms, term[t].owns, owner # t, ~robbed
                  PROVE  ClearIsComing(t)
        BY DEF OwnershipKnown, OwnsOnlyIfOwner, Inv, Ownership
    <2>1. ClearEvent \in ToSet(inbox[t]) \/ \E u \in Terms : Owed(u, t)
        BY DEF Inv, Ownership, WillKnow
    <2>. QED
        BY <2>1 DEF ClearIsComing, Owed
<1>. QED
    BY <1>1, InvHolds, PTL

\* What is highlighted is what a paste gets.
THEOREM HighlightIsContents == Spec => []ShownIsContents
<1>1. Inv => ShownIsContents
    BY DEF Inv
<1>. QED
    BY <1>1, InvHolds, PTL

\* Output of the child takes a selection away only if it changed the
\* selected text.
THEOREM OutputSpares == Spec => OutputSparesSelection
<1>1. Inv /\ [Next]_vars =>
          [\A t \in Terms :
              LET s == term[t]
              IN  s.shown /\ s.start < s.end /\ term'[t].end = s.end /\ ~term'[t].shown
                  => \/ Plaintext(term'[t].text, s.start, s.end) # s.contents
                     \/ inbox'[t] # inbox[t]]_vars
    <2>. SUFFICES ASSUME Inv, [Next]_vars, NEW t \in Terms,
                         Spares(term[t], term'[t]) \/ inbox'[t] # inbox[t],
                         term[t].shown, term[t].start < term[t].end,
                         term'[t].end = term[t].end, ~term'[t].shown
                  PROVE  \/ Plaintext(term'[t].text, term[t].start, term[t].end) # term[t].contents
                         \/ inbox'[t] # inbox[t]
        BY StepFacts DEF Shows
    <2>. QED
        BY DEF Spares
<1>. QED
    BY <1>1, InvHolds, PTL DEF Spec, OutputSparesSelection

-----------------------------------------------------------------------------
(* The word under a double click: places *)

\* Rows do not overlap.
LEMMA RowsApart ==
    ASSUME NEW r \in Int, NEW s \in Int, r < s, NEW n \in Nat
    PROVE  (r + 1) * n <= s * n
<1>. DEFINE d == s - (r + 1)
<1>1. d \in Nat /\ s = (r + 1) + d
    OBVIOUS
<1>. HIDE DEF d
<1>2. s * n = (r + 1) * n + d * n
    BY <1>1
<1>3. d * n >= 0
    BY <1>1
<1>4. (r + 1) * n \in Int /\ d * n \in Int
    BY <1>1
<1>. QED
    BY <1>2, <1>3, <1>4

LEMMA SizeFacts ==
    /\ Cols \in Nat \ {0} /\ ScreenRows \in Nat \ {0} /\ RowTop \in Nat
    /\ RowIds \subseteq Int /\ RowIds = -RowTop..(ScreenRows - 1)
BY WordSelectionAssumption DEF RowIds

\* A place tells the row and the column.
LEMMA PlaceFacts ==
    ASSUME NEW r \in RowIds, NEW x \in Columns
    PROVE  /\ Place(r, x) \in Places
           /\ RowOf(Place(r, x)) = r
           /\ CharAt(Place(r, x)) = grid[r][x]
<1>1. r \in Int /\ -RowTop <= r /\ r < ScreenRows /\ x \in Int /\ 0 <= x /\ x < Cols
    BY SizeFacts DEF Columns
<1>. DEFINE a == r * Cols
            p == Place(r, x)
<1>2. a \in Int /\ (r + 1) * Cols = a + Cols /\ p = a + x
    BY <1>1, SizeFacts DEF Place
<1>3. \A s \in RowIds : s * Cols <= p /\ p < (s + 1) * Cols => s = r
    <2>. SUFFICES ASSUME NEW s \in RowIds, s * Cols <= p, p < (s + 1) * Cols
                  PROVE  s = r
        OBVIOUS
    <2>. DEFINE b == s * Cols
    <2>1. s \in Int /\ b \in Int /\ (s + 1) * Cols = b + Cols
        BY SizeFacts
    <2>2. s < r => b + Cols <= a
        <3>1. s < r => (s + 1) * Cols <= r * Cols
            BY <1>1, <2>1, SizeFacts, RowsApart
        <3>. QED
            BY <2>1, <3>1
    <2>3. r < s => a + Cols <= b
        <3>1. r < s => (r + 1) * Cols <= s * Cols
            BY <1>1, <2>1, SizeFacts, RowsApart
        <3>. QED
            BY <1>2, <3>1
    <2>4. b <= p /\ p < b + Cols
        BY <2>1
    <2>. HIDE DEF a, b, p
    <2>. QED
        BY <1>1, <1>2, <2>1, <2>2, <2>3, <2>4, SizeFacts
<1>4. r * Cols <= p /\ p < (r + 1) * Cols
    <2>1. a <= p /\ p < a + Cols
        <3>. HIDE DEF a, p
        <3>. QED
            BY <1>1, <1>2, SizeFacts
    <2>. QED
        BY <1>2, <2>1
<1>5. RowOf(p) = r
    <2>. HIDE DEF p
    <2>. QED
        BY <1>3, <1>4 DEF RowOf
<1>6. p - RowOf(p) * Cols = x
    <2>1. RowOf(p) * Cols = a
        BY <1>5
    <2>. HIDE DEF p, a
    <2>. QED
        BY <1>1, <1>2, <2>1
<1>7. p \in Places
    <2>. DEFINE low == RowTop * Cols
                high == ScreenRows * Cols
    <2>1. low \in Int /\ high \in Int
        BY SizeFacts
    <2>2. (-RowTop) * Cols = -low
        BY SizeFacts
    <2>3. -low <= a
        <3>1. -RowTop < r => (-RowTop + 1) * Cols <= a
            BY <1>1, SizeFacts, RowsApart
        <3>2. (-RowTop + 1) * Cols = -low + Cols
            BY SizeFacts
        <3>3. -RowTop = r => a = -low
            BY <2>2
        <3>4. -RowTop < r \/ -RowTop = r
            BY <1>1, SizeFacts
        <3>. HIDE DEF a, low
        <3>. QED
            BY <1>2, <2>1, <3>1, <3>2, <3>3, <3>4, SizeFacts
    <2>4. a + Cols <= high
        <3>1. (r + 1) * Cols <= high
            BY <1>1, SizeFacts, RowsApart
        <3>. QED
            BY <1>2, <3>1
    <2>5. Places = -low..(high - 1)
        BY DEF Places
    <2>. HIDE DEF a, low, high, p
    <2>. QED
        BY <1>1, <1>2, <2>1, <2>3, <2>4, <2>5, SizeFacts
<1>8. CharAt(p) = grid[r][x]
    <2>. HIDE DEF p, a
    <2>. QED
        BY <1>5, <1>6, Zenon DEF CharAt
<1>. QED
    BY <1>5, <1>7, <1>8

\* The places on both sides of a row's end, and inside of a row.
LEMMA BeforeFacts ==
    ASSUME NEW r \in RowIds, NEW x \in Columns
    PROVE  /\ x > 0 => Place(r, x - 1) = Place(r, x) - 1 /\ Joined(Place(r, x) - 1)
           /\ r - 1 \in RowIds =>
                 /\ Place(r - 1, Cols - 1) = Place(r, 0) - 1
                 /\ Joined(Place(r, 0) - 1) <=> r - 1 \in wrapped
           /\ r - 1 \notin RowIds => Place(r, 0) - 1 \notin Places
<1>1. r \in Int /\ x \in Int /\ x < Cols /\ r * Cols \in Int /\ 0 \in Columns /\ Cols - 1 \in Columns
    BY SizeFacts DEF Columns
<1>2. ASSUME x > 0
      PROVE  Place(r, x - 1) = Place(r, x) - 1 /\ Joined(Place(r, x) - 1)
    <2>1. x - 1 \in Columns
        BY <1>2, SizeFacts DEF Columns
    <2>2. Place(r, x - 1) = Place(r, x) - 1 /\ (Place(r, x) - 1) + 1 = Place(r, x)
        BY <1>1 DEF Place
    <2>3. RowOf(Place(r, x) - 1) = r /\ RowOf(Place(r, x)) = r
        <3>1. RowOf(Place(r, x - 1)) = r /\ RowOf(Place(r, x)) = r
            BY <2>1, PlaceFacts
        <3>. QED
            BY <2>2, <3>1
    <2>4. RowOf((Place(r, x) - 1) + 1) = r
        BY <2>2, <2>3
    <2>. QED
        BY <2>2, <2>3, <2>4 DEF Joined
<1>3. ASSUME r - 1 \in RowIds
      PROVE  /\ Place(r - 1, Cols - 1) = Place(r, 0) - 1
             /\ Joined(Place(r, 0) - 1) <=> r - 1 \in wrapped
    <2>1. (r - 1) * Cols = r * Cols - Cols
        BY <1>1, SizeFacts
    <2>2. Place(r - 1, Cols - 1) = Place(r, 0) - 1 /\ (Place(r, 0) - 1) + 1 = Place(r, 0)
        BY <1>1, <2>1, SizeFacts DEF Place
    <2>3. RowOf(Place(r - 1, Cols - 1)) = r - 1 /\ RowOf(Place(r, 0)) = r
        BY <1>1, <1>3, PlaceFacts
    <2>4. RowOf(Place(r, 0) - 1) = r - 1 /\ RowOf((Place(r, 0) - 1) + 1) = r
        BY <2>2, <2>3
    <2>5. r - 1 # r
        BY <1>1
    <2>. QED
        BY <2>2, <2>4, <2>5 DEF Joined
<1>4. ASSUME r - 1 \notin RowIds
      PROVE  Place(r, 0) - 1 \notin Places
    <2>1. r = -RowTop
        BY <1>1, <1>4, SizeFacts
    <2>2. r * Cols = -(RowTop * Cols) /\ RowTop * Cols \in Int
        BY <2>1, SizeFacts
    <2>. QED
        BY <1>1, <2>2 DEF Place, Places
<1>. QED
    BY <1>2, <1>3, <1>4

LEMMA AfterFacts ==
    ASSUME NEW r \in RowIds, NEW x \in Columns
    PROVE  /\ x + 1 < Cols => Place(r, x + 1) = Place(r, x) + 1 /\ Joined(Place(r, x))
           /\ ~(x + 1 < Cols) => x = Cols - 1 /\ Place(r, x + 1) = Place(r, x) + 1
           /\ r + 1 \in RowIds =>
                 /\ Place(r + 1, 0) = Place(r, Cols - 1) + 1
                 /\ Joined(Place(r, Cols - 1)) <=> r \in wrapped
           /\ r + 1 \notin RowIds => Place(r, Cols - 1) + 1 \notin Places
<1>1. r \in Int /\ x \in Int /\ 0 <= x /\ x < Cols /\ r * Cols \in Int /\ 0 \in Columns
      /\ Cols - 1 \in Columns
    BY SizeFacts DEF Columns
<1>2. Place(r, x + 1) = Place(r, x) + 1 /\ Place(r, x) \in Int /\ Place(r, Cols - 1) \in Int
    BY <1>1, SizeFacts DEF Place
<1>3. ASSUME x + 1 < Cols
      PROVE  Joined(Place(r, x))
    <2>1. x + 1 \in Columns /\ x + 1 > 0
        BY <1>1, <1>3, SizeFacts DEF Columns
    <2>2. Joined(Place(r, x + 1) - 1)
        BY <2>1, BeforeFacts
    <2>3. Place(r, x + 1) - 1 = Place(r, x)
        BY <1>2
    <2>. QED
        BY <2>2, <2>3
<1>4. ASSUME r + 1 \in RowIds
      PROVE  /\ Place(r + 1, 0) = Place(r, Cols - 1) + 1
             /\ Joined(Place(r, Cols - 1)) <=> r \in wrapped
    <2>. DEFINE s == r + 1
    <2>1. s \in RowIds /\ s - 1 = r
        BY <1>1, <1>4
    <2>. HIDE DEF s
    <2>2. /\ Place(s - 1, Cols - 1) = Place(s, 0) - 1
          /\ Joined(Place(s, 0) - 1) <=> s - 1 \in wrapped
        BY <1>1, <2>1, BeforeFacts
    <2>3. Place(s, 0) \in Int
        BY <2>1, SizeFacts DEF Place
    <2>4. Place(r, Cols - 1) = Place(s, 0) - 1 /\ Place(s, 0) = Place(r, Cols - 1) + 1
        BY <2>1, <2>2, <2>3
    <2>. QED
        BY <2>1, <2>2, <2>4 DEF s
<1>5. ASSUME r + 1 \notin RowIds
      PROVE  Place(r, Cols - 1) + 1 \notin Places
    <2>1. r = ScreenRows - 1
        BY <1>1, <1>5, SizeFacts
    <2>2. ScreenRows * Cols = r * Cols + Cols /\ RowTop * Cols \in Int
        BY <1>1, <2>1, SizeFacts
    <2>. QED
        BY <1>1, <2>2, SizeFacts DEF Place, Places
<1>. QED
    BY <1>1, <1>2, <1>3, <1>4, <1>5, SizeFacts

\* The word characters are the cells of words: the second column of a wide one
\* follows the first, in its row.
LEMMA WordCharFacts ==
    ASSUME WordTypeOK, NEW r \in RowIds, NEW x \in Columns
    PROVE  IsWordChar(r, x) <=> WordAt(Place(r, x))
<1>1. r \in Int /\ x \in Int /\ 0 <= x /\ x < Cols /\ Cols - 1 \in Columns
    BY SizeFacts DEF Columns
<1>2. \A s \in RowIds : grid[s] \in Contents
    BY DEF WordTypeOK
<1>3. \A s \in RowIds : /\ \A y \in Columns : grid[s][y] = "tail" <=> y > 0 /\ grid[s][y - 1] = "wide"
                        /\ grid[s][Cols - 1] # "wide"
    BY <1>2 DEF Contents
<1>4. PrevCell(r, x) = "wide" <=>
          grid[r][x] = "tail" \/ (x = 0 /\ grid[r][x] = "wide" /\ ~(r > 0 /\ r - 1 \in wrapped))
    <2>1. r - 1 \in wrapped => r - 1 \in RowIds
        BY DEF WordTypeOK
    <2>2. CASE x > 0
        BY <1>1, <1>3, <2>2 DEF PrevCell
    <2>3. CASE x = 0
        BY <1>1, <1>3, <2>1, <2>3 DEF PrevCell
    <2>. QED
        BY <1>1, <2>2, <2>3
<1>5. WordAt(Place(r, x)) <=> grid[r][x] \in {"letter", "combined", "wide", "tail"}
    BY PlaceFacts DEF WordAt
<1>. QED
    BY <1>4, <1>5 DEF IsWordChar

-----------------------------------------------------------------------------
(* The word under a double click: the walks *)

Cursor == Place(row, col)

\* The places are of words, and each is of one line with the next.
Linked(from, to) == \A i \in from..(to - 1) : WordAt(i) /\ Joined(i)

\* The word goes no further back.
BeginsHere == From - 1 \in Places => ~(WordAt(From - 1) /\ Joined(From - 1))

\* All between the cell to be looked at and the click is of the word.
ToTheLeft ==
    /\ row \in RowIds /\ col \in Columns
    /\ \/ Cursor = Clicked /\ first = click
       \/ /\ Cursor < Clicked /\ From = Cursor + 1
          /\ Joined(Cursor) /\ Linked(Cursor + 1, Clicked) /\ WordAt(Clicked)

ToTheRight ==
    /\ row \in RowIds /\ col \in Columns
    /\ From <= Clicked /\ Clicked <= Cursor /\ Linked(From, Cursor)
    /\ Clicked < Cursor => WordAt(Clicked)
    /\ IF WordAt(Clicked) THEN BeginsHere ELSE From = Clicked

WordIInv ==
    /\ WordTypeOK
    /\ ScreenRows - 1 \notin wrapped
    /\ phase = "left" => ToTheLeft
    /\ phase = "right" => ToTheRight
    /\ phase = "done" => row \in RowIds /\ SelectsWord

LEMMA ClickFacts ==
    ASSUME WordTypeOK
    PROVE  /\ click.row \in RowIds /\ click.col \in Columns /\ Clicked \in Int /\ From \in Int
           /\ \A r \in RowIds, x \in Columns : Place(r, x) \in Int
<1>1. \A r \in RowIds, x \in Columns : Place(r, x) \in Int
    BY SizeFacts DEF Place, Columns
<1>2. click \in GridLocs /\ first \in GridLocs
    BY DEF WordTypeOK
<1>. QED
    BY <1>1, <1>2 DEF GridLocs, Clicked, From

LEMMA WordInitially ==
    ASSUME ~LastWraps, WordInit
    PROVE  WordIInv
<1>1. click \in GridLocs /\ row \in RowIds /\ col \in Columns /\ wrapped \subseteq RowIds
    BY DEF WordInit, GridLocs
<1>2. row \in -(RowTop + 1)..ScreenRows /\ col \in -1..Cols
    BY <1>1, SizeFacts DEF Columns
<1>3. WordTypeOK
    BY <1>1, <1>2 DEF WordInit, WordTypeOK
<1>4. ToTheLeft
    BY <1>1 DEF WordInit, ToTheLeft, Cursor, Clicked
<1>. QED
    BY <1>3, <1>4 DEF WordIInv, WordInit

\* The grid does not change under the walk.
LEMMA SameText ==
    ASSUME UNCHANGED <<grid, wrapped, click>>
    PROVE  \A i : (WordAt(i)' <=> WordAt(i)) /\ (Joined(i)' <=> Joined(i)) /\ Clicked' = Clicked
BY DEF WordAt, CharAt, RowOf, Joined, Clicked, Place

LEMMA LeftKeeps ==
    ASSUME WordIInv, WalkLeft
    PROVE  WordIInv'
<1>1. phase = "left" /\ ToTheLeft /\ WordTypeOK /\ UNCHANGED <<grid, wrapped, click>>
    BY DEF WordIInv, WalkLeft
<1>2. row \in RowIds /\ col \in Columns /\ Cursor \in Int /\ Clicked \in Int /\ From \in Int
    BY <1>1, ClickFacts DEF ToTheLeft, Cursor
<1>3. IsWordChar(row, col) <=> WordAt(Cursor)
    BY <1>1, <1>2, WordCharFacts DEF Cursor
<1>4. \A i : (WordAt(i)' <=> WordAt(i)) /\ (Joined(i)' <=> Joined(i)) /\ Clicked' = Clicked
    BY <1>1, SameText
<1>5. row \in Int /\ col \in Int /\ 0 <= col /\ 0 \in Columns /\ Cols - 1 \in Columns
    BY <1>2, SizeFacts DEF Columns
\* What is known when the walk ends.
<1>6. ASSUME Turn, first' \in GridLocs, From' <= Clicked, Linked(From', Clicked),
             IF WordAt(Clicked) THEN From' - 1 \in Places => ~(WordAt(From' - 1) /\ Joined(From' - 1))
             ELSE From' = Clicked
      PROVE  WordIInv'
    <2>1. /\ phase' = "right" /\ row' = click.row /\ col' = click.col
          /\ row' \in RowIds /\ col' \in Columns
        BY <1>1, <1>6, ClickFacts DEF Turn
    <2>2. Cursor' = Clicked
        BY <2>1 DEF Cursor, Clicked
    <2>3. WordTypeOK'
        <3>1. row' \in -(RowTop + 1)..ScreenRows /\ col' \in -1..Cols
            BY <2>1, SizeFacts DEF Columns
        <3>. QED
            BY <1>1, <1>6, <2>1, <3>1 DEF WordTypeOK
    <2>4. ToTheRight'
        BY <1>2, <1>4, <1>6, <2>1, <2>2 DEF ToTheRight, Linked, BeginsHere
    <2>. QED
        BY <1>1, <2>1, <2>3, <2>4 DEF WordIInv
<1>7. CASE ~IsWordChar(row, col)
    <2>1. Turn /\ first' = first
        BY <1>7 DEF WalkLeft
    <2>2. From' = From /\ first' \in GridLocs
        BY <1>1, <2>1 DEF From, Place, WordTypeOK
    <2>3. CASE Cursor = Clicked /\ first = click
        <3>1. From = Clicked /\ ~WordAt(Clicked)
            BY <1>3, <1>7, <2>3 DEF From, Clicked
        <3>2. Linked(From, Clicked)
            BY <1>2, <3>1 DEF Linked
        <3>. QED
            BY <1>2, <1>6, <2>1, <2>2, <3>1, <3>2
    <2>4. CASE Cursor # Clicked
        <3>1. Cursor < Clicked /\ From = Cursor + 1 /\ Linked(From, Clicked) /\ WordAt(Clicked)
            BY <1>1, <2>4 DEF ToTheLeft
        <3>2. From - 1 = Cursor /\ From <= Clicked
            BY <1>2, <3>1
        <3>3. ~WordAt(From - 1)
            BY <1>3, <1>7, <3>2
        <3>. QED
            BY <1>6, <2>1, <2>2, <3>1, <3>2, <3>3
    <2>. QED
        BY <1>1, <1>2, <2>3, <2>4 DEF ToTheLeft
<1>8. CASE IsWordChar(row, col)
    <2>1. first' = [row |-> row, col |-> col] /\ first' \in GridLocs
        BY <1>2, <1>8 DEF WalkLeft, GridLocs
    <2>2. From' = Cursor
        BY <2>1 DEF From, Cursor, Place
    <2>3. Cursor <= Clicked /\ Linked(Cursor, Clicked) /\ WordAt(Clicked)
        <3>1. WordAt(Cursor)
            BY <1>3, <1>8
        <3>2. CASE Cursor = Clicked
            BY <1>2, <3>1, <3>2 DEF Linked
        <3>3. CASE Cursor # Clicked
            <4>1. /\ Cursor < Clicked /\ Joined(Cursor)
                  /\ Linked(Cursor + 1, Clicked) /\ WordAt(Clicked)
                BY <1>1, <3>3 DEF ToTheLeft
            <4>. QED
                BY <1>2, <3>1, <4>1 DEF Linked
        <3>. QED
            BY <3>2, <3>3
    \* One cell further.
    <2>4. ASSUME row' \in RowIds, col' \in Columns, phase' = phase,
                 Cursor' = Cursor - 1, Joined(Cursor - 1)
          PROVE  WordIInv'
        <3>1. WordTypeOK'
            <4>1. row' \in -(RowTop + 1)..ScreenRows /\ col' \in -1..Cols
                BY <2>4, SizeFacts DEF Columns
            <4>. QED
                BY <1>1, <2>1, <2>4, <4>1 DEF WordTypeOK
        <3>2. Cursor' < Clicked /\ From' = Cursor' + 1 /\ Cursor' + 1 = Cursor
            BY <1>2, <2>2, <2>3, <2>4
        <3>3. ToTheLeft'
            BY <1>4, <2>3, <2>4, <3>2 DEF ToTheLeft, Linked
        <3>. QED
            BY <1>1, <2>4, <3>1, <3>3 DEF WordIInv
    <2>5. CASE col > 0
        <3>1. col' = col - 1 /\ row' = row /\ phase' = phase
            BY <1>8, <2>5 DEF WalkLeft
        <3>2. col - 1 \in Columns
            BY <1>2, <2>5, SizeFacts DEF Columns
        <3>3. Place(row, col - 1) = Cursor - 1 /\ Joined(Cursor - 1)
            BY <1>2, <2>5, BeforeFacts DEF Cursor
        <3>4. Cursor' = Cursor - 1
            <4>1. Cursor' = Place(row, col - 1)
                BY <3>1 DEF Cursor, Place
            <4>. QED
                BY <3>3, <4>1
        <3>. QED
            BY <1>2, <2>4, <3>1, <3>2, <3>3, <3>4
    <2>6. CASE ~(col > 0) /\ row - 1 \in RowIds /\ row - 1 \in wrapped
        <3>1. row' = row - 1 /\ col' = Cols - 1 /\ phase' = phase /\ col = 0
            BY <1>5, <1>8, <2>6 DEF WalkLeft
        <3>2. Place(row - 1, Cols - 1) = Cursor - 1 /\ Joined(Cursor - 1)
            BY <1>2, <2>6, <3>1, BeforeFacts DEF Cursor
        <3>3. Cursor' = Cursor - 1
            <4>1. Cursor' = Place(row - 1, Cols - 1)
                BY <3>1 DEF Cursor, Place
            <4>. QED
                BY <3>2, <4>1
        <3>. QED
            BY <1>5, <2>4, <2>6, <3>1, <3>2, <3>3
    <2>7. CASE ~(col > 0) /\ ~(row - 1 \in RowIds /\ row - 1 \in wrapped)
        <3>1. Turn /\ col = 0
            BY <1>5, <1>8, <2>7 DEF WalkLeft
        <3>2. Cursor - 1 \in Places => ~Joined(Cursor - 1)
            BY <1>2, <2>7, <3>1, BeforeFacts DEF Cursor
        <3>. QED
            BY <1>6, <2>1, <2>2, <2>3, <3>1, <3>2
    <2>. QED
        BY <2>5, <2>6, <2>7
<1>. QED
    BY <1>7, <1>8

LEMMA RightKeeps ==
    ASSUME WordIInv, WalkRight
    PROVE  WordIInv'
<1>1. /\ phase = "right" /\ ToTheRight /\ WordTypeOK /\ UNCHANGED <<grid, wrapped, click, first>>
      /\ ScreenRows - 1 \notin wrapped
    BY DEF WordIInv, WalkRight
<1>2. row \in RowIds /\ col \in Columns /\ Cursor \in Int /\ Clicked \in Int /\ From \in Int
    BY <1>1, ClickFacts DEF ToTheRight, Cursor
<1>3. IsWordChar(row, col) <=> WordAt(Cursor)
    BY <1>1, <1>2, WordCharFacts DEF Cursor
<1>4. \A i : (WordAt(i)' <=> WordAt(i)) /\ (Joined(i)' <=> Joined(i)) /\ Clicked' = Clicked
    BY <1>1, SameText
<1>5. row \in Int /\ col \in Int /\ 0 <= col /\ 0 \in Columns /\ Cols - 1 \in Columns
    BY <1>2, SizeFacts DEF Columns
<1>6. From' = From
    BY <1>1 DEF From, Place
<1>7. ASSUME row' \in RowIds, col' \in 0..Cols, phase' \in {"right", "done"}
      PROVE  WordTypeOK' /\ ScreenRows - 1 \notin wrapped'
    <2>1. row' \in -(RowTop + 1)..ScreenRows /\ col' \in -1..Cols
        BY <1>7, SizeFacts
    <2>. QED
        BY <1>1, <1>7, <2>1 DEF WordTypeOK
<1>8. From <= Clicked /\ Clicked <= Cursor /\ Linked(From, Cursor)
      /\ (Clicked < Cursor => WordAt(Clicked))
      /\ (IF WordAt(Clicked) THEN BeginsHere ELSE From = Clicked)
    BY <1>1 DEF ToTheRight
<1>9. CASE ~IsWordChar(row, col)
    <2>1. phase' = "done" /\ row' = row /\ col' = col
        BY <1>9 DEF WalkRight
    <2>2. To' = Cursor /\ ~WordAt(Cursor)
        BY <1>3, <1>9, <2>1 DEF To, Cursor, Place
    <2>3. ASSUME Cursor = Clicked
          PROVE  SelectsWord'
        <3>1. ~WordAt(Clicked) /\ From' = Clicked /\ To' = Clicked
            BY <1>6, <1>8, <2>2, <2>3
        <3>2. ~WordAt(Clicked)'
            BY <1>4, <3>1
        <3>. QED
            BY <1>4, <3>1, <3>2 DEF SelectsWord
    <2>4. ASSUME Cursor # Clicked
          PROVE  SelectsWord'
        <3>1. WordAt(Clicked) /\ Clicked < Cursor /\ BeginsHere
            BY <1>2, <1>8, <2>4
        <3>2. From' <= Clicked' /\ Clicked' < To' /\ WordAt(Clicked)'
            BY <1>2, <1>4, <1>6, <1>8, <2>2, <3>1
        <3>3. \A i \in From'..(To' - 1) : WordAt(i) /\ (i + 1 < To' => Joined(i))
            BY <1>2, <1>6, <1>8, <2>2 DEF Linked
        <3>4. From' - 1 \in Places => ~(WordAt(From' - 1) /\ Joined(From' - 1))
            BY <1>6, <3>1 DEF BeginsHere
        <3>5. To' \in Places => ~(WordAt(To') /\ Joined(To' - 1))
            BY <2>2
        <3>. QED
            BY <1>4, <3>2, <3>3, <3>4, <3>5 DEF SelectsWord
    <2>5. SelectsWord'
        BY <2>3, <2>4
    <2>6. col' \in 0..Cols
        BY <1>2, <2>1, SizeFacts DEF Columns
    <2>. QED
        BY <1>2, <1>7, <2>1, <2>5, <2>6 DEF WordIInv
<1>10. CASE IsWordChar(row, col)
    <2>1. WordAt(Cursor) /\ WordAt(Clicked) /\ BeginsHere
        BY <1>2, <1>3, <1>8, <1>10
    \* One cell further.
    <2>2. ASSUME row' \in RowIds, col' \in Columns, phase' = phase,
                 Cursor' = Cursor + 1, Joined(Cursor)
          PROVE  WordIInv'
        <3>1. Linked(From, Cursor + 1) /\ Clicked < Cursor'
            BY <1>2, <1>8, <2>1, <2>2 DEF Linked
        <3>2. ToTheRight'
            BY <1>2, <1>4, <1>6, <1>8, <2>1, <2>2, <3>1 DEF ToTheRight, Linked, BeginsHere
        <3>3. col' \in 0..Cols
            BY <2>2, SizeFacts DEF Columns
        <3>. QED
            BY <1>1, <1>7, <2>2, <3>2, <3>3 DEF WordIInv
    <2>3. CASE col + 1 < Cols
        <3>1. col' = col + 1 /\ row' = row /\ phase' = phase
            BY <1>10, <2>3 DEF WalkRight
        <3>2. col + 1 \in Columns
            BY <1>5, <2>3, SizeFacts DEF Columns
        <3>3. Place(row, col + 1) = Cursor + 1 /\ Joined(Cursor)
            BY <1>2, <2>3, AfterFacts DEF Cursor
        <3>4. Cursor' = Place(row, col + 1)
            BY <3>1 DEF Cursor, Place
        <3>5. Cursor' = Cursor + 1
            BY <3>3, <3>4
        <3>. QED
            BY <1>2, <2>2, <3>1, <3>2, <3>3, <3>5
    <2>4. CASE ~(col + 1 < Cols) /\ row \notin wrapped
        <3>1. col' = col + 1 /\ row' = row /\ phase' = "done" /\ col = Cols - 1
            BY <1>2, <1>10, <2>4, AfterFacts DEF WalkRight
        <3>2. Place(row, col + 1) = Cursor + 1
            BY <1>2, <2>4, AfterFacts DEF Cursor
        <3>3. To' = Cursor + 1
            <4>1. To' = Place(row, col + 1)
                BY <3>1 DEF To, Place
            <4>. QED
                BY <3>2, <4>1
        <3>4. Cursor + 1 \in Places => ~Joined(Cursor)
            BY <1>2, <2>4, <3>1, AfterFacts DEF Cursor
        <3>5. SelectsWord'
            <4>1. From' <= Clicked' /\ Clicked' < To' /\ WordAt(Clicked)' /\ To' - 1 = Cursor
                BY <1>2, <1>4, <1>6, <1>8, <2>1, <3>3
            <4>2. \A i \in From'..(To' - 1) : WordAt(i) /\ (i + 1 < To' => Joined(i))
                BY <1>2, <1>6, <1>8, <2>1, <3>3 DEF Linked
            <4>3. From' - 1 \in Places => ~(WordAt(From' - 1) /\ Joined(From' - 1))
                BY <1>6, <2>1 DEF BeginsHere
            <4>4. To' \in Places => ~(WordAt(To') /\ Joined(To' - 1))
                BY <3>3, <3>4, <4>1
            <4>. QED
                BY <1>4, <4>1, <4>2, <4>3, <4>4 DEF SelectsWord
        <3>6. col' \in 0..Cols
            BY <3>1, SizeFacts
        <3>. QED
            BY <1>2, <1>7, <3>1, <3>5, <3>6 DEF WordIInv
    <2>5. CASE ~(col + 1 < Cols) /\ row \in wrapped
        <3>1. row + 1 < ScreenRows /\ row + 1 \in RowIds
            BY <1>1, <1>2, <1>5, <2>5, SizeFacts
        <3>2. row' = row + 1 /\ col' = 0 /\ phase' = phase /\ col = Cols - 1
            BY <1>2, <1>5, <1>10, <2>5, <3>1, SizeFacts, AfterFacts DEF WalkRight
        <3>3. Place(row + 1, 0) = Cursor + 1 /\ Joined(Cursor)
            BY <1>2, <2>5, <3>1, <3>2, AfterFacts DEF Cursor
        <3>4. Cursor' = Place(row + 1, 0)
            BY <3>2 DEF Cursor, Place
        <3>5. Cursor' = Cursor + 1
            BY <3>3, <3>4
        <3>. QED
            BY <1>5, <2>2, <3>1, <3>2, <3>3, <3>5
    <2>. QED
        BY <2>3, <2>4, <2>5
<1>. QED
    BY <1>9, <1>10

LEMMA WordKeeps ==
    ASSUME WordIInv, [WordNext]_wordvars
    PROVE  WordIInv'
<1>1. CASE UNCHANGED wordvars
    BY <1>1 DEF wordvars, WordIInv, WordTypeOK, ToTheLeft, ToTheRight, SelectsWord, Cursor,
                Linked, BeginsHere, From, To, Clicked, WordAt, CharAt, Joined, RowOf, Place
<1>. QED
    BY <1>1, LeftKeeps, RightKeeps DEF WordNext

\* A double click selects the whole word under it and nothing but the word,
\* on any grid and however rows are wrapped, but the last of the screen, which
\* nothing follows (window-xlib.c:1139-1256).
THEOREM WordIsSelected ==
    ASSUME ~LastWraps
    PROVE  WordSpec => [](WordTypeOK /\ SelectsWord /\ EndsExist)
<1>1. WordInit => WordIInv
    BY WordInitially
<1>2. WordIInv /\ [WordNext]_wordvars => WordIInv'
    BY WordKeeps
<1>3. WordIInv => WordTypeOK /\ SelectsWord /\ EndsExist
    BY DEF WordIInv, SelectsWord, EndsExist
<1>. QED
    BY <1>1, <1>2, <1>3, PTL DEF WordSpec

=============================================================================
