------------------------- MODULE TermLifecycleProofs -------------------------
(***************************************************************************)
(* The safety of TermLifecycle, for any set of terminals, any              *)
(* configuration and any order of the callbacks, and its refinement of     *)
(* TermHolders.                                                            *)
(*                                                                         *)
(* First, what the operators of RunesTerm keep of the balance between the  *)
(* reference count of a terminal and its registrations with the loop: the  *)
(* lemmas follow the code from the inside out, from the primitives of      *)
(* term.c and loop.c to the drawing functions up to runes_window_flush,    *)
(* the callbacks, and the handlers of X events.                            *)
(***************************************************************************)
EXTENDS TermLifecycle, TLAPS

-----------------------------------------------------------------------------
(* One terminal: the operators of RunesTerm *)

\* A terminal that may be used.
Alive(s) == s \in TermState /\ s.life = "alive" /\ ~s.uaf

\* The parts of the record an operator may leave alone.
SameView(s, u) ==
    /\ u.requests = s.requests /\ u.dirty = s.dirty /\ u.painted = s.painted
    /\ u.clicks = s.clicks /\ u.scrolled = s.scrolled /\ u.unfocused = s.unfocused
SameFlags(s, u) ==
    u.delaying = s.delaying /\ u.ringing = s.ringing /\ u.clickptr = s.clickptr
SameWatches(s, u) == \A k \in Watches : u.reg[k] = s.reg[k]

\* Flags and pointers agree with the timers that run.
TimersOK(s) ==
    /\ s.reg["delay"] = IF s.delaying THEN 1 ELSE 0
    /\ s.reg["bell"]  = IF s.ringing THEN 1 ELSE 0
    /\ s.reg["click"] = IF s.clickptr THEN 1 ELSE 0
    /\ s.reg["window"] \in {0, 1} /\ s.reg["pty"] \in {0, 1}

\* Inside a handler: a living terminal whose count exceeds its registrations
\* by d, the reference of the callback that is running.
Balanced(s, d) ==
    /\ Alive(s)
    /\ s.refcnt > 0
    /\ s.refcnt = Registrations(s) + d
    /\ TimersOK(s)

\* Between two handlers, living or not.
Settled(s) ==
    /\ s \in TermState
    /\ ~s.uaf
    /\ s.refcnt = Registrations(s)
    /\ s.life = "alive" <=> Registrations(s) > 0
    /\ TimersOK(s)

\* What is not drawn or not served yet has a timer on its way.
Clean(s) ==
    s.requests # {} \/ s.dirty \/ ~s.painted => s.delaying \/ s.ringing

-----------------------------------------------------------------------------
(* The primitives *)

\* Using a terminal that is alive leaves no trace in the history variable.
LEMMA TouchIsIdentity ==
    ASSUME NEW s, Alive(s)
    PROVE  Touch(s) = s
  BY DEF TermState, Touch, Alive

\* runes_term_refcnt_inc adds a reference and nothing else.
LEMMA IncFacts ==
  ASSUME NEW s, Alive(s)
  PROVE /\ Alive(Inc(s))
        /\ Inc(s).refcnt = s.refcnt + 1 /\ Inc(s).reg = s.reg
        /\ SameFlags(s, Inc(s)) /\ SameView(s, Inc(s))
 BY TouchIsIdentity DEF TermState, Inc, Alive, SameFlags, SameView

\* A new event of kind k changes the registrations of k only.
LEMMA RegisterFacts ==
  ASSUME NEW s, Alive(s), NEW k \in Kinds
  PROVE /\ Alive(Register(s, k))
        /\ Register(s, k).refcnt = s.refcnt 
        /\ Register(s, k).reg = [s.reg EXCEPT ![k] = @ + 1]
        /\ SameFlags(s, Register(s, k)) /\ SameView(s, Register(s, k))
 BY DEF TermState, Register, Alive, SameFlags, SameView

\* An event that fired or was cleared no longer counts.
LEMMA UnregisterFacts ==
  ASSUME NEW s, Alive(s), NEW k \in Kinds, s.reg[k] > 0
  PROVE /\ Alive(Unregister(s, k))
        /\ Unregister(s, k).refcnt = s.refcnt 
        /\ Unregister(s, k).reg = [s.reg EXCEPT ![k] = @ - 1]
        /\ SameFlags(s, Unregister(s, k)) /\ SameView(s, Unregister(s, k))
 BY DEF TermState, Unregister, Alive, SameFlags, SameView

\* runes_term_refcnt_dec drops a reference, and frees at the last one.
LEMMA DecFacts ==
  ASSUME NEW s, Alive(s)
  PROVE /\ Dec(s) \in TermState /\ ~Dec(s).uaf
        /\ Dec(s).refcnt = s.refcnt - 1 /\ Dec(s).reg = s.reg
        /\ Dec(s).life = IF s.refcnt - 1 <= 0 THEN "freed" ELSE "alive"
        /\ SameFlags(s, Dec(s)) /\ SameView(s, Dec(s))
  <1>1. PICK n \in Int, l \in {"none", "alive", "freed"} :
           n = s.refcnt - 1 /\ l = IF s.refcnt - 1 <= 0 THEN "freed" ELSE "alive"
    BY DEF Alive, TermState
  <1>2. Dec(s) = [s EXCEPT !.refcnt = n, !.life = l]
    BY <1>1, TouchIsIdentity DEF Dec, Alive
  <1> QED
    BY <1>1, <1>2 DEF TermState, Alive, SameFlags, SameView

-----------------------------------------------------------------------------
(* Drawing *)

\* The delayed redraw brings its own reference.
LEMMA StartDelayBalanced ==
  ASSUME NEW s, NEW d \in {0, 1}, Balanced(s, d), ~s.delaying
  PROVE  /\ Balanced(StartDelay(s), d)
         /\ SameWatches(s, StartDelay(s))
         /\ Clean(StartDelay(s))
  <1> DEFINE a == Inc(s)
             b == Register(a, "delay")
             c == [b EXCEPT !.delaying = TRUE]
  <1>1. Alive(a) /\ a.refcnt = s.refcnt + 1 /\ a.reg = s.reg /\ SameFlags(s, a)
    BY IncFacts DEF Balanced
  <1>2. Alive(b) /\ b.refcnt = s.refcnt + 1 /\ SameFlags(a, b)
        /\ b.reg = [s.reg EXCEPT !["delay"] = @ + 1]
    <2>1. "delay" \in Kinds
      BY DEF Kinds
    <2> QED
      BY <1>1, <2>1, RegisterFacts
  <1>3. /\ Alive(c) /\ c.refcnt = b.refcnt /\ c.reg = b.reg /\ c.delaying
        /\ c.ringing = b.ringing /\ c.clickptr = b.clickptr
    BY <1>2 DEF Alive, TermState
  <1>4. s.reg \in [Kinds -> Nat] /\ s.refcnt \in Int
    BY DEF Balanced, Alive, TermState
  <1>5. /\ c.reg["delay"] = s.reg["delay"] + 1 /\ c.reg["bell"] = s.reg["bell"]
        /\ c.reg["click"] = s.reg["click"] /\ c.reg["window"] = s.reg["window"]
        /\ c.reg["pty"] = s.reg["pty"]
    BY <1>2, <1>3, <1>4 DEF Kinds
  <1>6. TimersOK(c) /\ SameWatches(s, c) /\ Clean(c)
    BY <1>1, <1>2, <1>3, <1>5 DEF Balanced, TimersOK, SameWatches, Watches, Clean, SameFlags
  <1>7. c.refcnt > 0 /\ c.refcnt = Registrations(c) + d
    BY <1>2, <1>3, <1>4, <1>5 DEF Balanced, Registrations, Kinds
  <1> QED
    BY <1>3, <1>6, <1>7 DEF StartDelay, Balanced

\* A bell brings its own reference, and a ringing bell none.
LEMMA VisualBellBalanced ==
  ASSUME NEW s, NEW d \in {0, 1}, Balanced(s, d)
  PROVE  /\ Balanced(VisualBell(s), d)
         /\ SameWatches(s, VisualBell(s))
         /\ VisualBell(s).ringing /\ VisualBell(s).delaying = s.delaying
  <1> DEFINE a == Inc(s)
             b == Register(a, "bell")
             c == [b EXCEPT !.ringing = TRUE, !.painted = FALSE]
  <1>1. Alive(a) /\ a.refcnt = s.refcnt + 1 /\ a.reg = s.reg /\ SameFlags(s, a)
    BY IncFacts DEF Balanced
  <1>2. Alive(b) /\ b.refcnt = s.refcnt + 1 /\ SameFlags(a, b)
        /\ b.reg = [s.reg EXCEPT !["bell"] = @ + 1]
    <2>1. "bell" \in Kinds
      BY DEF Kinds
    <2> QED
      BY <1>1, <2>1, RegisterFacts
  <1>3. /\ Alive(c) /\ c.refcnt = b.refcnt /\ c.reg = b.reg /\ c.ringing
        /\ c.delaying = b.delaying /\ c.clickptr = b.clickptr
    BY <1>2 DEF Alive, TermState
  <1>4. s.reg \in [Kinds -> Nat] /\ s.refcnt \in Int
    BY DEF Balanced, Alive, TermState
  <1>5. CASE ~s.ringing
    <2>1. /\ c.reg["bell"] = s.reg["bell"] + 1 /\ c.reg["delay"] = s.reg["delay"]
          /\ c.reg["click"] = s.reg["click"] /\ c.reg["window"] = s.reg["window"]
          /\ c.reg["pty"] = s.reg["pty"]
      BY <1>2, <1>3, <1>4 DEF Kinds
    <2>2. TimersOK(c) /\ SameWatches(s, c) /\ c.delaying = s.delaying
      BY <1>1, <1>2, <1>3, <1>5, <2>1 DEF Balanced, TimersOK, SameWatches, Watches, SameFlags
    <2>3. c.refcnt > 0 /\ c.refcnt = Registrations(c) + d
      BY <1>2, <1>3, <1>4, <2>1 DEF Balanced, Registrations, Kinds
    <2> QED
      BY <1>3, <1>5, <2>2, <2>3 DEF VisualBell, Balanced
  <1>6. CASE s.ringing
    BY <1>6 DEF VisualBell, SameWatches
  <1> QED
    BY <1>5, <1>6

\* Serving the requests of the screen starts at most one bell.
LEMMA ServeRequestsBalanced ==
  ASSUME NEW s, NEW d \in {0, 1}, Balanced(s, d)
  PROVE  /\ Balanced(ServeRequests(s), d)
         /\ SameWatches(s, ServeRequests(s))
         /\ ServeRequests(s).requests = {}
         /\ ServeRequests(s).delaying = s.delaying
  <1>1. ASSUME NEW u, Balanced(u, d)
        PROVE  LET v == [u EXCEPT !.requests = {}]
               IN  /\ Balanced(v, d) /\ SameWatches(u, v)
                   /\ v.requests = {} /\ v.delaying = u.delaying
    <2> DEFINE v == [u EXCEPT !.requests = {}]
    <2>1. /\ Alive(v) /\ v.refcnt = u.refcnt /\ v.reg = u.reg /\ v.requests = {}
          /\ SameFlags(u, v)
      BY <1>1 DEF Balanced, Alive, TermState, SameFlags
    <2> QED
      BY <1>1, <2>1 DEF Balanced, Registrations, TimersOK, SameWatches, SameFlags
  <1>2. Balanced(VisualBell(s), d) /\ SameWatches(s, VisualBell(s))
        /\ VisualBell(s).delaying = s.delaying
    BY VisualBellBalanced
  <1> DEFINE flash == \/ "visual_bell" \in s.requests
                      \/ "audible_bell" \in s.requests /\ ~AudibleBell
  <1>3. CASE flash
    <2>1. ServeRequests(s) = [VisualBell(s) EXCEPT !.requests = {}]
      BY <1>3 DEF ServeRequests
    <2> QED
      BY <1>1, <1>2, <2>1 DEF SameWatches
  <1>4. CASE ~flash
    <2>1. ServeRequests(s) = [s EXCEPT !.requests = {}]
      BY <1>4 DEF ServeRequests
    <2> QED
      BY <1>1, <2>1 DEF SameWatches
  <1> QED
    BY <1>3, <1>4

\* Drawing leaves nothing to draw.
LEMMA DrawBalanced ==
  ASSUME NEW s, NEW d \in {0, 1}, Balanced(s, d), s.requests = {}
  PROVE  Balanced(Draw(s), d) /\ SameWatches(s, Draw(s)) /\ Clean(Draw(s))
  <1>1. /\ Alive(Draw(s)) /\ Draw(s).refcnt = s.refcnt /\ Draw(s).reg = s.reg
        /\ SameFlags(s, Draw(s)) /\ Draw(s).requests = {} /\ ~Draw(s).dirty
        /\ Draw(s).painted
    BY DEF Draw, Balanced, Alive, TermState, SameFlags
  <1> QED
    BY <1>1 DEF Balanced, Registrations, TimersOK, SameWatches, SameFlags, Clean

\* runes_window_flush keeps the balance, and what it does not draw or serve
\* has a timer on its way.
LEMMA FlushBalanced ==
  ASSUME NEW s, NEW d \in {0, 1}, Balanced(s, d), NEW recent \in BOOLEAN
  PROVE  /\ Balanced(Flush(s, recent), d)
         /\ SameWatches(s, Flush(s, recent))
         /\ Clean(Flush(s, recent))
  <1> DEFINE v == ServeRequests(s)
  <1>1. Touch(s) = s
    BY TouchIsIdentity DEF Balanced
  <1>2. CASE Throttled /\ s.delaying
    BY <1>1, <1>2 DEF Flush, SameWatches, Clean
  <1>3. CASE Throttled /\ ~s.delaying /\ recent
    <2>1. Flush(s, recent) = StartDelay(s)
      BY <1>1, <1>3 DEF Flush
    <2> QED
      BY <1>3, <2>1, StartDelayBalanced
  <1>4. CASE ~(Throttled /\ s.delaying) /\ ~(Throttled /\ ~s.delaying /\ recent)
    <2>1. Flush(s, recent) = IF v.ringing THEN v ELSE Draw(v)
      BY <1>1, <1>4 DEF Flush
    <2>2. Balanced(v, d) /\ SameWatches(s, v) /\ v.requests = {}
      BY ServeRequestsBalanced
    <2>3. Balanced(Draw(v), d) /\ SameWatches(v, Draw(v)) /\ Clean(Draw(v))
      BY <2>2, DrawBalanced
    <2>4. v.ringing => Clean(v)
      BY DEF Clean
    <2> QED
      BY <2>1, <2>2, <2>3, <2>4 DEF SameWatches
  <1> QED
    BY <1>2, <1>3, <1>4

\* Nothing in the balance depends on what the screen shows.
LEMMA BalanceIgnoresView ==
  ASSUME NEW s, NEW d \in {0, 1}, Balanced(s, d), NEW u, Alive(u),
         u.refcnt = s.refcnt, u.reg = s.reg, SameFlags(s, u)
  PROVE  Balanced(u, d) /\ SameWatches(s, u)
  BY DEF Balanced, Registrations, TimersOK, SameWatches, SameFlags

\* Redisplay draws, or leaves a timer that will.
LEMMA RedisplayBalanced ==
  ASSUME NEW s, NEW d \in {0, 1}, Balanced(s, d), NEW recent \in BOOLEAN
  PROVE  /\ Balanced(Redisplay(s, recent), d)
         /\ SameWatches(s, Redisplay(s, recent))
         /\ Clean(Redisplay(s, recent))
  <1> DEFINE u == [s EXCEPT !.dirty = TRUE, !.painted = FALSE]
  <1>1. Alive(u) /\ u.refcnt = s.refcnt /\ u.reg = s.reg /\ SameFlags(s, u)
    BY DEF Balanced, Alive, TermState, SameFlags
  <1>2. Balanced(u, d) /\ SameWatches(s, u)
    BY <1>1, BalanceIgnoresView
  <1>3. /\ Balanced(Flush(u, recent), d) /\ SameWatches(u, Flush(u, recent))
        /\ Clean(Flush(u, recent))
    BY <1>2, FlushBalanced
  <1> QED
    BY <1>2, <1>3 DEF Redisplay, SameWatches

-----------------------------------------------------------------------------
(* Settling: the end of a callback *)

\* Between handlers a terminal is balanced, as long as it is alive.
LEMMA SettledIsBalanced ==
  ASSUME NEW s
  PROVE  /\ Settled(s) /\ s.life = "alive" => Balanced(s, 0)
         /\ Balanced(s, 0) => Settled(s)
  <1>1. s \in TermState => Registrations(s) \in Nat
    BY DEF TermState, Registrations, Kinds
  <1>2. Settled(s) /\ s.life = "alive" => Balanced(s, 0)
    BY <1>1 DEF Settled, Balanced, Alive
  <1>3. Balanced(s, 0) => Settled(s)
    BY <1>1 DEF Settled, Balanced, Alive
  <1> QED
    BY <1>2, <1>3

\* A callback that drops its reference last settles the terminal.
LEMMA DecSettles ==
  ASSUME NEW s, Balanced(s, 1)
  PROVE  /\ Settled(Dec(s))
         /\ Dec(s).reg = s.reg
         /\ SameFlags(s, Dec(s)) /\ SameView(s, Dec(s))
         /\ Dec(s).life # "none"
         /\ Registrations(s) > 0 => Balanced(Dec(s), 0)
  <1>1. /\ Dec(s) \in TermState /\ ~Dec(s).uaf
        /\ Dec(s).refcnt = s.refcnt - 1 /\ Dec(s).reg = s.reg
        /\ Dec(s).life = IF s.refcnt - 1 <= 0 THEN "freed" ELSE "alive"
        /\ SameFlags(s, Dec(s)) /\ SameView(s, Dec(s))
    BY DecFacts DEF Balanced
  <1>2. Registrations(s) \in Nat /\ Registrations(Dec(s)) = Registrations(s)
    BY <1>1 DEF Balanced, Alive, TermState, Registrations, Kinds
  <1>3. TimersOK(Dec(s))
    BY <1>1 DEF Balanced, TimersOK, SameFlags
  <1>4. Settled(Dec(s))
    BY <1>1, <1>2, <1>3 DEF Settled, Balanced
  <1> QED
    BY <1>1, <1>2, <1>4, SettledIsBalanced DEF Balanced

\* A watch that is not renewed: the reference it held is the callback's own.
LEMMA UnwatchBalanced ==
  ASSUME NEW s, Balanced(s, 0), NEW k \in Watches, s.reg[k] > 0
  PROVE  LET u == Unregister(Touch(s), k)
         IN  /\ Balanced(u, 1)
             /\ u.reg = [s.reg EXCEPT ![k] = 0]
             /\ SameFlags(s, u) /\ SameView(s, u)
  <1> DEFINE u == Unregister(s, k)
  <1>1. Touch(s) = s
    BY TouchIsIdentity DEF Balanced
  <1>2. k \in Kinds /\ s.reg \in [Kinds -> Nat] /\ s.refcnt \in Int /\ s.reg[k] = 1
    BY DEF Balanced, Alive, TermState, Kinds, Watches, TimersOK
  <1>3. /\ Alive(u) /\ u.refcnt = s.refcnt /\ u.reg = [s.reg EXCEPT ![k] = @ - 1]
        /\ SameFlags(s, u) /\ SameView(s, u)
    BY <1>2, UnregisterFacts DEF Balanced
  <1>4. u.reg = [s.reg EXCEPT ![k] = 0]
    BY <1>2, <1>3
  <1>5. /\ u.reg["delay"] = s.reg["delay"] /\ u.reg["bell"] = s.reg["bell"]
        /\ u.reg["click"] = s.reg["click"]
        /\ u.reg["window"] = IF k = "window" THEN 0 ELSE s.reg["window"]
        /\ u.reg["pty"] = IF k = "pty" THEN 0 ELSE s.reg["pty"]
    BY <1>2, <1>4 DEF Kinds, Watches
  <1>6. TimersOK(u)
    BY <1>3, <1>5 DEF Balanced, TimersOK, SameFlags
  <1>7. u.refcnt = Registrations(u) + 1 /\ u.refcnt > 0
    BY <1>2, <1>3, <1>5 DEF Balanced, Registrations, Kinds, Watches
  <1> QED
    BY <1>1, <1>3, <1>4, <1>6, <1>7 DEF Balanced

\* A timer that fires: its flag is cleared with it.
LEMMA TimerFires ==
  ASSUME NEW s, Balanced(s, 0), NEW k \in {"delay", "bell", "click"}, s.reg[k] > 0,
         NEW u, Alive(u), u.refcnt = s.refcnt, u.reg = [s.reg EXCEPT ![k] = @ - 1],
         IF k = "delay" THEN ~u.delaying ELSE u.delaying = s.delaying,
         IF k = "bell"  THEN ~u.ringing  ELSE u.ringing = s.ringing,
         IF k = "click" THEN ~u.clickptr ELSE u.clickptr = s.clickptr
  PROVE  Balanced(u, 1) /\ SameWatches(s, u)
  <1>1. k \in Kinds /\ s.reg \in [Kinds -> Nat] /\ s.refcnt \in Int /\ s.reg[k] = 1
    BY DEF Balanced, Alive, TermState, Kinds, TimersOK
  <1>2. /\ u.reg["delay"] = IF k = "delay" THEN 0 ELSE s.reg["delay"]
        /\ u.reg["bell"] = IF k = "bell" THEN 0 ELSE s.reg["bell"]
        /\ u.reg["click"] = IF k = "click" THEN 0 ELSE s.reg["click"]
        /\ u.reg["window"] = s.reg["window"] /\ u.reg["pty"] = s.reg["pty"]
    BY <1>1 DEF Kinds
  <1>3. TimersOK(u) /\ SameWatches(s, u)
    BY <1>2 DEF Balanced, TimersOK, SameWatches, Watches
  <1>4. u.refcnt = Registrations(u) + 1 /\ u.refcnt > 0
    BY <1>1, <1>2 DEF Balanced, Registrations, Kinds
  <1> QED
    BY <1>3, <1>4 DEF Balanced

-----------------------------------------------------------------------------
(* The callbacks of the loop *)

\* A handler that leaves the terminal alive, its watches alone, and no
\* change of the screen without a timer.
Kept(s, u) == Balanced(u, 0) /\ SameWatches(s, u) /\ (Clean(s) => Clean(u))

\* A callback that may have been the last one.
Released(s, u) ==
    /\ Settled(u) /\ u.life # "none" /\ SameWatches(s, u)
    /\ Clean(s) => Clean(u)

LEMMA KeptIsReleased ==
  ASSUME NEW s, NEW u, Kept(s, u)
  PROVE  Released(s, u)
  BY SettledIsBalanced DEF Kept, Released, Balanced, Alive

LEMMA PtyDataKept ==
  ASSUME NEW s, Balanced(s, 0), NEW raised \in SUBSET Requests, NEW recent \in BOOLEAN
  PROVE  Kept(s, PtyData(s, raised, recent))
  <1> DEFINE u == [s EXCEPT !.requests = @ \cup raised, !.painted = FALSE]
  <1>1. Touch(s) = s
    BY TouchIsIdentity DEF Balanced
  <1>2. Alive(u) /\ u.refcnt = s.refcnt /\ u.reg = s.reg /\ SameFlags(s, u)
    BY DEF Balanced, Alive, TermState, SameFlags
  <1>3. Balanced(u, 0) /\ SameWatches(s, u)
    BY <1>2, BalanceIgnoresView
  <1>4. /\ Balanced(Flush(u, recent), 0) /\ SameWatches(u, Flush(u, recent))
        /\ Clean(Flush(u, recent))
    BY <1>3, FlushBalanced
  <1> QED
    BY <1>1, <1>3, <1>4 DEF PtyData, SameWatches, Kept

\* Giving up a watch: PtyEof and WindowClosed.
LEMMA UnwatchSettles ==
  ASSUME NEW s, Balanced(s, 0), NEW k \in Watches, s.reg[k] > 0
  PROVE  LET u == Dec(Unregister(Touch(s), k))
         IN  /\ Settled(u) /\ u.life # "none"
             /\ u.reg = [s.reg EXCEPT ![k] = 0]
             /\ Clean(s) => Clean(u)
  <1> DEFINE v == Unregister(Touch(s), k)
  <1>1. /\ Balanced(v, 1) /\ v.reg = [s.reg EXCEPT ![k] = 0]
        /\ SameFlags(s, v) /\ SameView(s, v)
    BY UnwatchBalanced
  <1>2. /\ Settled(Dec(v)) /\ Dec(v).reg = v.reg /\ Dec(v).life # "none"
        /\ SameFlags(v, Dec(v)) /\ SameView(v, Dec(v))
    BY <1>1, DecSettles
  <1>3. Clean(s) => Clean(Dec(v))
    BY <1>1, <1>2 DEF Clean, SameFlags, SameView
  <1> QED
    BY <1>1, <1>2, <1>3

LEMMA DelayCbReleased ==
  ASSUME NEW s, Balanced(s, 0), s.reg["delay"] > 0, NEW recent \in BOOLEAN
  PROVE  Released(s, DelayCb(s, recent))
  <1> DEFINE a == Unregister(s, "delay")
             u == [a EXCEPT !.delaying = FALSE]
             v == Flush(u, recent)
  <1>1. Touch(s) = s /\ "delay" \in Kinds
    BY TouchIsIdentity DEF Balanced, Kinds
  <1>2. /\ Alive(a) /\ a.refcnt = s.refcnt /\ a.reg = [s.reg EXCEPT !["delay"] = @ - 1]
        /\ SameFlags(s, a)
    BY <1>1, UnregisterFacts DEF Balanced
  <1>3. /\ Alive(u) /\ u.refcnt = a.refcnt /\ u.reg = a.reg /\ ~u.delaying
        /\ u.ringing = a.ringing /\ u.clickptr = a.clickptr
    BY <1>2 DEF Alive, TermState
  <1>4. Balanced(u, 1) /\ SameWatches(s, u)
    BY <1>2, <1>3, TimerFires DEF SameFlags
  <1>5. Balanced(v, 1) /\ SameWatches(u, v) /\ Clean(v)
    BY <1>4, FlushBalanced
  <1>6. /\ Settled(Dec(v)) /\ Dec(v).reg = v.reg /\ Dec(v).life # "none"
        /\ SameFlags(v, Dec(v)) /\ SameView(v, Dec(v))
    BY <1>5, DecSettles
  <1>7. Clean(Dec(v)) /\ SameWatches(s, Dec(v))
    BY <1>4, <1>5, <1>6 DEF Clean, SameFlags, SameView, SameWatches
  <1> QED
    BY <1>1, <1>6, <1>7 DEF DelayCb, Released

LEMMA ResetVisualBellReleased ==
  ASSUME NEW s, Balanced(s, 0), s.reg["bell"] > 0, NEW recent \in BOOLEAN
  PROVE  Released(s, ResetVisualBell(s, recent))
  <1> DEFINE a == Unregister(s, "bell")
             u == [a EXCEPT !.ringing = FALSE, !.painted = FALSE]
             v == Flush(u, recent)
  <1>1. Touch(s) = s /\ "bell" \in Kinds
    BY TouchIsIdentity DEF Balanced, Kinds
  <1>2. /\ Alive(a) /\ a.refcnt = s.refcnt /\ a.reg = [s.reg EXCEPT !["bell"] = @ - 1]
        /\ SameFlags(s, a)
    BY <1>1, UnregisterFacts DEF Balanced
  <1>3. /\ Alive(u) /\ u.refcnt = a.refcnt /\ u.reg = a.reg /\ ~u.ringing
        /\ u.delaying = a.delaying /\ u.clickptr = a.clickptr
    BY <1>2 DEF Alive, TermState
  <1>4. Balanced(u, 1) /\ SameWatches(s, u)
    BY <1>2, <1>3, TimerFires DEF SameFlags
  <1>5. Balanced(v, 1) /\ SameWatches(u, v) /\ Clean(v)
    BY <1>4, FlushBalanced
  <1>6. /\ Settled(Dec(v)) /\ Dec(v).reg = v.reg /\ Dec(v).life # "none"
        /\ SameFlags(v, Dec(v)) /\ SameView(v, Dec(v))
    BY <1>5, DecSettles
  <1>7. Clean(Dec(v)) /\ SameWatches(s, Dec(v))
    BY <1>4, <1>5, <1>6 DEF Clean, SameFlags, SameView, SameWatches
  <1> QED
    BY <1>1, <1>6, <1>7 DEF ResetVisualBell, Released

LEMMA MultiClickCbReleased ==
  ASSUME NEW s, Balanced(s, 0), s.reg["click"] > 0
  PROVE  Released(s, MultiClickCb(s))
  <1> DEFINE a == Unregister(s, "click")
             u == [a EXCEPT !.clicks = 0, !.clickptr = FALSE]
  <1>1. Touch(s) = s /\ "click" \in Kinds
    BY TouchIsIdentity DEF Balanced, Kinds
  <1>2. /\ Alive(a) /\ a.refcnt = s.refcnt /\ a.reg = [s.reg EXCEPT !["click"] = @ - 1]
        /\ SameFlags(s, a) /\ SameView(s, a)
    BY <1>1, UnregisterFacts DEF Balanced
  <1>3. /\ Alive(u) /\ u.refcnt = a.refcnt /\ u.reg = a.reg /\ ~u.clickptr
        /\ u.delaying = a.delaying /\ u.ringing = a.ringing
        /\ u.requests = a.requests /\ u.dirty = a.dirty /\ u.painted = a.painted
    BY <1>2 DEF Alive, TermState
  <1>4. Balanced(u, 1) /\ SameWatches(s, u)
    BY <1>2, <1>3, TimerFires DEF SameFlags
  <1>5. /\ Settled(Dec(u)) /\ Dec(u).reg = u.reg /\ Dec(u).life # "none"
        /\ SameFlags(u, Dec(u)) /\ SameView(u, Dec(u))
    BY <1>4, DecSettles
  <1>6. SameWatches(s, Dec(u)) /\ (Clean(s) => Clean(Dec(u)))
    BY <1>2, <1>3, <1>4, <1>5 DEF Clean, SameFlags, SameView, SameWatches
  <1> QED
    BY <1>1, <1>5, <1>6 DEF MultiClickCb, Released

-----------------------------------------------------------------------------
(* The handlers of X events *)

LEMMA RedisplayKept ==
  ASSUME NEW s, Balanced(s, 0), NEW u, Kept(s, u), NEW recent \in BOOLEAN
  PROVE  Kept(s, Redisplay(u, recent))
  BY RedisplayBalanced DEF Kept, SameWatches

LEMMA WriteToPtyKept ==
  ASSUME NEW s, Balanced(s, 0), NEW recent \in BOOLEAN
  PROVE  Kept(s, WriteToPty(s, recent))
  <1> DEFINE u == [s EXCEPT !.scrolled = FALSE]
  <1>1. Touch(s) = s
    BY TouchIsIdentity DEF Balanced
  <1>2. /\ Alive(u) /\ u.refcnt = s.refcnt /\ u.reg = s.reg /\ SameFlags(s, u)
        /\ u.requests = s.requests /\ u.dirty = s.dirty /\ u.painted = s.painted
    BY DEF Balanced, Alive, TermState, SameFlags
  <1>3. Kept(s, u)
    BY <1>2, BalanceIgnoresView DEF Kept, Clean, SameFlags
  <1>4. Kept(s, s)
    BY DEF Kept, SameWatches
  <1> QED
    BY <1>1, <1>3, <1>4, RedisplayKept DEF WriteToPty

LEMMA VisibleScrollKept ==
  ASSUME NEW s, Balanced(s, 0), NEW to \in BOOLEAN, NEW moved \in BOOLEAN,
         NEW recent \in BOOLEAN
  PROVE  Kept(s, VisibleScroll(s, to, moved, recent))
  <1> DEFINE u == [s EXCEPT !.scrolled = to]
  <1>1. Touch(s) = s
    BY TouchIsIdentity DEF Balanced
  <1>2. /\ Alive(u) /\ u.refcnt = s.refcnt /\ u.reg = s.reg /\ SameFlags(s, u)
        /\ u.requests = s.requests /\ u.dirty = s.dirty /\ u.painted = s.painted
    BY DEF Balanced, Alive, TermState, SameFlags
  <1>3. Kept(s, u)
    BY <1>2, BalanceIgnoresView DEF Kept, Clean, SameFlags
  <1>4. Kept(s, s)
    BY DEF Kept, SameWatches
  <1> QED
    BY <1>1, <1>3, <1>4, RedisplayKept DEF VisibleScroll

LEMMA FocusEventKept ==
  ASSUME NEW s, Balanced(s, 0), NEW out \in BOOLEAN, NEW recent \in BOOLEAN
  PROVE  Kept(s, FocusEvent(s, out, recent))
  <1> DEFINE u == [s EXCEPT !.unfocused = out, !.painted = FALSE]
  <1>1. Touch(s) = s
    BY TouchIsIdentity DEF Balanced
  <1>2. Alive(u) /\ u.refcnt = s.refcnt /\ u.reg = s.reg /\ SameFlags(s, u)
    BY DEF Balanced, Alive, TermState, SameFlags
  <1>3. Balanced(u, 0) /\ SameWatches(s, u)
    BY <1>2, BalanceIgnoresView
  <1>4. Kept(s, Flush(u, recent))
    BY <1>3, FlushBalanced DEF Kept, SameWatches
  <1>5. Kept(s, s)
    BY DEF Kept, SameWatches
  <1> QED
    BY <1>1, <1>4, <1>5 DEF FocusEvent

LEMMA ResizeWindowBalanced ==
  ASSUME NEW s, Balanced(s, 0)
  PROVE  Balanced(ResizeWindow(s), 0) /\ SameWatches(s, ResizeWindow(s))
  <1> DEFINE u == [s EXCEPT !.painted = FALSE]
  <1>1. Touch(s) = s
    BY TouchIsIdentity DEF Balanced
  <1>2. Alive(u) /\ u.refcnt = s.refcnt /\ u.reg = s.reg /\ SameFlags(s, u)
    BY DEF Balanced, Alive, TermState, SameFlags
  <1> QED
    BY <1>1, <1>2, BalanceIgnoresView DEF ResizeWindow

\* The old timer goes with its reference, the new one comes with its own.
\* The terminal survives the exchange because its window holds it.
LEMMA RestartClickTimerKept ==
  ASSUME NEW s, Balanced(s, 0), s.reg["window"] > 0
  PROVE  Kept(s, RestartClickTimer(s))
  <1> DEFINE cleared == IF s.clickptr THEN Dec(Unregister(s, "click")) ELSE s
             a == Inc(cleared)
             b == Register(a, "click")
             c == [b EXCEPT !.clickptr = TRUE]
  <1>1. "click" \in Kinds /\ s.reg \in [Kinds -> Nat] /\ s.refcnt \in Int
    BY DEF Balanced, Alive, TermState, Kinds
  <1>2. /\ Alive(cleared) /\ cleared.reg = [s.reg EXCEPT !["click"] = 0]
        /\ cleared.refcnt = Registrations(cleared)
        /\ cleared.delaying = s.delaying /\ cleared.ringing = s.ringing
        /\ SameView(s, cleared)
    <2>1. CASE s.clickptr
      <3> DEFINE u == Unregister(s, "click")
      <3>1. s.reg["click"] = 1
        BY <2>1 DEF Balanced, TimersOK
      <3>2. /\ Alive(u) /\ u.refcnt = s.refcnt /\ u.reg = [s.reg EXCEPT !["click"] = @ - 1]
            /\ SameFlags(s, u) /\ SameView(s, u)
        BY <1>1, <3>1, UnregisterFacts DEF Balanced
      <3>3. u.reg = [s.reg EXCEPT !["click"] = 0]
        BY <1>1, <3>1, <3>2
      <3>4. /\ u.refcnt = Registrations(u) + 1 /\ Registrations(u) \in Nat
            /\ Registrations(u) > 0
        BY <1>1, <3>1, <3>2, <3>3 DEF Balanced, Registrations, Kinds
      <3>5. /\ Dec(u) \in TermState /\ ~Dec(u).uaf
            /\ Dec(u).refcnt = u.refcnt - 1 /\ Dec(u).reg = u.reg
            /\ Dec(u).life = IF u.refcnt - 1 <= 0 THEN "freed" ELSE "alive"
            /\ SameFlags(u, Dec(u)) /\ SameView(u, Dec(u))
        BY <3>2, DecFacts
      <3>6. Dec(u).life = "alive" /\ Dec(u).refcnt = Registrations(Dec(u))
        BY <3>4, <3>5 DEF Registrations
      <3> QED
        BY <2>1, <3>2, <3>3, <3>5, <3>6 DEF Alive, SameFlags, SameView
    <2>2. CASE ~s.clickptr
      <3>1. s.reg["click"] = 0 /\ Registrations(s) \in Nat
        BY <1>1, <2>2 DEF Balanced, TimersOK, Registrations, Kinds
      <3>2. s.reg = [s.reg EXCEPT !["click"] = 0]
        BY <1>1, <3>1
      <3> QED
        BY <2>2, <3>1, <3>2 DEF Balanced, SameView
    <2> QED
      BY <2>1, <2>2
  <1>3. /\ Alive(a) /\ a.refcnt = cleared.refcnt + 1 /\ a.reg = cleared.reg
        /\ SameFlags(cleared, a) /\ SameView(cleared, a)
    BY <1>2, IncFacts
  <1>4. /\ Alive(b) /\ b.refcnt = a.refcnt /\ b.reg = [a.reg EXCEPT !["click"] = @ + 1]
        /\ SameFlags(a, b) /\ SameView(a, b)
    BY <1>1, <1>3, RegisterFacts
  <1>5. /\ Alive(c) /\ c.refcnt = b.refcnt /\ c.reg = b.reg /\ c.clickptr
        /\ c.delaying = b.delaying /\ c.ringing = b.ringing
        /\ c.requests = b.requests /\ c.dirty = b.dirty /\ c.painted = b.painted
    BY <1>4 DEF Alive, TermState
  <1>6. /\ c.reg["click"] = 1 /\ c.reg["delay"] = s.reg["delay"]
        /\ c.reg["bell"] = s.reg["bell"] /\ c.reg["window"] = s.reg["window"]
        /\ c.reg["pty"] = s.reg["pty"]
        /\ cleared.reg["click"] = 0 /\ cleared.reg["delay"] = s.reg["delay"]
        /\ cleared.reg["bell"] = s.reg["bell"] /\ cleared.reg["window"] = s.reg["window"]
        /\ cleared.reg["pty"] = s.reg["pty"]
    BY <1>1, <1>2, <1>3, <1>4, <1>5 DEF Kinds
  <1>7. TimersOK(c) /\ SameWatches(s, c)
    BY <1>2, <1>3, <1>4, <1>5, <1>6 DEF Balanced, TimersOK, SameWatches, Watches, SameFlags
  <1>8. c.refcnt > 0 /\ c.refcnt = Registrations(c) + 0
    BY <1>1, <1>2, <1>3, <1>4, <1>5, <1>6 DEF Registrations, Kinds
  <1>9. Clean(s) => Clean(c)
    BY <1>2, <1>3, <1>4, <1>5 DEF Clean, SameFlags, SameView
  <1> QED
    BY <1>5, <1>7, <1>8, <1>9 DEF RestartClickTimer, Kept, Balanced

LEMMA MultiClickKept ==
  ASSUME NEW s, Balanced(s, 0), s.reg["window"] > 0,
         NEW extends \in BOOLEAN, NEW r1 \in BOOLEAN, NEW r2 \in BOOLEAN
  PROVE  Kept(s, MultiClick(s, extends, r1, r2))
  <1> DEFINE v == RestartClickTimer(s)
             u == [v EXCEPT !.clicks = @ + 1]
             started == Redisplay(u, r1)
  <1>1. Touch(s) = s
    BY TouchIsIdentity DEF Balanced
  <1>2. Kept(s, v)
    BY RestartClickTimerKept
  <1>3. /\ Alive(u) /\ u.refcnt = v.refcnt /\ u.reg = v.reg /\ SameFlags(v, u)
        /\ u.requests = v.requests /\ u.dirty = v.dirty /\ u.painted = v.painted
        /\ u.clicks = v.clicks + 1 /\ v.clicks \in Nat
    BY <1>2 DEF Kept, Balanced, Alive, TermState, SameFlags
  <1>4. Kept(s, u)
    <2>1. Balanced(u, 0) /\ SameWatches(v, u)
      BY <1>2, <1>3, BalanceIgnoresView DEF Kept
    <2> QED
      BY <1>2, <1>3, <2>1 DEF Kept, Clean, SameFlags, SameWatches
  <1>5. Kept(s, started)
    BY <1>4, RedisplayKept
  <1>6. Kept(s, Redisplay(started, r2))
    BY <1>5, RedisplayKept
  <1>7. u.clicks = 1 \/ u.clicks > 1
    BY <1>3
  <1> QED
    BY <1>1, <1>4, <1>5, <1>6, <1>7 DEF MultiClick

-----------------------------------------------------------------------------
(* The terminals of a process: the inductive invariant *)

\* A change of the screen has a timer or an Expose event on its way.
View(s, e) == s.life = "alive" => Clean(s) \/ e

\* A terminal without a window has told its child.
Told(s, c) ==
    /\ s.life # "none" => c # "none"
    /\ s.life # "none" /\ s.reg["window"] = 0 => c \in {"signalled", "exited"}

Types ==
    /\ term \in [Terms -> TermState]
    /\ child \in [Terms -> {"none", "running", "signalled", "exited"}]
    /\ wmdelete \in [Terms -> BOOLEAN]
    /\ exposed \in [Terms -> BOOLEAN]
    /\ loop \in {"running", "done", "stopped"}
    /\ sockwatch \in BOOLEAN

\* The inductive invariant.
IInv ==
    /\ Types
    /\ \A t \in Terms : Settled(term[t])
    /\ \A t \in Terms : View(term[t], exposed[t])
    /\ \A t \in Terms : Told(term[t], child[t])
    /\ loop = "done" => \A t \in Terms : term[t].life # "alive"

-----------------------------------------------------------------------------
(* Facts about single terminals *)

LEMMA NoTermSettled ==
  Settled(NoTerm) /\ NoTerm.life = "none" /\ ~NoTerm.uaf
  <1>1. NoTerm \in TermState
    BY DEF NoTerm, TermState, Kinds, Requests
  <1>2. Registrations(NoTerm) = 0
    BY DEF NoTerm, Registrations, Kinds
  <1>3. TimersOK(NoTerm)
    BY DEF NoTerm, TimersOK, Kinds
  <1> QED
    BY <1>1, <1>2, <1>3 DEF NoTerm, Settled

LEMMA CreatedSettled ==
  /\ Balanced(Created, 0) /\ Settled(Created)
  /\ Created.reg["window"] = 1 /\ Created.reg["pty"] = 1
  /\ Created.reg["delay"] = 0 /\ Created.reg["bell"] = 0 /\ Created.reg["click"] = 0
  <1> DEFINE f == [NoTerm EXCEPT !.life = "alive"]
             a == Inc(f)
             b == Register(a, "window")
             c == Inc(b)
             d == Register(c, "pty")
  <1>0. "window" \in Kinds /\ "pty" \in Kinds
    BY DEF Kinds
  <1>1. /\ Alive(f) /\ f.refcnt = 0 /\ f.reg = [k \in Kinds |-> 0]
        /\ ~f.delaying /\ ~f.ringing /\ ~f.clickptr
    <2>1. NoTerm \in TermState /\ ~NoTerm.uaf
      BY NoTermSettled DEF Settled
    <2>2. f \in TermState /\ f.life = "alive" /\ ~f.uaf
      BY <2>1 DEF TermState
    <2>3. /\ f.refcnt = 0 /\ f.reg = [k \in Kinds |-> 0]
          /\ ~f.delaying /\ ~f.ringing /\ ~f.clickptr
      BY DEF NoTerm
    <2> QED
      BY <2>2, <2>3 DEF Alive
  <1> HIDE DEF f
  <1>2. Alive(a) /\ a.refcnt = 1 /\ a.reg = f.reg /\ SameFlags(f, a)
    BY <1>1, IncFacts
  <1>3. /\ Alive(b) /\ b.refcnt = 1 /\ b.reg = [a.reg EXCEPT !["window"] = @ + 1]
        /\ SameFlags(a, b)
    BY <1>0, <1>2, RegisterFacts
  <1>4. Alive(c) /\ c.refcnt = 2 /\ c.reg = b.reg /\ SameFlags(b, c)
    BY <1>3, IncFacts
  <1>5. /\ Alive(d) /\ d.refcnt = 2 /\ d.reg = [c.reg EXCEPT !["pty"] = @ + 1]
        /\ SameFlags(c, d)
    BY <1>0, <1>4, RegisterFacts
  <1>6. /\ d.reg["window"] = 1 /\ d.reg["pty"] = 1 /\ d.reg["delay"] = 0
        /\ d.reg["bell"] = 0 /\ d.reg["click"] = 0
    BY <1>1, <1>2, <1>3, <1>4, <1>5 DEF Kinds
  <1>7. TimersOK(d)
    BY <1>1, <1>2, <1>3, <1>4, <1>5, <1>6 DEF TimersOK, SameFlags
  <1>8. Balanced(d, 0)
    BY <1>5, <1>6, <1>7 DEF Balanced, Registrations
  <1> QED
    BY <1>6, <1>8, SettledIsBalanced DEF Created, f

\* A registered callback finds its terminal alive.
LEMMA RegisteredIsBalanced ==
  ASSUME IInv, NEW t \in Terms, NEW k \in Kinds, Registered(t, k)
  PROVE  Balanced(term[t], 0) /\ term[t].reg[k] > 0
  <1>1. Settled(term[t]) /\ term[t] \in TermState
    BY DEF IInv, Settled
  <1>2. term[t].reg \in [Kinds -> Nat] /\ term[t].reg[k] > 0
    BY <1>1 DEF TermState, Registered
  <1>3. Registrations(term[t]) > 0
    BY <1>2 DEF Registrations, Kinds
  <1> QED
    BY <1>1, <1>2, <1>3, SettledIsBalanced DEF Settled

-----------------------------------------------------------------------------
(* One terminal changes *)

\* A step that changes terminal t only.
LEMMA OneChanges ==
  ASSUME IInv, NEW t \in Terms, NEW s,
         term' = [term EXCEPT ![t] = s],
         Settled(s), View(s, exposed'[t]), Told(s, child'[t]),
         child' \in [Terms -> {"none", "running", "signalled", "exited"}],
         exposed' \in [Terms -> BOOLEAN],
         wmdelete' \in [Terms -> BOOLEAN],
         \A u \in Terms \ {t} : child'[u] = child[u] /\ exposed'[u] = exposed[u],
         loop' = "running", sockwatch' \in BOOLEAN
  PROVE  IInv'
  <1>1. \A u \in Terms : term'[u] = IF u = t THEN s ELSE term[u]
    BY DEF IInv, Types
  <1>2. Types'
    BY DEF IInv, Types, Settled
  <1>3. \A u \in Terms : Settled(term'[u])
    BY <1>1 DEF IInv
  <1>4. \A u \in Terms : View(term'[u], exposed'[u])
    <2> TAKE u \in Terms
    <2>1. CASE u = t
      BY <1>1, <2>1
    <2>2. CASE u # t
      <3>1. View(term[u], exposed[u]) /\ exposed'[u] = exposed[u] /\ term'[u] = term[u]
        BY <1>1, <2>2 DEF IInv
      <3> QED
        BY <3>1
    <2> QED
      BY <2>1, <2>2
  <1>5. \A u \in Terms : Told(term'[u], child'[u])
    <2> TAKE u \in Terms
    <2>1. CASE u = t
      BY <1>1, <2>1
    <2>2. CASE u # t
      <3>1. Told(term[u], child[u]) /\ child'[u] = child[u] /\ term'[u] = term[u]
        BY <1>1, <2>2 DEF IInv
      <3> QED
        BY <3>1
    <2> QED
      BY <2>1, <2>2
  <1> QED
    BY <1>2, <1>3, <1>4, <1>5 DEF IInv

\* A callback or handler that leaves everything but its terminal alone.
LEMMA BecomesPreserves ==
  ASSUME IInv, NEW t \in Terms, term[t].life = "alive",
         NEW s, Released(term[t], s), Becomes(t, s)
  PROVE  IInv'
  <1>1. Settled(s) /\ s.life # "none" /\ s.reg["window"] = term[t].reg["window"]
    BY DEF Released, SameWatches, Watches
  <1>2. View(s, exposed[t])
    BY DEF IInv, View, Released
  <1>3. Told(s, child[t])
    BY <1>1 DEF IInv, Told
  <1> QED
    BY <1>1, <1>2, <1>3, OneChanges DEF Becomes, IInv, Types

-----------------------------------------------------------------------------
(* The invariant is inductive *)

LEMMA InitIInv == Init => IInv
  <1> SUFFICES ASSUME Init PROVE IInv
    OBVIOUS
  <1>1. CASE Daemon
    <2>1. \A t \in Terms : /\ term[t] = NoTerm /\ child[t] = "none" /\ ~exposed[t]
      BY <1>1 DEF Init
    <2>2. Types
      BY <2>1, NoTermSettled, LifecycleAssumption DEF Init, Types, Settled
    <2> QED
      BY <2>1, <2>2, NoTermSettled DEF IInv, View, Told, Init
  <1>2. CASE ~Daemon
    <2>1. \A t \in Terms : /\ term[t] = Created /\ child[t] = "running" /\ exposed[t]
      BY <1>2 DEF Init
    <2>2. Types
      BY <2>1, CreatedSettled, LifecycleAssumption DEF Init, Types, Settled
    <2> QED
      BY <2>1, <2>2, CreatedSettled DEF IInv, View, Told, Init
  <1> QED
    BY <1>1, <1>2

LEMMA RecentIsBoolean == Recent \subseteq BOOLEAN
  BY DEF Recent

\* The callbacks and handlers that change one terminal only.
LEMMA TermStepPreserves ==
  ASSUME IInv, NEW t \in Terms,
         \/ PtyReadable(t) \/ DelayedRedraw(t) \/ BellEnds(t) \/ MultiClickEnds(t)
         \/ Focus(t) \/ Type(t) \/ Scroll(t) \/ Select(t) \/ Release(t)
  PROVE  /\ \E s : Released(term[t], s) /\ Becomes(t, s)
         /\ term[t].life = "alive"
  <1>0. /\ "window" \in Kinds /\ "pty" \in Kinds /\ "delay" \in Kinds
        /\ "bell" \in Kinds /\ "click" \in Kinds
    BY DEF Kinds
  <1> DEFINE s0 == term[t]
  <1>1. CASE PtyReadable(t)
    <2>1. Balanced(s0, 0)
      BY <1>0, <1>1, RegisteredIsBalanced DEF PtyReadable
    <2>2. PICK raised \in SUBSET ChildRequests, r \in Recent :
             Becomes(t, PtyData(s0, raised, r))
      BY <1>1 DEF PtyReadable
    <2>3. Kept(s0, PtyData(s0, raised, r))
      BY <2>1, PtyDataKept, RecentIsBoolean, LifecycleAssumption
    <2> QED
      BY <2>1, <2>2, <2>3, KeptIsReleased DEF Balanced, Alive
  <1>2. CASE DelayedRedraw(t)
    <2>1. Balanced(s0, 0) /\ s0.reg["delay"] > 0
      BY <1>0, <1>2, RegisteredIsBalanced DEF DelayedRedraw
    <2>2. PICK r \in Recent : Becomes(t, DelayCb(s0, r))
      BY <1>2 DEF DelayedRedraw
    <2> QED
      BY <2>1, <2>2, DelayCbReleased, RecentIsBoolean DEF Balanced, Alive
  <1>3. CASE BellEnds(t)
    <2>1. Balanced(s0, 0) /\ s0.reg["bell"] > 0
      BY <1>0, <1>3, RegisteredIsBalanced DEF BellEnds
    <2>2. PICK r \in Recent : Becomes(t, ResetVisualBell(s0, r))
      BY <1>3 DEF BellEnds
    <2> QED
      BY <2>1, <2>2, ResetVisualBellReleased, RecentIsBoolean DEF Balanced, Alive
  <1>4. CASE MultiClickEnds(t)
    <2>1. Balanced(s0, 0) /\ s0.reg["click"] > 0
      BY <1>0, <1>4, RegisteredIsBalanced DEF MultiClickEnds
    <2> QED
      BY <1>4, <2>1, MultiClickCbReleased DEF MultiClickEnds, Balanced, Alive
  <1>5. CASE Focus(t)
    <2>1. Balanced(s0, 0)
      BY <1>0, <1>5, RegisteredIsBalanced DEF Focus
    <2>2. PICK out \in BOOLEAN, r \in Recent : Becomes(t, FocusEvent(s0, out, r))
      BY <1>5 DEF Focus
    <2> QED
      BY <2>1, <2>2, FocusEventKept, RecentIsBoolean, KeptIsReleased DEF Balanced, Alive
  <1>6. CASE Type(t)
    <2>1. Balanced(s0, 0)
      BY <1>0, <1>6, RegisteredIsBalanced DEF Type
    <2>2. PICK r \in Recent : Becomes(t, WriteToPty(s0, r))
      BY <1>6 DEF Type
    <2> QED
      BY <2>1, <2>2, WriteToPtyKept, RecentIsBoolean, KeptIsReleased DEF Balanced, Alive
  <1>7. CASE Scroll(t)
    <2>1. Balanced(s0, 0)
      BY <1>0, <1>7, RegisteredIsBalanced DEF Scroll
    <2>2. PICK to \in BOOLEAN, moved \in BOOLEAN, r \in Recent :
             Becomes(t, VisibleScroll(s0, to, moved, r))
      BY <1>7 DEF Scroll
    <2> QED
      BY <2>1, <2>2, VisibleScrollKept, RecentIsBoolean, KeptIsReleased DEF Balanced, Alive
  <1>8. CASE Select(t)
    <2>1. Balanced(s0, 0)
      BY <1>0, <1>8, RegisteredIsBalanced DEF Select
    <2>2. PICK r \in Recent : Becomes(t, Redisplay(s0, r))
      BY <1>8 DEF Select
    <2>3. Kept(s0, s0)
      BY <2>1 DEF Kept, SameWatches
    <2> QED
      BY <2>1, <2>2, <2>3, RedisplayKept, RecentIsBoolean, KeptIsReleased DEF Balanced, Alive
  <1>9. CASE Release(t)
    <2>1. Balanced(s0, 0) /\ s0.reg["window"] > 0
      BY <1>0, <1>9, RegisteredIsBalanced DEF Release
    <2>2. PICK e1 \in BOOLEAN, e2 \in BOOLEAN,
               r1 \in Recent, r2 \in Recent, r3 \in Recent, r4 \in Recent :
             LET once == MultiClick(s0, e1, r1, r2)
             IN  \/ Becomes(t, once)
                 \/ Becomes(t, MultiClick(once, e2, r3, r4))
                 \/ Becomes(t, WriteToPty(once, r3))
      BY <1>9 DEF Release
    <2> DEFINE once == MultiClick(s0, e1, r1, r2)
    <2>3. Kept(s0, once)
      BY <2>1, MultiClickKept, RecentIsBoolean
    <2>4. Balanced(once, 0) /\ once.reg["window"] > 0
      BY <2>1, <2>3 DEF Kept, SameWatches, Watches
    <2>5. Kept(s0, MultiClick(once, e2, r3, r4)) /\ Kept(s0, WriteToPty(once, r3))
      <3>1. Kept(once, MultiClick(once, e2, r3, r4)) /\ Kept(once, WriteToPty(once, r3))
        BY <2>4, MultiClickKept, WriteToPtyKept, RecentIsBoolean
      <3> QED
        BY <2>3, <3>1 DEF Kept, SameWatches
    <2> QED
      BY <2>1, <2>2, <2>3, <2>5, KeptIsReleased DEF Balanced, Alive
  <1> QED
    BY <1>1, <1>2, <1>3, <1>4, <1>5, <1>6, <1>7, <1>8, <1>9

\* A watch is given up: what becomes of the terminal.
LEMMA UnwatchFacts ==
  ASSUME IInv, NEW t \in Terms, NEW k \in Watches, Registered(t, k)
  PROVE  LET s == Dec(Unregister(Touch(term[t]), k))
         IN  /\ Settled(s) /\ s.life # "none" /\ term[t].life = "alive"
             /\ s.reg = [term[t].reg EXCEPT ![k] = 0]
             /\ term[t].reg \in [Kinds -> Nat]
             /\ View(s, exposed[t])
  <1>1. k \in Kinds
    BY DEF Watches, Kinds
  <1>2. Balanced(term[t], 0) /\ term[t].reg[k] > 0
    BY <1>1, RegisteredIsBalanced
  <1>3. term[t].life = "alive" /\ term[t].reg \in [Kinds -> Nat]
    BY <1>2 DEF Balanced, Alive, TermState
  <1> DEFINE s == Dec(Unregister(Touch(term[t]), k))
  <1>4. /\ Settled(s) /\ s.life # "none" /\ s.reg = [term[t].reg EXCEPT ![k] = 0]
        /\ Clean(term[t]) => Clean(s)
    BY <1>2, UnwatchSettles
  <1>5. View(s, exposed[t])
    BY <1>3, <1>4 DEF IInv, View
  <1> QED
    BY <1>3, <1>4, <1>5

LEMMA HandlerPreserves ==
  ASSUME IInv, NEW t \in Terms, Handler(t)
  PROVE  IInv'
  <1>0. "window" \in Kinds /\ "pty" \in Kinds /\ "window" \in Watches /\ "pty" \in Watches
    BY DEF Kinds, Watches
  <1>1. CASE NewTerm(t)
    <2>1. View(Created, exposed'[t]) /\ Told(Created, child'[t])
      BY <1>1, CreatedSettled DEF NewTerm, IInv, Types, View, Told
    <2> QED
      BY <1>1, <2>1, CreatedSettled, OneChanges DEF NewTerm, IInv, Types
  <1>2. CASE \/ PtyReadable(t) \/ DelayedRedraw(t) \/ BellEnds(t) \/ MultiClickEnds(t)
             \/ Focus(t) \/ Type(t) \/ Scroll(t) \/ Select(t) \/ Release(t)
    BY <1>2, TermStepPreserves, BecomesPreserves
  <1>3. CASE PtyClosed(t)
    <2> DEFINE s == PtyEof(term[t])
    <2>1. /\ Settled(s) /\ s.life # "none" /\ s.reg = [term[t].reg EXCEPT !["pty"] = 0]
          /\ View(s, exposed[t])
      BY <1>0, <1>3, UnwatchFacts DEF PtyClosed, PtyEof
    <2>2. Told(s, child'[t])
      BY <1>3 DEF PtyClosed, Told
    <2> HIDE DEF s
    <2> QED
      BY <1>3, <2>1, <2>2, OneChanges DEF PtyClosed, IInv, Types, s
  <1>4. CASE WindowClose(t)
    <2> DEFINE s == WindowClosed(term[t])
    <2>1. /\ Settled(s) /\ s.life # "none" /\ term[t].life = "alive" /\ View(s, exposed[t])
      BY <1>0, <1>4, UnwatchFacts DEF WindowClose, WindowClosed
    <2>2. child[t] # "none"
      BY <2>1 DEF IInv, Told
    <2>3. Told(s, child'[t])
      BY <1>4, <2>2 DEF WindowClose, Told, IInv, Types
    <2> HIDE DEF s
    <2> QED
      BY <1>4, <2>1, <2>3, OneChanges DEF WindowClose, IInv, Types, s
  <1>5. CASE Expose(t)
    <2>1. Balanced(term[t], 0)
      BY <1>0, <1>5, RegisteredIsBalanced DEF Expose
    <2>2. PICK r \in Recent : term' = [term EXCEPT ![t] = Flush(term[t], r)]
      BY <1>5 DEF Expose, ExposeEvent
    <2> DEFINE s == Flush(term[t], r)
    <2>3. Balanced(s, 0) /\ SameWatches(term[t], s) /\ Clean(s)
      BY <2>1, FlushBalanced, RecentIsBoolean
    <2>4. Settled(s) /\ View(s, exposed'[t]) /\ Told(s, child'[t])
      <3>1. s.life = "alive" /\ s.reg["window"] = term[t].reg["window"]
            /\ term[t].life = "alive" /\ child' = child
        BY <1>5, <2>1, <2>3 DEF Balanced, Alive, SameWatches, Watches, Expose
      <3> QED
        BY <2>3, <3>1, SettledIsBalanced DEF View, Told, IInv
    <2> HIDE DEF s
    <2> QED
      BY <1>5, <2>2, <2>4, OneChanges DEF Expose, IInv, Types, s
  <1>6. CASE Configure(t)
    <2>1. Balanced(term[t], 0)
      BY <1>0, <1>6, RegisteredIsBalanced DEF Configure
    <2> DEFINE s == ResizeWindow(term[t])
    <2>2. Balanced(s, 0) /\ SameWatches(term[t], s)
      BY <2>1, ResizeWindowBalanced
    <2>3. Settled(s) /\ View(s, exposed'[t]) /\ Told(s, child'[t])
      <3>1. s.life = "alive" /\ s.reg["window"] = term[t].reg["window"]
            /\ term[t].life = "alive" /\ child' = child /\ exposed'[t]
        BY <1>6, <2>1, <2>2 DEF Balanced, Alive, SameWatches, Watches, Configure, IInv, Types
      <3> QED
        BY <2>2, <3>1, SettledIsBalanced DEF View, Told, IInv
    <2> HIDE DEF s
    <2> QED
      BY <1>6, <2>3, OneChanges DEF Configure, IInv, Types, s
  <1> QED
    BY <1>1, <1>2, <1>3, <1>4, <1>5, <1>6 DEF Handler

LEMMA EnvironmentPreserves ==
  ASSUME IInv, NEW t \in Terms, Environment(t)
  PROVE  IInv'
  <1>1. CASE UserCloses(t)
    BY <1>1 DEF UserCloses, IInv, Types
  <1>2. CASE ChildExits(t)
    <2>1. Types'
      BY <1>2 DEF ChildExits, IInv, Types
    <2>2. \A u \in Terms : Told(term[u], child'[u])
      BY <1>2 DEF ChildExits, IInv, Types, Told
    <2> QED
      BY <1>2, <2>1, <2>2 DEF ChildExits, IInv
  <1>3. CASE Uncovered(t)
    <2> DEFINE s == [term[t] EXCEPT !.painted = FALSE]
    <2>1. Balanced(term[t], 0)
      BY <1>3, RegisteredIsBalanced DEF Uncovered, Kinds
    <2>2. /\ Alive(s) /\ s.refcnt = term[t].refcnt /\ s.reg = term[t].reg
          /\ SameFlags(term[t], s)
      BY <2>1 DEF Balanced, Alive, TermState, SameFlags
    <2>3. Settled(s) /\ s.life = "alive" /\ term[t].life = "alive"
      BY <2>1, <2>2, BalanceIgnoresView, SettledIsBalanced DEF Balanced, Alive
    <2>4. loop # "done"
      BY <2>3 DEF IInv
    <2>5. \A u \in Terms : term'[u] = IF u = t THEN s ELSE term[u]
      BY <1>3 DEF Uncovered, IInv, Types
    <2>6. Types'
      BY <1>3, <2>3 DEF Uncovered, IInv, Types, Settled
    <2>7. \A u \in Terms : Settled(term'[u])
      BY <2>3, <2>5 DEF IInv
    <2>8. \A u \in Terms : View(term'[u], exposed'[u])
      <3> TAKE u \in Terms
      <3>1. CASE u = t
        BY <1>3, <3>1 DEF Uncovered, View, IInv, Types
      <3>2. CASE u # t
        <4>1. View(term[u], exposed[u]) /\ exposed'[u] = exposed[u] /\ term'[u] = term[u]
          BY <1>3, <2>5, <3>2 DEF IInv, Uncovered, Types
        <4> QED
          BY <4>1
      <3> QED
        BY <3>1, <3>2
    <2>9. \A u \in Terms : Told(term'[u], child'[u])
      <3> TAKE u \in Terms
      <3>1. Told(term[u], child[u]) /\ child' = child
        BY <1>3 DEF IInv, Uncovered
      <3> QED
        BY <2>2, <2>3, <2>5, <3>1 DEF Told
    <2> QED
      BY <1>3, <2>4, <2>6, <2>7, <2>8, <2>9 DEF IInv, Uncovered
  <1> QED
    BY <1>1, <1>2, <1>3 DEF Environment

LEMMA NextIInv ==
  ASSUME IInv, [Next]_vars
  PROVE  IInv'
  <1>1. CASE \E t \in Terms : Handler(t)
    BY <1>1, HandlerPreserves
  <1>2. CASE \E t \in Terms : Environment(t)
    BY <1>2, EnvironmentPreserves
  <1>3. CASE KillDaemon
    BY <1>3 DEF KillDaemon, IInv, Types
  <1>4. CASE LoopEnds
    BY <1>4 DEF LoopEnds, IInv, Types, Settled
  <1>5. CASE UNCHANGED vars
    BY <1>5 DEF vars, IInv, Types, Registered
  <1> QED
    BY <1>1, <1>2, <1>3, <1>4, <1>5 DEF Next

-----------------------------------------------------------------------------
(* The theorems *)

\* The invariant holds in every reachable state.
THEOREM Invariance == Spec => []IInv
  BY InitIInv, NextIInv, PTL DEF Spec

\* Every reachable state is well-typed, and no reference count is negative.
THEOREM TypeCorrect == Spec => []TypeOK
  <1>1. IInv => TypeOK
    BY DEF IInv, Types, TypeOK, Settled, TermState, Registrations, Kinds
  <1> QED
    BY <1>1, Invariance, PTL

\* The reference count of every terminal is the number of its callbacks that
\* the loop still has registered.
THEOREM RefcntIsExact == Spec => []RefcntExact
  <1>1. IInv => RefcntExact
    BY DEF IInv, RefcntExact, Settled
  <1> QED
    BY <1>1, Invariance, PTL

\* A terminal exists exactly as long as a callback is registered for it.
THEOREM TerminalsLiveWhileRegistered == Spec => []LivesWhileRegistered
  <1>1. IInv => LivesWhileRegistered
    BY DEF IInv, LivesWhileRegistered, Settled
  <1> QED
    BY <1>1, Invariance, PTL

\* No order of callbacks makes one use a terminal that was freed.
THEOREM MemorySafety == Spec => []NoUseAfterFree
  <1>1. IInv => NoUseAfterFree
    BY DEF IInv, NoUseAfterFree, Settled
  <1> QED
    BY <1>1, Invariance, PTL

\* The flags and the click pointer tell which timers run.
THEOREM FlagsTellTimers == Spec => []TimersMatchFlags
  <1>1. IInv => TimersMatchFlags
    BY DEF IInv, TimersMatchFlags, Settled, TimersOK
  <1> QED
    BY <1>1, Invariance, PTL

\* Throttling and bells never lose a redraw.
THEOREM RedrawsAreKept == Spec => []NoLostRedraw
  <1>1. IInv => NoLostRedraw
    BY DEF IInv, NoLostRedraw, View, Clean
  <1> QED
    BY <1>1, Invariance, PTL

\* No window disappears from above a child that was not told.
THEOREM ChildrenAreTold == Spec => []NoOrphan
  <1>1. ASSUME IInv, NEW t \in Terms,
               term[t].life # "none", ~Registered(t, "window")
        PROVE  child[t] \in {"signalled", "exited"}
    <2>1. term[t].reg["window"] \in Nat
      BY <1>1 DEF IInv, Types, TermState, Kinds
    <2>2. term[t].reg["window"] = 0
      BY <1>1, <2>1 DEF Registered
    <2> QED
      BY <1>1, <2>2 DEF IInv, Told
  <1>2. IInv => NoOrphan
    BY <1>1 DEF NoOrphan
  <1> QED
    BY <1>2, Invariance, PTL

\* A loop that ends by itself has freed everything.
THEOREM DoneLoopFreedAll == Spec => []DoneMeansFreed
  <1>1. IInv => DoneMeansFreed
    BY DEF IInv, DoneMeansFreed
  <1> QED
    BY <1>1, Invariance, PTL

-----------------------------------------------------------------------------
(* The refinement of TermHolders *)

\* A callback of the implementation is a callback of the abstraction.
LEMMA CallbackIsAbstract ==
  ASSUME IInv, NEW t \in Terms, NEW s, Settled(s), s.life # "none",
         term[t].life = "alive", term' = [term EXCEPT ![t] = s],
         \A k \in Watches : s.reg[k] > 0 => term[t].reg[k] > 0
  PROVE  Abstract!Next
  <1> DEFINE kept == {k \in Kinds : s.reg[k] > 0}
             h == [u \in Terms |-> Holders(u)]
             l == [u \in Terms |-> term[u].life]
  <1>1. term'[t] = s /\ \A u \in Terms : u # t => term'[u] = term[u]
    BY DEF IInv, Types
  <1>2. kept \in SUBSET Abstract!AllKinds /\ Abstract!BothWatches = Watches
    BY DEF Abstract!AllKinds, Abstract!BothWatches, Kinds, Watches
  <1>3. kept \cap Watches \subseteq h[t]
    BY DEF Holders, Registered, Watches, Kinds
  <1>4. h' = [h EXCEPT ![t] = kept]
    BY <1>1 DEF Holders, Registered
  <1>5. s.life = IF kept = {} THEN "freed" ELSE "alive"
    <2>1. /\ s.life \in {"alive", "freed"} /\ s.reg \in [Kinds -> Nat]
          /\ s.life = "alive" <=> Registrations(s) > 0
      BY DEF Settled, TermState
    <2>2. Registrations(s) > 0 <=> kept # {}
      BY <2>1 DEF Registrations, Kinds
    <2> QED
      BY <2>1, <2>2
  <1>6. l' = [l EXCEPT ![t] = IF kept = {} THEN "freed" ELSE "alive"]
    <2>1. l' = [l EXCEPT ![t] = s.life]
      <3>1. \A u \in Terms : term'[u].life = IF u = t THEN s.life ELSE term[u].life
        BY <1>1
      <3> QED
        BY <3>1
    <2>2. CASE kept = {}
      BY <1>5, <2>1, <2>2
    <2>3. CASE kept # {}
      BY <1>5, <2>1, <2>3
    <2> QED
      BY <2>2, <2>3
  <1>7. l[t] = "alive"
    OBVIOUS
  <1>8. Abstract!Callback(t, kept)
    BY <1>2, <1>3, <1>4, <1>6, <1>7 DEF Abstract!Callback
  <1> QED
    BY <1>2, <1>8 DEF Abstract!Next

\* The initial terminals are nobody's, or held by both their watches.
LEMMA InitIsAbstract == Init => Abstract!Init
  <1> SUFFICES ASSUME Init PROVE Abstract!Init
    OBVIOUS
  <1> DEFINE h == [u \in Terms |-> Holders(u)]
  <1>1. ASSUME Daemon PROVE Abstract!Init
    <2>1. \A u \in Terms : term[u] = NoTerm
      BY <1>1 DEF Init
    <2>2. \A u \in Terms : Holders(u) = {} /\ term[u].life = "none"
      BY <2>1 DEF Holders, Registered, NoTerm, Kinds
    <2> QED
      BY <2>2 DEF Abstract!Init
  <1>2. ASSUME ~Daemon PROVE Abstract!Init
    <2>1. \A u \in Terms : term[u] = Created
      BY <1>2 DEF Init
    <2>2. \A u \in Terms : Holders(u) = Watches /\ term[u].life = "alive"
      BY <2>1, CreatedSettled DEF Holders, Registered, Kinds, Watches, Balanced, Alive
    <2> QED
      BY <2>2 DEF Abstract!Init, Abstract!BothWatches, Watches
  <1> QED
    BY <1>1, <1>2

LEMMA NextIsAbstract ==
  ASSUME IInv, [Next]_vars
  PROVE  [Abstract!Next]_(Abstract!hvars)
  <1>0. "window" \in Kinds /\ "pty" \in Kinds /\ "window" \in Watches /\ "pty" \in Watches
    BY DEF Kinds, Watches
  <1>1. ASSUME NEW t \in Terms, NewTerm(t) PROVE Abstract!Next
    <2> DEFINE h == [u \in Terms |-> Holders(u)]
               l == [u \in Terms |-> term[u].life]
    <2>1. term'[t] = Created /\ \A u \in Terms : u # t => term'[u] = term[u]
      BY <1>1 DEF NewTerm, IInv, Types
    <2>2. Holders(t)' = Watches /\ Created.life = "alive"
      BY <2>1, CreatedSettled DEF Holders, Registered, Kinds, Watches, Balanced, Alive
    <2>3. h' = [h EXCEPT ![t] = Watches] /\ l' = [l EXCEPT ![t] = "alive"]
      BY <2>1, <2>2 DEF Holders, Registered
    <2>4. l[t] = "none"
      BY <1>1 DEF NewTerm
    <2> QED
      BY <2>3, <2>4 DEF Abstract!Next, Abstract!Create, Abstract!BothWatches, Watches
  <1>2. ASSUME NEW t \in Terms,
               \/ PtyReadable(t) \/ DelayedRedraw(t) \/ BellEnds(t) \/ MultiClickEnds(t)
               \/ Focus(t) \/ Type(t) \/ Scroll(t) \/ Select(t) \/ Release(t)
        PROVE  Abstract!Next
    <2>1. PICK s : Released(term[t], s) /\ Becomes(t, s) /\ term[t].life = "alive"
      BY <1>2, TermStepPreserves
    <2>2. /\ Settled(s) /\ s.life # "none" /\ term' = [term EXCEPT ![t] = s]
          /\ \A k \in Watches : s.reg[k] > 0 => term[t].reg[k] > 0
      BY <2>1 DEF Released, Becomes, SameWatches
    <2> QED
      BY <2>1, <2>2, CallbackIsAbstract
  <1>3. ASSUME NEW t \in Terms, NEW k \in Watches, Registered(t, k),
               term' = [term EXCEPT ![t] = Dec(Unregister(Touch(term[t]), k))]
        PROVE  Abstract!Next
    <2> DEFINE s == Dec(Unregister(Touch(term[t]), k))
    <2>1. /\ Settled(s) /\ s.life # "none" /\ term[t].life = "alive"
          /\ s.reg = [term[t].reg EXCEPT ![k] = 0] /\ term[t].reg \in [Kinds -> Nat]
      BY <1>3, UnwatchFacts
    <2>2. \A j \in Watches : s.reg[j] > 0 => term[t].reg[j] > 0
      BY <2>1 DEF Watches, Kinds
    <2> HIDE DEF s
    <2> QED
      BY <1>3, <2>1, <2>2, CallbackIsAbstract DEF s
  <1>4. ASSUME NEW t \in Terms, PtyClosed(t) \/ WindowClose(t) PROVE Abstract!Next
    BY <1>0, <1>3, <1>4 DEF PtyClosed, WindowClose, PtyEof, WindowClosed
  <1>5. ASSUME NEW t \in Terms, Expose(t) \/ Configure(t) PROVE Abstract!Next
    <2>1. Balanced(term[t], 0)
      BY <1>0, <1>5, RegisteredIsBalanced DEF Expose, Configure
    <2>2. PICK s : /\ term' = [term EXCEPT ![t] = s]
                   /\ Balanced(s, 0) /\ SameWatches(term[t], s)
      BY <1>5, <2>1, FlushBalanced, ResizeWindowBalanced, RecentIsBoolean
         DEF Expose, ExposeEvent, Configure
    <2>3. Settled(s) /\ s.life # "none" /\ term[t].life = "alive"
      BY <2>1, <2>2, SettledIsBalanced DEF Balanced, Alive
    <2> QED
      BY <2>2, <2>3, CallbackIsAbstract DEF SameWatches
  <1>6. ASSUME NEW t \in Terms, Uncovered(t) PROVE UNCHANGED Abstract!hvars
    <2>1. \A u \in Terms : term'[u].reg = term[u].reg /\ term'[u].life = term[u].life
      BY <1>6 DEF Uncovered, IInv, Types, TermState
    <2> QED
      BY <2>1 DEF Abstract!hvars, Holders, Registered
  <1>7. ASSUME UNCHANGED term PROVE UNCHANGED Abstract!hvars
    BY <1>7 DEF Abstract!hvars, Holders, Registered
  <1>8. CASE \E t \in Terms : Handler(t) \/ Environment(t)
    BY <1>1, <1>2, <1>4, <1>5, <1>6, <1>7, <1>8
       DEF Handler, Environment, UserCloses, ChildExits
  <1>9. CASE KillDaemon \/ LoopEnds \/ UNCHANGED vars
    BY <1>7, <1>9 DEF KillDaemon, LoopEnds, vars
  <1> QED
    BY <1>8, <1>9 DEF Next

\* The reference counts of the C code implement the holders of the abstract
\* specification.
THEOREM RefinesHolders == Spec => ImplementsHolders
  BY InitIsAbstract, NextIsAbstract, Invariance, PTL DEF Spec, ImplementsHolders, Abstract!Spec

=============================================================================
