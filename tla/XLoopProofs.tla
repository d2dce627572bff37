------------------------------ MODULE XLoopProofs ------------------------------
(***************************************************************************)
(* What becomes of the events of the X server, for any number of terminals *)
(* and events, wherever the process reads the wire.                        *)
(*                                                                         *)
(* Xlib's queue followed by the wire is one line of events.  Reading the   *)
(* wire does not change it, a search takes one event out of it, and the    *)
(* server adds to its end: that the events of a terminal stand in it in    *)
(* the order they were sent in is all that the order of handling needs.    *)
(***************************************************************************)
EXTENDS XLoop, SequenceTheorems, WellFoundedInduction, TLAPS

Line == queue \o wire
Flying == ToSet(queue) \cup ToSet(wire)

-----------------------------------------------------------------------------
(* The inductive invariant *)

\* The events of a terminal stand in the line in the order they were sent in.
Ordered ==
    \A i, j \in DOMAIN Line :
        i < j /\ Line[i].to = Line[j].to => Line[i].n < Line[j].n

\* What is in the line was sent.
Genuine ==
    \A e \in Flying : e.n \in DOMAIN sent[e.to] /\ sent[e.to][e.n] = e.type

\* So were what has been handled, and the sizes.
Past ==
    \A t \in Terms :
        /\ \A j \in DOMAIN handled[t] : handled[t][j] <= Len(sent[t])
        /\ size[t] <= Len(sent[t])
        /\ t \in running => newest <= Len(sent[t])

\* What is in the line is newer.
Ahead ==
    \A e \in Flying :
        /\ \A j \in DOMAIN handled[e.to] : handled[e.to][j] < e.n
        /\ e.type = "configure" =>
              size[e.to] < e.n /\ (e.to \in running => newest < e.n)

\* One callback runs, and its handler's sizes are newer than its terminal's.
Resizing ==
    /\ \A t \in running : running = {t} /\ (newest # 0 => size[t] < newest)
    /\ newest # 0 => running # {}

\* The newest size of a terminal is in use, in its handler's hands, or in the
\* line.
SizeIsKept ==
    \A t \in Terms : \A n \in DOMAIN sent[t] :
        Watched(t) /\ sent[t][n] = "configure" =>
            \/ n <= size[t]
            \/ t \in running /\ n <= newest
            \/ \E e \in Flying : e.to = t /\ e.type = "configure" /\ n <= e.n

\* The bound on the events: the last one, which is no size, is the
\* terminal's own.
LastIsOwn ==
    \A t \in Terms :
        /\ <<"pty", t>> \in round => t \notin pty
        /\ \/ Len(sent[t]) <= MaxEvents
           \/ /\ Len(sent[t]) = MaxEvents + 1 /\ output[t] = "eof"
              /\ t \notin pty /\ <<"pty", t>> \notin round
        /\ \A n \in DOMAIN sent[t] : sent[t][n] = "configure" => n <= MaxEvents

Inv ==
    /\ TypeOK /\ Ordered /\ Genuine /\ Past /\ Ahead /\ Resizing /\ LastIsOwn
    /\ HandledInOrder /\ NothingLost /\ SizeIsKept

-----------------------------------------------------------------------------
(* The line *)

\* A set of numbers has a least element.
LEMMA LeastFacts ==
    ASSUME NEW S \in SUBSET Nat, S # {}
    PROVE  LET i == CHOOSE x \in S : \A j \in S : x <= j
           IN  i \in S /\ \A j \in S : i <= j
<1>1. PICK x \in S : \A y \in S : ~(<<y, x>> \in OpToRel(<, Nat))
    BY NatLessThanWellFounded, WFMin, Zenon
<1>2. \A y \in S : <<y, x>> \in OpToRel(<, Nat) <=> y < x
    BY DEF OpToRel
<1>3. \A y \in S : ~(y < x)
    BY <1>1, <1>2, Zenon
<1>4. \A y \in S : x <= y
    <2>. SUFFICES ASSUME NEW y \in S PROVE x <= y
        OBVIOUS
    <2>1. x \in Nat /\ y \in Nat /\ ~(y < x)
        BY <1>3
    <2>. QED
        BY <2>1
<1>. QED
    BY <1>4

\* Two sequences, and what is in them.
LEMMA LineOf ==
    ASSUME NEW a \in Seq(Events), NEW b \in Seq(Events)
    PROVE  /\ a \o b \in Seq(Events) /\ DOMAIN (a \o b) = 1..Len(a \o b) /\ Len(a \o b) \in Nat
           /\ Len(a \o b) = Len(a) + Len(b)
           /\ \A i \in 1..Len(a) : (a \o b)[i] = a[i]
           /\ \A i \in 1..Len(b) : (a \o b)[Len(a) + i] = b[i]
           /\ ToSet(a) \cup ToSet(b) = {(a \o b)[i] : i \in DOMAIN (a \o b)}
           /\ ToSet(a) \cup ToSet(b) \subseteq Events
<1>1. a \in Seq(Events) /\ b \in Seq(Events)
    OBVIOUS
<1>2. /\ a \o b \in Seq(Events) /\ DOMAIN (a \o b) = 1..Len(a \o b) /\ Len(a \o b) \in Nat
      /\ Len(a \o b) = Len(a) + Len(b)
      /\ Len(a) \in Nat /\ Len(b) \in Nat
      /\ DOMAIN a = 1..Len(a) /\ DOMAIN b = 1..Len(b)
      /\ \A i \in 1..Len(a) : (a \o b)[i] = a[i]
      /\ \A i \in 1..Len(b) : (a \o b)[Len(a) + i] = b[i]
    BY <1>1, ConcatProperties
<1>3. ASSUME NEW i \in DOMAIN (a \o b)
      PROVE  (a \o b)[i] \in ToSet(a) \cup ToSet(b)
    <2>1. CASE i <= Len(a)
        BY <1>2, <2>1 DEF ToSet
    <2>2. CASE i > Len(a)
        <3>1. i - Len(a) \in 1..Len(b)
            BY <1>2, <2>2
        <3>2. (a \o b)[Len(a) + (i - Len(a))] = b[i - Len(a)]
            BY <1>2, <3>1
        <3>3. (a \o b)[i] = b[i - Len(a)]
            BY <1>2, <3>2
        <3>. QED
            BY <1>2, <3>1, <3>3 DEF ToSet
    <2>. QED
        BY <1>2, <2>1, <2>2
<1>4. ASSUME NEW e \in ToSet(a) \cup ToSet(b)
      PROVE  e \in Events /\ \E i \in DOMAIN (a \o b) : e = (a \o b)[i]
    <2>1. CASE e \in ToSet(a)
        BY <1>1, <1>2, <2>1 DEF ToSet
    <2>2. CASE e \in ToSet(b)
        <3>1. PICK i \in 1..Len(b) : e = b[i]
            BY <1>2, <2>2 DEF ToSet
        <3>2. Len(a) + i \in DOMAIN (a \o b) /\ (a \o b)[Len(a) + i] = e
            BY <1>2, <3>1
        <3>3. e \in Events
            BY <1>1, <3>1
        <3>. QED
            BY <3>2, <3>3
    <2>. QED
        BY <2>1, <2>2
<1>. QED
    BY <1>2, <1>3, <1>4

\* The line, and what is in it.
LEMMA LineFacts ==
    ASSUME TypeOK
    PROVE  /\ Line \in Seq(Events) /\ DOMAIN Line = 1..Len(Line) /\ Len(Line) \in Nat
           /\ Len(Line) = Len(queue) + Len(wire)
           /\ \A i \in 1..Len(queue) : Line[i] = queue[i]
           /\ \A i \in 1..Len(wire) : Line[Len(queue) + i] = wire[i]
           /\ Flying = {Line[i] : i \in DOMAIN Line} /\ Flying \subseteq Events
BY LineOf DEF TypeOK, Line, Flying

\* The wire is read into the queue, or nothing moves.
Reads ==
    /\ queue' \in Seq(Events) /\ wire' \in Seq(Events)
    /\ Line' = Line

\* An event is taken out of the line.
Removes(i) ==
    /\ queue' \in Seq(Events) /\ wire' \in Seq(Events)
    /\ Len(Line') = Len(Line) - 1
    /\ \A k \in 1..(Len(Line) - 1) : Line'[k] = IF k < i THEN Line[k] ELSE Line[k + 1]

LEMMA ReadsFacts ==
    ASSUME TypeOK,
           \/ UNCHANGED <<queue, wire>>
           \/ queue' = queue \o wire /\ wire' = <<>>
    PROVE  Reads
<1>1. queue \in Seq(Events) /\ wire \in Seq(Events)
    BY DEF TypeOK
<1>2. CASE UNCHANGED <<queue, wire>>
    BY <1>1, <1>2 DEF Reads, Line
<1>3. CASE queue' = queue \o wire /\ wire' = <<>>
    <2>1. queue \o wire \in Seq(Events)
        BY <1>1, ConcatProperties
    <2>2. (queue \o wire) \o <<>> = queue \o wire
        BY <2>1, ConcatEmptySeq
    <2>. QED
        BY <1>3, <2>1, <2>2 DEF Reads, Line
<1>. QED
    BY <1>2, <1>3

\* A sequence without its i-th element.
LEMMA RemoveAtFacts ==
    ASSUME NEW S, NEW q \in Seq(S), NEW i \in DOMAIN q
    PROVE  /\ RemoveAt(q, i) \in Seq(S) /\ Len(RemoveAt(q, i)) = Len(q) - 1
           /\ \A k \in 1..(Len(q) - 1) : RemoveAt(q, i)[k] = IF k < i THEN q[k] ELSE q[k + 1]
<1>. DEFINE a == SubSeq(q, 1, i - 1)
            b == SubSeq(q, i + 1, Len(q))
<1>1. Len(q) \in Nat /\ i \in 1..Len(q) /\ \A k \in 1..Len(q) : q[k] \in S
    OBVIOUS
<1>2. /\ a \in Seq(S) /\ Len(a) = i - 1
      /\ \A k \in 1..(i - 1) : a[k] = q[k]
    <2>1. \A k \in 1..(i - 1) : q[k] \in S
        BY <1>1
    <2>2. /\ SubSeq(q, 1, i - 1) \in Seq(S)
          /\ Len(SubSeq(q, 1, i - 1)) = IF 1 <= i - 1 THEN i - 1 - 1 + 1 ELSE 0
          /\ \A k \in 1..(i - 1 - 1 + 1) : SubSeq(q, 1, i - 1)[k] = q[1 + k - 1]
        BY <1>1, <2>1, SubSeqProperties
    <2>. HIDE DEF a
    <2>3. \A k \in 1..(i - 1) : 1 + k - 1 = k /\ k \in 1..(i - 1 - 1 + 1)
        BY <1>1
    <2>. QED
        BY <1>1, <2>2, <2>3 DEF a
<1>3. /\ b \in Seq(S) /\ Len(b) = Len(q) - i
      /\ \A k \in 1..(Len(q) - i) : b[k] = q[i + k]
    <2>1. \A k \in (i + 1)..Len(q) : q[k] \in S
        BY <1>1
    <2>2. /\ SubSeq(q, i + 1, Len(q)) \in Seq(S)
          /\ Len(SubSeq(q, i + 1, Len(q))) =
                IF i + 1 <= Len(q) THEN Len(q) - (i + 1) + 1 ELSE 0
          /\ \A k \in 1..(Len(q) - (i + 1) + 1) : SubSeq(q, i + 1, Len(q))[k] = q[i + 1 + k - 1]
        BY <1>1, <2>1, SubSeqProperties
    <2>3. \A k \in 1..(Len(q) - i) : i + 1 + k - 1 = i + k /\ k \in 1..(Len(q) - (i + 1) + 1)
        BY <1>1
    <2>. QED
        BY <1>1, <2>2, <2>3
<1>4. RemoveAt(q, i) = a \o b
    BY DEF RemoveAt
<1>. HIDE DEF a, b
<1>5. /\ a \o b \in Seq(S) /\ Len(a \o b) = Len(a) + Len(b)
      /\ \A k \in 1..(Len(a) + Len(b)) : (a \o b)[k] = IF k <= Len(a) THEN a[k] ELSE b[k - Len(a)]
    BY <1>2, <1>3, ConcatProperties
<1>6. ASSUME NEW k \in 1..(Len(q) - 1)
      PROVE  (a \o b)[k] = IF k < i THEN q[k] ELSE q[k + 1]
    <2>1. CASE k < i
        BY <1>1, <1>2, <1>3, <1>5, <2>1
    <2>2. CASE ~(k < i)
        <3>1. k - (i - 1) \in 1..(Len(q) - i) /\ i + (k - (i - 1)) = k + 1
            BY <1>1, <2>2
        <3>2. b[k - (i - 1)] = q[k + 1]
            BY <1>3, <3>1
        <3>3. k \in 1..(Len(a) + Len(b)) /\ ~(k <= Len(a)) /\ k - Len(a) = k - (i - 1)
            BY <1>1, <1>2, <1>3, <2>2
        <3>. QED
            BY <1>5, <2>2, <3>2, <3>3
    <2>. QED
        BY <2>1, <2>2
<1>7. Len(a \o b) = Len(q) - 1
    BY <1>1, <1>2, <1>3, <1>5
<1>. QED
    BY <1>4, <1>5, <1>6, <1>7

\* A search: the event that it takes is the first of its kind in the line.
LEMMA SearchFacts ==
    ASSUME TypeOK, NEW t \in Terms, NEW types,
           Matches(t, types, Scanned(t, types)) # {}
    PROVE  LET q == Scanned(t, types)
               i == FirstMatch(t, types, q)
               r == RemoveAt(q, i)
               w == Unread(t, types)
           IN  /\ i \in DOMAIN Line /\ q[i] = Line[i] /\ q[i].to = t /\ q[i].type \in types
               /\ \A j \in DOMAIN Line : j < i /\ Line[j].to = t => Line[j].type \notin types
               /\ r \in Seq(Events) /\ w \in Seq(Events)
               /\ Len(r \o w) = Len(Line) - 1
               /\ \A k \in 1..(Len(Line) - 1) :
                      (r \o w)[k] = IF k < i THEN Line[k] ELSE Line[k + 1]
<1>. DEFINE q == Scanned(t, types)
            i == FirstMatch(t, types, q)
            r == RemoveAt(q, i)
            w == Unread(t, types)
<1>1. /\ queue \in Seq(Events) /\ wire \in Seq(Events) /\ Line \in Seq(Events)
      /\ Len(queue) \in Nat /\ Len(wire) \in Nat
      /\ DOMAIN Line = 1..Len(Line) /\ Len(Line) = Len(queue) + Len(wire)
      /\ DOMAIN queue = 1..Len(queue)
      /\ \A j \in 1..Len(queue) : Line[j] = queue[j]
      /\ \A j \in 1..Len(wire) : Line[Len(queue) + j] = wire[j]
    BY LineFacts DEF TypeOK
<1>2. \/ q = queue /\ w = wire
      \/ q = Line /\ w = <<>>
    BY DEF Scanned, Unread, Line
<1>3. q \in Seq(Events) /\ w \in Seq(Events)
    <2>. HIDE DEF q, w
    <2>1. <<>> \in Seq(Events)
        OBVIOUS
    <2>. QED
        BY <1>1, <1>2, <2>1
<1>4. i \in Matches(t, types, q) /\ \A j \in Matches(t, types, q) : i <= j
    <2>1. Matches(t, types, q) \in SUBSET Nat
        BY <1>3 DEF Matches
    <2>2. Matches(t, types, q) # {}
        OBVIOUS
    <2>. HIDE DEF q
    <2>3. LET x == CHOOSE x \in Matches(t, types, q) : \A j \in Matches(t, types, q) : x <= j
          IN  x \in Matches(t, types, q) /\ \A j \in Matches(t, types, q) : x <= j
        BY <2>1, <2>2, LeastFacts
    <2>. QED
        BY <2>3 DEF FirstMatch
<1>. HIDE DEF q, i, w
<1>5. i \in DOMAIN q /\ q[i].to = t /\ q[i].type \in types
    BY <1>4 DEF Matches
<1>6. \A j \in DOMAIN q : j < i /\ q[j].to = t => q[j].type \notin types
    <2>. SUFFICES ASSUME NEW j \in DOMAIN q, j < i, q[j].to = t, q[j].type \in types
                  PROVE  FALSE
        OBVIOUS
    <2>1. j \in Matches(t, types, q) /\ j \in Int /\ i \in Int
        BY <1>3, <1>5 DEF Matches
    <2>. QED
        BY <1>4, <2>1
<1>7. /\ r \in Seq(Events) /\ Len(r) = Len(q) - 1
      /\ \A k \in 1..(Len(q) - 1) : r[k] = IF k < i THEN q[k] ELSE q[k + 1]
    BY <1>3, <1>5, RemoveAtFacts
<1>. HIDE DEF r
<1>8. /\ r \o w \in Seq(Events) /\ Len(r \o w) = Len(r) + Len(w)
      /\ \A k \in 1..(Len(r) + Len(w)) : (r \o w)[k] = IF k <= Len(r) THEN r[k] ELSE w[k - Len(r)]
    BY <1>3, <1>7, ConcatProperties
<1>9. /\ i \in DOMAIN Line /\ q[i] = Line[i]
      /\ \A j \in DOMAIN Line : j < i /\ Line[j].to = t => Line[j].type \notin types
    <2>1. CASE q = queue
        BY <1>1, <1>5, <1>6, <2>1
    <2>2. CASE q = Line
        BY <1>1, <1>5, <1>6, <2>2
    <2>. QED
        BY <1>2, <2>1, <2>2
<1>10. /\ Len(r \o w) = Len(Line) - 1
       /\ \A k \in 1..(Len(Line) - 1) :
              (r \o w)[k] = IF k < i THEN Line[k] ELSE Line[k + 1]
    <2>1. CASE q = queue /\ w = wire
        <3>1. Len(r \o w) = Len(Line) - 1
            BY <1>1, <1>7, <1>8, <2>1
        <3>2. ASSUME NEW k \in 1..(Len(Line) - 1)
              PROVE  (r \o w)[k] = IF k < i THEN Line[k] ELSE Line[k + 1]
            <4>1. CASE k <= Len(queue) - 1
                <5>1. (r \o w)[k] = r[k] /\ r[k] = IF k < i THEN queue[k] ELSE queue[k + 1]
                    BY <1>1, <1>7, <1>8, <2>1, <4>1
                <5>2. queue[k] = Line[k] /\ queue[k + 1] = Line[k + 1]
                    BY <1>1, <4>1
                <5>. QED
                    BY <5>1, <5>2
            <4>2. CASE k > Len(queue) - 1
                <5>1. k - (Len(queue) - 1) \in 1..Len(wire) /\ ~(k < i)
                    BY <1>1, <1>5, <2>1, <4>2
                <5>2. (r \o w)[k] = wire[k - (Len(queue) - 1)]
                    BY <1>1, <1>7, <1>8, <2>1, <4>2
                <5>3. Line[Len(queue) + (k - (Len(queue) - 1))] = wire[k - (Len(queue) - 1)]
                    BY <1>1, <5>1
                <5>4. Len(queue) + (k - (Len(queue) - 1)) = k + 1
                    BY <1>1
                <5>. QED
                    BY <5>1, <5>2, <5>3, <5>4
            <4>3. k <= Len(queue) - 1 \/ k > Len(queue) - 1
                BY <1>1
            <4>. QED
                BY <4>1, <4>2, <4>3, Zenon
        <3>. QED
            BY <3>1, <3>2
    <2>2. CASE q = Line /\ w = <<>>
        BY <1>1, <1>7, <1>8, <2>2
    <2>. QED
        BY <1>2, <2>1, <2>2
<1>. QED
    BY <1>3, <1>5, <1>7, <1>9, <1>10 DEF q, i, r, w

\* Reading the wire changes nothing in the line.
LEMMA ReadsKeepsLine ==
    ASSUME TypeOK, Ordered, Reads
    PROVE  Ordered' /\ Flying' = Flying
<1>1. Flying = {Line[i] : i \in DOMAIN Line}
    BY LineFacts
<1>2. Flying' = {Line'[i] : i \in DOMAIN Line'}
    <2>1. queue' \in Seq(Events) /\ wire' \in Seq(Events)
        BY DEF Reads
    <2>. QED
        BY <2>1, LineOf DEF Flying, Line
<1>. QED
    BY <1>1, <1>2 DEF Reads, Ordered

\* Taking an event out of the line leaves the others in their order: those
\* of its terminal that the search would have taken are newer.
LEMMA RemovesFromLine ==
    ASSUME TypeOK, Ordered, NEW i \in DOMAIN Line, NEW types, Removes(i),
           \A j \in DOMAIN Line : j < i /\ Line[j].to = Line[i].to => Line[j].type \notin types
    PROVE  /\ Ordered'
           /\ Line[i] \in Flying /\ Flying' \cup {Line[i]} = Flying
           /\ \A e \in Flying' : e.to = Line[i].to /\ e.type \in types => Line[i].n < e.n
<1>1. /\ Line \in Seq(Events) /\ DOMAIN Line = 1..Len(Line) /\ Len(Line) \in Nat
      /\ Flying = {Line[k] : k \in DOMAIN Line}
    BY LineFacts
<1>2. /\ queue' \in Seq(Events) /\ wire' \in Seq(Events)
      /\ Len(Line') = Len(Line) - 1
      /\ \A k \in 1..(Len(Line) - 1) : Line'[k] = IF k < i THEN Line[k] ELSE Line[k + 1]
    BY DEF Removes
<1>3. /\ Flying' = {Line'[k] : k \in DOMAIN Line'}
      /\ DOMAIN Line' = 1..(Len(Line) - 1)
    BY <1>2, LineOf DEF Flying, Line
<1>. DEFINE old(k) == IF k < i THEN k ELSE k + 1
<1>4. \A k \in DOMAIN Line' : old(k) \in DOMAIN Line /\ old(k) # i /\ Line'[k] = Line[old(k)]
    BY <1>1, <1>2, <1>3
<1>5. \A j, k \in DOMAIN Line' : j < k => old(j) < old(k)
    BY <1>1, <1>3
<1>6. \A j \in DOMAIN Line : j # i => \E k \in DOMAIN Line' : old(k) = j
    <2>. SUFFICES ASSUME NEW j \in DOMAIN Line, j # i
                  PROVE  \E k \in DOMAIN Line' : old(k) = j
        OBVIOUS
    <2>1. CASE j < i
        <3>1. j \in DOMAIN Line' /\ old(j) = j
            BY <1>1, <1>3, <2>1
        <3>. QED
            BY <3>1
    <2>2. CASE j > i
        <3>1. j - 1 \in DOMAIN Line' /\ old(j - 1) = j
            BY <1>1, <1>3, <2>2
        <3>. QED
            BY <3>1
    <2>. QED
        BY <1>1, <2>1, <2>2
<1>. HIDE DEF old
<1>7. Ordered'
    <2>. SUFFICES ASSUME NEW j \in DOMAIN Line', NEW k \in DOMAIN Line', j < k,
                         Line'[j].to = Line'[k].to
                  PROVE  Line'[j].n < Line'[k].n
        BY DEF Ordered
    <2>. QED
        BY <1>4, <1>5 DEF Ordered
<1>8. Line[i] \in Flying /\ Flying' \cup {Line[i]} = Flying
    <2>1. \A k \in DOMAIN Line' : Line'[k] \in Flying
        BY <1>1, <1>4
    <2>2. \A j \in DOMAIN Line : j # i => Line[j] \in Flying'
        BY <1>3, <1>4, <1>6
    <2>. QED
        BY <1>1, <1>3, <2>1, <2>2
<1>9. ASSUME NEW e \in Flying', e.to = Line[i].to, e.type \in types
      PROVE  Line[i].n < e.n
    <2>1. PICK k \in DOMAIN Line' : e = Line[old(k)]
        BY <1>3, <1>4
    <2>2. old(k) \in DOMAIN Line /\ old(k) # i
        BY <1>4
    <2>3. ~(old(k) < i)
        BY <1>9, <2>1, <2>2
    <2>4. i < old(k)
        BY <1>1, <2>2, <2>3
    <2>. QED
        BY <1>9, <2>1, <2>2, <2>4 DEF Ordered
<1>. QED
    BY <1>7, <1>8, <1>9

\* A newer event at the end.
LEMMA SendsAtEnd ==
    ASSUME TypeOK, Ordered, NEW e \in Events, queue' = queue, wire' = Append(wire, e),
           \A f \in Flying : f.to = e.to => f.n < e.n
    PROVE  Ordered' /\ Flying' = Flying \cup {e}
<1>1. /\ Line \in Seq(Events) /\ DOMAIN Line = 1..Len(Line) /\ Len(Line) \in Nat
      /\ Flying = {Line[k] : k \in DOMAIN Line}
    BY LineFacts
<1>2. queue \in Seq(Events) /\ wire \in Seq(Events) /\ wire' \in Seq(Events)
    BY DEF TypeOK
<1>3. Line' = Append(Line, e)
    BY <1>2 DEF Line
<1>4. /\ DOMAIN Line' = 1..(Len(Line) + 1)
      /\ \A k \in 1..Len(Line) : Line'[k] = Line[k]
      /\ Line'[Len(Line) + 1] = e
    BY <1>1, <1>3
<1>5. Flying' = {Line'[k] : k \in DOMAIN Line'}
    <2>1. queue' \in Seq(Events)
        BY <1>2
    <2>. QED
        BY <1>2, <2>1, LineOf DEF Flying, Line
<1>6. Flying' = Flying \cup {e}
    <2>1. \A k \in DOMAIN Line' : Line'[k] \in Flying \cup {e}
        <3>. SUFFICES ASSUME NEW k \in DOMAIN Line' PROVE Line'[k] \in Flying \cup {e}
            OBVIOUS
        <3>1. CASE k = Len(Line) + 1
            BY <1>4, <3>1
        <3>2. CASE k # Len(Line) + 1
            <4>1. k \in DOMAIN Line
                BY <1>1, <1>4, <3>2
            <4>. QED
                BY <1>1, <1>4, <4>1
        <3>. QED
            BY <3>1, <3>2
    <2>2. \A k \in DOMAIN Line : Line[k] \in Flying'
        <3>. SUFFICES ASSUME NEW k \in DOMAIN Line PROVE Line[k] \in Flying'
            OBVIOUS
        <3>1. k \in DOMAIN Line' /\ Line'[k] = Line[k]
            BY <1>1, <1>4
        <3>. QED
            BY <1>5, <3>1
    <2>3. e \in Flying'
        <3>1. Len(Line) + 1 \in DOMAIN Line'
            BY <1>1, <1>4
        <3>. QED
            BY <1>4, <1>5, <3>1
    <2>. QED
        BY <1>1, <1>5, <2>1, <2>2, <2>3
<1>7. Ordered'
    <2>. SUFFICES ASSUME NEW j \in DOMAIN Line', NEW k \in DOMAIN Line', j < k,
                         Line'[j].to = Line'[k].to
                  PROVE  Line'[j].n < Line'[k].n
        BY DEF Ordered
    <2>1. j \in DOMAIN Line /\ Line'[j] = Line[j]
        BY <1>1, <1>4
    <2>2. CASE k = Len(Line) + 1
        BY <1>1, <1>4, <2>1, <2>2
    <2>3. CASE k # Len(Line) + 1
        <3>1. k \in DOMAIN Line
            BY <1>1, <1>4, <2>3
        <3>. QED
            BY <1>1, <1>4, <2>1, <3>1 DEF Ordered
    <2>. QED
        BY <2>2, <2>3
<1>. QED
    BY <1>6, <1>7

-----------------------------------------------------------------------------
(* What the steps keep *)

LEMMA InitInv ==
    Init => Inv
<1>. SUFFICES ASSUME Init PROVE Inv
    OBVIOUS
<1>1. /\ queue = <<>> /\ wire = <<>> /\ running = {} /\ round = {} /\ newest = 0
      /\ \A t \in Terms : sent[t] = <<>> /\ handled[t] = <<>> /\ size[t] = 0
    BY DEF Init
<1>2. DOMAIN Line = {} /\ Flying = {} /\ MaxEvents \in Nat
    BY <1>1, XLoopAssumption DEF Line, Flying, ToSet
<1>3. TypeOK
    <2>1. wire \in Seq(Events) /\ queue \in Seq(Events) /\ newest \in 0..MaxEvents
        BY <1>1, <1>2
    <2>2. /\ sent \in [Terms -> Seq(Types)] /\ handled \in [Terms -> Seq(Numbers)]
          /\ size \in [Terms -> 0..MaxEvents]
          /\ output \in [Terms -> {"none", "data", "eof"}]
        BY <1>2 DEF Init
    <2>. QED
        BY <1>1, <2>1, <2>2 DEF Init, TypeOK
<1>4. Ordered /\ Genuine /\ Ahead /\ Resizing
    BY <1>1, <1>2 DEF Ordered, Genuine, Ahead, Resizing
<1>5. Past /\ LastIsOwn /\ HandledInOrder /\ NothingLost /\ SizeIsKept
    BY <1>1, <1>2 DEF Past, LastIsOwn, HandledInOrder, NothingLost, SizeIsKept
<1>. QED
    BY <1>3, <1>4, <1>5 DEF Inv

\* Numbers are numbers.
LEMMA NumberFacts ==
    ASSUME TypeOK
    PROVE  /\ MaxEvents \in Nat /\ newest \in Nat
           /\ \A e \in Flying : /\ e \in Events /\ e.n \in Nat \ {0} /\ e.to \in Terms
                                /\ e.type \in Types
           /\ \A t \in Terms : /\ size[t] \in Nat /\ Len(sent[t]) \in Nat
                               /\ DOMAIN sent[t] = 1..Len(sent[t])
                               /\ handled[t] \in Seq(Numbers) /\ sent[t] \in Seq(Types)
                               /\ \A j \in DOMAIN handled[t] : handled[t][j] \in Nat
<1>1. MaxEvents \in Nat /\ Numbers \subseteq Nat \ {0}
    BY XLoopAssumption DEF Numbers
<1>2. \A e \in Flying : e \in Events
    BY LineFacts
<1>3. \A t \in Terms : /\ size[t] \in Nat /\ newest \in Nat
                       /\ handled[t] \in Seq(Numbers) /\ sent[t] \in Seq(Types)
    BY <1>1 DEF TypeOK
<1>4. newest \in Nat
    BY <1>1 DEF TypeOK
<1>5. \A e \in Flying : e.n \in Nat \ {0} /\ e.to \in Terms /\ e.type \in Types
    BY <1>1, <1>2 DEF Events
<1>6. ASSUME NEW t \in Terms
      PROVE  /\ Len(sent[t]) \in Nat /\ DOMAIN sent[t] = 1..Len(sent[t])
             /\ \A j \in DOMAIN handled[t] : handled[t][j] \in Nat
    <2>1. sent[t] \in Seq(Types) /\ handled[t] \in Seq(Numbers)
        BY <1>3
    <2>2. \A j \in DOMAIN handled[t] : handled[t][j] \in Numbers
        BY <2>1
    <2>3. Len(sent[t]) \in Nat /\ DOMAIN sent[t] = 1..Len(sent[t])
        BY <2>1
    <2>4. \A j \in DOMAIN handled[t] : handled[t][j] \in Nat
        BY <1>1, <2>2
    <2>. QED
        BY <2>3, <2>4
<1>. QED
    BY <1>1, <1>2, <1>3, <1>4, <1>5, <1>6

\* Steps that handle nothing: the line stays as it is, and no more terminals
\* are watched than were.
LEMMA QuietKeeps ==
    ASSUME Inv, TypeOK', LastIsOwn', Reads,
           UNCHANGED <<sent, handled, size, newest>>,
           \A t \in Terms : Watched(t)' => Watched(t),
           \A t \in running' : running' = {t},
           newest = 0 \/ running' = running
    PROVE  Inv'
<1>1. Ordered' /\ Flying' = Flying
    BY ReadsKeepsLine DEF Inv
<1>2. /\ newest \in Nat /\ \A e \in Flying : e.n \in Nat \ {0}
      /\ \A t \in Terms : Len(sent[t]) \in Nat /\ DOMAIN sent[t] = 1..Len(sent[t])
    BY NumberFacts DEF Inv
<1>3. Genuine'
    BY <1>1 DEF Inv, Genuine
<1>4. Past'
    BY <1>2 DEF Inv, Past
<1>5. Ahead'
    BY <1>1, <1>2 DEF Inv, Ahead
<1>6. Resizing'
    BY DEF Inv, Resizing
<1>7. HandledInOrder' /\ NothingLost'
    BY <1>1 DEF Inv, HandledInOrder, NothingLost, InTransit, Flying
<1>8. SizeIsKept'
    BY <1>1, <1>2 DEF Inv, SizeIsKept
<1>. QED
    BY <1>1, <1>3, <1>4, <1>5, <1>6, <1>7, <1>8 DEF Inv

\* The next event of a terminal is newer than all that it was sent.
LEMMA SendKeeps ==
    ASSUME Inv, NEW t \in Terms, NEW type \in Types, Send(t, type),
           Len(sent[t]) <= MaxEvents, type = "configure" => Len(sent[t]) < MaxEvents,
           UNCHANGED <<queue, handled, size, newest, running>>,
           \A u \in Terms : Watched(u)' => Watched(u)
    PROVE  /\ sent' \in [Terms -> Seq(Types)] /\ wire' \in Seq(Events)
           /\ Len(sent'[t]) = Len(sent[t]) + 1
           /\ \A u \in Terms : u # t => sent'[u] = sent[u]
           /\ \A u \in Terms : \A n \in DOMAIN sent'[u] :
                  sent'[u][n] = "configure" => n <= MaxEvents
           /\ TypeOK' /\ LastIsOwn' => Inv'
<1>. DEFINE e == [to |-> t, type |-> type, n |-> Len(sent[t]) + 1]
<1>1. /\ MaxEvents \in Nat /\ newest \in Nat
      /\ \A f \in Flying : f.n \in Nat \ {0} /\ f.to \in Terms
      /\ \A u \in Terms : /\ Len(sent[u]) \in Nat /\ DOMAIN sent[u] = 1..Len(sent[u])
                          /\ size[u] \in Nat /\ sent[u] \in Seq(Types)
                          /\ \A j \in DOMAIN handled[u] : handled[u][j] \in Nat
    BY NumberFacts DEF Inv
<1>2. /\ e \in Events /\ wire' = Append(wire, e)
      /\ e.to = t /\ e.type = type /\ e.n = Len(sent[t]) + 1
    BY <1>1 DEF Send, Events, Numbers
<1>. HIDE DEF e
<1>3. /\ sent' \in [Terms -> Seq(Types)] /\ sent'[t] = Append(sent[t], type)
      /\ \A u \in Terms : u # t => sent'[u] = sent[u]
    BY <1>1 DEF Send, Inv, TypeOK
<1>4. /\ Len(sent'[t]) = Len(sent[t]) + 1 /\ DOMAIN sent'[t] = 1..(Len(sent[t]) + 1)
      /\ \A n \in 1..Len(sent[t]) : sent'[t][n] = sent[t][n]
      /\ sent'[t][Len(sent[t]) + 1] = type
    BY <1>1, <1>3
<1>5. \A u \in Terms : \A n \in DOMAIN sent'[u] :
          \/ n \in DOMAIN sent[u] /\ sent'[u][n] = sent[u][n]
          \/ u = t /\ n = e.n /\ sent'[u][n] = type
    <2>. SUFFICES ASSUME NEW n \in DOMAIN sent'[t]
                  PROVE  \/ n \in DOMAIN sent[t] /\ sent'[t][n] = sent[t][n]
                         \/ n = e.n /\ sent'[t][n] = type
        BY <1>3
    <2>1. CASE n = Len(sent[t]) + 1
        BY <1>2, <1>4, <2>1
    <2>2. CASE n # Len(sent[t]) + 1
        <3>1. n \in 1..Len(sent[t])
            BY <1>1, <1>4, <2>2
        <3>. QED
            BY <1>1, <1>4, <3>1
    <2>. QED
        BY <2>1, <2>2
<1>6. /\ \A u \in Terms : Len(sent[u]) <= Len(sent'[u])
      /\ \A u \in Terms : \A n \in DOMAIN sent[u] : n \in DOMAIN sent'[u] /\ sent'[u][n] = sent[u][n]
    <2>1. Len(sent[t]) <= Len(sent'[t]) /\ \A n \in DOMAIN sent[t] : n \in DOMAIN sent'[t] /\ sent'[t][n] = sent[t][n]
        BY <1>1, <1>4
    <2>2. ASSUME NEW u \in Terms, u # t
          PROVE  /\ Len(sent[u]) <= Len(sent'[u])
                 /\ \A n \in DOMAIN sent[u] : n \in DOMAIN sent'[u] /\ sent'[u][n] = sent[u][n]
        BY <1>1, <1>3, <2>2
    <2>. QED
        BY <2>1, <2>2
<1>7. wire' \in Seq(Events)
    BY <1>2 DEF Inv, TypeOK
<1>8. \A u \in Terms : \A n \in DOMAIN sent'[u] :
          sent'[u][n] = "configure" => n <= MaxEvents
    <2>1. type = "configure" => e.n <= MaxEvents
        BY <1>1, <1>2
    <2>2. \A u \in Terms : \A n \in DOMAIN sent[u] : sent[u][n] = "configure" => n <= MaxEvents
        BY DEF Inv, LastIsOwn
    <2>. QED
        BY <1>5, <2>1, <2>2
<1>9. \A f \in Flying : f.to = e.to => f.n < e.n
    BY <1>1, <1>2 DEF Inv, Genuine
<1>10. Ordered' /\ Flying' = Flying \cup {e}
    BY <1>2, <1>9, SendsAtEnd DEF Inv
<1>11. Genuine'
    <2>1. \A f \in Flying : f.n \in DOMAIN sent'[f.to] /\ sent'[f.to][f.n] = f.type
        BY <1>1, <1>6 DEF Inv, Genuine
    <2>2. e.n \in DOMAIN sent'[e.to] /\ sent'[e.to][e.n] = e.type
        BY <1>1, <1>2, <1>4
    <2>. QED
        BY <1>10, <2>1, <2>2 DEF Genuine
<1>12. Past'
    <2>. SUFFICES ASSUME NEW u \in Terms
                  PROVE  /\ \A j \in DOMAIN handled[u] : handled[u][j] <= Len(sent'[u])
                         /\ size[u] <= Len(sent'[u])
                         /\ u \in running => newest <= Len(sent'[u])
        BY DEF Past
    <2>1. /\ \A j \in DOMAIN handled[u] : handled[u][j] <= Len(sent[u])
          /\ size[u] <= Len(sent[u])
          /\ u \in running => newest <= Len(sent[u])
        BY DEF Inv, Past
    <2>2. Len(sent[u]) <= Len(sent'[u]) /\ Len(sent'[u]) \in Nat
        BY <1>3, <1>6
    <2>. QED
        BY <1>1, <2>1, <2>2
<1>13. Ahead'
    <2>1. /\ \A j \in DOMAIN handled[t] : handled[t][j] < e.n
          /\ size[t] < e.n
          /\ t \in running => newest < e.n
        BY <1>1, <1>2 DEF Inv, Past
    <2>. QED
        BY <1>2, <1>10, <2>1 DEF Inv, Ahead
<1>14. Resizing' /\ HandledInOrder'
    BY DEF Inv, Resizing, HandledInOrder
<1>15. NothingLost'
    <2>. SUFFICES ASSUME NEW u \in Terms, NEW n \in DOMAIN sent'[u], Watched(u),
                         sent'[u][n] # "configure"
                  PROVE  n \in ToSet(handled[u]) \/ \E f \in Flying' : f.to = u /\ f.n = n
        BY DEF NothingLost, InTransit, Flying
    <2>1. CASE n \in DOMAIN sent[u] /\ sent'[u][n] = sent[u][n]
        <3>1. n \in ToSet(handled[u]) \/ \E f \in Flying : f.to = u /\ f.n = n
            BY <2>1 DEF Inv, NothingLost, InTransit, Flying
        <3>. QED
            BY <1>10, <3>1
    <2>2. CASE u = t /\ n = e.n
        BY <1>2, <1>10, <2>2
    <2>. QED
        BY <1>5, <2>1, <2>2
<1>16. SizeIsKept'
    <2>. SUFFICES ASSUME NEW u \in Terms, NEW n \in DOMAIN sent'[u], Watched(u),
                         sent'[u][n] = "configure"
                  PROVE  \/ n <= size[u]
                         \/ u \in running /\ n <= newest
                         \/ \E f \in Flying' : f.to = u /\ f.type = "configure" /\ n <= f.n
        BY DEF SizeIsKept
    <2>1. CASE n \in DOMAIN sent[u] /\ sent'[u][n] = sent[u][n]
        BY <1>10, <2>1 DEF Inv, SizeIsKept
    <2>2. CASE u = t /\ n = e.n /\ sent'[u][n] = type
        <3>1. e \in Flying' /\ e.to = u /\ e.type = "configure" /\ n <= e.n
            BY <1>1, <1>2, <1>10, <2>2
        <3>. QED
            BY <3>1
    <2>. QED
        BY <1>5, <2>1, <2>2
<1>. QED
    BY <1>3, <1>4, <1>7, <1>8, <1>10, <1>11, <1>12, <1>13, <1>14, <1>15, <1>16 DEF Inv

\* The event that a search takes out of the line.
LEMMA TakenFacts ==
    ASSUME Inv, NEW t \in Terms, NEW types,
           Matches(t, types, Scanned(t, types)) # {},
           LET q == Scanned(t, types)
               r == RemoveAt(q, FirstMatch(t, types, q))
               w == Unread(t, types)
           IN  \/ queue' = r /\ wire' = w
               \/ queue' = r \o w /\ wire' = <<>>
    PROVE  LET e == Scanned(t, types)[FirstMatch(t, types, Scanned(t, types))]
           IN  /\ queue' \in Seq(Events) /\ wire' \in Seq(Events)
               /\ Ordered'
               /\ e \in Flying /\ e.to = t /\ e.type \in types
               /\ Flying' \cup {e} = Flying
               /\ \A f \in Flying' : f.to = t /\ f.type \in types => e.n < f.n
<1>. DEFINE q == Scanned(t, types)
            i == FirstMatch(t, types, q)
            r == RemoveAt(q, i)
            w == Unread(t, types)
            e == q[i]
<1>1. /\ i \in DOMAIN Line /\ e = Line[i] /\ e.to = t /\ e.type \in types
      /\ \A j \in DOMAIN Line : j < i /\ Line[j].to = t => Line[j].type \notin types
      /\ r \in Seq(Events) /\ w \in Seq(Events)
      /\ Len(r \o w) = Len(Line) - 1
      /\ \A k \in 1..(Len(Line) - 1) :
             (r \o w)[k] = IF k < i THEN Line[k] ELSE Line[k + 1]
    BY SearchFacts DEF Inv
<1>2. \/ queue' = r /\ wire' = w
      \/ queue' = r \o w /\ wire' = <<>>
    OBVIOUS
<1>. HIDE DEF q, i, r, w, e
<1>3. r \o w \in Seq(Events) /\ (r \o w) \o <<>> = r \o w
    BY <1>1, ConcatProperties, ConcatEmptySeq
<1>4. queue' \in Seq(Events) /\ wire' \in Seq(Events) /\ Line' = r \o w
    <2>1. CASE queue' = r /\ wire' = w
        BY <1>1, <2>1 DEF Line
    <2>2. CASE queue' = r \o w /\ wire' = <<>>
        <3>1. <<>> \in Seq(Events)
            OBVIOUS
        <3>. QED
            BY <1>3, <2>2, <3>1 DEF Line
    <2>. QED
        BY <1>2, <2>1, <2>2
<1>5. Removes(i)
    BY <1>1, <1>4 DEF Removes
<1>6. /\ Ordered'
      /\ Line[i] \in Flying /\ Flying' \cup {Line[i]} = Flying
      /\ \A f \in Flying' : f.to = Line[i].to /\ f.type \in types => Line[i].n < f.n
    BY <1>1, <1>5, RemovesFromLine DEF Inv
<1>7. /\ queue' \in Seq(Events) /\ wire' \in Seq(Events)
      /\ Ordered'
      /\ e \in Flying /\ e.to = t /\ e.type \in types
      /\ Flying' \cup {e} = Flying
      /\ \A f \in Flying' : f.to = t /\ f.type \in types => e.n < f.n
    BY <1>1, <1>4, <1>6
<1>. QED
    BY <1>7 DEF q, i, e

\* The event that is handled is the terminal's next one.
LEMMA TakeKeeps ==
    ASSUME Inv, NEW t \in Terms, TakeEvent(t), buried' \in BOOLEAN
    PROVE  Inv'
<1>. DEFINE q == Scanned(t, Types)
            i == FirstMatch(t, Types, q)
            e == q[i]
<1>1. /\ running = {t} /\ newest = 0
      /\ Matches(t, Types, q) # {}
      /\ HandleEvent(t, e, RemoveAt(q, i), Unread(t, Types))
      /\ handled' = IF e.type = "configure" THEN handled
                    ELSE [handled EXCEPT ![t] = Append(@, e.n)]
      /\ running' = IF e.type = "close" THEN {} ELSE {t}
      /\ UNCHANGED <<sent, size, window, pty, output, round>>
    BY DEF TakeEvent
<1>2. /\ queue' \in Seq(Events) /\ wire' \in Seq(Events)
      /\ Ordered'
      /\ e \in Flying /\ e.to = t /\ e.type \in Types
      /\ Flying' \cup {e} = Flying
      /\ \A f \in Flying' : f.to = t /\ f.type \in Types => e.n < f.n
    BY <1>1, TakenFacts DEF HandleEvent, RoundTrip
<1>3. newest' = IF e.type = "configure" THEN e.n ELSE 0
    BY <1>1 DEF HandleEvent
<1>. HIDE DEF q, i, e
<1>4. /\ MaxEvents \in Nat
      /\ \A f \in Flying : f.n \in Nat \ {0} /\ f.to \in Terms /\ f.type \in Types /\ f \in Events
      /\ \A u \in Terms : /\ Len(sent[u]) \in Nat /\ DOMAIN sent[u] = 1..Len(sent[u])
                          /\ size[u] \in Nat /\ handled[u] \in Seq(Numbers)
                          /\ \A j \in DOMAIN handled[u] : handled[u][j] \in Nat
    BY NumberFacts DEF Inv
<1>5. /\ e.n \in DOMAIN sent[t] /\ sent[t][e.n] = e.type /\ e.n \in Nat \ {0}
      /\ e.n \in Numbers /\ e.n <= Len(sent[t])
      /\ e.type = "configure" => e.n <= MaxEvents
      /\ \A j \in DOMAIN handled[t] : handled[t][j] < e.n
      /\ e.type = "configure" => size[t] < e.n
    <2>1. /\ e.n \in DOMAIN sent[t] /\ sent[t][e.n] = e.type
          /\ \A j \in DOMAIN handled[t] : handled[t][j] < e.n
          /\ e.type = "configure" => size[t] < e.n
        BY <1>2 DEF Inv, Genuine, Ahead
    <2>2. e.type = "configure" => e.n <= MaxEvents
        BY <2>1 DEF Inv, LastIsOwn
    <2>3. e.n \in Numbers
        BY <1>2, <1>4 DEF Events
    <2>. QED
        BY <1>2, <1>4, <2>1, <2>2, <2>3
<1>6. \A f \in Flying' : f \in Flying /\ (f.to = t => e.n < f.n)
    BY <1>2, <1>4
<1>7. /\ handled' \in [Terms -> Seq(Numbers)]
      /\ \A u \in Terms : u # t => handled'[u] = handled[u]
      /\ \A j \in DOMAIN handled'[t] :
             \/ j \in DOMAIN handled[t] /\ handled'[t][j] = handled[t][j]
             \/ handled'[t][j] = e.n /\ e.type # "configure" /\ \A k \in DOMAIN handled[t] : k < j
      /\ \A j \in DOMAIN handled[t] : j \in DOMAIN handled'[t] /\ handled'[t][j] = handled[t][j]
      /\ e.type # "configure" => \E j \in DOMAIN handled'[t] : handled'[t][j] = e.n
    <2>1. CASE e.type = "configure"
        BY <1>1, <2>1 DEF Inv, TypeOK
    <2>2. CASE e.type # "configure"
        <3>1. handled' = [handled EXCEPT ![t] = Append(@, e.n)] /\ handled[t] \in Seq(Numbers)
            BY <1>1, <1>4, <2>2
        <3>2. /\ handled' \in [Terms -> Seq(Numbers)] /\ handled'[t] = Append(handled[t], e.n)
              /\ \A u \in Terms : u # t => handled'[u] = handled[u]
            BY <1>5, <3>1 DEF Inv, TypeOK
        <3>3. /\ DOMAIN handled'[t] = 1..(Len(handled[t]) + 1) /\ Len(handled[t]) \in Nat
              /\ DOMAIN handled[t] = 1..Len(handled[t])
              /\ \A j \in 1..Len(handled[t]) : handled'[t][j] = handled[t][j]
              /\ handled'[t][Len(handled[t]) + 1] = e.n
            BY <1>5, <3>1, <3>2
        <3>4. \A j \in DOMAIN handled'[t] :
                 j \in 1..Len(handled[t]) \/ j = Len(handled[t]) + 1
            BY <3>3
        <3>. QED
            BY <2>2, <3>2, <3>3, <3>4
    <2>. QED
        BY <2>1, <2>2
<1>8. TypeOK'
    <2>1. newest' \in 0..MaxEvents /\ running' \in SUBSET Terms
        BY <1>1, <1>3, <1>4, <1>5
    <2>2. /\ sent' \in [Terms -> Seq(Types)] /\ size' \in [Terms -> 0..MaxEvents]
          /\ window' \subseteq Terms /\ pty' \subseteq Terms
          /\ output' \in [Terms -> {"none", "data", "eof"}]
        BY <1>1 DEF Inv, TypeOK
    <2>3. round' \subseteq {"window", "pty"} \X Terms
        BY <1>1 DEF Inv, TypeOK
    <2>4. handled' \in [Terms -> Seq(Numbers)]
        BY <1>7
    <2>. QED
        BY <1>2, <2>1, <2>2, <2>3, <2>4 DEF TypeOK
<1>9. Genuine' /\ LastIsOwn'
    BY <1>1, <1>6 DEF Inv, Genuine, LastIsOwn
<1>10. Past'
    <2>1. \A j \in DOMAIN handled'[t] : handled'[t][j] <= Len(sent[t])
        BY <1>5, <1>7 DEF Inv, Past
    <2>2. newest' <= Len(sent[t])
        BY <1>3, <1>4, <1>5
    <2>. QED
        BY <1>1, <1>7, <2>1, <2>2 DEF Inv, Past
<1>11. Ahead'
    <2>. SUFFICES ASSUME NEW f \in Flying'
                  PROVE  /\ \A j \in DOMAIN handled'[f.to] : handled'[f.to][j] < f.n
                         /\ f.type = "configure" =>
                               size[f.to] < f.n /\ (f.to \in running' => newest' < f.n)
        BY <1>1 DEF Ahead
    <2>1. /\ f \in Flying /\ f.n \in Nat \ {0} /\ f.to \in Terms
          /\ \A j \in DOMAIN handled[f.to] : handled[f.to][j] < f.n
          /\ f.type = "configure" => size[f.to] < f.n
        BY <1>4, <1>6 DEF Inv, Ahead
    <2>2. CASE f.to # t
        BY <1>1, <1>7, <2>1, <2>2
    <2>3. CASE f.to = t
        <3>1. e.n < f.n
            BY <1>6, <2>3
        <3>2. newest' < f.n
            BY <1>3, <2>1, <3>1
        <3>. QED
            BY <1>7, <2>1, <2>3, <3>1, <3>2
    <2>. QED
        BY <2>2, <2>3
<1>12. Resizing'
    BY <1>1, <1>3, <1>5 DEF Resizing
<1>13. HandledInOrder'
    <2>. SUFFICES ASSUME NEW u \in Terms, NEW j \in DOMAIN handled'[u],
                         NEW k \in DOMAIN handled'[u], j < k
                  PROVE  handled'[u][j] < handled'[u][k]
        BY DEF HandledInOrder
    <2>1. CASE u # t
        BY <1>7, <2>1 DEF Inv, HandledInOrder
    <2>2. CASE u = t
        <3>1. j \in Nat /\ k \in Nat
            BY <1>7, <2>2
        <3>2. j \in DOMAIN handled[t] /\ handled'[t][j] = handled[t][j]
            <4>. SUFFICES ASSUME ~(j \in DOMAIN handled[t] /\ handled'[t][j] = handled[t][j])
                          PROVE  FALSE
                OBVIOUS
            <4>1. \A x \in DOMAIN handled[t] : x < j
                BY <1>7, <2>2
            <4>2. handled'[t][j] = e.n
                BY <1>7, <2>2
            <4>3. e.type # "configure" /\ handled' = [handled EXCEPT ![t] = Append(@, e.n)]
                BY <1>1, <1>7, <2>2
            <4>4. handled'[t] = Append(handled[t], e.n) /\ handled[t] \in Seq(Numbers)
                BY <1>4, <4>3 DEF Inv, TypeOK
            <4>5. j \in 1..(Len(handled[t]) + 1) /\ k \in 1..(Len(handled[t]) + 1)
                BY <2>2, <4>4
            <4>6. j \in 1..Len(handled[t])
                BY <4>4, <4>5
            <4>. QED
                BY <4>1, <4>4, <4>6
        <3>3. CASE k \in DOMAIN handled[t] /\ handled'[t][k] = handled[t][k]
            BY <2>2, <3>2, <3>3 DEF Inv, HandledInOrder
        <3>4. CASE handled'[t][k] = e.n
            BY <1>5, <2>2, <3>2, <3>4
        <3>. QED
            BY <1>7, <2>2, <3>3, <3>4
    <2>. QED
        BY <2>1, <2>2
<1>14. \A u \in Terms : Watched(u)' => Watched(u)
    BY <1>1 DEF Watched
<1>15. NothingLost'
    <2>. SUFFICES ASSUME NEW u \in Terms, NEW n \in DOMAIN sent[u], Watched(u),
                         sent[u][n] # "configure"
                  PROVE  n \in ToSet(handled'[u]) \/ \E f \in Flying' : f.to = u /\ f.n = n
        BY <1>1, <1>14 DEF NothingLost, InTransit, Flying
    <2>1. \A x : x \in ToSet(handled[u]) => x \in ToSet(handled'[u])
        BY <1>7 DEF ToSet
    <2>2. CASE n \in ToSet(handled[u])
        BY <2>1, <2>2
    <2>3. CASE \E f \in Flying : f.to = u /\ f.n = n
        <3>1. PICK f \in Flying : f.to = u /\ f.n = n
            BY <2>3
        <3>2. CASE f = e
            <4>1. e.type # "configure" /\ u = t
                BY <1>2, <1>5, <3>1, <3>2
            <4>. QED
                BY <1>7, <3>1, <3>2, <4>1 DEF ToSet
        <3>3. CASE f # e
            BY <1>2, <3>1, <3>3
        <3>. QED
            BY <3>2, <3>3
    <2>4. n \in ToSet(handled[u]) \/ \E f \in Flying : f.to = u /\ f.n = n
        BY DEF Inv, NothingLost, InTransit, Flying
    <2>. QED
        BY <2>2, <2>3, <2>4
<1>16. SizeIsKept'
    <2>. SUFFICES ASSUME NEW u \in Terms, NEW n \in DOMAIN sent[u], Watched(u)', Watched(u),
                         sent[u][n] = "configure"
                  PROVE  \/ n <= size[u]
                         \/ u \in running' /\ n <= newest'
                         \/ \E f \in Flying' : f.to = u /\ f.type = "configure" /\ n <= f.n
        BY <1>1, <1>14 DEF SizeIsKept
    <2>1. n \in Nat \ {0}
        BY <1>4
    <2>2. n <= size[u] \/ \E f \in Flying : f.to = u /\ f.type = "configure" /\ n <= f.n
        BY <1>1, <2>1 DEF Inv, SizeIsKept
    <2>3. ASSUME NEW f \in Flying, f.to = u, f.type = "configure", n <= f.n
          PROVE  \/ u \in running' /\ n <= newest'
                 \/ \E g \in Flying' : g.to = u /\ g.type = "configure" /\ n <= g.n
        <3>1. CASE f = e
            BY <1>1, <1>2, <1>3, <2>3, <3>1
        <3>2. CASE f # e
            BY <1>2, <2>3, <3>2
        <3>. QED
            BY <3>1, <3>2
    <2>. QED
        BY <2>2, <2>3
<1>. QED
    BY <1>2, <1>8, <1>9, <1>10, <1>11, <1>12, <1>13, <1>15, <1>16 DEF Inv

\* A handler takes a newer size for the one that it has.
LEMMA SkipKeeps ==
    ASSUME Inv, NEW t \in Terms, SkipSize(t), buried' \in BOOLEAN
    PROVE  Inv'
<1>. DEFINE q == Scanned(t, {"configure"})
            i == FirstMatch(t, {"configure"}, q)
            e == q[i]
<1>1. /\ running = {t} /\ newest # 0
      /\ Matches(t, {"configure"}, q) # {}
      /\ queue' = RemoveAt(q, i) /\ wire' = Unread(t, {"configure"})
      /\ newest' = e.n
      /\ UNCHANGED <<sent, handled, size, window, pty, output, round, running>>
    BY DEF SkipSize
<1>2. /\ queue' \in Seq(Events) /\ wire' \in Seq(Events)
      /\ Ordered'
      /\ e \in Flying /\ e.to = t /\ e.type = "configure"
      /\ Flying' \cup {e} = Flying
      /\ \A f \in Flying' : f.to = t /\ f.type = "configure" => e.n < f.n
    BY <1>1, TakenFacts
<1>. HIDE DEF q, i, e
<1>3. /\ MaxEvents \in Nat /\ newest \in Nat
      /\ \A f \in Flying : f.n \in Nat \ {0} /\ f.to \in Terms
      /\ \A u \in Terms : /\ Len(sent[u]) \in Nat /\ DOMAIN sent[u] = 1..Len(sent[u])
                          /\ size[u] \in Nat
    BY NumberFacts DEF Inv
<1>4. /\ e.n \in DOMAIN sent[t] /\ sent[t][e.n] = "configure" /\ e.n \in Nat \ {0}
      /\ e.n <= MaxEvents /\ e.n <= Len(sent[t])
      /\ size[t] < e.n /\ newest < e.n
    <2>1. /\ e.n \in DOMAIN sent[t] /\ sent[t][e.n] = "configure"
          /\ size[t] < e.n /\ newest < e.n
        BY <1>1, <1>2 DEF Inv, Genuine, Ahead
    <2>2. e.n <= MaxEvents
        BY <2>1 DEF Inv, LastIsOwn
    <2>. QED
        BY <1>2, <1>3, <2>1, <2>2
<1>5. TypeOK'
    <2>1. newest' \in 0..MaxEvents
        BY <1>1, <1>3, <1>4
    <2>. QED
        BY <1>1, <1>2, <2>1 DEF Inv, TypeOK
<1>6. Genuine' /\ LastIsOwn' /\ HandledInOrder'
    BY <1>1, <1>2 DEF Inv, Genuine, LastIsOwn, HandledInOrder
<1>7. Past' /\ Resizing'
    BY <1>1, <1>4 DEF Inv, Past, Resizing
<1>8. Ahead'
    BY <1>1, <1>2 DEF Inv, Ahead
<1>9. \A u \in Terms : Watched(u)' <=> Watched(u)
    BY <1>1 DEF Watched
<1>10. NothingLost'
    <2>. SUFFICES ASSUME NEW u \in Terms, NEW n \in DOMAIN sent[u], Watched(u),
                         sent[u][n] # "configure", n \notin ToSet(handled[u])
                  PROVE  \E f \in Flying' : f.to = u /\ f.n = n
        BY <1>1, <1>9 DEF NothingLost, InTransit, Flying
    <2>1. PICK f \in Flying : f.to = u /\ f.n = n
        BY DEF Inv, NothingLost, InTransit, Flying
    <2>2. f # e
        BY <1>2, <1>4, <2>1
    <2>. QED
        BY <1>2, <2>1, <2>2
<1>11. SizeIsKept'
    <2>. SUFFICES ASSUME NEW u \in Terms, NEW n \in DOMAIN sent[u], Watched(u),
                         sent[u][n] = "configure"
                  PROVE  \/ n <= size[u]
                         \/ u \in running /\ n <= newest'
                         \/ \E f \in Flying' : f.to = u /\ f.type = "configure" /\ n <= f.n
        BY <1>1, <1>9 DEF SizeIsKept
    <2>1. n \in Nat
        BY <1>3
    <2>2. CASE n <= size[u]
        BY <2>2
    <2>3. CASE u \in running /\ n <= newest
        BY <1>1, <1>3, <1>4, <2>1, <2>3
    <2>4. ASSUME NEW f \in Flying, f.to = u, f.type = "configure", n <= f.n
          PROVE  \/ u \in running /\ n <= newest'
                 \/ \E g \in Flying' : g.to = u /\ g.type = "configure" /\ n <= g.n
        <3>1. CASE f = e
            BY <1>1, <1>2, <2>4, <3>1
        <3>2. CASE f # e
            BY <1>2, <2>4, <3>2
        <3>. QED
            BY <3>1, <3>2
    <2>. QED
        BY <2>2, <2>3, <2>4 DEF Inv, SizeIsKept
<1>. QED
    BY <1>2, <1>5, <1>6, <1>7, <1>8, <1>10, <1>11 DEF Inv

\* The terminal gets the size that its handler has, the newest one there is.
LEMMA ResizeKeeps ==
    ASSUME Inv, NEW t \in Terms, Resize(t), buried' \in BOOLEAN
    PROVE  Inv'
<1>1. /\ running = {t} /\ newest # 0
      /\ queue' = queue \o wire /\ wire' = <<>>
      /\ size' = [size EXCEPT ![t] = newest]
      /\ newest' = 0
      /\ UNCHANGED <<sent, handled, window, pty, output, round, running>>
    BY DEF Resize, NothingFound
<1>2. queue' \in Seq(Events) /\ wire' \in Seq(Events) /\ Ordered' /\ Flying' = Flying
    BY <1>1, ReadsFacts, ReadsKeepsLine DEF Inv, Reads
<1>3. /\ MaxEvents \in Nat /\ newest \in Nat
      /\ \A f \in Flying : f.n \in Nat \ {0} /\ f.to \in Terms
      /\ \A u \in Terms : /\ Len(sent[u]) \in Nat /\ DOMAIN sent[u] = 1..Len(sent[u])
                          /\ size[u] \in Nat
    BY NumberFacts DEF Inv
<1>4. /\ size'[t] = newest /\ size[t] < newest
      /\ \A u \in Terms : u # t => size'[u] = size[u]
    BY <1>1 DEF Inv, TypeOK, Resizing
<1>5. TypeOK'
    <2>1. size' \in [Terms -> 0..MaxEvents] /\ newest' \in 0..MaxEvents
        BY <1>1, <1>3 DEF Inv, TypeOK
    <2>. QED
        BY <1>1, <1>2, <2>1 DEF Inv, TypeOK
<1>6. Genuine' /\ LastIsOwn' /\ HandledInOrder'
    BY <1>1, <1>2 DEF Inv, Genuine, LastIsOwn, HandledInOrder
<1>7. Past'
    <2>1. newest <= Len(sent[t])
        BY <1>1 DEF Inv, Past
    <2>. QED
        BY <1>1, <1>3, <1>4, <2>1 DEF Inv, Past
<1>8. Ahead'
    <2>. SUFFICES ASSUME NEW f \in Flying
                  PROVE  /\ \A j \in DOMAIN handled[f.to] : handled[f.to][j] < f.n
                         /\ f.type = "configure" => size'[f.to] < f.n /\ newest' < f.n
        BY <1>1, <1>2 DEF Ahead
    <2>1. /\ f.n \in Nat \ {0} /\ f.to \in Terms
          /\ \A j \in DOMAIN handled[f.to] : handled[f.to][j] < f.n
          /\ f.type = "configure" => size[f.to] < f.n /\ (f.to = t => newest < f.n)
        BY <1>1, <1>3 DEF Inv, Ahead
    <2>2. size'[f.to] = IF f.to = t THEN newest ELSE size[f.to]
        BY <1>4, <2>1
    <2>3. 0 < f.n
        BY <2>1
    <2>. QED
        BY <1>1, <2>1, <2>2, <2>3
<1>9. Resizing'
    BY <1>1 DEF Resizing
<1>10. \A u \in Terms : Watched(u)' <=> Watched(u)
    BY <1>1 DEF Watched
<1>11. NothingLost'
    BY <1>1, <1>2, <1>10 DEF Inv, NothingLost, InTransit, Flying
<1>12. SizeIsKept'
    <2>. SUFFICES ASSUME NEW u \in Terms, NEW n \in DOMAIN sent[u], Watched(u),
                         sent[u][n] = "configure"
                  PROVE  \/ n <= size'[u]
                         \/ \E f \in Flying : f.to = u /\ f.type = "configure" /\ n <= f.n
        BY <1>1, <1>2, <1>10 DEF SizeIsKept
    <2>1. n \in Nat
        BY <1>3
    <2>2. CASE n <= size[u]
        BY <1>3, <1>4, <2>1, <2>2
    <2>3. CASE u \in running /\ n <= newest
        BY <1>1, <1>4, <2>3
    <2>. QED
        BY <2>2, <2>3 DEF Inv, SizeIsKept
<1>. QED
    BY <1>2, <1>5, <1>6, <1>7, <1>8, <1>9, <1>11, <1>12 DEF Inv

\* The loop, the children and the end of a callback: nothing is handled.
LEMMA LoopKeeps ==
    ASSUME Inv, buried' \in BOOLEAN,
           \/ Poll
           \/ \E t \in Terms : \/ StartWindowCallback(t) \/ EndWindowCallback(t)
                               \/ ReadOutput(t) \/ ChildWrites(t) \/ ChildExits(t)
           \/ UNCHANGED vars
    PROVE  Inv'
<1>1. /\ TypeOK /\ Resizing /\ LastIsOwn /\ newest \in Nat
      /\ \A t \in Terms : Len(sent[t]) \in Nat
    BY NumberFacts DEF Inv
<1>2. CASE Poll
    <2>1. /\ round = {} /\ running = {}
          /\ window' \subseteq window /\ pty' \subseteq pty
          /\ \A t \in Terms : <<"window", t>> \in round' => t \in window
          /\ \A t \in Terms : <<"pty", t>> \in round' => t \in pty /\ t \notin pty'
          /\ UNCHANGED <<wire, queue, sent, handled, size, output, running, newest>>
        BY <1>2 DEF Poll, Idle
    <2>2. round' \subseteq {"window", "pty"} \X Terms
        BY <1>1, <1>2 DEF Poll, TypeOK
    <2>3. TypeOK'
        BY <1>1, <2>1, <2>2 DEF TypeOK
    <2>4. LastIsOwn'
        BY <1>1, <2>1 DEF LastIsOwn
    <2>5. \A t \in Terms : Watched(t)' => Watched(t)
        BY <2>1 DEF Watched
    <2>. QED
        BY <1>1, <2>1, <2>3, <2>4, <2>5, QuietKeeps, ReadsFacts
<1>3. ASSUME NEW t \in Terms, StartWindowCallback(t)
      PROVE  Inv'
    <2>1. /\ running = {} /\ running' = {t} /\ <<"window", t>> \in round
          /\ round' = round \ {<<"window", t>>}
          /\ UNCHANGED <<wire, queue, sent, handled, size, window, pty, output, newest>>
        BY <1>3 DEF StartWindowCallback
    <2>2. newest = 0
        BY <1>1, <2>1 DEF Resizing
    <2>3. TypeOK'
        BY <1>1, <2>1 DEF TypeOK
    <2>4. LastIsOwn'
        BY <1>1, <2>1 DEF LastIsOwn
    <2>5. \A u \in Terms : Watched(u)' => Watched(u)
        BY <2>1 DEF Watched
    <2>. QED
        BY <2>1, <2>2, <2>3, <2>4, <2>5, <1>1, QuietKeeps, ReadsFacts
<1>4. ASSUME NEW t \in Terms, EndWindowCallback(t)
      PROVE  Inv'
    <2>1. /\ running = {t} /\ newest = 0 /\ running' = {}
          /\ queue' = queue \o wire /\ wire' = <<>>
          /\ window' = window \cup {t}
          /\ UNCHANGED <<sent, handled, size, pty, output, round, newest>>
        BY <1>4 DEF EndWindowCallback, NothingFound
    <2>2. Reads
        BY <1>1, <2>1, ReadsFacts
    <2>3. TypeOK'
        BY <1>1, <2>1, <2>2 DEF TypeOK, Reads
    <2>4. LastIsOwn'
        BY <1>1, <2>1 DEF LastIsOwn
    <2>5. \A u \in Terms : Watched(u)' => Watched(u)
        BY <2>1 DEF Watched
    <2>. QED
        BY <2>1, <2>2, <2>3, <2>4, <2>5, QuietKeeps
<1>5. ASSUME NEW t \in Terms, ReadOutput(t)
      PROVE  Inv'
    <2>1. /\ running = {} /\ <<"pty", t>> \in round /\ output[t] = "data"
          /\ output' = [output EXCEPT ![t] = "none"]
          /\ round' = round \ {<<"pty", t>>}
          /\ pty' = pty \cup {t}
          /\ UNCHANGED <<sent, handled, size, window, running, newest>>
        BY <1>5 DEF ReadOutput
    <2>2. Reads
        BY <1>1, <1>5, ReadsFacts DEF ReadOutput, RoundTrip
    <2>3. TypeOK'
        <3>1. output' \in [Terms -> {"none", "data", "eof"}]
            BY <1>1, <2>1 DEF TypeOK
        <3>. QED
            BY <1>1, <2>1, <2>2, <3>1 DEF TypeOK, Reads
    <2>4. LastIsOwn'
        <3>1. \A u \in Terms : u # t => output'[u] = output[u]
            BY <1>1, <2>1 DEF TypeOK
        <3>. QED
            BY <1>1, <2>1, <3>1 DEF LastIsOwn
    <2>5. \A u \in Terms : Watched(u)' => Watched(u)
        BY <2>1 DEF Watched
    <2>. QED
        BY <2>1, <2>2, <2>3, <2>4, <2>5, QuietKeeps
<1>6. ASSUME NEW t \in Terms, ChildWrites(t) \/ ChildExits(t)
      PROVE  Inv'
    <2>1. /\ output[t] = "none"
          /\ \E x \in {"data", "eof"} : output' = [output EXCEPT ![t] = x]
          /\ UNCHANGED <<wire, queue, sent, handled, size, window, pty, round, running, newest>>
        BY <1>6 DEF ChildWrites, ChildExits
    <2>2. /\ output' \in [Terms -> {"none", "data", "eof"}]
          /\ \A u \in Terms : u # t => output'[u] = output[u]
        BY <1>1, <2>1 DEF TypeOK
    <2>3. TypeOK'
        BY <1>1, <2>1, <2>2 DEF TypeOK
    <2>4. LastIsOwn'
        BY <1>1, <2>1, <2>2 DEF LastIsOwn
    <2>5. \A u \in Terms : Watched(u)' => Watched(u)
        BY <2>1 DEF Watched
    <2>6. \A u \in running' : running' = {u}
        BY <1>1, <2>1 DEF Resizing
    <2>. QED
        BY <1>1, <2>1, <2>3, <2>4, <2>5, <2>6, QuietKeeps, ReadsFacts
<1>7. CASE UNCHANGED vars
    <2>1. TypeOK' /\ LastIsOwn'
        BY <1>1, <1>7 DEF vars, TypeOK, LastIsOwn
    <2>2. \A u \in Terms : Watched(u)' => Watched(u)
        BY <1>7 DEF vars, Watched
    <2>3. \A u \in running' : running' = {u}
        BY <1>1, <1>7 DEF vars, Resizing
    <2>. QED
        BY <1>1, <1>7, <2>1, <2>2, <2>3, QuietKeeps, ReadsFacts DEF vars
<1>. QED
    BY <1>2, <1>3, <1>4, <1>5, <1>6, <1>7

\* The server's events, and the message that a terminal sends itself.
LEMMA SendsKeep ==
    ASSUME Inv, NEW t \in Terms, ServerSends(t) \/ ReadEof(t), buried' \in BOOLEAN
    PROVE  Inv'
<1>1. /\ TypeOK /\ LastIsOwn /\ MaxEvents \in Nat
      /\ \A u \in Terms : Len(sent[u]) \in Nat
    BY NumberFacts DEF Inv
<1>2. CASE ServerSends(t)
    <2>1. PICK type \in Types : Send(t, type)
        BY <1>2 DEF ServerSends
    <2>2. /\ Len(sent[t]) < MaxEvents
          /\ UNCHANGED <<queue, handled, size, window, pty, output, round, running, newest>>
        BY <1>2 DEF ServerSends
    <2>3. \A u \in Terms : Watched(u)' => Watched(u)
        BY <2>2 DEF Watched
    <2>4. Len(sent[t]) <= MaxEvents
        BY <1>1, <2>2
    <2>5. /\ sent' \in [Terms -> Seq(Types)] /\ wire' \in Seq(Events)
          /\ Len(sent'[t]) = Len(sent[t]) + 1
          /\ \A u \in Terms : u # t => sent'[u] = sent[u]
          /\ \A u \in Terms : \A n \in DOMAIN sent'[u] :
                 sent'[u][n] = "configure" => n <= MaxEvents
          /\ TypeOK' /\ LastIsOwn' => Inv'
        BY <2>1, <2>2, <2>3, <2>4, SendKeeps
    <2>6. TypeOK'
        BY <1>1, <2>2, <2>5 DEF TypeOK
    <2>7. Len(sent'[t]) <= MaxEvents
        BY <1>1, <2>2, <2>5
    <2>8. LastIsOwn'
        BY <1>1, <2>2, <2>5, <2>7 DEF LastIsOwn
    <2>. QED
        BY <2>5, <2>6, <2>8
<1>3. CASE ReadEof(t)
    <2>1. /\ <<"pty", t>> \in round /\ output[t] = "eof"
          /\ Send(t, "close") /\ "close" \in Types
          /\ round' = round \ {<<"pty", t>>}
          /\ UNCHANGED <<queue, handled, size, window, pty, output, running, newest>>
        BY <1>3 DEF ReadEof, Types
    <2>2. Len(sent[t]) <= MaxEvents /\ t \notin pty
        BY <1>1, <2>1 DEF LastIsOwn
    <2>3. \A u \in Terms : Watched(u)' => Watched(u)
        BY <2>1 DEF Watched
    <2>5. /\ sent' \in [Terms -> Seq(Types)] /\ wire' \in Seq(Events)
          /\ Len(sent'[t]) = Len(sent[t]) + 1
          /\ \A u \in Terms : u # t => sent'[u] = sent[u]
          /\ \A u \in Terms : \A n \in DOMAIN sent'[u] :
                 sent'[u][n] = "configure" => n <= MaxEvents
          /\ TypeOK' /\ LastIsOwn' => Inv'
        BY <2>1, <2>2, <2>3, SendKeeps
    <2>6. TypeOK'
        BY <1>1, <2>1, <2>5 DEF TypeOK
    <2>7. Len(sent'[t]) <= MaxEvents \/ Len(sent'[t]) = MaxEvents + 1
        BY <1>1, <2>2, <2>5
    <2>8. LastIsOwn'
        BY <1>1, <2>1, <2>2, <2>5, <2>7 DEF LastIsOwn
    <2>. QED
        BY <2>5, <2>6, <2>8
<1>. QED
    BY <1>2, <1>3

LEMMA InvHolds ==
    Spec => []Inv
<1>1. ASSUME Inv, [Next]_vars
      PROVE  Inv'
    <2>1. CASE Process
        <3>1. buried' \in BOOLEAN
            BY <1>1, <2>1 DEF Process, Inv, TypeOK
        <3>. QED
            BY <1>1, <2>1, <3>1, LoopKeeps, SendsKeep, TakeKeeps, SkipKeeps, ResizeKeeps DEF Process
    <2>2. CASE Environment
        <3>1. buried' \in BOOLEAN
            BY <1>1, <2>2 DEF Environment, Inv, TypeOK
        <3>. QED
            BY <1>1, <2>2, <3>1, LoopKeeps, SendsKeep DEF Environment
    <2>3. CASE UNCHANGED vars
        <3>1. buried' \in BOOLEAN
            BY <1>1, <2>3 DEF vars, Inv, TypeOK
        <3>. QED
            BY <1>1, <2>3, <3>1, LoopKeeps
    <2>. QED
        BY <1>1, <2>1, <2>2, <2>3 DEF Next
<1>. QED
    BY InitInv, <1>1, PTL DEF Spec

-----------------------------------------------------------------------------
(* The theorems *)

\* Every event is handled in order and exactly once, or on its way, whatever
\* other terminals, round trips and resizes do to the queue.
THEOREM EventsAreKept == Spec => []EventsKept
<1>1. Inv => EventsKept
    BY DEF Inv, EventsKept
<1>. QED
    BY <1>1, InvHolds, PTL

\* Once no size is on its way the terminal has the last one that the server
\* sent.
THEOREM SizeFollows == Spec => []SizeFollowsServer
<1>1. Inv => SizeFollowsServer
    <2>. SUFFICES ASSUME Inv, NEW t \in Terms, Watched(t), ~SizeUnderWay(t),
                         NEW n \in DOMAIN sent[t], sent[t][n] = "configure"
                  PROVE  n <= size[t]
        BY DEF SizeFollowsServer
    <2>1. \/ n <= size[t]
          \/ t \in running /\ n <= newest
          \/ \E e \in Flying : e.to = t /\ e.type = "configure" /\ n <= e.n
        BY DEF Inv, SizeIsKept
    <2>2. ~(\E e \in Flying : e.to = t /\ e.type = "configure")
        BY DEF SizeUnderWay, InTransit, Flying
    <2>3. t \in running => newest = 0
        BY DEF SizeUnderWay
    <2>4. n \in Nat \ {0}
        BY NumberFacts DEF Inv
    <2>. QED
        BY <2>1, <2>2, <2>3, <2>4
<1>. QED
    BY <1>1, InvHolds, PTL

=============================================================================
