----------------------------- MODULE PtyProofs -------------------------------
(***************************************************************************)
(* The two directions of a pty, for buffers and writes of every size.      *)
(*                                                                         *)
(* PtyInput: for every buffer, every longest sequence that fits it and     *)
(* every output of the child, what is read reaches the screen in order and *)
(* in whole sequences, no read passes the end of the buffer, and the end   *)
(* of file is never mistaken.  ScreenThenCarry is inductive once the       *)
(* carried bytes are known to be an incomplete sequence; that they are     *)
(* shorter than the buffer follows from the spacing of the ends in the     *)
(* child's output.                                                         *)
(*                                                                         *)
(* PtyFlow: the writes of the terminal and the bounds of the kernel's      *)
(* buffers only delay the output of the child, so PtyFlow implements       *)
(* PtyInput, whose theorems carry over; and the input of the child is what *)
(* the handlers wrote, in order.  InputInOrder speaks of what was taken    *)
(* after the child has exited, when the rest may be thrown away: the       *)
(* inductive invariant keeps the part of asked that was not taken.         *)
(***************************************************************************)
EXTENDS PtyFlow, SequenceTheorems, TLAPS

-----------------------------------------------------------------------------
(* The output of the child *)

\* The bytes a+1 to b form a sequence of b - a naturals.
LEMMA BytesFacts ==
    ASSUME NEW a \in Nat, NEW b \in Nat, a <= b
    PROVE  /\ Bytes(a, b) \in Seq(Nat)
           /\ Len(Bytes(a, b)) = b - a
           /\ \A i \in 1..(b - a) : Bytes(a, b)[i] = a + i
<1>1. b - a \in Nat
    OBVIOUS
<1>2. Bytes(a, b) \in [1..(b - a) -> Nat]
    BY <1>1 DEF Bytes
<1>. QED
    BY <1>1, <1>2 DEF Bytes

\* Runs of bytes that meet make one run.
LEMMA BytesConcat ==
    ASSUME NEW a \in Nat, NEW b \in Nat, NEW c \in Nat, a <= b, b <= c
    PROVE  Bytes(a, b) \o Bytes(b, c) = Bytes(a, c)
<1>1. /\ Bytes(a, b) \in Seq(Nat) /\ Len(Bytes(a, b)) = b - a
      /\ \A i \in 1..(b - a) : Bytes(a, b)[i] = a + i
    BY BytesFacts
<1>2. /\ Bytes(b, c) \in Seq(Nat) /\ Len(Bytes(b, c)) = c - b
      /\ \A i \in 1..(c - b) : Bytes(b, c)[i] = b + i
    BY BytesFacts
<1>3. /\ Bytes(a, c) \in Seq(Nat) /\ Len(Bytes(a, c)) = c - a
      /\ \A i \in 1..(c - a) : Bytes(a, c)[i] = a + i
    BY BytesFacts
<1>. DEFINE s == Bytes(a, b) \o Bytes(b, c)
<1>4. /\ s \in Seq(Nat) /\ Len(s) = c - a
      /\ \A i \in 1..(c - a) : s[i] =
             IF i <= b - a THEN Bytes(a, b)[i] ELSE Bytes(b, c)[i - (b - a)]
    <2>. DEFINE x == Bytes(a, b)
                y == Bytes(b, c)
    <2>1. /\ x \o y \in Seq(Nat) /\ Len(x \o y) = Len(x) + Len(y)
          /\ \A i \in 1..(Len(x) + Len(y)) :
                 (x \o y)[i] = IF i <= Len(x) THEN x[i] ELSE y[i - Len(x)]
        <3>. HIDE DEF x, y
        <3>. QED
            BY <1>1, <1>2, ConcatProperties DEF x, y
    <2>2. Len(x) = b - a /\ Len(x) + Len(y) = c - a
        BY <1>1, <1>2
    <2>. QED
        BY <2>1, <2>2
<1>5. \A i \in 1..(c - a) : s[i] = Bytes(a, c)[i]
    <2>. SUFFICES ASSUME NEW i \in 1..(c - a) PROVE s[i] = a + i
        BY <1>3
    <2>. HIDE DEF s
    <2>1. CASE i <= b - a
        BY <1>1, <1>4, <2>1
    <2>2. CASE ~(i <= b - a)
        <3>1. i - (b - a) \in 1..(c - b)
            BY <2>2
        <3>. QED
            BY <1>2, <1>4, <2>2, <3>1
    <2>. QED
        BY <2>1, <2>2
<1>. QED
    BY <1>3, <1>4, <1>5, SeqEqual

\* A part of a run of bytes is a run of bytes.
LEMMA BytesPart ==
    ASSUME NEW a \in Nat, NEW b \in Nat, NEW c \in Nat, NEW d \in Nat,
           a <= c, c <= d, d <= b,
           NEW i \in Nat, NEW j \in Nat, i = c - a + 1, j = d - a
    PROVE  SubSeq(Bytes(a, b), i, j) = Bytes(c, d)
<1>. DEFINE s == SubSeq(Bytes(a, b), i, j)
<1>1. \A k \in 1..(b - a) : Bytes(a, b)[k] = a + k
    BY BytesFacts
<1>2. /\ Bytes(c, d) \in Seq(Nat) /\ Len(Bytes(c, d)) = d - c
      /\ \A k \in 1..(d - c) : Bytes(c, d)[k] = c + k
    BY BytesFacts
<1>3. /\ i \in Int /\ j \in Int
      /\ \A k \in i..j : k \in 1..(b - a) /\ a + k \in Nat
    OBVIOUS
<1>4. j - i + 1 = d - c /\ (i <= j => j - i + 1 = d - c) /\ (~(i <= j) => d - c = 0)
    OBVIOUS
<1>5. \A k \in 1..(d - c) : i + k - 1 \in 1..(b - a) /\ a + (i + k - 1) = c + k
    OBVIOUS
<1>6. \A k \in i..j : Bytes(a, b)[k] \in Nat
    BY <1>1, <1>3
<1>7. /\ s \in Seq(Nat) /\ Len(s) = IF i <= j THEN j - i + 1 ELSE 0
      /\ \A k \in 1..(j - i + 1) : s[k] = Bytes(a, b)[i + k - 1]
    <2>. DEFINE r == Bytes(a, b)
    <2>. HIDE DEF r
    <2>. QED
        BY <1>3, <1>6, SubSeqProperties DEF r
<1>. HIDE DEF s
<1>8. Len(s) = d - c
    BY <1>4, <1>7
<1>9. \A k \in 1..(d - c) : s[k] = Bytes(c, d)[k]
    BY <1>1, <1>2, <1>4, <1>5, <1>7
<1>10. s = Bytes(c, d)
    BY <1>2, <1>7, <1>8, <1>9, SeqEqual
<1>. QED
    BY <1>10 DEF s

\* A run of bytes is cut into two.
LEMMA BytesCut ==
    ASSUME NEW a \in Nat, NEW b \in Nat, NEW p \in Nat, p <= b - a
    PROVE  /\ SubSeq(Bytes(a, b), 1, p) = Bytes(a, a + p)
           /\ SubSeq(Bytes(a, b), p + 1, b - a) = Bytes(a + p, b)
<1>. DEFINE m == a + p
            i == p + 1
            j == b - a
<1>1. m \in Nat /\ a <= a /\ a <= m /\ m <= b /\ b <= b
    OBVIOUS
<1>2. 1 \in Nat /\ 1 = a - a + 1 /\ p = m - a
    OBVIOUS
<1>3. i \in Nat /\ j \in Nat /\ i = m - a + 1 /\ j = b - a
    OBVIOUS
<1>. HIDE DEF m, i, j
<1>4. SubSeq(Bytes(a, b), 1, p) = Bytes(a, m)
    BY <1>1, <1>2, BytesPart
<1>5. SubSeq(Bytes(a, b), i, j) = Bytes(m, b)
    BY <1>1, <1>3, BytesPart
<1>. QED
    BY <1>4, <1>5 DEF m, i, j

-----------------------------------------------------------------------------

\* The child's output has an end of a sequence, or its beginning, less than
\* LongestSequence bytes before every position.
Spaced ==
    \A b \in 0..written : \E e \in ends \cup {0} :
        e <= b /\ b - e < LongestSequence

\* The carried bytes belong to one sequence that is not complete.
CarryIsOpen == \A b \in (Len(screen) + 1)..got : b \notin ends

IInv ==
    /\ TypeOK
    /\ Spaced
    /\ ScreenThenCarry
    /\ WholeSequences
    /\ CarryIsOpen
    /\ NoSpuriousEof

\* The carried bytes leave room in the buffer.
LEMMA CarryIsShort ==
    ASSUME IInv
    PROVE  /\ Len(screen) \in Nat /\ Len(screen) <= got
           /\ remaininglen = got - Len(screen)
           /\ remaininglen < BufferLength
<1>1. Len(screen) \in Nat /\ remaininglen \in Nat /\ got \in Nat
    BY DEF IInv, TypeOK, remaininglen
<1>2. Len(screen) + remaininglen = got
    BY DEF IInv, ScreenThenCarry
<1>3. PICK e \in ends \cup {0} : e <= got /\ got - e < LongestSequence
    <2>1. got \in 0..written
        BY DEF IInv, TypeOK
    <2>. QED
        BY <2>1 DEF IInv, Spaced
<1>4. e \in Nat /\ e <= Len(screen)
    BY <1>1, <1>2, <1>3 DEF IInv, TypeOK, CarryIsOpen
<1>. QED
    BY <1>1, <1>2, <1>3, <1>4, PtyInputAssumption

\* With a bytes on the screen and those up to b carried, a read up to c whose
\* first k bytes the parser consumes moves both on to a + k.
MovesOn(a, b, c, k) ==
    /\ Bytes(0, a) \o SubSeq(Bytes(a, b) \o Bytes(b, c), 1, k) = Bytes(0, a + k)
    /\ Carry(Bytes(a, b) \o Bytes(b, c), k) = Bytes(a + k, c)

LEMMA ReadFacts ==
    ASSUME NEW a \in Nat, NEW b \in Nat, NEW c \in Nat, NEW k \in Nat,
           a <= b, b <= c, k <= c - a
    PROVE  MovesOn(a, b, c, k)
<1>. DEFINE d == a + k
<1>1. d \in Nat /\ a <= d /\ d <= c /\ 0 <= a /\ a <= c
    OBVIOUS
<1>2. Bytes(a, b) \o Bytes(b, c) = Bytes(a, c)
    BY BytesConcat
<1>3. /\ SubSeq(Bytes(a, c), 1, k) = Bytes(a, d)
      /\ SubSeq(Bytes(a, c), k + 1, c - a) = Bytes(d, c)
    BY BytesCut
<1>4. Len(Bytes(a, c)) = c - a
    BY <1>1, BytesFacts
<1>. HIDE DEF d
<1>5. Bytes(0, a) \o Bytes(a, d) = Bytes(0, d)
    BY <1>1, BytesConcat
<1>6. Carry(Bytes(a, c), k) = Bytes(d, c)
    BY <1>3, <1>4 DEF Carry
<1>7. /\ Bytes(0, a) \o SubSeq(Bytes(a, b) \o Bytes(b, c), 1, k) = Bytes(0, d)
      /\ Carry(Bytes(a, b) \o Bytes(b, c), k) = Bytes(d, c)
    BY <1>1, <1>2, <1>3, <1>5, <1>6
<1>. QED
    BY <1>7 DEF d, MovesOn

-----------------------------------------------------------------------------

LEMMA InitIInv == Init => IInv
<1>. SUFFICES ASSUME Init PROVE IInv
    OBVIOUS
<1>1. screen = <<>> /\ readbuf = <<>> /\ written = 0 /\ got = 0 /\ ends = {}
    BY DEF Init
<1>2. Bytes(0, 0) = <<>>
    BY BytesFacts, EmptySeq
<1>3. TypeOK
    <2>1. <<>> \in Seq(Nat)
        BY EmptySeq
    <2>2. ends \in SUBSET (1..written)
        BY <1>1
    <2>3. exited \in BOOLEAN /\ closed \in BOOLEAN
        BY DEF Init
    <2>. QED
        BY <1>1, <2>1, <2>2, <2>3 DEF TypeOK
<1>4. Spaced
    BY <1>1, PtyInputAssumption DEF Spaced
<1>5. Len(screen) = 0 /\ Len(readbuf) = 0
    BY <1>1
<1>. QED
    BY <1>1, <1>2, <1>3, <1>4, <1>5
    DEF Init, IInv, ScreenThenCarry, remaininglen, WholeSequences, CarryIsOpen,
        NoSpuriousEof

LEMMA ReadIInv ==
    ASSUME IInv, NEW n \in 1..BufferLength, Read(n)
    PROVE  IInv'
<1>. DEFINE buf == readbuf \o Bytes(got, got + n)
            s == Len(screen)
            t == got + n
<1>1. /\ n \in Nat /\ got \in Nat /\ written \in Nat /\ t <= written
      /\ t \in Nat /\ s \in Nat /\ s <= got /\ got <= t /\ s <= t
    BY PtyInputAssumption, CarryIsShort DEF IInv, TypeOK, Read
<1>2. PICK p \in 0..Len(buf) :
          /\ Processed(buf, p)
          /\ screen' = screen \o SubSeq(buf, 1, p)
          /\ readbuf' = Carry(buf, p)
    BY DEF Read
<1>3. got' = t /\ ~closed /\ UNCHANGED <<written, ends, exited, closed>>
    BY DEF Read
<1>4. screen = Bytes(0, s) /\ buf = Bytes(s, got) \o Bytes(got, t)
    BY DEF IInv, ScreenThenCarry
<1>. HIDE DEF s, t
<1>5. buf = Bytes(s, t) /\ Len(buf) = t - s /\ \A i \in 1..(t - s) : buf[i] = s + i
    <2>1. Bytes(s, got) \o Bytes(got, t) = Bytes(s, t)
        BY <1>1, BytesConcat
    <2>2. /\ Len(Bytes(s, t)) = t - s
          /\ \A i \in 1..(t - s) : Bytes(s, t)[i] = s + i
        BY <1>1, BytesFacts
    <2>. HIDE DEF buf
    <2>. QED
        BY <1>4, <2>1, <2>2
<1>. HIDE DEF buf
<1>consumed. p \in Nat /\ p <= t - s
    BY <1>1, <1>5
<1>. DEFINE m == s + p
<1>6. /\ m \in Nat /\ m <= t /\ s <= m
      /\ screen' = Bytes(0, m) /\ readbuf' = Bytes(m, t)
    <2>1. MovesOn(s, got, t, p)
        BY <1>1, <1>consumed, ReadFacts
    <2>2. m \in Nat /\ m <= t /\ s <= m
        BY <1>1, <1>consumed
    <2>. HIDE DEF m
    <2>3. screen' = screen \o SubSeq(buf, 1, p) /\ readbuf' = Carry(buf, p)
        BY <1>2
    <2>4. Bytes(0, m) = Bytes(0, s + p) /\ Bytes(m, t) = Bytes(s + p, t)
        BY DEF m
    <2>. QED
        BY <1>4, <2>1, <2>2, <2>3, <2>4 DEF MovesOn
<1>. HIDE DEF m
<1>7. screen' \in Seq(Nat) /\ Len(screen') = m
    <2>1. 0 <= m /\ m - 0 = m
        BY <1>6
    <2>2. Bytes(0, m) \in Seq(Nat) /\ Len(Bytes(0, m)) = m - 0
        BY <1>6, <2>1, BytesFacts
    <2>. QED
        BY <1>6, <2>1, <2>2
<1>8. readbuf' \in Seq(Nat) /\ Len(readbuf') = t - m
    BY <1>1, <1>6, BytesFacts
<1>9. TypeOK'
    BY <1>1, <1>3, <1>7, <1>8 DEF IInv, TypeOK
<1>10. Spaced'
    BY <1>3 DEF IInv, Spaced
<1>11. ScreenThenCarry'
    <2>1. m + (t - m) = t
        BY <1>1, <1>6
    <2>. QED
        BY <1>3, <1>6, <1>7, <1>8, <2>1 DEF ScreenThenCarry, remaininglen
<1>12. WholeSequences'
    <2>1. CASE p = 0
        <3>1. m = s
            BY <1>1, <2>1 DEF m
        <3>. QED
            BY <1>3, <1>7, <3>1 DEF IInv, WholeSequences, s
    <2>2. CASE p > 0
        <3>1. buf[p] \in ends
            BY <1>2, <2>2 DEF Processed
        <3>2. buf[p] = m
            BY <1>consumed, <1>5, <2>2 DEF m
        <3>. QED
            BY <1>3, <1>7, <3>1, <3>2 DEF WholeSequences
    <2>. QED
        BY <1>consumed, <2>1, <2>2
<1>13. CarryIsOpen'
    <2>. SUFFICES ASSUME NEW b \in (m + 1)..t PROVE b \notin ends
        BY <1>3, <1>7 DEF CarryIsOpen
    <2>1. b - s \in (p + 1)..Len(buf) /\ b - s \in 1..(t - s) /\ s + (b - s) = b
        BY <1>1, <1>consumed, <1>5 DEF m
    <2>2. buf[b - s] \notin ends
        BY <1>2, <2>1 DEF Processed
    <2>3. buf[b - s] = b
        BY <1>5, <2>1
    <2>. QED
        BY <2>2, <2>3
<1>14. NoSpuriousEof'
    BY <1>3 DEF NoSpuriousEof, IInv, TypeOK
<1>. QED
    BY <1>9, <1>10, <1>11, <1>12, <1>13, <1>14 DEF IInv

LEMMA ChildWritesIInv ==
    ASSUME IInv, NEW last \in BOOLEAN, ChildWrites(last)
    PROVE  IInv'
<1>1. /\ written' = written + 1 /\ ~exited
      /\ UNCHANGED <<exited, got, readbuf, screen, closed>>
    BY DEF ChildWrites
<1>2. ends' = IF last THEN ends \cup {written + 1} ELSE ends
    BY DEF ChildWrites
<1>3. written \in Nat /\ got \in Nat /\ got <= written
      /\ ends \in SUBSET (1..written) /\ Len(screen) \in Nat
    BY DEF IInv, TypeOK
<1>4. TypeOK'
    BY <1>1, <1>2, <1>3 DEF IInv, TypeOK
<1>5. Spaced'
    <2>. SUFFICES ASSUME NEW b \in 0..(written + 1)
                  PROVE  \E e \in ends' \cup {0} : e <= b /\ b - e < LongestSequence
        BY <1>1 DEF Spaced
    <2>1. CASE b <= written
        <3>1. b \in 0..written
            BY <1>3, <2>1
        <3>2. PICK e \in ends \cup {0} : e <= b /\ b - e < LongestSequence
            BY <3>1 DEF IInv, Spaced
        <3>3. e \in ends' \cup {0}
            BY <1>2
        <3>. QED
            BY <3>2, <3>3
    <2>2. CASE b = written + 1 /\ last
        BY <1>2, <1>3, <2>2, PtyInputAssumption
    <2>3. CASE b = written + 1 /\ ~last
        <3>1. PICK e \in ends \cup {0} : written + 1 - e < LongestSequence
            BY <2>3 DEF ChildWrites, MayContinue
        <3>. QED
            BY <1>2, <1>3, <2>3, <3>1
    <2>. QED
        BY <1>3, <2>1, <2>2, <2>3
<1>6. ScreenThenCarry' /\ WholeSequences'
    BY <1>1, <1>2 DEF IInv, ScreenThenCarry, WholeSequences, remaininglen
<1>7. CarryIsOpen'
    BY <1>1, <1>2, <1>3 DEF IInv, CarryIsOpen
<1>8. NoSpuriousEof'
    BY <1>1 DEF IInv, NoSpuriousEof
<1>. QED
    BY <1>4, <1>5, <1>6, <1>7, <1>8 DEF IInv

\* The end of the file is believed only when it is true, for there is room.
LEMMA ReadNothingIInv ==
    ASSUME IInv, ReadNothing
    PROVE  IInv'
<1>1. closed' = TRUE /\ UNCHANGED <<written, ends, exited, got, readbuf, screen>>
    BY DEF ReadNothing
<1>2. ~(Room <= 0)
    BY CarryIsShort, PtyInputAssumption DEF Room, IInv, TypeOK
<1>3. exited /\ got = written
    BY <1>2 DEF ReadNothing
<1>. QED
    BY <1>1, <1>3
    DEF IInv, TypeOK, Spaced, ScreenThenCarry, remaininglen, WholeSequences,
        CarryIsOpen, NoSpuriousEof

LEMMA NextIInv == IInv /\ [Next]_vars => IInv'
<1>. SUFFICES ASSUME IInv, [Next]_vars PROVE IInv'
    OBVIOUS
<1>1. ASSUME NEW last \in BOOLEAN, ChildWrites(last) PROVE IInv'
    BY <1>1, ChildWritesIInv
<1>2. CASE ChildExits
    BY <1>2 DEF ChildExits, IInv, TypeOK, Spaced, ScreenThenCarry, remaininglen,
                WholeSequences, CarryIsOpen, NoSpuriousEof
<1>3. ASSUME NEW n \in 1..BufferLength, Read(n) PROVE IInv'
    BY <1>3, ReadIInv
<1>4. CASE ReadNothing
    BY <1>4, ReadNothingIInv
<1>5. CASE UNCHANGED vars
    BY <1>5 DEF vars, IInv, TypeOK, Spaced, ScreenThenCarry, remaininglen,
                WholeSequences, CarryIsOpen, NoSpuriousEof
<1>. QED
    BY <1>1, <1>2, <1>3, <1>4, <1>5 DEF Next

THEOREM Invariance == Spec => []IInv
<1>. QED
    BY InitIInv, NextIInv, PTL DEF Spec

\* What the screen has processed and what is carried over is the child's
\* output, in order and without loss (runes_pty_input_cb).
THEOREM ScreenIsPrefix == Spec => []ScreenThenCarry
<1>1. IInv => ScreenThenCarry
    BY DEF IInv
<1>. QED
    BY Invariance, <1>1, PTL

\* The screen never stops in the middle of a sequence.
THEOREM SequencesAreWhole == Spec => []WholeSequences
<1>1. IInv => WholeSequences
    BY DEF IInv
<1>. QED
    BY Invariance, <1>1, PTL

\* A full buffer is never taken for the end of the child's output.
THEOREM EofIsTheEnd == Spec => []NoSpuriousEof
<1>1. IInv => NoSpuriousEof
    BY DEF IInv
<1>. QED
    BY Invariance, <1>1, PTL

\* No read writes past the end of the buffer.
THEOREM ReadsFit == Spec => NeverOverruns
<1>1. IInv /\ [Next]_vars => [remaininglen + (got' - got) <= BufferLength]_vars
    <2>. SUFFICES ASSUME IInv, [Next]_vars
                  PROVE  [remaininglen + (got' - got) <= BufferLength]_vars
        OBVIOUS
    <2>0. got \in Nat /\ remaininglen \in Nat /\ remaininglen < BufferLength
          /\ BufferLength \in Nat
        BY CarryIsShort, PtyInputAssumption DEF IInv, TypeOK
    <2>1. CASE got' = got
        BY <2>0, <2>1
    <2>2. ASSUME NEW n \in 1..BufferLength, Read(n)
          PROVE  remaininglen + (got' - got) <= BufferLength
        <3>1. got' = got + n /\ n <= BufferLength - remaininglen
            BY <2>2 DEF Read, Room
        <3>2. n \in Nat
            BY <2>0
        <3>. QED
            BY <2>0, <3>1, <3>2
    <2>. QED
        BY <2>1, <2>2 DEF Next, vars, ChildWrites, ChildExits, ReadNothing
<1>. QED
    BY Invariance, <1>1, PTL DEF Spec, NeverOverruns

-----------------------------------------------------------------------------
(* PtyFlow implements PtyInput *)

\* A step of the flow is a step of the input side, or leaves it alone.
LEMMA FlowStepIsInputStep == [FlowNext]_allvars => [Next]_vars
<1>. SUFFICES ASSUME [FlowNext]_allvars PROVE [Next]_vars
    OBVIOUS
<1>1. CASE Reads
    <2>1. (\E n \in 1..BufferLength : Read(n)) \/ ReadNothing
        BY <1>1 DEF Reads
    <2>. QED
        BY <2>1 DEF Next
<1>2. CASE Write
    BY <1>2 DEF Write
<1>3. CASE WriteFails
    BY <1>3 DEF WriteFails
<1>4. CASE Takes
    BY <1>4 DEF Takes
<1>5. ASSUME NEW last \in BOOLEAN, Says(last) PROVE Next
    BY <1>5 DEF Says, Next
<1>6. ASSUME NEW unit \in Units, Handle(unit) PROVE UNCHANGED vars
    BY <1>6 DEF Handle
<1>7. CASE Begins
    BY <1>7 DEF Begins
<1>8. CASE Exits
    BY <1>8 DEF Exits, Next
<1>9. CASE UNCHANGED allvars
    BY <1>9 DEF allvars
<1>. QED
    BY <1>1, <1>2, <1>3, <1>4, <1>5, <1>6, <1>7, <1>8, <1>9 DEF FlowNext, Terminal, Child

\* Keys and pastes, and the waiting for room they may mean, do nothing to the
\* child's output that the input side alone would not do (pty-unix.c:135-179).
THEOREM FlowImplementsInput == FlowSpec => Spec
<1>1. FlowInit => Init
    BY DEF FlowInit
<1>. QED
    BY <1>1, FlowStepIsInputStep, PTL DEF FlowSpec, Spec

\* With both directions in use, screen and carried bytes are what was read.
THEOREM FlowScreenIsPrefix == FlowSpec => []ScreenThenCarry
<1>. QED
    BY FlowImplementsInput, ScreenIsPrefix, PTL

\* With both directions in use, no end is seen but the child's.
THEOREM FlowEofIsTheEnd == FlowSpec => []NoSpuriousEof
<1>. QED
    BY FlowImplementsInput, EofIsTheEnd, PTL

-----------------------------------------------------------------------------
(* What the child reads *)

Marks == {"text", "key", "esc", "begin", "end"}

FlowTypeOK ==
    /\ asked \in Seq(Marks) /\ todo \in Seq(Marks)
    /\ inq \in Seq(Marks) /\ taken \in Seq(Marks)
    /\ exited \in BOOLEAN

\* What was taken is the beginning of what was asked.
TakenFirst == \E rest \in Seq(Marks) : asked = taken \o rest

\* Nothing is between what was taken, the kernel's buffer and the write.
InFlight == ~exited => taken \o inq \o todo = asked

FlowIInv == FlowTypeOK /\ TakenFirst /\ InFlight

\* What handlers write is a sequence of marks.
LEMMA UnitsAreSequences == \A unit \in Units : unit \in Seq(Marks)
<1>1. PasteLength \in Nat
    BY PtyFlowAssumption
<1>. DEFINE text == [i \in 1..PasteLength |-> "text"]
<1>2. text \in Seq(Marks)
    BY <1>1 DEF Marks
<1>3. <<"begin">> \in Seq(Marks) /\ <<"end">> \in Seq(Marks)
      /\ <<"esc", "key">> \in Seq(Marks) /\ <<"key">> \in Seq(Marks)
    BY DEF Marks
<1>. HIDE DEF text
<1>4. <<"begin">> \o text \o <<"end">> \in Seq(Marks)
    BY <1>2, <1>3, ConcatProperties
<1>5. \A b \in BOOLEAN : Paste(b) \in Seq(Marks)
    BY <1>2, <1>4 DEF Paste, text
<1>6. \A a \in BOOLEAN : KeyPress(a) \in Seq(Marks)
    BY <1>3 DEF KeyPress
<1>. QED
    BY <1>5, <1>6 DEF Units

\* Moving the first element of t to the end of s.
LEMMA MoveOne ==
    ASSUME NEW S, NEW s \in Seq(S), NEW t \in Seq(S), t # <<>>
    PROVE  /\ Append(s, Head(t)) \in Seq(S) /\ Tail(t) \in Seq(S)
           /\ Append(s, Head(t)) \o Tail(t) = s \o t
<1>. DEFINE h == Head(t)
            r == Tail(t)
<1>1. h \in S /\ r \in Seq(S)
    BY HeadTailProperties
<1>2. <<h>> \in Seq(S) /\ t = <<h>> \o r
    <2>1. <<h>> \in Seq(S) /\ Len(<<h>>) = 1 /\ <<h>>[1] = h
        BY <1>1
    <2>2. Len(t) \in Nat \ {0} /\ Len(r) = Len(t) - 1 /\ h = t[1]
          /\ \A i \in 1..Len(r) : r[i] = t[i + 1]
        BY HeadTailProperties, EmptySeq
    <2>. HIDE DEF h, r
    <2>3. /\ <<h>> \o r \in Seq(S) /\ Len(<<h>> \o r) = 1 + Len(r)
          /\ \A i \in 1..(1 + Len(r)) :
                (<<h>> \o r)[i] = IF i <= 1 THEN <<h>>[i] ELSE r[i - 1]
        BY <1>1, <2>1, ConcatProperties
    <2>4. \A i \in 1..Len(t) : t[i] = (<<h>> \o r)[i]
        BY <2>1, <2>2, <2>3
    <2>. DEFINE u == <<h>> \o r
    <2>5. u \in Seq(S) /\ Len(t) = Len(u) /\ \A i \in 1..Len(t) : t[i] = u[i]
        BY <2>2, <2>3, <2>4
    <2>. HIDE DEF u
    <2>6. t = u
        BY <2>5, SeqEqual
    <2>. QED
        BY <2>1, <2>6 DEF u
<1>. HIDE DEF h, r
<1>3. Append(s, h) = s \o <<h>> /\ Append(s, h) \in Seq(S)
    BY <1>1, AppendIsConcat, AppendProperties
<1>4. (s \o <<h>>) \o r = s \o (<<h>> \o r)
    BY <1>1, <1>2, ConcatAssociative
<1>. QED
    BY <1>1, <1>2, <1>3, <1>4 DEF h, r

\* Concatenation of marks, for terms of every state.
LEMMA MarksAssociate ==
    \A x, y, z \in Seq(Marks) : (x \o y) \o z = x \o (y \o z) /\ y \o z \in Seq(Marks)
<1>. SUFFICES ASSUME NEW x \in Seq(Marks), NEW y \in Seq(Marks), NEW z \in Seq(Marks)
              PROVE  (x \o y) \o z = x \o (y \o z) /\ y \o z \in Seq(Marks)
    OBVIOUS
<1>. QED
    BY ConcatAssociative, ConcatProperties

\* At first nothing was asked.
LEMMA FlowInitIInv == FlowInit => FlowIInv
<1>. SUFFICES ASSUME FlowInit PROVE FlowIInv
    OBVIOUS
<1>1. asked = <<>> /\ todo = <<>> /\ inq = <<>> /\ taken = <<>> /\ exited = FALSE
    BY DEF FlowInit, Init
<1>2. <<>> \in Seq(Marks) /\ <<>> \o <<>> = <<>>
    BY EmptySeq, ConcatEmptySeq
<1>. QED
    BY <1>1, <1>2 DEF FlowIInv, FlowTypeOK, TakenFirst, InFlight

\* A handler begins to write: its unit goes to the end of asked.
LEMMA HandleIInv == ASSUME FlowIInv, NEW unit \in Units, Handle(unit) PROVE FlowIInv'
<1>1. asked' = asked \o unit /\ todo' = unit /\ todo = <<>>
      /\ UNCHANGED <<inq, taken, exited>>
    BY DEF Handle, vars, Writing
<1>2. unit \in Seq(Marks)
    BY UnitsAreSequences
<1>3. asked \in Seq(Marks) /\ inq \in Seq(Marks) /\ taken \in Seq(Marks)
    BY DEF FlowIInv, FlowTypeOK
<1>4. asked' \in Seq(Marks)
    BY <1>1, <1>2, <1>3, ConcatProperties
<1>5. TakenFirst'
    <2>1. PICK rest \in Seq(Marks) : asked = taken \o rest
        BY DEF FlowIInv, TakenFirst
    <2>2. (taken \o rest) \o unit = taken \o (rest \o unit) /\ rest \o unit \in Seq(Marks)
        BY <1>2, <1>3, MarksAssociate
    <2>3. asked' = taken \o (rest \o unit)
        BY <1>1, <2>1, <2>2
    <2>. QED
        BY <1>1, <2>2, <2>3 DEF TakenFirst
<1>6. InFlight'
    <2>1. taken \o inq \in Seq(Marks) /\ (taken \o inq) \o <<>> = taken \o inq
        BY <1>3, ConcatProperties, ConcatEmptySeq
    <2>2. ~exited => taken \o inq = asked
        BY <1>1, <2>1 DEF FlowIInv, InFlight
    <2>. QED
        BY <1>1, <2>2 DEF InFlight
<1>. QED
    BY <1>1, <1>2, <1>3, <1>4, <1>5, <1>6 DEF FlowIInv, FlowTypeOK

\* The kernel takes a byte of the write.
LEMMA WriteIInv == ASSUME FlowIInv, Write PROVE FlowIInv'
<1>1. /\ todo # <<>> /\ inq' = Append(inq, Head(todo)) /\ todo' = Tail(todo)
      /\ UNCHANGED <<asked, taken, exited>>
    BY DEF Write, Writing, vars
<1>2. asked \in Seq(Marks) /\ inq \in Seq(Marks) /\ taken \in Seq(Marks) /\ todo \in Seq(Marks)
    BY DEF FlowIInv, FlowTypeOK
<1>3. inq' \in Seq(Marks) /\ todo' \in Seq(Marks) /\ inq' \o todo' = inq \o todo
    BY <1>1, <1>2, MoveOne
<1>4. (taken \o inq') \o todo' = (taken \o inq) \o todo
    <2>1. (taken \o inq') \o todo' = taken \o (inq' \o todo')
        BY <1>2, <1>3, MarksAssociate
    <2>2. (taken \o inq) \o todo = taken \o (inq \o todo)
        BY <1>2, MarksAssociate
    <2>. QED
        BY <1>3, <2>1, <2>2
<1>. QED
    BY <1>1, <1>2, <1>3, <1>4 DEF FlowIInv, FlowTypeOK, TakenFirst, InFlight

\* The child reads a byte of its input.
LEMMA TakesIInv == ASSUME FlowIInv, Takes PROVE FlowIInv'
<1>1. /\ inq # <<>> /\ taken' = Append(taken, Head(inq)) /\ inq' = Tail(inq)
      /\ ~exited /\ UNCHANGED <<asked, todo, exited>>
    BY DEF Takes, vars
<1>2. asked \in Seq(Marks) /\ inq \in Seq(Marks) /\ taken \in Seq(Marks) /\ todo \in Seq(Marks)
    BY DEF FlowIInv, FlowTypeOK
<1>3. inq' \in Seq(Marks) /\ taken' \in Seq(Marks) /\ taken' \o inq' = taken \o inq
    BY <1>1, <1>2, MoveOne
<1>4. (taken' \o inq') \o todo' = asked'
    BY <1>1, <1>3 DEF FlowIInv, InFlight
<1>5. asked' = taken' \o (inq' \o todo') /\ inq' \o todo' \in Seq(Marks)
    <2>1. todo' \in Seq(Marks)
        BY <1>1, <1>2
    <2>2. (taken' \o inq') \o todo' = taken' \o (inq' \o todo') /\ inq' \o todo' \in Seq(Marks)
        BY <1>3, <2>1, MarksAssociate
    <2>. QED
        BY <1>4, <2>2
<1>. QED
    BY <1>1, <1>2, <1>3, <1>4, <1>5 DEF FlowIInv, FlowTypeOK, TakenFirst, InFlight

\* The write fails after the child's exit: the rest is thrown away.
LEMMA WriteFailsIInv == ASSUME FlowIInv, WriteFails PROVE FlowIInv'
<1>1. todo' = <<>> /\ exited /\ UNCHANGED <<asked, inq, taken, exited>>
    BY DEF WriteFails, vars
<1>2. <<>> \in Seq(Marks)
    BY EmptySeq
<1>. QED
    BY <1>1, <1>2 DEF FlowIInv, FlowTypeOK, TakenFirst, InFlight

\* Nothing happens to the input.
LEMMA OthersIInv ==
    ASSUME FlowIInv, UNCHANGED <<asked, todo, inq, taken>>, exited' \in BOOLEAN,
           exited => exited'
    PROVE  FlowIInv'
BY DEF FlowIInv, FlowTypeOK, TakenFirst, InFlight

LEMMA FlowNextIInv == FlowIInv /\ [FlowNext]_allvars => FlowIInv'
<1>. SUFFICES ASSUME FlowIInv, [FlowNext]_allvars PROVE FlowIInv'
    OBVIOUS
<1>0. exited \in BOOLEAN
    BY DEF FlowIInv, FlowTypeOK
<1>1. CASE Reads
    <2>1. UNCHANGED <<asked, todo, inq, taken, exited>>
        BY <1>1 DEF Reads, Read, ReadNothing, flowvars
    <2>. QED
        BY <1>0, <2>1, OthersIInv
<1>2. CASE Write
    BY <1>2, WriteIInv
<1>3. CASE WriteFails
    BY <1>3, WriteFailsIInv
<1>4. CASE Takes
    BY <1>4, TakesIInv
<1>5. ASSUME NEW last \in BOOLEAN, Says(last) PROVE FlowIInv'
    <2>1. UNCHANGED <<asked, todo, inq, taken, exited>>
        BY <1>5 DEF Says, ChildWrites
    <2>. QED
        BY <1>0, <2>1, OthersIInv
<1>6. ASSUME NEW unit \in Units, Handle(unit) PROVE FlowIInv'
    BY <1>6, HandleIInv
<1>7. CASE Begins
    <2>1. UNCHANGED <<asked, todo, inq, taken, exited>>
        BY <1>7 DEF Begins, vars
    <2>. QED
        BY <1>0, <2>1, OthersIInv
<1>8. CASE Exits
    <2>1. UNCHANGED <<asked, todo, inq, taken>> /\ exited' = TRUE
        BY <1>8 DEF Exits, ChildExits, flowvars
    <2>. QED
        BY <2>1, OthersIInv
<1>9. CASE UNCHANGED allvars
    <2>1. UNCHANGED <<asked, todo, inq, taken, exited>>
        BY <1>9 DEF allvars, vars, flowvars
    <2>. QED
        BY <1>0, <2>1, OthersIInv
<1>. QED
    BY <1>1, <1>2, <1>3, <1>4, <1>5, <1>6, <1>7, <1>8, <1>9 DEF FlowNext, Terminal, Child

\* The beginning of a sequence, as the community module says it.
LEMMA BeginningIsPrefix ==
    ASSUME NEW S, NEW s \in Seq(S), NEW rest \in Seq(S)
    PROVE  IsPrefix(s, s \o rest)
<1>. DEFINE t == s \o rest
<1>1. /\ t \in Seq(S) /\ Len(t) = Len(s) + Len(rest)
      /\ \A i \in 1..(Len(s) + Len(rest)) :
            t[i] = IF i <= Len(s) THEN s[i] ELSE rest[i - Len(s)]
    BY ConcatProperties
<1>2. Len(s) \in Nat /\ Len(rest) \in Nat
    BY LenProperties
<1>. HIDE DEF t
<1>3. \A i \in 1..Len(s) : s[i] \in S /\ t[i] = s[i]
    BY <1>1, <1>2, ElementOfSeq
<1>4. /\ SubSeq(s, 1, Len(s)) \in Seq(S) /\ Len(SubSeq(s, 1, Len(s))) = Len(s)
      /\ \A i \in 1..Len(s) : SubSeq(s, 1, Len(s))[i] = s[i]
    BY <1>2, <1>3, SubSeqProperties
<1>5. /\ SubSeq(t, 1, Len(s)) \in Seq(S) /\ Len(SubSeq(t, 1, Len(s))) = Len(s)
      /\ \A i \in 1..Len(s) : SubSeq(t, 1, Len(s))[i] = t[i]
    BY <1>2, <1>3, SubSeqProperties
<1>6. SubSeq(s, 1, Len(s)) = SubSeq(t, 1, Len(s))
    BY <1>3, <1>4, <1>5, SeqEqual
<1>7. Len(s) <= Len(t)
    BY <1>1, <1>2
<1>. QED
    BY <1>6, <1>7 DEF IsPrefix, t

\* Keys, pastes and mouse reports reach the child whole and in order, for
\* every size of the kernel's buffers (runes_pty_write).
THEOREM InputArrivesInOrder == FlowSpec => []InputInOrder
<1>1. FlowIInv => InputInOrder
    <2>. SUFFICES ASSUME FlowIInv PROVE InputInOrder
        OBVIOUS
    <2>1. PICK rest \in Seq(Marks) : asked = taken \o rest
        BY DEF FlowIInv, TakenFirst
    <2>2. IsPrefix(taken, asked)
        BY <2>1, BeginningIsPrefix DEF FlowIInv, FlowTypeOK
    <2>3. asked \in Seq(Marks) /\ asked \o <<>> = asked /\ <<>> \in Seq(Marks)
        BY ConcatEmptySeq, EmptySeq DEF FlowIInv, FlowTypeOK
    <2>4. IsPrefix(asked, asked)
        BY <2>3, BeginningIsPrefix
    <2>. QED
        BY <2>2, <2>4 DEF InputInOrder, FlowIInv, InFlight
<1>. QED
    BY <1>1, FlowInitIInv, FlowNextIInv, PTL DEF FlowSpec

=============================================================================
